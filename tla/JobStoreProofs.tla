--------------------------- MODULE JobStoreProofs ---------------------------
(***************************************************************************)
(* What is proved of the job store for any number of servers, calls and    *)
(* jobs, any cap and any set of events: its type, that the sections of two *)
(* calls never interleave, that the cap holds, that a stamp is written     *)
(* once and that a done record keeps its result.                           *)
(*                                                                         *)
(* None of the last three is inductive.  What the store relies on is that  *)
(* between the step that derives a state and the step that writes it, or   *)
(* between counting the records and adding one, the record lock is held:   *)
(* Exclusive states it, and Derived and Counted what holds under the lock.  *)
(***************************************************************************)
EXTENDS JobStore, FiniteSetTheorems, TLAPS

InSection == {"probe", "read", "overrun", "overread", "settled", "next", "proof",
              "evict", "spawn", "publish", "abort", "drop"}
AtRecord == {"probe", "read", "overrun", "overread", "settled", "proof",
             "publish", "abort", "drop", "signal", "grace", "finish"}

(* Every step of a section holds the record lock *)
Exclusive == \A t \in Threads : th[t].pc \in InSection => recLock = t

(* A call that is at a record knows which one *)
Cursor == \A t \in Threads : th[t].pc \in AtRecord => th[t].cur \in Jobs

(* The type, with what the next steps need to keep it *)
TInv == TypeOK /\ Cursor

-----------------------------------------------------------------------------
(* What the writes do to a directory.                                      *)

LEMMA MarkDoneLemma ==
  ASSUME NEW d \in Dir
  PROVE  /\ MarkDone(d) \in Dir
         /\ MarkDone(d).stamp = "done"
         /\ MarkDone(d).at = d.at
         /\ MarkDone(d).result = d.result
  BY DEF MarkDone, Dir, Stamps, Clock

LEMMA StampFailedLemma ==
  ASSUME NEW d \in Dir
  PROVE  /\ StampFailed(d) \in Dir
         /\ StampFailed(d).stamp = d.stamp
         /\ StampFailed(d).at = d.at
         /\ StampFailed(d).result = d.result
  BY DEF StampFailed, Dir, Stamps, Clock

LEMMA AbsentLemma ==
  /\ Absent \in Dir
  /\ [Absent EXCEPT !.at = "bare"] \in Dir
  /\ Absent.at = "none" /\ [Absent EXCEPT !.at = "bare"].at = "bare"
  /\ Absent.stamp = "none" /\ [Absent EXCEPT !.at = "bare"].stamp = "none"
  BY DEF Absent, Dir, Places, Stamps, Clock

(* A delete never makes a record, and what it leaves of one has its stamp; *)
(* unless a restore fails, it has its result as well.                      *)
LEMMA RmtreeLemma ==
  ASSUME NEW j \in Jobs, disk[j] \in Dir, NEW d \in Rmtree(j)
  PROVE  /\ d \in Dir
         /\ d.at = "record" => disk[j].at = "record"
         /\ d.stamp # "none" => d.stamp = disk[j].stamp
         /\ d.at = "record" => d.stamp = disk[j].stamp
         /\ "lost" \notin Events /\ d.stamp # "none" => d.result = disk[j].result
<1> DEFINE s == Stripped(disk[j])
           l == [Stripped(disk[j]) EXCEPT !.result = "none"]
<1>1. /\ s \in Dir /\ s.at = disk[j].at /\ s.stamp = disk[j].stamp
      /\ s.result = disk[j].result
  BY DEF Stripped, Dir, Stamps, Clock
<1>2. l \in Dir /\ l.at = disk[j].at /\ l.stamp = disk[j].stamp
  BY DEF Stripped, Dir, Stamps, Clock
<1>3. \/ d = disk[j] \/ d = s \/ d = Absent
      \/ d = l /\ "lost" \in Events
      \/ d = [Absent EXCEPT !.at = "bare"]
  BY DEF Rmtree
<1> QED
  BY <1>1, <1>2, <1>3, AbsentLemma

(* Reaping, killing and removing a worktree leave a worker's type *)
LEMMA WorkerLemma ==
  ASSUME NEW t \in Threads, NEW j \in Jobs, worker \in [Jobs -> Proc]
  PROVE  Reaped(t, j) \in [Jobs -> Proc] /\ Killed(t, j) \in [Jobs -> Proc]
<1>1. "gone" \in Phases /\ "zombie" \in Phases
  BY DEF Phases
<1>2. Exited(worker[j]) \in Proc
  BY <1>1 DEF Exited, Proc
<1>3. Reaped(t, j) \in [Jobs -> Proc]
  BY <1>1 DEF Reaped, Proc
<1>4. Killed(t, j) \in [Jobs -> Proc]
  BY <1>1, <1>2 DEF Killed, Proc
<1> QED
  BY <1>3, <1>4

LEMMA CleanupLemma ==
  ASSUME NEW j \in Jobs, worker \in [Jobs -> Proc], NEW left \in CleanupResults(j)
  PROVE  [worker EXCEPT ![j].tree = left] \in [Jobs -> Proc]
  BY DEF CleanupResults, Proc, Trees

(* A call that moves keeps its own type and disturbs no other call *)
LEMMA MoveLemma ==
  ASSUME th \in [Threads -> Thread], Cursor,
         NEW t \in Threads, NEW r \in Thread, r.pc \in AtRecord => r.cur \in Jobs,
         Move(t, r)
  PROVE  th' \in [Threads -> Thread] /\ Cursor'
  BY DEF Move, Cursor

LEMMA IdleLemma ==
  Idle \in Thread /\ Idle.pc = "idle" /\ Idle.pc \notin AtRecord
<1>1. "idle" \in Steps /\ "none" \in Sections /\ "none" \in Readings
  BY DEF Steps, Sections, Readings
<1> QED
  BY <1>1 DEF Idle, Thread, Unseen, AtRecord

LEMMA NamesLemma ==
  /\ AtRecord \subseteq Steps /\ InSection \subseteq Steps
  /\ {"idle", "enter", "next", "evict", "spawn"} \subseteq Steps \ AtRecord
  /\ {"reap", "look", "mark", "discard", "collect", "recheck"} \subseteq Sections
  /\ Terminal \subseteq Readings /\ {"none", "running", "unreadable"} \subseteq Readings
  /\ "none" \notin Terminal /\ "done" \in Terminal
  BY DEF AtRecord, InSection, Steps, Sections, Terminal, Readings

LEMMA ReturnType ==
  ASSUME TInv, NEW t \in Threads, Return(t)
  PROVE  th' \in [Threads -> Thread] /\ Cursor' /\ recLock' \in Threads \cup {NoThread}
  BY IdleLemma, MoveLemma DEF TInv, TypeOK, Return

LEMMA SectionDoneType ==
  ASSUME TInv, NEW t \in Threads, SectionDone(t)
  PROVE  th' \in [Threads -> Thread] /\ Cursor' /\ recLock' \in Threads \cup {NoThread}
<1> DEFINE r == [th[t] EXCEPT !.pc = "enter", !.sec = "discard",
                              !.want = "done", !.st = "none"]
<1>1. th[t] \in Thread
  BY DEF TInv, TypeOK
<1>2. r \in Thread /\ r.pc \notin AtRecord
  BY <1>1, NamesLemma DEF Thread
<1>3. Move(t, r) \/ Move(t, Idle)
  BY DEF SectionDone
<1> QED
  BY <1>2, <1>3, IdleLemma, MoveLemma DEF TInv, TypeOK, SectionDone

LEMMA PassedType ==
  ASSUME TInv, NEW t \in Threads, Passed(t)
  PROVE  th' \in [Threads -> Thread] /\ Cursor'
<1> DEFINE r == [th[t] EXCEPT !.pc = "next", !.cur = NoJob, !.st = "none"]
<1>1. th[t] \in Thread
  BY DEF TInv, TypeOK
<1>2. r \in Thread /\ r.pc \notin AtRecord
  BY <1>1, NamesLemma DEF Thread
<1> QED
  BY <1>2, MoveLemma DEF TInv, TypeOK, Passed

LEMMA GoType ==
  ASSUME TInv, NEW t \in Threads, NEW pc \in Steps, Go(t, pc),
         pc \in AtRecord => th[t].cur \in Jobs
  PROVE  th' \in [Threads -> Thread] /\ Cursor'
<1> DEFINE r == [th[t] EXCEPT !.pc = pc]
<1>1. th[t] \in Thread
  BY DEF TInv, TypeOK
<1>2. r \in Thread /\ r.cur = th[t].cur /\ r.pc = pc
  BY <1>1 DEF Thread
<1>3. Move(t, r)
  BY DEF Go, Move
<1> QED
  BY <1>2, <1>3, MoveLemma DEF TInv, TypeOK

LEMMA SettleType ==
  ASSUME TInv, NEW t \in Threads, NEW st \in Readings, Settle(t, st), th[t].cur \in Jobs
  PROVE  th' \in [Threads -> Thread] /\ Cursor'
<1> DEFINE r == [th[t] EXCEPT !.pc = "settled", !.st = st]
<1>1. th[t] \in Thread /\ "settled" \in Steps
  BY DEF TInv, TypeOK, Steps
<1>2. r \in Thread /\ r.cur = th[t].cur
  BY <1>1 DEF Thread
<1>3. Move(t, r)
  BY DEF Settle, Move, TInv, TypeOK, Thread
<1> QED
  BY <1>2, <1>3, MoveLemma DEF TInv, TypeOK

-----------------------------------------------------------------------------
(* Every step of a call keeps the type.                                    *)

LEMMA EnterType ==
  ASSUME TInv, NEW t \in Threads, Enter(t)
  PROVE  TInv'
<1>1. th[t] \in Thread /\ Records \subseteq Jobs
  BY DEF TInv, TypeOK, Records
<1>2. th' \in [Threads -> Thread] /\ Cursor' /\ recLock' \in Threads \cup {NoThread}
  <2>1. CASE th[t].sec = "reap" /\ recLock' = t
             /\ Move(t, [th[t] EXCEPT !.pc = "next", !.todo = Records])
    <3> DEFINE r == [th[t] EXCEPT !.pc = "next", !.todo = Records]
    <3>1. r \in Thread /\ r.pc \notin AtRecord
      BY <1>1, NamesLemma DEF Thread
    <3> QED
      BY <2>1, <3>1, MoveLemma DEF TInv, TypeOK
  <2>2. CASE th[t].cur \in Records /\ recLock' = t /\ Go(t, "probe")
    BY <1>1, <2>2, GoType DEF Steps
  <2>3. CASE SectionDone(t)
    BY <2>3, SectionDoneType
  <2> QED
    BY <2>1, <2>2, <2>3 DEF Enter
<1> QED
  BY <1>2 DEF Enter, TInv, TypeOK, store, history

LEMMA NextRecordType ==
  ASSUME TInv, NEW t \in Threads, NextRecord(t)
  PROVE  TInv'
<1>1. /\ th[t] \in Thread /\ Records \subseteq Jobs
      /\ th[t].todo \subseteq Jobs /\ th[t].seen \in [Jobs -> Readings]
  BY DEF TInv, TypeOK, Records, Thread
<1> DEFINE Kept == /\ th' \in [Threads -> Thread] /\ Cursor'
                   /\ recLock' \in Threads \cup {NoThread}
                   /\ told' \in [Jobs -> Terminal \cup {"none", "running", "unreadable"}]
<1>2. Kept
  <2>1. ASSUME NEW j \in th[t].todo, UNCHANGED <<recLock, told>>,
               Move(t, [th[t] EXCEPT !.pc = "probe", !.cur = j, !.todo = @ \ {j}])
        PROVE  Kept
    <3> DEFINE r == [th[t] EXCEPT !.pc = "probe", !.cur = j, !.todo = @ \ {j}]
    <3>1. "probe" \in Steps
      BY DEF Steps
    <3>2. r \in Thread /\ r.cur \in Jobs
      BY <1>1, <3>1 DEF Thread
    <3> QED
      BY <2>1, <3>2, MoveLemma DEF TInv, TypeOK
  <2>2. CASE Move(t, [th[t] EXCEPT !.sec = "collect", !.todo = Records])
             /\ UNCHANGED <<recLock, told>> /\ th[t].pc = "next"
    <3> DEFINE r == [th[t] EXCEPT !.sec = "collect", !.todo = Records]
    <3>1. r \in Thread /\ r.pc \notin AtRecord
      BY <1>1, <2>2, NamesLemma DEF Thread
    <3> QED
      BY <2>2, <3>1, MoveLemma DEF TInv, TypeOK
  <2>3. CASE Return(t) /\ told' = [j \in Jobs |-> IF th[t].seen[j] = "none" THEN told[j]
                                                  ELSE th[t].seen[j]]
    <3>1. told' \in [Jobs -> Terminal \cup {"none", "running", "unreadable"}]
      BY <1>1, <2>3 DEF TInv, TypeOK, Readings
    <3> QED
      BY <2>3, <3>1, ReturnType
  <2>4. CASE Go(t, "evict") /\ UNCHANGED <<recLock, told>>
    BY <2>4, GoType, NamesLemma DEF TInv, TypeOK
  <2> QED
    BY <2>1, <2>2, <2>3, <2>4 DEF NextRecord
<1> QED
  BY <1>2 DEF NextRecord, store, TInv, TypeOK

LEMMA ProbeType ==
  ASSUME TInv, NEW t \in Threads, Probe(t)
  PROVE  TInv'
<1> DEFINE j == th[t].cur
<1>1. j \in Jobs /\ disk[j] \in Dir /\ worker \in [Jobs -> Proc]
  BY DEF Probe, TInv, TypeOK, Cursor, AtRecord
<1>2. {"read", "overrun"} \subseteq Steps /\ "running" \in Readings
  BY DEF Steps, Readings
<1>3. th' \in [Threads -> Thread] /\ Cursor'
  <2>1. CASE Stamped(j) /\ Settle(t, disk[j].stamp)
    <3>1. disk[j].stamp \in Readings
      BY <1>1, <2>1 DEF Stamped, Dir, Stamps, Readings, Terminal
    <3> QED
      BY <1>1, <2>1, <3>1, SettleType
  <2>2. CASE Settle(t, "running")
    BY <1>1, <1>2, <2>2, SettleType
  <2>3. CASE Go(t, "read") \/ Go(t, "overrun")
    BY <1>1, <1>2, <2>3, GoType
  <2> QED
    BY <2>1, <2>2, <2>3 DEF Probe
<1>4. worker' \in [Jobs -> Proc]
  BY <1>1, WorkerLemma DEF Probe
<1>5. hurt' \subseteq {"own", "other"}
  BY DEF Probe, Signalled, TInv, TypeOK
<1> QED
  BY <1>3, <1>4, <1>5 DEF Probe, TInv, TypeOK

LEMMA FinalizeType ==
  ASSUME TInv, NEW j \in Jobs, NEW status \in Terminal \ {"failed"},
         FinalizeCleanup(j, status)
  PROVE  disk' \in [Jobs -> Dir] /\ worker' \in [Jobs -> Proc]
<1>1. PICK left \in CleanupResults(j) :
        /\ disk' = [disk EXCEPT
                      ![j].stamp = status,
                      ![j].completed = "recent",
                      ![j].warned = @ \/ (disk[j].manifest /\ left = "declared")]
        /\ worker' = [worker EXCEPT ![j].tree = left]
  BY DEF FinalizeCleanup
<1>2. worker' \in [Jobs -> Proc]
  BY <1>1, CleanupLemma DEF TInv, TypeOK
<1>3. disk[j] \in Dir /\ disk \in [Jobs -> Dir]
  BY DEF TInv, TypeOK
<1>4. status \in Stamps /\ "recent" \in Clock
  BY DEF Terminal, Stamps, Clock
<1>5. disk' \in [Jobs -> Dir]
  BY <1>1, <1>3, <1>4 DEF Dir
<1> QED
  BY <1>2, <1>5

LEMMA ReadType ==
  ASSUME TInv, NEW t \in Threads, Read(t)
  PROVE  TInv'
<1> DEFINE j == th[t].cur
<1>1. j \in Jobs /\ disk[j] \in Dir /\ disk \in [Jobs -> Dir] /\ worker \in [Jobs -> Proc]
  BY DEF Read, TInv, TypeOK, Cursor, AtRecord
<1>2. th' \in [Threads -> Thread] /\ Cursor'
  <2>1. Terminal \subseteq Readings /\ "unreadable" \in Readings
        /\ {"done", "timeout", "failed"} \subseteq Terminal
    BY DEF Terminal, Readings
  <2>2. \E st \in Readings : Settle(t, st)
    BY <2>1 DEF Read
  <2> QED
    BY <1>1, <2>2, SettleType
<1>3. disk' \in [Jobs -> Dir] /\ worker' \in [Jobs -> Proc] /\ doubted' \subseteq Jobs
  <2>1. CASE UNCHANGED <<store, doubted>>
    BY <1>1, <2>1 DEF store, TInv, TypeOK
  <2>2. CASE disk' = [disk EXCEPT ![j] = MarkDone(disk[j])] /\ UNCHANGED <<worker, doubted>>
    BY <1>1, <2>2, MarkDoneLemma DEF TInv, TypeOK
  <2>3. CASE FinalizeCleanup(j, "timeout") /\ UNCHANGED doubted
    BY <1>1, <2>3, FinalizeType DEF TInv, TypeOK, Terminal
  <2>4. CASE /\ disk' = [disk EXCEPT ![j] = StampFailed(disk[j])]
             /\ doubted' = IF Alive(j) THEN doubted \cup {j} ELSE doubted
             /\ UNCHANGED worker
    BY <1>1, <2>4, StampFailedLemma DEF TInv, TypeOK
  <2> QED
    BY <2>1, <2>2, <2>3, <2>4 DEF Read
<1> QED
  BY <1>2, <1>3 DEF Read, TInv, TypeOK

LEMMA GraceEndsType ==
  ASSUME TInv, NEW t \in Threads, GraceEnds(t)
  PROVE  TInv'
<1> DEFINE j == th[t].cur
<1>1. j \in Jobs /\ worker \in [Jobs -> Proc]
  BY DEF GraceEnds, TInv, TypeOK, Cursor, AtRecord
<1>2. worker' \in [Jobs -> Proc]
  BY <1>1, WorkerLemma DEF GraceEnds
<1>3. hurt' \subseteq {"own", "other"}
  BY DEF GraceEnds, Signalled, TInv, TypeOK
<1>4. {"overread", "finish", "drop"} \subseteq Steps
  BY DEF Steps
<1>5. \E pc \in {"overread", "finish", "drop"} : Go(t, pc)
  BY DEF GraceEnds
<1>6. th' \in [Threads -> Thread] /\ Cursor'
  BY <1>1, <1>4, <1>5, GoType
<1> QED
  BY <1>2, <1>3, <1>6 DEF GraceEnds, TInv, TypeOK

(* A delete of the record at the cursor keeps the type of the disk *)
LEMMA DeleteType ==
  ASSUME TInv, NEW j \in Jobs, \E d \in Rmtree(j) : disk' = [disk EXCEPT ![j] = d]
  PROVE  disk' \in [Jobs -> Dir]
  BY RmtreeLemma DEF TInv, TypeOK

LEMMA DropExpiredType ==
  ASSUME TInv, NEW t \in Threads, DropExpired(t)
  PROVE  TInv'
<1>1. th[t].cur \in Jobs
  BY DEF DropExpired, TInv, Cursor, AtRecord
<1>2. disk' \in [Jobs -> Dir]
  BY <1>1, DeleteType DEF DropExpired
<1>3. /\ th' \in [Threads -> Thread] /\ Cursor'
      /\ recLock' \in Threads \cup {NoThread}
  BY PassedType, SectionDoneType DEF DropExpired, TInv, TypeOK
<1> QED
  BY <1>2, <1>3 DEF DropExpired, history, TInv, TypeOK

LEMMA KeepReapedType ==
  ASSUME TInv, NEW t \in Threads, KeepReaped(t)
  PROVE  TInv'
<1>1. th' \in [Threads -> Thread] /\ Cursor'
  BY PassedType DEF KeepReaped
<1> QED
  BY <1>1 DEF KeepReaped, store, history, TInv, TypeOK

LEMMA CollectType ==
  ASSUME TInv, NEW t \in Threads, Collect(t)
  PROVE  TInv'
<1> DEFINE r == [th[t] EXCEPT !.pc = "next", !.cur = NoJob, !.st = "none",
                              !.seen[th[t].cur] = th[t].st]
<1>1. th[t] \in Thread /\ th[t].cur \in Jobs
  BY DEF Collect, Found, TInv, TypeOK, Cursor, AtRecord
<1>2. [th[t].seen EXCEPT ![th[t].cur] = th[t].st] \in [Jobs -> Readings]
  BY <1>1 DEF Thread
<1>3. r \in Thread /\ r.pc \notin AtRecord
  BY <1>1, <1>2, NamesLemma DEF Thread
<1>4. Return(t) \/ (Move(t, r) /\ UNCHANGED recLock)
  BY DEF Collect
<1>5. /\ th' \in [Threads -> Thread] /\ Cursor'
      /\ recLock' \in Threads \cup {NoThread}
  BY <1>3, <1>4, ReturnType, MoveLemma DEF TInv, TypeOK
<1> QED
  BY <1>5 DEF Collect, store, history, TInv, TypeOK

LEMMA UnservedType ==
  ASSUME TInv, NEW t \in Threads, Unserved(t)
  PROVE  TInv'
  BY SectionDoneType DEF Unserved, store, history, TInv, TypeOK

LEMMA LookStatusType ==
  ASSUME TInv, NEW t \in Threads, LookStatus(t)
  PROVE  TInv'
<1>1. /\ th[t].cur \in Jobs /\ "signal" \in Steps
      /\ th[t].st \in Terminal \cup {"none", "running", "unreadable"}
  BY DEF LookStatus, Found, TInv, Cursor, AtRecord, Steps
<1>2. /\ th' \in [Threads -> Thread] /\ Cursor'
      /\ recLock' \in Threads \cup {NoThread}
  BY <1>1, GoType, ReturnType DEF LookStatus
<1>3. told' \in [Jobs -> Terminal \cup {"none", "running", "unreadable"}]
  BY <1>1 DEF LookStatus, Report, TInv, TypeOK
<1> QED
  BY <1>2, <1>3 DEF LookStatus, store, TInv, TypeOK

LEMMA LookResultType ==
  ASSUME TInv, NEW t \in Threads, LookResult(t)
  PROVE  TInv'
<1> DEFINE r(sec, want) == [th[t] EXCEPT !.pc = "enter", !.sec = sec,
                                         !.want = want, !.st = "none"]
<1>1. /\ th[t] \in Thread /\ th[t].cur \in Jobs
      /\ th[t].st \in Terminal \cup {"running"}
  BY DEF LookResult, Found, TInv, TypeOK, Cursor, AtRecord
<1>2. ASSUME NEW sec \in {"mark", "discard"}, NEW want \in Terminal \cup {"none"}
      PROVE  r(sec, want) \in Thread /\ r(sec, want).pc \notin AtRecord
  BY <1>1, NamesLemma DEF Thread
<1> HIDE DEF r
<1>3. \/ Return(t)
      \/ Move(t, r("mark", "none")) /\ recLock' = NoThread
      \/ /\ Move(t, r("discard", th[t].st)) /\ recLock' = NoThread
         /\ th[t].st \in Terminal \ {"done"}
  BY SMTT(60) DEF LookResult, r
<1>4. /\ th' \in [Threads -> Thread] /\ Cursor'
      /\ recLock' \in Threads \cup {NoThread}
  BY <1>2, <1>3, ReturnType, MoveLemma DEF TInv, TypeOK
<1>5. told' = told \/ Report(th[t].cur, th[t].st)
  BY DEF LookResult
<1>6. told' \in [Jobs -> Terminal \cup {"none", "running", "unreadable"}]
  BY <1>1, <1>5 DEF Report, TInv, TypeOK
<1>7. returned' \subseteq Jobs
  BY <1>1 DEF LookResult, TInv, TypeOK
<1> QED
  BY <1>4, <1>6, <1>7 DEF LookResult, store, TInv, TypeOK

LEMMA MarkDeliveredType ==
  ASSUME TInv, NEW t \in Threads, MarkDelivered(t)
  PROVE  TInv'
<1> DEFINE marked == disk[th[t].cur].delivered \/ th[t].st = "done"
<1>1. th[t].cur \in Jobs /\ disk \in [Jobs -> Dir]
  BY DEF MarkDelivered, Found, TInv, TypeOK, Cursor, AtRecord
<1>2. marked \in BOOLEAN
  OBVIOUS
<1>3. disk' = [disk EXCEPT ![th[t].cur].delivered = marked]
  BY DEF MarkDelivered
<1> HIDE DEF marked
<1>4. disk' \in [Jobs -> Dir]
  BY <1>1, <1>2, <1>3 DEF Dir
<1> QED
  BY <1>4, SectionDoneType DEF MarkDelivered, history, TInv, TypeOK

LEMMA DiscardType ==
  ASSUME TInv, NEW t \in Threads, Discard(t)
  PROVE  TInv'
<1>1. th[t].cur \in Jobs /\ "proof" \in Steps
  BY DEF Discard, Found, TInv, Cursor, AtRecord, Steps
<1>2. disk' \in [Jobs -> Dir]
  BY <1>1, DeleteType DEF Discard, TInv, TypeOK
<1>3. /\ th' \in [Threads -> Thread] /\ Cursor'
      /\ recLock' \in Threads \cup {NoThread}
  BY <1>1, GoType, ReturnType DEF Discard, TInv, TypeOK
<1> QED
  BY <1>2, <1>3 DEF Discard, history, TInv, TypeOK

LEMMA ProveGoneType ==
  ASSUME TInv, NEW t \in Threads, ProveGone(t)
  PROVE  TInv'
<1> DEFINE r == [th[t] EXCEPT !.pc = "probe", !.sec = "recheck", !.st = "none"]
<1>1. th[t] \in Thread /\ th[t].cur \in Jobs /\ "probe" \in Steps
  BY DEF ProveGone, TInv, TypeOK, Cursor, AtRecord, Steps
<1>2. r \in Thread /\ r.cur = th[t].cur
  BY <1>1, NamesLemma DEF Thread
<1>3. /\ th' \in [Threads -> Thread] /\ Cursor'
      /\ recLock' \in Threads \cup {NoThread}
  BY <1>1, <1>2, MoveLemma, ReturnType DEF ProveGone, TInv, TypeOK
<1>4. worker' \in [Jobs -> Proc]
  BY <1>1, WorkerLemma DEF ProveGone, TInv, TypeOK
<1> QED
  BY <1>3, <1>4 DEF ProveGone, history, TInv, TypeOK

LEMMA DiscardFailedType ==
  ASSUME TInv, NEW t \in Threads, DiscardFailed(t)
  PROVE  TInv'
<1>1. th[t].cur \in Jobs
  BY DEF DiscardFailed, Found, TInv, Cursor, AtRecord
<1>2. disk' \in [Jobs -> Dir]
  BY <1>1, DeleteType DEF DiscardFailed, TInv, TypeOK
<1> QED
  BY <1>2, ReturnType DEF DiscardFailed, history, TInv, TypeOK

LEMMA SignalType ==
  ASSUME TInv, NEW t \in Threads, Signal(t)
  PROVE  TInv'
<1>1. th[t].cur \in Jobs /\ {"finish", "grace"} \subseteq Steps
  BY DEF Signal, TInv, Cursor, AtRecord, Steps
<1>2. th' \in [Threads -> Thread] /\ Cursor'
  BY <1>1, GoType DEF Signal
<1>3. worker' \in [Jobs -> Proc]
  BY <1>1, WorkerLemma DEF Signal, TInv, TypeOK
<1>4. hurt' \subseteq {"own", "other"}
  BY DEF Signal, Signalled, TInv, TypeOK
<1> QED
  BY <1>2, <1>3, <1>4 DEF Signal, TInv, TypeOK

LEMMA FinishCancelType ==
  ASSUME TInv, NEW t \in Threads, FinishCancel(t)
  PROVE  TInv'
<1> DEFINE j == th[t].cur
<1>1. /\ j \in Jobs /\ disk[j] \in Dir /\ disk \in [Jobs -> Dir]
      /\ worker \in [Jobs -> Proc]
  BY DEF FinishCancel, TInv, TypeOK, Cursor, AtRecord
<1>2. disk' \in [Jobs -> Dir] /\ worker' \in [Jobs -> Proc]
  <2>1. CASE UNCHANGED store
    BY <1>1, <2>1 DEF store
  <2>2. CASE disk' = [disk EXCEPT ![j] = MarkDone(disk[j])] /\ UNCHANGED worker
    BY <1>1, <2>2, MarkDoneLemma
  <2>3. CASE FinalizeCleanup(j, "cancelled")
    BY <1>1, <2>3, FinalizeType DEF Terminal
  <2> QED
    BY <2>1, <2>2, <2>3 DEF FinishCancel
<1>3. told' \in [Jobs -> Terminal \cup {"none", "running", "unreadable"}]
  <2>1. /\ told \in [Jobs -> Terminal \cup {"none", "running", "unreadable"}]
        /\ disk[j].stamp # "none" => disk[j].stamp \in Terminal
        /\ {"done", "cancelled"} \subseteq Terminal
    BY <1>1 DEF TInv, TypeOK, Dir, Stamps, Terminal
  <2>2. UNCHANGED told \/ \E st \in Terminal : Report(j, st)
    BY <2>1 DEF FinishCancel, Stamped
  <2> QED
    BY <2>1, <2>2 DEF Report
<1> QED
  BY <1>2, <1>3, ReturnType DEF FinishCancel, TInv, TypeOK

LEMMA EvictType ==
  ASSUME TInv, NEW t \in Threads, Evict(t)
  PROVE  TInv'
<1>1. th[t] \in Thread /\ th[t].seen \in [Jobs -> Readings]
  BY DEF TInv, TypeOK, Thread
<1>2. disk' \in [Jobs -> Dir]
  BY DeleteType DEF Evict, TInv, TypeOK
<1>3. /\ th' \in [Threads -> Thread] /\ Cursor'
      /\ recLock' \in Threads \cup {NoThread}
  <2>1. CASE Move(t, [th[t] EXCEPT !.pc = "spawn", !.cur = NoJob, !.seen = Unseen])
             /\ UNCHANGED recLock
    <3> DEFINE r == [th[t] EXCEPT !.pc = "spawn", !.cur = NoJob, !.seen = Unseen]
    <3>1. Unseen \in [Jobs -> Readings]
      BY DEF Unseen, Readings
    <3>2. r \in Thread /\ r.pc \notin AtRecord
      BY <1>1, <3>1, NamesLemma DEF Thread
    <3> QED
      BY <2>1, <3>2, MoveLemma DEF TInv, TypeOK
  <2>2. CASE Return(t)
    BY <2>2, ReturnType
  <2>3. ASSUME NEW j \in Jobs, NEW d \in Rmtree(j), UNCHANGED recLock, th[t].pc = "evict",
               Move(t, [th[t] EXCEPT !.cur = j,
                          !.seen[j] = IF d.at = "none" THEN "none" ELSE @])
        PROVE  /\ th' \in [Threads -> Thread] /\ Cursor'
               /\ recLock' \in Threads \cup {NoThread}
    <3> DEFINE r == [th[t] EXCEPT !.cur = j,
                       !.seen[j] = IF d.at = "none" THEN "none" ELSE @]
    <3>1. [th[t].seen EXCEPT ![j] = IF d.at = "none" THEN "none" ELSE @]
            \in [Jobs -> Readings]
      BY <1>1, NamesLemma
    <3>2. r \in Thread /\ r.pc \notin AtRecord
      BY <1>1, <2>3, <3>1, NamesLemma DEF Thread
    <3> QED
      BY <2>3, <3>2, MoveLemma DEF TInv, TypeOK
  <2> QED
    BY <2>1, <2>2, <2>3 DEF Evict
<1> QED
  BY <1>2, <1>3 DEF Evict, history, TInv, TypeOK

LEMMA SpawnType ==
  ASSUME TInv, NEW t \in Threads, Spawn(t)
  PROVE  TInv'
<1>1. th[t] \in Thread
  BY DEF TInv, TypeOK
<1> DEFINE Kept == /\ disk' \in [Jobs -> Dir] /\ worker' \in [Jobs -> Proc]
                   /\ th' \in [Threads -> Thread] /\ Cursor'
                   /\ recLock' \in Threads \cup {NoThread}
<1>2. ASSUME NEW j \in Unstarted, UNCHANGED recLock,
             disk' = [disk EXCEPT ![j].at = "bare"],
             worker' = [worker EXCEPT ![j].phase = "boot", ![j].parent = Home[t]],
             Move(t, [th[t] EXCEPT !.pc = "publish", !.cur = j])
      PROVE  Kept
  <2> DEFINE r == [th[t] EXCEPT !.pc = "publish", !.cur = j]
  <2>1. j \in Jobs /\ "publish" \in Steps /\ "boot" \in Phases /\ "bare" \in Places
    BY DEF Unstarted, Steps, Phases, Places
  <2>2. r \in Thread /\ r.cur \in Jobs
    BY <1>1, <2>1 DEF Thread
  <2>3. disk' \in [Jobs -> Dir]
    BY <1>2, <2>1 DEF TInv, TypeOK, Dir
  <2>4. worker' \in [Jobs -> Proc]
    <3>1. worker \in [Jobs -> Proc] /\ Home[t] \in Servers \cup {NoServer}
      BY ActorsAssumption DEF TInv, TypeOK
    <3> QED
      BY <1>2, <2>1, <3>1 DEF Proc
  <2> QED
    BY <1>2, <2>2, <2>3, <2>4, MoveLemma DEF TInv, TypeOK
<1>3. ASSUME Return(t), UNCHANGED store
      PROVE  Kept
  BY <1>3, ReturnType DEF store, TInv, TypeOK
<1>4. Kept
  <2> HIDE DEF Kept
  <2> QED
    BY <1>2, <1>3 DEF Spawn
<1> QED
  BY <1>4 DEF Spawn, history, TInv, TypeOK

LEMMA PublishType ==
  ASSUME TInv, NEW t \in Threads, Publish(t)
  PROVE  TInv'
<1>1. th[t].cur \in Jobs /\ "abort" \in Steps /\ "record" \in Places
  BY DEF Publish, TInv, Cursor, AtRecord, Steps, Places
<1>2. disk' \in [Jobs -> Dir]
  BY <1>1 DEF Publish, TInv, TypeOK, Dir
<1>3. /\ th' \in [Threads -> Thread] /\ Cursor'
      /\ recLock' \in Threads \cup {NoThread}
  BY <1>1, GoType, ReturnType DEF Publish, TInv, TypeOK
<1> QED
  BY <1>2, <1>3 DEF Publish, history, TInv, TypeOK

LEMMA DropUnrecordedType ==
  ASSUME TInv, NEW t \in Threads, DropUnrecorded(t)
  PROVE  TInv'
<1>1. th[t].cur \in Jobs
  BY DEF DropUnrecorded, TInv, Cursor, AtRecord
<1>2. disk' \in [Jobs -> Dir]
  BY <1>1, AbsentLemma DEF DropUnrecorded, TInv, TypeOK
<1>3. worker' \in [Jobs -> Proc]
  BY <1>1, CleanupLemma DEF DropUnrecorded, TInv, TypeOK
<1> QED
  BY <1>2, <1>3, ReturnType DEF DropUnrecorded, history, TInv, TypeOK

LEMMA BeginType ==
  ASSUME TInv, NEW t \in Threads, NEW call \in Calls, NEW j \in Jobs \cup {NoJob},
         Begin(t, call, j)
  PROVE  TInv'
<1> DEFINE r == [Idle EXCEPT !.pc = "enter", !.call = call, !.cur = j,
                             !.sec = IF j = NoJob THEN "reap" ELSE "look"]
<1>1. r \in Thread /\ r.pc \notin AtRecord
  BY IdleLemma, NamesLemma DEF Thread
<1>2. th' \in [Threads -> Thread] /\ Cursor'
  BY <1>1, MoveLemma DEF Begin, TInv, TypeOK
<1> QED
  BY <1>2 DEF Begin, store, history, TInv, TypeOK

LEMMA CallStepType ==
  ASSUME TInv, NEW t \in Threads, CallStep(t)
  PROVE  TInv'
  BY EnterType, NextRecordType, ProbeType, ReadType, GraceEndsType,
     DropExpiredType, KeepReapedType, CollectType, UnservedType,
     LookStatusType, LookResultType, MarkDeliveredType,
     DiscardType, ProveGoneType, DiscardFailedType,
     SignalType, FinishCancelType, EvictType, SpawnType, PublishType,
     DropUnrecordedType
  DEF CallStep

LEMMA WorkerStepType ==
  ASSUME TInv, NEW j \in Jobs, WorkerStep(j)
  PROVE  TInv'
<1>1. disk' \in [Jobs -> Dir] /\ worker' \in [Jobs -> Proc]
  <2>1. /\ disk \in [Jobs -> Dir] /\ worker \in [Jobs -> Proc]
        /\ {"opening", "working", "wrote", "gone", "zombie", "stranger"} \subseteq Phases
        /\ {"made", "declared", "removed"} \subseteq Trees
    BY DEF TInv, TypeOK, Phases, Trees
  <2>2. CASE OpenLockFile(j)
    <3>1. worker' \in [Jobs -> Proc]
      BY <2>1, <2>2 DEF OpenLockFile, Phase, Proc
    <3>2. disk' \in [Jobs -> Dir]
      BY <2>1, <2>2 DEF OpenLockFile, Dir
    <3> QED
      BY <3>1, <3>2
  <2>3. CASE TakeLock(j) \/ RunUnlocked(j) \/ MakeTree(j) \/ RemoveTree(j)
    BY <2>1, <2>3 DEF TakeLock, RunUnlocked, MakeTree, RemoveTree, Phase, Proc
  <2>4. CASE DeclareTree(j)
    <3>1. worker' \in [Jobs -> Proc]
      BY <2>1, <2>4 DEF DeclareTree, Proc
    <3>2. disk' \in [Jobs -> Dir]
      BY <2>1, <2>4, ZenonT(60) DEF DeclareTree, Dir
    <3> QED
      BY <3>1, <3>2
  <2>5. CASE WriteResult(j)
    <3>1. worker' \in [Jobs -> Proc]
      BY <2>1, <2>5 DEF WriteResult, Phase, Proc
    <3>2. PICK r \in Results : disk' = [disk EXCEPT ![j].result = r]
      BY <2>5 DEF WriteResult
    <3>3. disk' \in [Jobs -> Dir]
      BY <2>1, <3>2 DEF Dir
    <3> QED
      BY <3>1, <3>3
  <2>6. CASE WorkerExits(j)
    <3>1. Exited(worker[j]) \in Proc
      BY <2>1 DEF Exited, Proc
    <3> QED
      BY <2>1, <2>6, <3>1 DEF WorkerExits
  <2> QED
    BY <2>2, <2>3, <2>4, <2>5, <2>6 DEF WorkerStep
<1>2. UNCHANGED <<eio, recLock, th, history>>
  BY DEF WorkerStep, OpenLockFile, TakeLock, RunUnlocked, MakeTree, DeclareTree,
         RemoveTree, WriteResult, WorkerExits
<1> QED
  BY <1>1, <1>2 DEF TInv, TypeOK, Cursor, history

LEMMA WorldStepType ==
  ASSUME TInv, NEW j \in Jobs, WorldStep(j)
  PROVE  TInv'
<1>1. disk' \in [Jobs -> Dir] /\ worker' \in [Jobs -> Proc] /\ eio' \subseteq Jobs
  <2>1. /\ disk \in [Jobs -> Dir] /\ worker \in [Jobs -> Proc] /\ eio \subseteq Jobs
        /\ {"gone", "stranger"} \subseteq Phases
    BY DEF TInv, TypeOK, Phases
  <2>2. CASE PopenReaps(j) \/ PidReused(j) \/ StrangerExits(j)
    BY <2>1, <2>2 DEF PopenReaps, PidReused, StrangerExits, Phase, Proc
  <2>3. CASE DeadlinePasses(j) \/ TtlPasses(j)
    BY <2>1, <2>3 DEF DeadlinePasses, TtlPasses, Dir, Clock
  <2>4. CASE ReadErrorStarts(j) \/ ReadErrorEnds(j)
    BY <2>1, <2>4 DEF ReadErrorStarts, ReadErrorEnds, store
  <2> QED
    BY <2>2, <2>3, <2>4 DEF WorldStep
<1>2. UNCHANGED <<recLock, th, history>>
  BY DEF WorldStep, PopenReaps, PidReused, StrangerExits, DeadlinePasses, TtlPasses,
         ReadErrorStarts, ReadErrorEnds
<1> QED
  BY <1>1, <1>2 DEF TInv, TypeOK, Cursor, history

LEMMA CrashType ==
  ASSUME TInv, NEW s \in Servers, Crash(s)
  PROVE  TInv'
<1>1. th' \in [Threads -> Thread] /\ Cursor'
  BY IdleLemma DEF Crash, TInv, TypeOK, Cursor
<1>2. recLock' \in Threads \cup {NoThread}
  BY DEF Crash, TInv, TypeOK
<1>3. ASSUME NEW j \in Jobs
      PROVE  Orphaned(worker[j], s) \in Proc
  BY DEF Orphaned, TInv, TypeOK, Proc, Phases
<1>4. worker' \in [Jobs -> Proc]
  BY <1>3 DEF Crash
<1> QED
  BY <1>1, <1>2, <1>4 DEF Crash, history, TInv, TypeOK

LEMMA InitType == Init => TInv
<1>1. Unborn \in Proc
  BY DEF Unborn, Proc, Phases, Trees
<1> QED
  BY <1>1, IdleLemma, AbsentLemma DEF Init, TInv, TypeOK, Cursor

LEMMA NextType ==
  ASSUME TInv, [Next]_vars
  PROVE  TInv'
<1>1. CASE UNCHANGED vars
  BY <1>1 DEF vars, history, TInv, TypeOK, Cursor
<1> QED
  BY <1>1, CallStepType, BeginType, WorkerStepType, WorldStepType, CrashType DEF Next

(* The state of the store is always one the code can be in *)
THEOREM TypeCorrect == Spec => []TypeOK
<1>1. TInv => TypeOK
  BY DEF TInv
<1> QED
  BY <1>1, InitType, NextType, PTL DEF Spec

-----------------------------------------------------------------------------
(* What holds under the record lock.                                       *)

Deriving == {"read", "overrun", "overread"}
Seen(t) == {j \in Jobs : th[t].seen[j] # "none"}

(* A call that derives a state found the record without one *)
Derived == \A t \in Threads :
             th[t].pc \in Deriving => disk[th[t].cur].stamp = "none"

(* What the pass of a start collected, and has yet to, covers the records; *)
(* from the last eviction to the new record there is room for one.         *)
CountedBy(t) ==
  /\ th[t].pc = "settled" => th[t].st # "none"
  /\ th[t].pc = "enter" => th[t].sec # "collect"
  /\ th[t].pc = "next" /\ th[t].sec = "collect" => Records \subseteq Seen(t) \cup th[t].todo
  /\ th[t].pc \in {"probe", "settled"} \cup Deriving /\ th[t].sec = "collect"
       => Records \subseteq Seen(t) \cup th[t].todo \cup {th[t].cur}
  /\ th[t].pc = "evict" => Records \subseteq Seen(t)
  /\ th[t].pc \in {"spawn", "publish"} => Cardinality(Records) < MaxCount
Counted == \A t \in Threads : CountedBy(t)

(* Stamped done, a directory has its result, whatever deletes failed *)
DoneHasResult == {"lost", "hidden"} \cap Events = {} =>
  \A j \in Jobs : disk[j].stamp = "done" => disk[j].result # "none"

LInv == TInv /\ Exclusive /\ Derived /\ Counted /\ CapHolds

-----------------------------------------------------------------------------
(* Mutual exclusion: a step of a call moves that call only, and touches    *)
(* the disk and the lock only in a section or when the lock is free.       *)

Behaves(t) ==
  /\ \A u \in Threads \ {t} : th'[u] = th[u]
  /\ th[t].pc \in InSection \/ recLock = NoThread \/ UNCHANGED <<disk, recLock>>
  /\ th'[t].pc \in InSection
       => recLock' = t \/ (th[t].pc \in InSection /\ UNCHANGED recLock)

LEMMA MovesOne ==
  ASSUME th \in [Threads -> Thread], NEW t \in Threads, NEW r, Move(t, r)
  PROVE  th'[t] = r /\ \A u \in Threads \ {t} : th'[u] = th[u]
  BY DEF Move

LEMMA GoesOne ==
  ASSUME TInv, NEW t \in Threads, NEW pc, Go(t, pc)
  PROVE  /\ th'[t].pc = pc /\ th'[t].sec = th[t].sec /\ th'[t].cur = th[t].cur
         /\ th'[t].todo = th[t].todo /\ th'[t].seen = th[t].seen
         /\ \A u \in Threads \ {t} : th'[u] = th[u]
  BY DEF Go, TInv, TypeOK, Thread

LEMMA SettlesOne ==
  ASSUME TInv, NEW t \in Threads, NEW st, Settle(t, st)
  PROVE  /\ th'[t].pc = "settled" /\ th'[t].st = st
         /\ th'[t].sec = th[t].sec /\ th'[t].cur = th[t].cur
         /\ th'[t].todo = th[t].todo /\ th'[t].seen = th[t].seen
         /\ \A u \in Threads \ {t} : th'[u] = th[u]
  BY DEF Settle, TInv, TypeOK, Thread

LEMMA Released ==
  ASSUME TInv, NEW t \in Threads, Return(t) \/ SectionDone(t)
  PROVE  /\ \A u \in Threads \ {t} : th'[u] = th[u]
         /\ th'[t].pc \in {"idle", "enter"} /\ recLock' = NoThread
         /\ th'[t].pc = "enter" => th'[t].sec # "collect"
<1> DEFINE r == [th[t] EXCEPT !.pc = "enter", !.sec = "discard",
                              !.want = "done", !.st = "none"]
<1>1. th \in [Threads -> Thread] /\ th[t] \in Thread
  BY DEF TInv, TypeOK
<1>2. r.pc = "enter" /\ r.sec = "discard" /\ Idle.pc = "idle"
  BY <1>1 DEF Thread, Idle
<1>3. Move(t, r) \/ Move(t, Idle)
  BY DEF Return, SectionDone
<1>4. recLock' = NoThread
  BY DEF Return, SectionDone
<1> QED
  BY <1>1, <1>2, <1>3, <1>4, MovesOne

LEMMA PassesOne ==
  ASSUME TInv, NEW t \in Threads, Passed(t)
  PROVE  /\ \A u \in Threads \ {t} : th'[u] = th[u]
         /\ th'[t] = [th[t] EXCEPT !.pc = "next", !.cur = NoJob, !.st = "none"]
  BY MovesOne DEF Passed, TInv, TypeOK

(* The steps of the first section: taking the lock, a pass, a read *)
LEMMA SectionBehaves ==
  ASSUME TInv, NEW t \in Threads,
         Enter(t) \/ NextRecord(t) \/ Probe(t) \/ Read(t) \/ GraceEnds(t)
  PROVE  Behaves(t)
<1>1. th \in [Threads -> Thread] /\ th[t] \in Thread
  BY DEF TInv, TypeOK
<1>2. CASE Enter(t)
  <2>1. CASE recLock' = t /\ \E r : Move(t, r)
    BY <1>1, <1>2, <2>1, MovesOne DEF Behaves, Enter, LockFree
  <2>2. CASE recLock' = t /\ Go(t, "probe")
    BY <1>2, <2>2, GoesOne DEF Behaves, Enter, LockFree
  <2>3. CASE SectionDone(t)
    BY <1>2, <2>3, Released DEF Behaves, Enter, LockFree, InSection
  <2> QED
    BY <1>2, <2>1, <2>2, <2>3 DEF Enter
<1>3. CASE NextRecord(t)
  <2>1. th[t].pc \in InSection
    BY <1>3 DEF NextRecord, InSection
  <2>2. CASE UNCHANGED recLock /\ \E r : Move(t, r)
    BY <1>1, <2>1, <2>2, MovesOne DEF Behaves
  <2>3. CASE Return(t)
    BY <2>1, <2>3, Released DEF Behaves, InSection
  <2>4. CASE UNCHANGED recLock /\ Go(t, "evict")
    BY <2>1, <2>4, GoesOne DEF Behaves
  <2> QED
    BY <1>3, <2>2, <2>3, <2>4 DEF NextRecord
<1>4. CASE Probe(t)
  <2>1. th[t].pc \in InSection /\ UNCHANGED recLock
    BY <1>4 DEF Probe, InSection
  <2>2. \E x : Settle(t, x) \/ Go(t, x)
    BY <1>4 DEF Probe
  <2> QED
    BY <2>1, <2>2, SettlesOne, GoesOne DEF Behaves
<1>5. CASE Read(t)
  <2>1. th[t].pc \in InSection /\ UNCHANGED recLock
    BY <1>5 DEF Read, InSection
  <2>2. \E x : Settle(t, x)
    BY <1>5 DEF Read
  <2> QED
    BY <2>1, <2>2, SettlesOne DEF Behaves
<1>6. CASE GraceEnds(t)
  <2>1. th[t].pc \in InSection \cup {"grace"} /\ UNCHANGED <<disk, recLock>>
    BY <1>6 DEF GraceEnds, InSection
  <2>2. \/ th[t].pc = "grace" /\ Go(t, "finish")
        \/ th[t].pc # "grace" /\ \E x : Go(t, x)
    BY <1>6 DEF GraceEnds
  <2>3. "finish" \notin InSection
    BY DEF InSection
  <2> QED
    BY <2>1, <2>2, <2>3, GoesOne DEF Behaves
<1> QED
  BY <1>2, <1>3, <1>4, <1>5, <1>6

(* What a section does with what it read *)
LEMMA SettledBehaves ==
  ASSUME TInv, NEW t \in Threads,
         \/ DropExpired(t) \/ KeepReaped(t) \/ Collect(t) \/ Unserved(t)
         \/ LookStatus(t) \/ LookResult(t) \/ MarkDelivered(t)
         \/ Discard(t) \/ ProveGone(t) \/ DiscardFailed(t)
  PROVE  Behaves(t)
<1>1. th \in [Threads -> Thread] /\ th[t] \in Thread
  BY DEF TInv, TypeOK
<1>2. th[t].pc \in InSection
  BY DEF DropExpired, KeepReaped, Collect, Unserved, LookStatus, LookResult,
         MarkDelivered, Discard, ProveGone, DiscardFailed, Found, InSection
<1>3. CASE Return(t) \/ SectionDone(t)
  BY <1>2, <1>3, Released DEF Behaves, InSection
<1>4. CASE UNCHANGED recLock /\ \E r : Move(t, r)
  BY <1>1, <1>2, <1>4, MovesOne DEF Behaves
<1>5. CASE UNCHANGED recLock /\ Passed(t)
  BY <1>2, <1>5, PassesOne DEF Behaves
<1>6. CASE UNCHANGED recLock /\ Go(t, "proof")
  BY <1>2, <1>6, GoesOne DEF Behaves
<1>7. CASE LookStatus(t) /\ Go(t, "signal") /\ recLock' = NoThread
  <2>1. "signal" \notin InSection
    BY DEF InSection
  <2> QED
    BY <1>2, <1>7, <2>1, GoesOne DEF Behaves
<1>8. CASE LookResult(t)
  <2> DEFINE r(sec, want) == [th[t] EXCEPT !.pc = "enter", !.sec = sec,
                                           !.want = want, !.st = "none"]
  <2>1. \A sec, want : r(sec, want).pc = "enter"
    BY <1>1 DEF Thread
  <2> HIDE DEF r
  <2>2. Return(t) \/ Move(t, r("mark", "none")) \/ Move(t, r("discard", th[t].st))
    BY <1>8, SMTT(60) DEF LookResult, r
  <2> QED
    BY <1>1, <1>2, <1>3, <2>1, <2>2, MovesOne DEF Behaves, InSection
<1> QED
  BY <1>3, <1>4, <1>5, <1>6, <1>7, <1>8
  DEF DropExpired, KeepReaped, Collect, Unserved, LookStatus,
      MarkDelivered, Discard, ProveGone, DiscardFailed

(* cancel's two unlocked steps and its last section, and the steps of start *)
LEMMA StartBehaves ==
  ASSUME TInv, NEW t \in Threads,
         \/ Signal(t) \/ FinishCancel(t) \/ Evict(t) \/ Spawn(t) \/ Publish(t)
         \/ DropUnrecorded(t)
  PROVE  Behaves(t)
<1>1. th \in [Threads -> Thread] /\ th[t] \in Thread
  BY DEF TInv, TypeOK
<1>2. CASE Signal(t)
  <2>1. UNCHANGED <<disk, recLock>> /\ (Go(t, "finish") \/ Go(t, "grace"))
    BY <1>2 DEF Signal
  <2>2. "finish" \notin InSection /\ "grace" \notin InSection
    BY DEF InSection
  <2> QED
    BY <2>1, <2>2, GoesOne DEF Behaves
<1>3. CASE FinishCancel(t)
  BY <1>3, Released DEF FinishCancel, LockFree, Behaves, InSection
<1>4. CASE Evict(t) \/ Spawn(t) \/ Publish(t) \/ DropUnrecorded(t)
  <2>1. th[t].pc \in InSection
    BY <1>4 DEF Evict, Spawn, Publish, DropUnrecorded, InSection
  <2>2. \/ Return(t)
        \/ UNCHANGED recLock /\ \E r : Move(t, r)
        \/ UNCHANGED recLock /\ Go(t, "abort")
    BY <1>4 DEF Evict, Spawn, Publish, DropUnrecorded
  <2> QED
    BY <1>1, <2>1, <2>2, Released, MovesOne, GoesOne DEF Behaves, InSection
<1> QED
  BY <1>2, <1>3, <1>4

LEMMA CallStepBehaves ==
  ASSUME TInv, NEW t \in Threads, CallStep(t)
  PROVE  Behaves(t)
  BY SectionBehaves, SettledBehaves, StartBehaves DEF CallStep

LEMMA BeginBehaves ==
  ASSUME TInv, NEW t \in Threads, NEW call \in Calls, NEW j \in Jobs \cup {NoJob},
         Begin(t, call, j)
  PROVE  /\ Behaves(t) /\ UNCHANGED <<disk, recLock>>
         /\ th'[t].pc = "enter" /\ th'[t].sec \in {"reap", "look"}
<1> DEFINE r == [Idle EXCEPT !.pc = "enter", !.call = call, !.cur = j,
                             !.sec = IF j = NoJob THEN "reap" ELSE "look"]
<1>1. r.pc = "enter" /\ r.sec \in {"reap", "look"} /\ "enter" \notin InSection
  BY DEF Idle, InSection
<1>2. th \in [Threads -> Thread] /\ Move(t, r) /\ UNCHANGED <<disk, recLock>>
  BY DEF Begin, TInv, TypeOK, store
<1> HIDE DEF r
<1> QED
  BY <1>1, <1>2, MovesOne DEF Behaves

LEMMA ExclusiveStep ==
  ASSUME TInv, Exclusive, NEW t \in Threads, Behaves(t)
  PROVE  /\ Exclusive'
         /\ \A u \in Threads \ {t} :
              th[u].pc \in InSection => UNCHANGED <<disk, recLock>> /\ th'[u] = th[u]
  BY ActorsAssumption DEF Exclusive, Behaves

(* A worker or the world leaves the calls alone and, on disk, the stamps   *)
(* and which directories are records; a result that is there stays there.  *)
Outside ==
  /\ UNCHANGED <<th, recLock>>
  /\ \A j \in Jobs : /\ disk'[j].at = disk[j].at /\ disk'[j].stamp = disk[j].stamp
                     /\ disk[j].result # "none" => disk'[j].result # "none"

LEMMA WorkerStepOutside ==
  ASSUME TInv, NEW j \in Jobs, WorkerStep(j)
  PROVE  Outside
<1>1. disk \in [Jobs -> Dir] /\ disk[j] \in Dir /\ "none" \notin Results
  BY InputsAssumption DEF TInv, TypeOK
<1>2. CASE OpenLockFile(j)
  BY <1>1, <1>2 DEF OpenLockFile, Outside, Dir
<1>3. CASE UNCHANGED <<disk, th, recLock>>
  BY <1>3 DEF Outside
<1>4. CASE DeclareTree(j)
  BY <1>1, <1>4 DEF DeclareTree, Outside, Dir
<1>5. CASE WriteResult(j)
  BY <1>1, <1>5 DEF WriteResult, Outside, Dir
<1> QED
  BY <1>2, <1>3, <1>4, <1>5
  DEF WorkerStep, TakeLock, RunUnlocked, MakeTree, RemoveTree, WorkerExits

LEMMA WorldStepOutside ==
  ASSUME TInv, NEW j \in Jobs, WorldStep(j)
  PROVE  Outside
<1>1. disk \in [Jobs -> Dir] /\ disk[j] \in Dir
  BY DEF TInv, TypeOK
<1>2. CASE DeadlinePasses(j) \/ TtlPasses(j)
  BY <1>1, <1>2 DEF DeadlinePasses, TtlPasses, Outside, Dir
<1>3. CASE UNCHANGED <<disk, th, recLock>>
  BY <1>3 DEF Outside
<1> QED
  BY <1>2, <1>3
  DEF WorldStep, PopenReaps, PidReused, StrangerExits, ReadErrorStarts, ReadErrorEnds, store

-----------------------------------------------------------------------------
(* What a step of a call may do to a directory.                            *)

DirKept(j) ==
  /\ disk[j].stamp # "none" => disk'[j].stamp = disk[j].stamp \/ disk'[j].at # "record"
  /\ "lost" \notin Events /\ (disk[j].stamp = "done" => disk[j].result # "none")
       => (disk'[j].stamp = "done" => disk'[j].result # "none")
DiskKept == \A j \in Jobs : DirKept(j)

LEMMA SameKept ==
  ASSUME UNCHANGED disk
  PROVE  DiskKept /\ Records' \subseteq Records
  BY DEF DiskKept, DirKept, Records

LEMMA DeleteKept ==
  ASSUME TInv, NEW j \in Jobs, \E d \in Rmtree(j) : disk' = [disk EXCEPT ![j] = d]
  PROVE  DiskKept /\ Records' \subseteq Records
<1>1. disk \in [Jobs -> Dir]
  BY DEF TInv, TypeOK
<1>2. PICK d \in Rmtree(j) : disk' = [disk EXCEPT ![j] = d]
  OBVIOUS
<1>3. /\ d.at = "record" => disk[j].at = "record"
      /\ d.stamp # "none" => d.stamp = disk[j].stamp
      /\ d.at = "record" => d.stamp = disk[j].stamp
      /\ "lost" \notin Events /\ d.stamp # "none" => d.result = disk[j].result
  BY <1>1, RmtreeLemma
<1> QED
  BY <1>1, <1>2, <1>3 DEF DiskKept, DirKept, Records

LEMMA DropKept ==
  ASSUME TInv, NEW j \in Jobs, NEW d \in {Absent, [Absent EXCEPT !.at = "bare"]},
         disk' = [disk EXCEPT ![j] = d]
  PROVE  DiskKept /\ Records' \subseteq Records
  BY AbsentLemma DEF DiskKept, DirKept, Records, TInv, TypeOK

LEMMA MarkDoneKept ==
  ASSUME TInv, NEW j \in Jobs, disk[j].stamp = "none", Envelope(j) \in Results,
         disk' = [disk EXCEPT ![j] = MarkDone(disk[j])]
  PROVE  DiskKept /\ Records' \subseteq Records
<1>1. disk \in [Jobs -> Dir]
  BY DEF TInv, TypeOK
<1>2. disk[j].result # "none"
  BY InputsAssumption DEF Envelope
<1> QED
  BY <1>1, <1>2, MarkDoneLemma DEF DiskKept, DirKept, Records

LEMMA FinalizeKept ==
  ASSUME TInv, NEW j \in Jobs, NEW status \in {"cancelled", "timeout"},
         disk[j].stamp = "none", FinalizeCleanup(j, status)
  PROVE  DiskKept /\ Records' \subseteq Records
<1>1. disk \in [Jobs -> Dir]
  BY DEF TInv, TypeOK
<1>2. \A k \in Jobs : /\ disk'[k].at = disk[k].at
                      /\ disk'[k].stamp = IF k = j THEN status ELSE disk[k].stamp
                      /\ disk'[k].result = disk[k].result
  BY <1>1 DEF FinalizeCleanup, Dir
<1> QED
  BY <1>2 DEF DiskKept, DirKept, Records

(* Only Publish makes a record *)
LEMMA CallStepKept ==
  ASSUME TInv, Derived, NEW t \in Threads, CallStep(t)
  PROVE  DiskKept /\ (Publish(t) \/ Records' \subseteq Records)
<1> DEFINE j == th[t].cur
<1>1. /\ disk \in [Jobs -> Dir]
      /\ th[t].pc \in AtRecord => j \in Jobs
  BY DEF TInv, TypeOK, Cursor
<1>2. CASE UNCHANGED disk
  BY <1>2, SameKept
<1>3. CASE j \in Jobs /\ \E d \in Rmtree(j) : disk' = [disk EXCEPT ![j] = d]
  BY <1>3, DeleteKept
<1>4. CASE Read(t)
  <2>1. j \in Jobs /\ disk[j].stamp = "none"
    BY <1>1, <1>4 DEF Read, Derived, AtRecord, Deriving
  <2>2. CASE Envelope(j) \in Results /\ disk' = [disk EXCEPT ![j] = MarkDone(disk[j])]
    BY <2>1, <2>2, MarkDoneKept
  <2>3. CASE FinalizeCleanup(j, "timeout")
    BY <2>1, <2>3, FinalizeKept
  <2>4. CASE disk' = [disk EXCEPT ![j] = StampFailed(disk[j])]
    BY <1>1, <2>1, <2>4, StampFailedLemma DEF DiskKept, DirKept, Records
  <2> QED
    BY <1>2, <1>4, <2>2, <2>3, <2>4 DEF Read, store
<1>5. CASE FinishCancel(t)
  <2>1. j \in Jobs
    BY <1>1, <1>5 DEF FinishCancel, AtRecord
  <2>2. CASE /\ disk[j].stamp = "none" /\ Envelope(j) \in Results
             /\ disk' = [disk EXCEPT ![j] = MarkDone(disk[j])]
    BY <2>1, <2>2, MarkDoneKept
  <2>3. CASE disk[j].stamp = "none" /\ FinalizeCleanup(j, "cancelled")
    BY <2>1, <2>3, FinalizeKept
  <2> QED
    BY <1>2, <1>5, <2>2, <2>3 DEF FinishCancel, Stamped, store
<1>6. CASE DropExpired(t) \/ Discard(t) \/ DiscardFailed(t)
  BY <1>1, <1>2, <1>3, <1>6 DEF DropExpired, Discard, DiscardFailed, Found, AtRecord
<1>7. CASE MarkDelivered(t)
  <2>1. j \in Jobs
    BY <1>1, <1>7 DEF MarkDelivered, Found, AtRecord
  <2>2. \A k \in Jobs : /\ disk'[k].at = disk[k].at /\ disk'[k].stamp = disk[k].stamp
                        /\ disk'[k].result = disk[k].result
    BY <1>1, <1>7, <2>1 DEF MarkDelivered, Dir
  <2> QED
    BY <2>2 DEF DiskKept, DirKept, Records
<1>8. CASE Evict(t)
  <2>1. \/ UNCHANGED disk
        \/ \E k \in Jobs : \E d \in Rmtree(k) : disk' = [disk EXCEPT ![k] = d]
    BY <1>8 DEF Evict
  <2> QED
    BY <1>2, <2>1, DeleteKept
<1>9. CASE Spawn(t)
  <2>1. CASE \E k \in Jobs : disk' = [disk EXCEPT ![k].at = "bare"]
    BY <1>1, <2>1 DEF DiskKept, DirKept, Records, Dir
  <2> QED
    BY <1>2, <1>9, <2>1 DEF Spawn, Unstarted, store
<1>10. CASE Publish(t)
  <2>1. j \in Jobs
    BY <1>1, <1>10 DEF Publish, AtRecord
  <2>2. \A k \in Jobs : disk'[k].stamp = disk[k].stamp /\ disk'[k].result = disk[k].result
    BY <1>1, <1>10, <2>1 DEF Publish, Dir
  <2> QED
    BY <1>10, <2>2 DEF DiskKept, DirKept
<1>11. CASE DropUnrecorded(t)
  <2>1. j \in Jobs
    BY <1>1, <1>11 DEF DropUnrecorded, AtRecord
  <2>2. \E d \in {Absent, [Absent EXCEPT !.at = "bare"]} : disk' = [disk EXCEPT ![j] = d]
    BY <1>11 DEF DropUnrecorded
  <2> QED
    BY <2>1, <2>2, DropKept
<1>12. CASE Enter(t) \/ NextRecord(t) \/ Probe(t) \/ GraceEnds(t) \/ KeepReaped(t)
            \/ Collect(t) \/ Unserved(t) \/ LookStatus(t) \/ LookResult(t)
            \/ ProveGone(t) \/ Signal(t)
  BY <1>2, <1>12
  DEF Enter, NextRecord, Probe, GraceEnds, KeepReaped, Collect, Unserved, LookStatus,
      LookResult, ProveGone, Signal, store
<1> QED
  BY <1>4, <1>5, <1>6, <1>7, <1>8, <1>9, <1>10, <1>11, <1>12 DEF CallStep

-----------------------------------------------------------------------------
(* A call's own account of the records, action by action.                  *)

LEMMA RecordsFinite ==
  /\ IsFiniteSet(Jobs) /\ IsFiniteSet(Records) /\ Cardinality(Records) \in Nat
  /\ \A S, T \in SUBSET Jobs : /\ Cardinality(S) \in Nat
                               /\ S \subseteq T => Cardinality(S) <= Cardinality(T)
<1>1. IsFiniteSet(Jobs)
  BY FS_Interval, SpaceAssumption DEF Jobs
<1>2. Records \subseteq Jobs
  BY DEF Records
<1>3. \A S \in SUBSET Jobs : IsFiniteSet(S) /\ Cardinality(S) \in Nat
  BY <1>1, FS_Subset, FS_CardinalityType
<1> QED
  BY <1>1, <1>2, <1>3, FS_Subset

(* Where a call goes from a section that it leaves, nothing is counted *)
LEMMA ReleasedCounts ==
  ASSUME TInv, NEW t \in Threads, Return(t) \/ SectionDone(t)
  PROVE  CountedBy(t)' /\ th'[t].pc \notin Deriving
  BY Released DEF CountedBy, Deriving

LEMMA EnterCounts ==
  ASSUME TInv, NEW t \in Threads, CountedBy(t), Enter(t)
  PROVE  CountedBy(t)' /\ th'[t].pc \notin Deriving
<1>1. th \in [Threads -> Thread] /\ th[t] \in Thread
  BY DEF TInv, TypeOK
<1>2. CASE th[t].sec = "reap" /\ Move(t, [th[t] EXCEPT !.pc = "next", !.todo = Records])
  <2>1. th'[t].pc = "next" /\ th'[t].sec = "reap"
    BY <1>1, <1>2 DEF Move, Thread
  <2> QED
    BY <2>1 DEF CountedBy, Deriving
<1>3. CASE Go(t, "probe")
  <2>1. th'[t].pc = "probe" /\ th'[t].sec # "collect"
    BY <1>1, <1>3, GoesOne DEF Thread, Enter, CountedBy
  <2> QED
    BY <2>1 DEF CountedBy, Deriving
<1> QED
  BY <1>2, <1>3, ReleasedCounts DEF Enter

LEMMA NextRecordCounts ==
  ASSUME TInv, NEW t \in Threads, CountedBy(t), NextRecord(t)
  PROVE  CountedBy(t)' /\ th'[t].pc \notin Deriving
<1>1. /\ th \in [Threads -> Thread] /\ th[t] \in Thread /\ th[t].pc = "next"
      /\ Records' = Records
  BY DEF TInv, TypeOK, NextRecord, store, Records
<1>2. ASSUME NEW j \in th[t].todo,
             Move(t, [th[t] EXCEPT !.pc = "probe", !.cur = j, !.todo = @ \ {j}])
      PROVE  CountedBy(t)' /\ th'[t].pc \notin Deriving
  <2>1. /\ th'[t].pc = "probe" /\ th'[t].cur = j /\ th'[t].todo = th[t].todo \ {j}
        /\ th'[t].sec = th[t].sec /\ th'[t].seen = th[t].seen
    BY <1>1, <1>2 DEF Move, Thread
  <2>2. Seen(t)' = Seen(t)
    BY <2>1 DEF Seen
  <2> QED
    BY <1>1, <2>1, <2>2 DEF CountedBy, Deriving
<1>3. CASE Move(t, [th[t] EXCEPT !.sec = "collect", !.todo = Records])
  <2>1. th'[t].pc = "next" /\ th'[t].todo = Records
    BY <1>1, <1>3 DEF Move, Thread
  <2> QED
    BY <1>1, <2>1 DEF CountedBy, Deriving
<1>4. CASE th[t].todo = {} /\ th[t].sec = "collect" /\ Go(t, "evict")
  <2>1. th'[t].pc = "evict" /\ th'[t].seen = th[t].seen
    BY <1>1, <1>4, GoesOne DEF Thread
  <2>2. Seen(t)' = Seen(t)
    BY <2>1 DEF Seen
  <2> QED
    BY <1>1, <1>4, <2>1, <2>2 DEF CountedBy, Deriving
<1> QED
  BY <1>2, <1>3, <1>4, ReleasedCounts DEF NextRecord

(* The steps of one read leave the pass it belongs to as it was *)
LEMMA ReadingCounts ==
  ASSUME TInv, NEW t \in Threads, CountedBy(t), Records' \subseteq Records,
         th[t].pc \in {"probe"} \cup Deriving,
         NEW x, NEW st, st # "none",
         \/ Settle(t, st)
         \/ Go(t, x) /\ x \in Deriving
  PROVE  CountedBy(t)'
<1>1. th \in [Threads -> Thread] /\ th[t] \in Thread
  BY DEF TInv, TypeOK
<1>2. /\ th'[t].pc \in {"settled"} \cup Deriving
      /\ th'[t].pc = "settled" => th'[t].st # "none"
      /\ th'[t].cur = th[t].cur /\ th'[t].todo = th[t].todo
      /\ th'[t].sec = th[t].sec /\ th'[t].seen = th[t].seen
  <2>1. CASE Settle(t, st)
    BY <1>1, <2>1, SettlesOne DEF Thread
  <2>2. CASE Go(t, x) /\ x \in Deriving
    BY <1>1, <2>2, GoesOne DEF Thread, Deriving
  <2> QED
    BY <2>1, <2>2
<1>3. Seen(t)' = Seen(t)
  BY <1>2 DEF Seen
<1> QED
  BY <1>2, <1>3 DEF CountedBy, Deriving

LEMMA ProbeCounts ==
  ASSUME TInv, NEW t \in Threads, CountedBy(t), Probe(t)
  PROVE  /\ CountedBy(t)'
         /\ th'[t].pc \in Deriving => disk'[th'[t].cur].stamp = "none"
<1>1. th \in [Threads -> Thread] /\ th[t] \in Thread
  BY DEF TInv, TypeOK
<1>2. \/ Settle(t, disk[th[t].cur].stamp) /\ disk[th[t].cur].stamp # "none"
      \/ Settle(t, "running")
      \/ (Go(t, "read") \/ Go(t, "overrun")) /\ disk[th[t].cur].stamp = "none"
  BY DEF Probe, Stamped
<1>3. th[t].pc = "probe" /\ disk' = disk
  BY DEF Probe
<1>4. CountedBy(t)'
  BY <1>2, <1>3, ReadingCounts, SameKept DEF Deriving
<1>5. th'[t].pc \in Deriving => disk'[th'[t].cur].stamp = "none"
  BY <1>1, <1>2, <1>3, SettlesOne, GoesOne DEF Deriving, Thread
<1> QED
  BY <1>4, <1>5

LEMMA ReadCounts ==
  ASSUME TInv, NEW t \in Threads, CountedBy(t), Read(t), Records' \subseteq Records
  PROVE  CountedBy(t)' /\ th'[t].pc \notin Deriving
<1>1. PICK st : Settle(t, st) /\ st # "none"
  BY DEF Read
<1>2. th[t].pc \in Deriving
  BY DEF Read, Deriving
<1>3. th'[t].pc = "settled"
  BY <1>1, SettlesOne DEF TInv, TypeOK, Thread
<1> QED
  BY <1>1, <1>2, <1>3, ReadingCounts DEF Deriving

LEMMA GraceEndsCounts ==
  ASSUME TInv, NEW t \in Threads, CountedBy(t), GraceEnds(t),
         th[t].pc \in Deriving => disk[th[t].cur].stamp = "none"
  PROVE  /\ CountedBy(t)'
         /\ th'[t].pc \in Deriving => disk'[th'[t].cur].stamp = "none"
<1>1. th \in [Threads -> Thread] /\ th[t] \in Thread /\ disk' = disk
  BY DEF TInv, TypeOK, GraceEnds
<1>2. CASE th[t].pc = "overrun" /\ Go(t, "overread")
  <2>1. CountedBy(t)'
    BY <1>1, <1>2, ReadingCounts, SameKept DEF Deriving
  <2>2. th'[t].cur = th[t].cur
    BY <1>1, <1>2, GoesOne DEF Thread
  <2> QED
    BY <1>1, <1>2, <2>1, <2>2 DEF Deriving
<1>3. CASE Go(t, "finish") \/ Go(t, "drop")
  BY <1>3, GoesOne DEF CountedBy, Deriving
<1> QED
  BY <1>2, <1>3 DEF GraceEnds

LEMMA SettledCounts ==
  ASSUME TInv, NEW t \in Threads, CountedBy(t), Records' \subseteq Records,
         DropExpired(t) \/ KeepReaped(t) \/ Collect(t) \/ Unserved(t)
  PROVE  CountedBy(t)' /\ th'[t].pc \notin Deriving
<1>1. th \in [Threads -> Thread] /\ th[t] \in Thread
  BY DEF TInv, TypeOK
<1>2. CASE th[t].sec = "reap" /\ Passed(t)
  <2>1. th'[t].pc = "next" /\ th'[t].sec = "reap"
    BY <1>1, <1>2 DEF Passed, Move, Thread
  <2> QED
    BY <2>1 DEF CountedBy, Deriving
<1>3. CASE Collect(t) /\ ~Return(t)
  <2>1. /\ th[t].pc = "settled" /\ th[t].sec = "collect" /\ th[t].st \in Readings
        /\ Move(t, [th[t] EXCEPT !.pc = "next", !.cur = NoJob, !.st = "none",
                                 !.seen[th[t].cur] = th[t].st])
    BY <1>3 DEF Collect, Found
  <2>2. /\ th'[t].pc = "next" /\ th'[t].sec = "collect" /\ th'[t].todo = th[t].todo
        /\ th'[t].seen = [th[t].seen EXCEPT ![th[t].cur] = th[t].st]
    BY <1>1, <2>1 DEF Move, Thread
  <2>3. th[t].cur \in Jobs /\ th[t].seen \in [Jobs -> Readings] /\ th[t].st # "none"
    BY <1>1, <2>1 DEF TInv, Cursor, AtRecord, Thread, CountedBy
  <2>4. Seen(t) \cup {th[t].cur} \subseteq Seen(t)'
    BY <2>2, <2>3 DEF Seen
  <2>5. Records \subseteq Seen(t) \cup th[t].todo \cup {th[t].cur}
    BY <2>1 DEF CountedBy
  <2> QED
    BY <2>2, <2>4, <2>5 DEF CountedBy, Deriving
<1> QED
  BY <1>2, <1>3, ReleasedCounts
  DEF DropExpired, KeepReaped, Found, Unserved

LEMMA ReportedCounts ==
  ASSUME TInv, NEW t \in Threads, CountedBy(t),
         \/ LookStatus(t) \/ LookResult(t) \/ MarkDelivered(t) \/ Discard(t)
         \/ ProveGone(t) \/ DiscardFailed(t) \/ Signal(t) \/ FinishCancel(t)
  PROVE  CountedBy(t)' /\ th'[t].pc \notin Deriving
<1>1. th \in [Threads -> Thread] /\ th[t] \in Thread
  BY DEF TInv, TypeOK
<1>2. CASE Go(t, "signal") \/ Go(t, "proof") \/ Go(t, "finish") \/ Go(t, "grace")
  BY <1>2, GoesOne DEF CountedBy, Deriving
<1>3. CASE LookResult(t)
  <2> DEFINE r(sec, want) == [th[t] EXCEPT !.pc = "enter", !.sec = sec,
                                           !.want = want, !.st = "none"]
  <2>1. ASSUME NEW sec \in {"mark", "discard"}, NEW want, Move(t, r(sec, want))
        PROVE  th'[t].pc = "enter" /\ th'[t].sec # "collect"
    BY <1>1, <2>1 DEF Move, Thread
  <2> HIDE DEF r
  <2>2. Return(t) \/ Move(t, r("mark", "none")) \/ Move(t, r("discard", th[t].st))
    BY <1>3, SMTT(60) DEF LookResult, r
  <2>3. Return(t) \/ (th'[t].pc = "enter" /\ th'[t].sec # "collect")
    BY <2>1, <2>2
  <2> QED
    BY <2>3, ReleasedCounts DEF CountedBy, Deriving
<1>4. CASE Move(t, [th[t] EXCEPT !.pc = "probe", !.sec = "recheck", !.st = "none"])
  <2>1. th'[t].pc = "probe" /\ th'[t].sec = "recheck"
    BY <1>1, <1>4 DEF Move, Thread
  <2> QED
    BY <2>1 DEF CountedBy, Deriving
<1> QED
  BY <1>2, <1>3, <1>4, ReleasedCounts
  DEF LookStatus, MarkDelivered, Discard, ProveGone, DiscardFailed, Signal, FinishCancel

LEMMA EvictCounts ==
  ASSUME TInv, NEW t \in Threads, CountedBy(t), Evict(t)
  PROVE  CountedBy(t)' /\ th'[t].pc \notin Deriving
<1>1. /\ th \in [Threads -> Thread] /\ th[t] \in Thread /\ disk \in [Jobs -> Dir]
      /\ Seen(t) \subseteq Jobs /\ Records \subseteq Seen(t)
  BY DEF TInv, TypeOK, Seen, Evict, CountedBy
<1>2. CASE /\ Room(Seen(t)) /\ UNCHANGED disk
           /\ Move(t, [th[t] EXCEPT !.pc = "spawn", !.cur = NoJob, !.seen = Unseen])
  <2>1. th'[t].pc = "spawn" /\ Records' = Records
    BY <1>1, <1>2 DEF Move, Thread, Records
  <2>2. Cardinality(Records) < MaxCount
    BY <1>1, <1>2, RecordsFinite, SpaceAssumption DEF Room
  <2> QED
    BY <2>1, <2>2 DEF CountedBy, Deriving
<1>3. ASSUME NEW j \in Jobs, NEW d \in Rmtree(j), disk' = [disk EXCEPT ![j] = d],
             Move(t, [th[t] EXCEPT !.cur = j,
                        !.seen[j] = IF d.at = "none" THEN "none" ELSE @])
      PROVE  CountedBy(t)' /\ th'[t].pc \notin Deriving
  <2>1. /\ th'[t].pc = "evict"
        /\ th'[t].seen = [th[t].seen EXCEPT ![j] = IF d.at = "none" THEN "none" ELSE @]
    BY <1>1, <1>3 DEF Move, Thread, Evict
  <2>2. /\ \A k \in Jobs \ {j} : k \in Seen(t)' <=> k \in Seen(t)
        /\ d.at = "record" /\ j \in Seen(t) => j \in Seen(t)'
    BY <1>1, <2>1 DEF Seen, Thread
  <2>3. Records' \subseteq Seen(t)'
    BY <1>1, <1>3, <2>2, RmtreeLemma DEF Records
  <2> QED
    BY <2>1, <2>3 DEF CountedBy, Deriving
<1> QED
  BY <1>2, <1>3, ReleasedCounts DEF Evict, Seen

LEMMA SpawnCounts ==
  ASSUME TInv, NEW t \in Threads, CountedBy(t),
         Spawn(t) => Records' \subseteq Records,
         Spawn(t) \/ Publish(t) \/ DropUnrecorded(t)
  PROVE  CountedBy(t)' /\ th'[t].pc \notin Deriving
<1>1. th \in [Threads -> Thread] /\ th[t] \in Thread
  BY DEF TInv, TypeOK
<1>2. CASE Go(t, "abort")
  BY <1>2, GoesOne DEF CountedBy, Deriving
<1>3. ASSUME NEW j, Spawn(t), Move(t, [th[t] EXCEPT !.pc = "publish", !.cur = j])
      PROVE  CountedBy(t)' /\ th'[t].pc \notin Deriving
  <2>1. th'[t].pc = "publish" /\ th[t].pc = "spawn"
    BY <1>1, <1>3 DEF Move, Thread, Spawn
  <2>2. Cardinality(Records) < MaxCount /\ Records \subseteq Jobs
    BY <2>1 DEF CountedBy, Records
  <2>3. Cardinality(Records') <= Cardinality(Records) /\ Cardinality(Records') \in Nat
    BY <1>3, <2>2, RecordsFinite
  <2>4. Cardinality(Records') < MaxCount
    BY <2>2, <2>3, RecordsFinite, SpaceAssumption
  <2> QED
    BY <2>1, <2>4 DEF CountedBy, Deriving
<1> QED
  BY <1>2, <1>3, ReleasedCounts DEF Spawn, Publish, DropUnrecorded

(* Publishing adds one record at most, and the start had room for it *)
LEMMA PublishHolds ==
  ASSUME TInv, NEW t \in Threads, CountedBy(t), CapHolds, Publish(t)
  PROVE  CapHolds'
<1>1. th[t].cur \in Jobs /\ disk \in [Jobs -> Dir]
  BY DEF Publish, TInv, TypeOK, Cursor, AtRecord
<1>2. Records' \subseteq Records \cup {th[t].cur}
  BY <1>1 DEF Publish, Records, Dir
<1>3. Cardinality(Records) < MaxCount
  BY DEF Publish, CountedBy
<1>4. /\ IsFiniteSet(Records) /\ Cardinality(Records) \in Nat
      /\ Records \cup {th[t].cur} \subseteq Jobs
  BY <1>1, RecordsFinite DEF Records
<1>5. Cardinality(Records \cup {th[t].cur})
        = IF th[t].cur \in Records THEN Cardinality(Records) ELSE Cardinality(Records) + 1
  BY <1>4, FS_AddElement, Zenon
<1>6. /\ Cardinality(Records') <= Cardinality(Records \cup {th[t].cur})
      /\ Cardinality(Records') \in Nat /\ Cardinality(Records \cup {th[t].cur}) \in Nat
  BY <1>2, <1>4, RecordsFinite
<1>7. Cardinality(Records') <= MaxCount
  BY <1>3, <1>4, <1>5, <1>6, SpaceAssumption
<1> QED
  BY <1>7 DEF CapHolds

LEMMA ShrinkHolds ==
  ASSUME CapHolds, Records' \subseteq Records
  PROVE  CapHolds'
<1>1. Records \subseteq Jobs
  BY DEF Records
<1>2. /\ Cardinality(Records') <= Cardinality(Records)
      /\ Cardinality(Records') \in Nat /\ Cardinality(Records) \in Nat
  BY <1>1, RecordsFinite
<1> QED
  BY <1>2, SpaceAssumption DEF CapHolds

LEMMA CallStepCounts ==
  ASSUME LInv, NEW t \in Threads, CallStep(t)
  PROVE  /\ CountedBy(t)' /\ CapHolds'
         /\ th'[t].pc \in Deriving => disk'[th'[t].cur].stamp = "none"
<1>1. /\ TInv /\ CountedBy(t) /\ CapHolds
      /\ th[t].pc \in Deriving => disk[th[t].cur].stamp = "none"
  BY DEF LInv, Counted, Derived
<1>2. Publish(t) \/ Records' \subseteq Records
  BY CallStepKept DEF LInv
<1>3. CapHolds'
  BY <1>1, <1>2, PublishHolds, ShrinkHolds
<1>4. CASE Publish(t)
  <2>1. ~Spawn(t)
    BY <1>4 DEF Publish, Spawn
  <2> QED
    BY <1>1, <1>3, <1>4, <2>1, SpawnCounts
<1>5. CASE Records' \subseteq Records
  BY <1>1, <1>3, <1>5, EnterCounts, NextRecordCounts, ProbeCounts, ReadCounts,
     GraceEndsCounts, SettledCounts, ReportedCounts, EvictCounts, SpawnCounts
  DEF CallStep
<1> QED
  BY <1>2, <1>4, <1>5

(* A call that holds the lock is not disturbed by a step of another *)
LEMMA OthersCount ==
  ASSUME LInv, NEW t \in Threads, Behaves(t), NEW u \in Threads \ {t}
  PROVE  /\ CountedBy(u)'
         /\ th'[u].pc \in Deriving => disk'[th'[u].cur].stamp = "none"
<1>1. th'[u] = th[u] /\ CountedBy(u)
  BY DEF Behaves, LInv, Counted
<1>2. CASE th[u].pc \in InSection
  <2>1. disk' = disk
    BY <1>2, ExclusiveStep DEF LInv
  <2>2. Records' = Records /\ Seen(u)' = Seen(u)
    BY <1>1, <2>1 DEF Records, Seen
  <2> QED
    BY <1>1, <2>1, <2>2 DEF CountedBy, LInv, Derived
<1>3. CASE th[u].pc \notin InSection
  BY <1>1, <1>3 DEF CountedBy, InSection, Deriving
<1> QED
  BY <1>2, <1>3

LEMMA OutsideHolds ==
  ASSUME LInv, Outside
  PROVE  Exclusive' /\ Derived' /\ Counted' /\ CapHolds'
<1>1. Records' = Records /\ UNCHANGED <<th, recLock>>
  BY DEF Outside, Records
<1>2. \A t \in Threads : Seen(t)' = Seen(t)
  BY <1>1 DEF Seen
<1>3. Exclusive'
  BY <1>1 DEF LInv, Exclusive
<1>4. \A t \in Threads : th[t].pc \in Deriving => th[t].cur \in Jobs
  BY DEF LInv, TInv, Cursor, AtRecord, Deriving
<1>5. Derived'
  BY <1>1, <1>4 DEF LInv, Derived, Outside
<1>6. Counted'
  BY <1>1, <1>2 DEF LInv, Counted, CountedBy
<1>7. CapHolds'
  BY <1>1 DEF LInv, CapHolds
<1> QED
  BY <1>3, <1>5, <1>6, <1>7

LEMMA CrashHolds ==
  ASSUME LInv, NEW s \in Servers, Crash(s)
  PROVE  Exclusive' /\ Derived' /\ Counted' /\ CapHolds'
<1>1. /\ Records' = Records /\ disk' = disk
      /\ th' = [t \in Threads |-> IF Home[t] = s THEN Idle ELSE th[t]]
      /\ recLock' = IF recLock \in {t \in Threads : Home[t] = s} THEN NoThread ELSE recLock
  BY DEF Crash, Records
<1>2. Idle.pc = "idle"
  BY DEF Idle
<1>3. \A t \in Threads : th'[t].pc = "idle" \/ (th'[t] = th[t] /\ Home[t] # s)
  BY <1>1, <1>2
<1>4. Exclusive'
  BY <1>1, <1>3 DEF LInv, Exclusive, InSection
<1>5. Derived'
  BY <1>1, <1>3 DEF LInv, Derived, Deriving
<1>6. ASSUME NEW t \in Threads
      PROVE  CountedBy(t)'
  <2>1. CASE th'[t].pc = "idle"
    BY <2>1 DEF CountedBy, Deriving
  <2>2. CASE th'[t] = th[t]
    <3>1. Seen(t)' = Seen(t) /\ CountedBy(t)
      BY <2>2 DEF Seen, LInv, Counted
    <3> QED
      BY <1>1, <2>2, <3>1 DEF CountedBy
  <2> QED
    BY <1>3, <2>1, <2>2
<1>7. CapHolds'
  BY <1>1 DEF LInv, CapHolds
<1> QED
  BY <1>4, <1>5, <1>6, <1>7 DEF Counted

LEMMA LockInit == Init => LInv
<1> SUFFICES ASSUME Init
             PROVE  LInv
  OBVIOUS
<1>1. \A t \in Threads : th[t].pc = "idle"
  BY DEF Init, Idle
<1>2. Exclusive /\ Derived /\ Counted
  BY <1>1 DEF Exclusive, InSection, Derived, Deriving, Counted, CountedBy
<1>3. Records = {}
  BY AbsentLemma DEF Init, Records
<1>4. CapHolds
  BY <1>3, FS_EmptySet, SpaceAssumption DEF CapHolds
<1> QED
  BY <1>2, <1>4, InitType DEF LInv

LEMMA LockNext ==
  ASSUME LInv, [Next]_vars
  PROVE  LInv'
<1>1. TInv /\ TInv'
  BY NextType DEF LInv
<1>2. ASSUME NEW t \in Threads, Behaves(t), CountedBy(t)',
             th'[t].pc \in Deriving => disk'[th'[t].cur].stamp = "none"
      PROVE  Exclusive' /\ Derived' /\ Counted'
  <2>1. Exclusive'
    BY <1>1, <1>2, ExclusiveStep DEF LInv
  <2>2. Derived' /\ Counted'
    BY <1>2, OthersCount DEF Derived, Counted
  <2> QED
    BY <2>1, <2>2
<1>3. ASSUME NEW t \in Threads, CallStep(t)
      PROVE  Exclusive' /\ Derived' /\ Counted' /\ CapHolds'
  BY <1>1, <1>2, <1>3, CallStepBehaves, CallStepCounts
<1>4. ASSUME NEW t \in Threads, NEW call \in Calls, NEW j \in Jobs \cup {NoJob},
             Begin(t, call, j)
      PROVE  Exclusive' /\ Derived' /\ Counted' /\ CapHolds'
  <2>1. /\ Behaves(t) /\ Records' = Records
        /\ th'[t].pc = "enter" /\ th'[t].sec # "collect"
    BY <1>1, <1>4, BeginBehaves DEF Records
  <2>2. CountedBy(t)' /\ th'[t].pc \notin Deriving
    BY <2>1 DEF CountedBy, Deriving
  <2> QED
    BY <1>2, <2>1, <2>2, ShrinkHolds DEF LInv
<1>5. ASSUME NEW j \in Jobs, WorkerStep(j) \/ WorldStep(j)
      PROVE  Exclusive' /\ Derived' /\ Counted' /\ CapHolds'
  BY <1>1, <1>5, WorkerStepOutside, WorldStepOutside, OutsideHolds
<1>6. CASE UNCHANGED vars
  <2>1. Outside
    BY <1>6 DEF Outside, vars
  <2> QED
    BY <1>1, <2>1, OutsideHolds DEF LInv
<1> QED
  BY <1>1, <1>3, <1>4, <1>5, <1>6, CrashHolds DEF LInv, Next

-----------------------------------------------------------------------------
(* The theorems.                                                           *)

LEMMA LockInvariant == Spec => []LInv
  BY LockInit, LockNext, PTL DEF Spec

(* The sections of two calls never overlap, in one server or in two: a     *)
(* call that is inside a section is the one that holds the record lock, so *)
(* no second call is (_LOCK and the flock of _record_lock, #237).          *)
OneSection == \A t, u \in Threads :
                th[t].pc \in InSection /\ th[u].pc \in InSection => t = u

(* The record lock excludes: from Exclusive, which every step keeps *)
THEOREM SectionsExclude == Spec => []OneSection
<1>1. LInv => OneSection
  BY DEF LInv, Exclusive, OneSection
<1> QED
  BY <1>1, LockInvariant, PTL

(* Whatever deletes fail, whoever crashes and however the calls of any     *)
(* number of servers interleave, a start never makes one record too many.  *)
THEOREM CapIsKept == Spec => []CapHolds
<1>1. LInv => CapHolds
  BY DEF LInv
<1> QED
  BY <1>1, LockInvariant, PTL

(* What any step may do to a directory, and what a stamp of done implies *)
LEMMA NextKept ==
  ASSUME LInv, [Next]_vars
  PROVE  DiskKept
<1>1. CASE Outside
  BY <1>1 DEF Outside, DiskKept, DirKept
<1>2. CASE UNCHANGED disk
  BY <1>2, SameKept
<1>3. TInv /\ Derived
  BY DEF LInv
<1>4. CASE \E t \in Threads, call \in Calls, j \in Jobs \cup {NoJob} : Begin(t, call, j)
  BY <1>2, <1>4 DEF Begin, store
<1>5. CASE \E s \in Servers : Crash(s)
  BY <1>2, <1>5 DEF Crash
<1>6. CASE \E j \in Jobs : WorkerStep(j) \/ WorldStep(j)
  BY <1>1, <1>3, <1>6, WorkerStepOutside, WorldStepOutside
<1>7. CASE \E t \in Threads : CallStep(t)
  BY <1>3, <1>7, CallStepKept
<1> QED
  BY <1>2, <1>4, <1>5, <1>6, <1>7 DEF Next, vars

(* A stamp is written once: every state a call derives is written in the   *)
(* section that found the record without one, and cancel, which stops the  *)
(* worker between two sections, looks again before it writes.              *)
THEOREM StampsStand == Spec => StampIsForever
<1>1. ASSUME LInv, [Next]_vars, NEW j \in Jobs
      PROVE  disk[j].stamp # "none" =>
               disk'[j].stamp = disk[j].stamp \/ disk'[j].at # "record"
  BY <1>1, NextKept DEF DiskKept, DirKept
<1>2. LInv /\ [Next]_vars =>
        [\A j \in Jobs : disk[j].stamp # "none" =>
           disk'[j].stamp = disk[j].stamp \/ disk'[j].at # "record"]_vars
  BY <1>1
<1> QED
  BY <1>2, LockInvariant, PTL DEF Spec, StampIsForever

(* A done record has its result, however many deletes of it failed, as     *)
(* long as their restores succeed.                                         *)
THEOREM DoneStays == Spec => []DoneKeepsItsResult
<1> DEFINE DInv == LInv /\ DoneHasResult
<1>1. Init => DInv
  <2>1. Init => DoneHasResult
    BY AbsentLemma DEF Init, DoneHasResult
  <2> QED
    BY <2>1, LockInit
<1>2. DInv /\ [Next]_vars => DInv'
  <2> SUFFICES ASSUME LInv, DoneHasResult, [Next]_vars
               PROVE  LInv' /\ DoneHasResult'
    OBVIOUS
  <2>1. LInv'
    BY LockNext
  <2>2. DoneHasResult'
    BY NextKept DEF DoneHasResult, DiskKept, DirKept
  <2> QED
    BY <2>1, <2>2
<1>3. DInv => DoneKeepsItsResult
  BY DEF DoneHasResult, DoneKeepsItsResult, Records
<1> QED
  BY <1>1, <1>2, <1>3, PTL DEF Spec

-----------------------------------------------------------------------------
(* Whom a call may signal.  A worker that ended holds no lock, and until a *)
(* start has returned its worker is the child of the server that runs it.  *)

LocksLive == \A j \in Jobs : worker[j].lock => Alive(j)
Parented == \A t \in Threads :
              th[t].pc \in {"publish", "abort"}
                => worker[th[t].cur].phase # "none" /\ Owned(t, th[t].cur)
SInv == LInv /\ LocksLive /\ Parented /\ UnownedPidUntouched

(* What a step does to a worker: one that was born keeps its parent, and   *)
(* only a worker that lives takes a lock.                                  *)
WorkersKept ==
  \A j \in Jobs :
    /\ worker[j].phase # "none"
         => worker'[j].phase # "none" /\ worker'[j].parent = worker[j].parent
    /\ (worker[j].lock => Alive(j)) => (worker'[j].lock => Alive(j)')

LEMMA HandledKept ==
  ASSUME TInv, NEW t \in Threads, NEW j \in Jobs,
         \/ UNCHANGED worker
         \/ worker' = Reaped(t, j)
         \/ worker' = Killed(t, j)
         \/ \E left : worker' = [worker EXCEPT ![j].tree = left]
  PROVE  WorkersKept
<1>1. worker \in [Jobs -> Proc] /\ worker[j] \in Proc
  BY DEF TInv, TypeOK
<1>2. CASE UNCHANGED worker
  BY <1>2 DEF WorkersKept, Alive
<1>3. CASE worker' = Reaped(t, j)
  BY <1>1, <1>3 DEF WorkersKept, Reaped, Alive, Proc
<1>4. CASE worker' = Killed(t, j)
  BY <1>1, <1>4 DEF WorkersKept, Killed, Exited, Alive, Proc
<1>5. CASE \E left : worker' = [worker EXCEPT ![j].tree = left]
  BY <1>1, <1>5 DEF WorkersKept, Alive, Proc
<1> QED
  BY <1>2, <1>3, <1>4, <1>5

LEMMA CallStepWorkers ==
  ASSUME TInv, NEW t \in Threads, CallStep(t)
  PROVE  WorkersKept
<1> DEFINE j == th[t].cur
           Handled == \/ UNCHANGED worker
                      \/ worker' = Reaped(t, j)
                      \/ worker' = Killed(t, j)
                      \/ \E left : worker' = [worker EXCEPT ![j].tree = left]
<1>1. th[t].pc \in AtRecord => j \in Jobs
  BY DEF TInv, Cursor
<1>2. CASE UNCHANGED worker
  BY <1>2 DEF WorkersKept, Alive
<1>3. CASE Probe(t) \/ GraceEnds(t) \/ ProveGone(t) \/ Signal(t)
  <2>1. j \in Jobs /\ Handled
    BY <1>1, <1>3 DEF Probe, GraceEnds, ProveGone, Signal, AtRecord
  <2> QED
    BY <2>1, HandledKept
<1>4. CASE Read(t) \/ FinishCancel(t) \/ DropUnrecorded(t)
  <2>1. j \in Jobs /\ Handled
    BY <1>1, <1>4 DEF Read, FinishCancel, DropUnrecorded, FinalizeCleanup, store, AtRecord
  <2> QED
    BY <2>1, HandledKept
<1>5. ASSUME NEW k \in Unstarted,
             worker' = [worker EXCEPT ![k].phase = "boot", ![k].parent = Home[t]]
      PROVE  WorkersKept
  BY <1>5 DEF WorkersKept, Unstarted, Alive, TInv, TypeOK, Proc
<1> QED
  BY <1>2, <1>3, <1>4, <1>5
  DEF CallStep, Enter, NextRecord, DropExpired, KeepReaped, Collect, Unserved, LookStatus,
      LookResult, MarkDelivered, Discard, DiscardFailed, Evict, Spawn, Publish, store

LEMMA WorkerStepWorkers ==
  ASSUME TInv, NEW j \in Jobs, WorkerStep(j) \/ WorldStep(j)
  PROVE  WorkersKept
<1>1. worker \in [Jobs -> Proc] /\ worker[j] \in Proc
  BY DEF TInv, TypeOK
<1>2. CASE UNCHANGED worker
  BY <1>2 DEF WorkersKept, Alive
<1>3. CASE OpenLockFile(j) \/ RunUnlocked(j) \/ WriteResult(j) \/ PopenReaps(j)
           \/ PidReused(j) \/ StrangerExits(j)
  BY <1>1, <1>3 DEF OpenLockFile, RunUnlocked, WriteResult, PopenReaps, PidReused,
                    StrangerExits, Phase, WorkersKept, Alive, Proc
<1>4. CASE TakeLock(j)
  BY <1>1, <1>4 DEF TakeLock, WorkersKept, Alive, Proc
<1>5. CASE MakeTree(j) \/ DeclareTree(j) \/ RemoveTree(j)
  BY <1>1, <1>5 DEF MakeTree, DeclareTree, RemoveTree, WorkersKept, Alive, Proc
<1>6. CASE WorkerExits(j)
  BY <1>1, <1>6 DEF WorkerExits, Exited, WorkersKept, Alive, Proc
<1> QED
  BY <1>2, <1>3, <1>4, <1>5, <1>6
  DEF WorkerStep, WorldStep, DeadlinePasses, TtlPasses, ReadErrorStarts, ReadErrorEnds, store

(* Only a worker that is seen running is signalled, and a stranger is seen *)
(* running by its own server at most.                                      *)
LEMMA CallStepSignals ==
  ASSUME SInv, NEW t \in Threads, CallStep(t)
  PROVE  UnownedPidUntouched'
<1> DEFINE j == th[t].cur
<1>1. CASE UNCHANGED hurt
  BY <1>1 DEF SInv, UnownedPidUntouched
<1>2. ASSUME Signalled(t, j), JobRunning(t, j), j \in Jobs
      PROVE  UnownedPidUntouched'
  <2>1. worker[j].phase = "stranger" => Owned(t, j)
    BY <1>2 DEF SInv, LocksLive, JobRunning, Held, Alive
  <2> QED
    BY <1>2, <2>1 DEF Signalled, SInv, UnownedPidUntouched
<1>3. ASSUME Signalled(t, j), Owned(t, j)
      PROVE  UnownedPidUntouched'
  BY <1>3 DEF Signalled, SInv, UnownedPidUntouched
<1>4. th[t].pc \in AtRecord => j \in Jobs
  BY DEF SInv, LInv, TInv, Cursor
<1>5. CASE Probe(t) \/ Signal(t)
  BY <1>1, <1>2, <1>4, <1>5 DEF Probe, Signal, AtRecord
<1>6. CASE GraceEnds(t)
  <2>1. th[t].pc = "abort" => Owned(t, j)
    BY DEF SInv, Parented
  <2>2. th[t].pc # "abort" /\ Signalled(t, j) => UNCHANGED hurt \/ JobRunning(t, j)
    BY <1>6 DEF GraceEnds
  <2>3. UNCHANGED hurt \/ Signalled(t, j)
    BY <1>6 DEF GraceEnds
  <2> QED
    BY <1>1, <1>2, <1>3, <1>4, <1>6, <2>1, <2>2, <2>3 DEF GraceEnds, AtRecord
<1> QED
  BY <1>1, <1>5, <1>6
  DEF CallStep, Enter, NextRecord, Read, DropExpired, KeepReaped, Collect, Unserved,
      LookStatus, LookResult, MarkDelivered, Discard, ProveGone, DiscardFailed,
      FinishCancel, Evict, Spawn, Publish, DropUnrecorded, history

(* Only a start leads to the steps of one that has not returned *)
LEMMA NotStarting ==
  ASSUME TInv, NEW t \in Threads, CallStep(t), ~Spawn(t), ~Publish(t)
  PROVE  th'[t].pc \notin {"publish", "abort"}
<1>1. th \in [Threads -> Thread] /\ th[t] \in Thread
  BY DEF TInv, TypeOK
<1> DEFINE Elsewhere == th'[t].pc \notin {"publish", "abort"}
<1>2. CASE Return(t) \/ SectionDone(t)
  BY <1>2, Released
<1>3. CASE Passed(t)
  BY <1>1, <1>3 DEF Passed, Move, Thread
<1>4. ASSUME NEW st, Settle(t, st)
      PROVE  Elsewhere
  BY <1>4, SettlesOne
<1>5. ASSUME NEW x \in Steps \ {"publish", "abort"}, Go(t, x)
      PROVE  Elsewhere
  BY <1>5, GoesOne
<1>6. CASE Enter(t)
  <2>1. CASE Move(t, [th[t] EXCEPT !.pc = "next", !.todo = Records])
    BY <1>1, <2>1 DEF Move, Thread
  <2> QED
    BY <1>2, <1>5, <1>6, <2>1 DEF Enter, Steps
<1>7. CASE NextRecord(t)
  <2>1. ASSUME NEW j, Move(t, [th[t] EXCEPT !.pc = "probe", !.cur = j, !.todo = @ \ {j}])
        PROVE  Elsewhere
    BY <1>1, <2>1 DEF Move, Thread
  <2>2. CASE Move(t, [th[t] EXCEPT !.sec = "collect", !.todo = Records])
    BY <1>1, <1>7, <2>2 DEF NextRecord, Move, Thread
  <2> QED
    BY <1>2, <1>5, <1>7, <2>1, <2>2 DEF NextRecord, Steps
<1>8. CASE Probe(t) \/ Read(t)
  BY <1>4, <1>5, <1>8 DEF Probe, Read, Steps
<1>9. CASE GraceEnds(t) \/ Signal(t) \/ LookStatus(t) \/ Discard(t)
  BY <1>2, <1>5, <1>9 DEF GraceEnds, Signal, LookStatus, Discard, Steps
<1>10. CASE Collect(t)
  <2>1. CASE Move(t, [th[t] EXCEPT !.pc = "next", !.cur = NoJob, !.st = "none",
                                   !.seen[th[t].cur] = th[t].st])
    BY <1>1, <2>1 DEF Move, Thread
  <2> QED
    BY <1>2, <1>10, <2>1 DEF Collect
<1>11. CASE ProveGone(t)
  <2>1. CASE Move(t, [th[t] EXCEPT !.pc = "probe", !.sec = "recheck", !.st = "none"])
    BY <1>1, <2>1 DEF Move, Thread
  <2> QED
    BY <1>2, <1>11, <2>1 DEF ProveGone
<1>12. CASE LookResult(t)
  <2> DEFINE r(sec, want) == [th[t] EXCEPT !.pc = "enter", !.sec = sec,
                                           !.want = want, !.st = "none"]
  <2>1. ASSUME NEW sec, NEW want, Move(t, r(sec, want))
        PROVE  Elsewhere
    BY <1>1, <2>1 DEF Move, Thread
  <2> HIDE DEF r
  <2>2. Return(t) \/ Move(t, r("mark", "none")) \/ Move(t, r("discard", th[t].st))
    BY <1>12, SMTT(60) DEF LookResult, r
  <2> QED
    BY <1>2, <2>1, <2>2
<1>13. CASE Evict(t)
  <2>1. CASE Move(t, [th[t] EXCEPT !.pc = "spawn", !.cur = NoJob, !.seen = Unseen])
    BY <1>1, <2>1 DEF Move, Thread
  <2>2. ASSUME NEW j, NEW v, Move(t, [th[t] EXCEPT !.cur = j, !.seen[j] = v])
        PROVE  Elsewhere
    BY <1>1, <1>13, <2>2 DEF Evict, Move, Thread
  <2>3. \/ Return(t)
        \/ Move(t, [th[t] EXCEPT !.pc = "spawn", !.cur = NoJob, !.seen = Unseen])
        \/ \E j, v : Move(t, [th[t] EXCEPT !.cur = j, !.seen[j] = v])
    BY <1>13 DEF Evict
  <2> QED
    BY <1>2, <2>1, <2>2, <2>3
<1>14. CASE DropExpired(t) \/ KeepReaped(t) \/ Unserved(t) \/ MarkDelivered(t)
            \/ DiscardFailed(t) \/ FinishCancel(t) \/ DropUnrecorded(t)
  BY <1>2, <1>3, <1>14 DEF DropExpired, KeepReaped, Unserved, MarkDelivered,
                           DiscardFailed, FinishCancel, DropUnrecorded
<1> QED
  BY <1>6, <1>7, <1>8, <1>9, <1>10, <1>11, <1>12, <1>13, <1>14 DEF CallStep

LEMMA CallStepParented ==
  ASSUME SInv, NEW t \in Threads, CallStep(t)
  PROVE  Parented'
<1>1. TInv /\ Behaves(t) /\ WorkersKept
  BY CallStepBehaves, CallStepWorkers DEF SInv, LInv
<1>2. ASSUME NEW u \in Threads, th'[u] = th[u], th[u].pc \in {"publish", "abort"}
      PROVE  worker'[th'[u].cur].phase # "none" /\ Owned(u, th[u].cur)'
  <2>1. th[u].cur \in Jobs
    BY <1>1, <1>2 DEF TInv, Cursor, AtRecord
  <2> QED
    BY <1>1, <1>2, <2>1 DEF SInv, Parented, WorkersKept, Owned
<1>3. ASSUME th'[t].pc \in {"publish", "abort"}
      PROVE  worker'[th'[t].cur].phase # "none" /\ worker'[th'[t].cur].parent = Home[t]
  <2>1. th \in [Threads -> Thread] /\ th[t] \in Thread /\ worker \in [Jobs -> Proc]
    BY <1>1 DEF TInv, TypeOK
  <2>2. CASE Publish(t)
    <3>1. Go(t, "abort") /\ UNCHANGED worker /\ th[t].pc = "publish"
      BY <1>1, <1>3, <2>2, Released DEF Publish
    <3> QED
      BY <1>1, <3>1, GoesOne DEF SInv, Parented, Owned
  <2>3. CASE Spawn(t)
    <3>1. ~Return(t)
      BY <1>1, <1>3, Released
    <3>2. PICK j \in Unstarted :
            /\ worker' = [worker EXCEPT ![j].phase = "boot", ![j].parent = Home[t]]
            /\ Move(t, [th[t] EXCEPT !.pc = "publish", !.cur = j])
      BY <2>3, <3>1 DEF Spawn
    <3>3. th'[t].cur = j /\ j \in Jobs
      BY <2>1, <3>2 DEF Move, Thread, Unstarted
    <3> QED
      BY <2>1, <3>2, <3>3 DEF Proc
  <2> QED
    BY <1>1, <1>3, <2>2, <2>3, NotStarting
<1> QED
  BY <1>1, <1>2, <1>3 DEF Behaves, Parented, Owned

LEMMA SignalInit == Init => SInv
<1> SUFFICES ASSUME Init
             PROVE  SInv
  OBVIOUS
<1>1. LocksLive /\ Parented /\ UnownedPidUntouched
  BY DEF Init, Idle, Unborn, LocksLive, Parented, UnownedPidUntouched
<1> QED
  BY <1>1, LockInit DEF SInv

LEMMA SignalNext ==
  ASSUME SInv, [Next]_vars
  PROVE  SInv'
<1>1. LInv /\ LInv' /\ TInv
  BY LockNext DEF SInv, LInv
<1>2. ASSUME WorkersKept
      PROVE  LocksLive'
  BY <1>2 DEF SInv, LocksLive, WorkersKept
<1>3. ASSUME NEW t \in Threads, CallStep(t)
      PROVE  SInv'
  BY <1>1, <1>2, <1>3, CallStepWorkers, CallStepParented, CallStepSignals DEF SInv
<1>4. ASSUME WorkersKept, UNCHANGED hurt,
             \A t \in Threads : th'[t] = th[t] \/ th'[t].pc = "enter"
      PROVE  SInv'
  <2>1. \A t \in Threads : th[t].pc \in {"publish", "abort"} => th[t].cur \in Jobs
    BY <1>1 DEF TInv, Cursor, AtRecord
  <2>2. Parented'
    BY <1>4, <2>1 DEF SInv, Parented, WorkersKept, Owned
  <2> QED
    BY <1>1, <1>2, <1>4, <2>2 DEF SInv, UnownedPidUntouched
<1>5. CASE UNCHANGED vars
  <2>1. WorkersKept
    BY <1>5 DEF vars, WorkersKept, Alive
  <2> QED
    BY <1>4, <1>5, <2>1 DEF vars, history
<1>6. ASSUME NEW t \in Threads, NEW call \in Calls, NEW j \in Jobs \cup {NoJob},
             Begin(t, call, j)
      PROVE  SInv'
  <2>1. WorkersKept /\ UNCHANGED hurt
    BY <1>6 DEF Begin, store, history, WorkersKept, Alive
  <2> QED
    BY <1>1, <1>4, <1>6, <2>1, BeginBehaves DEF Behaves
<1>7. ASSUME NEW j \in Jobs, WorkerStep(j) \/ WorldStep(j)
      PROVE  SInv'
  <2>1. WorkersKept /\ UNCHANGED th
    BY <1>1, <1>7, WorkerStepWorkers, WorkerStepOutside, WorldStepOutside DEF Outside
  <2>2. UNCHANGED hurt
    BY <1>7 DEF WorkerStep, WorldStep, OpenLockFile, TakeLock, RunUnlocked, MakeTree,
         DeclareTree, RemoveTree, WriteResult, WorkerExits, PopenReaps, PidReused,
         StrangerExits, DeadlinePasses, TtlPasses, ReadErrorStarts, ReadErrorEnds, history
  <2> QED
    BY <1>4, <2>1, <2>2
<1>8. ASSUME NEW s \in Servers, Crash(s)
      PROVE  SInv'
  <2>1. /\ \A t \in Threads : th'[t].pc = "idle" \/ (th'[t] = th[t] /\ Home[t] # s)
        /\ \A j \in Jobs : worker'[j] = Orphaned(worker[j], s)
        /\ UNCHANGED hurt /\ worker \in [Jobs -> Proc]
    BY <1>1, <1>8 DEF Crash, Idle, history, TInv, TypeOK
  <2>2. ASSUME NEW j \in Jobs
        PROVE  /\ worker'[j].lock = worker[j].lock
               /\ worker'[j].phase = worker[j].phase \/ worker[j].phase = "zombie"
    BY <2>1 DEF Orphaned, Proc
  <2>3. LocksLive'
    BY <2>2 DEF SInv, LocksLive, Alive
  <2>4. Parented'
    <3> SUFFICES ASSUME NEW t \in Threads, th'[t].pc \in {"publish", "abort"}
                 PROVE  worker'[th'[t].cur].phase # "none" /\ Owned(t, th[t].cur)'
                        /\ th'[t] = th[t]
      BY DEF Parented, Owned
    <3>1. th'[t] = th[t] /\ Home[t] # s /\ th[t].cur \in Jobs
      BY <1>1, <2>1 DEF TInv, Cursor, AtRecord
    <3>2. worker[th[t].cur].phase # "none" /\ worker[th[t].cur].parent = Home[t]
      BY <3>1 DEF SInv, Parented, Owned
    <3>3. worker'[th[t].cur] = worker[th[t].cur]
      BY <2>1, <3>1, <3>2 DEF Orphaned
    <3> QED
      BY <3>1, <3>2, <3>3 DEF Owned
  <2> QED
    BY <1>1, <2>1, <2>3, <2>4 DEF SInv, UnownedPidUntouched
<1> QED
  BY <1>3, <1>5, <1>6, <1>7, <1>8 DEF Next

(* However pids are reused after servers die, no server signals a process  *)
(* that took the pid of a worker another server process had started.       *)
THEOREM StrangersAreSafe == Spec => []UnownedPidUntouched
<1>1. SInv => UnownedPidUntouched
  BY DEF SInv
<1> QED
  BY <1>1, SignalInit, SignalNext, PTL DEF Spec
=============================================================================
