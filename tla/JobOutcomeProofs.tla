-------------------------- MODULE JobOutcomeProofs --------------------------
(***************************************************************************)
(* What is proved of how jobs end, for any number of servers, calls and    *)
(* jobs and any set of events: a stamp says what became of the worker, a   *)
(* consumed failure is final, no worker runs untracked, no result goes     *)
(* before it was returned, and what a client was told is not taken back.   *)
(*                                                                         *)
(* None of it can be read off one call.  A cancel stops the worker with    *)
(* the record lock released and stamps the record later, and what another  *)
(* server could see of the worker, its lock file, goes with any delete     *)
(* that fails half-way.  The argument is a relation between two calls:     *)
(* while one is stopping a worker that it does not own and sees locked, no *)
(* other can have read the job as failed, and only then could it delete.   *)
(***************************************************************************)
EXTENDS JobStoreProofs

Born(j) == worker[j].phase # "none"

(* A cancel that finds the record without a stamp now stamps a job that has *)
(* ended                                                                    *)
Over(j) == Alive(j) => Stamped(j) \/ j \notin Records

(* The call can tell whether the worker lives: it runs in the worker's own *)
(* parent, or there is a lock to see                                       *)
Sees(t, j) == Owned(t, j) \/ Held(j)

Starting(t, j) == th[t].cur = j /\ th[t].pc \in {"publish", "abort", "drop"}
Stopping(t, j) == th[t].cur = j /\ th[t].pc \in {"signal", "grace"}
Stopped(t, j) == th[t].cur = j /\ th[t].pc = "finish"

(* What a section has read of a job and may yet act on *)
Has(t, j, st) == \/ th[t].pc = "settled" /\ th[t].cur = j /\ th[t].st = st
                 \/ th[t].seen[j] = st

(* A job without a worker has no directory and no worktree *)
Unbegun == \A j \in Jobs : ~Born(j) => disk[j] = Absent /\ worker[j].tree = "none"

(* Calls are at records of jobs that were started *)
Met == \A t \in Threads, j \in Jobs :
         /\ th[t].cur = j /\ th[t].pc \in AtRecord => Born(j)
         /\ j \in th[t].todo => Born(j)
         /\ th[t].seen[j] # "none" => Born(j)

(* What a pass has collected is of this very section *)
Fresh == \A t \in Threads :
           th[t].seen # Unseen =>
             /\ th[t].sec = "collect"
             /\ th[t].pc \in {"next", "probe", "read", "overrun", "overread", "settled", "evict"}

(* A job that is being started has no record yet, and no cancel is at it *)
Apart == \A t \in Threads, j \in Jobs : Starting(t, j) =>
           /\ j \notin Records /\ ~Stamped(j)
           /\ \A u \in Threads : ~Stopping(u, j) /\ ~Stopped(u, j)

BInv == SInv /\ Unbegun /\ Met /\ Fresh /\ Apart

(* The result is the last thing a worker writes, and a stamp comes later *)
Last == \A j \in Jobs : disk[j].result # "none" \/ Stamped(j) => ~Busy(j)

(* What a section has read still says of a job when it acts on it *)
ReadAs(j, st) ==
  /\ st \in {"done", "cancelled", "timeout"} => disk[j].stamp = st \/ j \notin Records
  /\ st = "unreadable" => disk[j].result # "none" \/ j \notin Records
  /\ st = "failed" => (~Alive(j) /\ disk[j].result = "none") \/ j \in doubted
Reads == \A t \in Threads, j \in Jobs, st \in Readings : Has(t, j, st) => ReadAs(j, st)

(* Who stops a worker can tell whether it lives, until it has ended *)
Seeing == \A t \in Threads, j \in Jobs :
            /\ th[t].cur = j /\ th[t].pc = "overrun" => (Alive(j) => Sees(t, j))
            /\ th[t].cur = j /\ th[t].pc = "settled" /\ th[t].st = "running"
                 => (Alive(j) => Sees(t, j))
            /\ th[t].cur = j /\ th[t].pc \in {"overread", "drop"} => ~Alive(j)
            /\ Stopping(t, j) => Over(j) \/ Sees(t, j)
            /\ Stopped(t, j) => Over(j)

(* A call that may come to delete a job that has no stamp, and cannot while *)
(* a cancel that does not own the job relies on its lock                    *)
Doomed(u, j) == \/ th[u].cur = j /\ th[u].pc \in {"read", "overread"}
                \/ Has(u, j, "failed")
                \/ Has(u, j, "unreadable")
Unhanded == \A t, u \in Threads, j \in Jobs :
              Stopping(t, j) /\ Doomed(u, j) => Over(j) \/ Owned(t, j)

EInv == BInv /\ Last /\ Reads /\ Seeing /\ Unhanded

(* A failure that is looked at again is one whose worker is gone *)
Rechecked == \A t \in Threads :
               th[t].sec = "recheck" =>
                 /\ th[t].pc \in {"probe", "read", "overrun", "overread", "settled"}
                 /\ \A j \in Jobs : th[t].cur = j =>
                      /\ ~Alive(j)
                      /\ th[t].pc = "settled" /\ th[t].st = "failed" => disk[j].result = "none"

Tracked == "crash" \notin Events =>
  \A j \in Jobs : Busy(j) => \/ j \in Records \cup doubted
                             \/ \E t \in Threads : Starting(t, j)

Recorded(j) == j \in Records \/ \E t \in Threads : th[t].pc = "publish" /\ th[t].cur = j

(* A declared worktree is in the manifest until the record is stamped *)
Manifested == {"kept", "lost"} \cap Events = {} =>
  \A j \in Jobs : Recorded(j) /\ worker[j].tree = "declared" /\ ~Stamped(j)
                    => disk[j].manifest \/ disk[j].result # "none"

-----------------------------------------------------------------------------
(* Where the steps of a call lead.                                         *)

Stays(t) == /\ th'[t].cur = th[t].cur /\ th'[t].sec = th[t].sec
            /\ th'[t].seen = th[t].seen /\ th'[t].todo = th[t].todo

Moved(t) ==
  \/ th'[t] = Idle
  \/ /\ Stays(t)
     /\ \/ th'[t].pc = "settled" /\ (Probe(t) \/ Read(t))
        \/ th'[t].pc \in {"read", "overrun"} /\ Probe(t)
        \/ th'[t].pc \in {"overread", "finish", "drop"} /\ GraceEnds(t)
        \/ th'[t].pc \in {"finish", "grace"} /\ Signal(t)
        \/ th'[t].pc = "signal" /\ LookStatus(t)
        \/ th'[t].pc = "proof" /\ Discard(t)
        \/ th'[t].pc = "evict" /\ NextRecord(t) /\ th[t].sec = "collect" /\ th[t].todo = {}
        \/ th'[t].pc = "abort" /\ Publish(t)
        \/ th'[t].pc = "probe" /\ Enter(t) /\ th[t].cur \in Records
        \/ th'[t].pc = "next" /\ th[t].sec = "reap" /\ th[t].pc = "settled"
  \/ /\ th'[t].pc = "enter" /\ th'[t].sec \in {"mark", "discard"} /\ th[t].sec \in {"look", "mark"}
     /\ th'[t].cur = th[t].cur /\ th'[t].seen = th[t].seen /\ th'[t].todo = th[t].todo
  \/ /\ th'[t].pc = "next"
     /\ th'[t].todo \subseteq th[t].todo \cup (IF th[t].pc \in {"enter", "next"} THEN Records ELSE {})
     /\ th[t].sec = "reap" /\ th'[t].sec \in {"reap", "collect"} /\ th'[t].seen = th[t].seen
  \/ /\ th'[t].pc = "next" /\ Collect(t) /\ th'[t].sec = "collect"
     /\ th'[t].todo = th[t].todo /\ th'[t].seen = [th[t].seen EXCEPT ![th[t].cur] = th[t].st]
  \/ /\ th'[t].pc = "probe" /\ NextRecord(t) /\ th'[t].sec = th[t].sec
     /\ th'[t].cur \in th[t].todo /\ th'[t].todo = th[t].todo \ {th'[t].cur}
     /\ th'[t].seen = th[t].seen
  \/ /\ th'[t].pc = "probe" /\ ProveGone(t) /\ WorkerGone(t, th[t].cur) /\ th'[t].sec = "recheck"
     /\ th'[t].cur = th[t].cur /\ th'[t].todo = th[t].todo /\ th'[t].seen = th[t].seen
  \/ /\ th'[t].pc = "spawn" /\ Evict(t) /\ th'[t].seen = Unseen /\ th'[t].todo = th[t].todo
     /\ th'[t].sec = th[t].sec
  \/ /\ th'[t].pc = "evict" /\ Evict(t) /\ th'[t].sec = th[t].sec /\ th'[t].todo = th[t].todo
     /\ \E j \in Jobs : /\ th[t].seen[j] # "none"
                        /\ \/ th'[t].seen = [th[t].seen EXCEPT ![j] = "none"]
                           \/ th'[t].seen = th[t].seen
  \/ /\ th'[t].pc = "publish" /\ Spawn(t) /\ th'[t].cur \in Unstarted
     /\ th'[t].sec = th[t].sec /\ th'[t].todo = th[t].todo /\ th'[t].seen = th[t].seen

LEMMA ReleasedMoves ==
  ASSUME TInv, NEW t \in Threads, Return(t) \/ SectionDone(t)
  PROVE  \/ th'[t] = Idle
         \/ /\ th'[t].pc = "enter" /\ th'[t].sec = "discard" /\ th[t].sec = "mark"
            /\ th'[t].cur = th[t].cur /\ th'[t].seen = th[t].seen /\ th'[t].todo = th[t].todo
<1> DEFINE r == [th[t] EXCEPT !.pc = "enter", !.sec = "discard",
                              !.want = "done", !.st = "none"]
<1>1. th \in [Threads -> Thread] /\ th[t] \in Thread
  BY DEF TInv, TypeOK
<1>2. /\ r.pc = "enter" /\ r.sec = "discard" /\ r.cur = th[t].cur
      /\ r.seen = th[t].seen /\ r.todo = th[t].todo
  BY <1>1 DEF Thread
<1>3. (Move(t, r) /\ th[t].sec = "mark") \/ Move(t, Idle)
  BY DEF Return, SectionDone
<1> HIDE DEF r
<1> QED
  BY <1>1, <1>2, <1>3, MovesOne

LEMMA FirstMoves ==
  ASSUME TInv, NEW t \in Threads,
         Enter(t) \/ NextRecord(t) \/ Probe(t) \/ Read(t) \/ GraceEnds(t) \/ Signal(t)
  PROVE  Moved(t)
<1>1. th \in [Threads -> Thread] /\ th[t] \in Thread
  BY DEF TInv, TypeOK
<1>2. ASSUME NEW pc, Go(t, pc)
      PROVE  th'[t].pc = pc /\ Stays(t)
  BY <1>2, GoesOne DEF Stays
<1>3. ASSUME NEW st, Settle(t, st)
      PROVE  th'[t].pc = "settled" /\ Stays(t)
  BY <1>3, SettlesOne DEF Stays
<1>4. CASE Enter(t)
  <2>1. CASE th[t].sec = "reap" /\ Move(t, [th[t] EXCEPT !.pc = "next", !.todo = Records])
    <3> DEFINE r == [th[t] EXCEPT !.pc = "next", !.todo = Records]
    <3>1. /\ r.pc = "next" /\ r.todo = Records /\ r.sec = th[t].sec /\ r.seen = th[t].seen
          /\ th[t].pc = "enter"
      BY <1>1, <1>4 DEF Thread, Enter
    <3>2. th'[t] = r
      BY <1>1, <2>1, MovesOne
    <3> HIDE DEF r
    <3> QED
      BY <2>1, <3>1, <3>2 DEF Moved
  <2>2. CASE th[t].cur \in Records /\ Go(t, "probe")
    BY <1>2, <1>4, <2>2 DEF Moved
  <2>3. CASE SectionDone(t)
    BY <2>3, ReleasedMoves DEF Moved
  <2> QED
    BY <1>4, <2>1, <2>2, <2>3 DEF Enter
<1>5. CASE NextRecord(t)
  <2>1. ASSUME NEW j \in th[t].todo, Move(t, [th[t] EXCEPT !.pc = "probe", !.cur = j, !.todo = @ \ {j}])
        PROVE  Moved(t)
    <3> DEFINE r == [th[t] EXCEPT !.pc = "probe", !.cur = j, !.todo = @ \ {j}]
    <3>1. /\ r.pc = "probe" /\ r.cur = j /\ r.todo = th[t].todo \ {j}
          /\ r.sec = th[t].sec /\ r.seen = th[t].seen
      BY <1>1 DEF Thread
    <3>2. th'[t] = r
      BY <1>1, <2>1, MovesOne
    <3> HIDE DEF r
    <3> QED
      BY <1>5, <2>1, <3>1, <3>2 DEF Moved
  <2>2. CASE th[t].sec = "reap" /\ Move(t, [th[t] EXCEPT !.sec = "collect", !.todo = Records])
    <3> DEFINE r == [th[t] EXCEPT !.sec = "collect", !.todo = Records]
    <3>1. /\ r.pc = "next" /\ r.sec = "collect" /\ r.todo = Records /\ r.seen = th[t].seen
          /\ th[t].pc = "next"
      BY <1>1, <1>5 DEF Thread, NextRecord
    <3>2. th'[t] = r
      BY <1>1, <2>2, MovesOne
    <3> HIDE DEF r
    <3> QED
      BY <2>2, <3>1, <3>2 DEF Moved
  <2>3. CASE Return(t)
    BY <2>3, ReleasedMoves DEF Moved
  <2>4. CASE th[t].todo = {} /\ th[t].sec = "collect" /\ Go(t, "evict")
    BY <1>2, <1>5, <2>4 DEF Moved
  <2> QED
    BY <1>5, <2>1, <2>2, <2>3, <2>4 DEF NextRecord
<1>6. CASE Probe(t)
  BY <1>2, <1>3, <1>6 DEF Probe, Moved
<1>7. CASE Read(t)
  BY <1>3, <1>7 DEF Read, Moved
<1>8. CASE GraceEnds(t)
  <2>1. \E pc \in {"overread", "finish", "drop"} : Go(t, pc)
    BY <1>8 DEF GraceEnds
  <2> QED
    BY <1>2, <1>8, <2>1 DEF Moved
<1>9. CASE Signal(t)
  BY <1>2, <1>9 DEF Signal, Moved
<1> QED
  BY <1>4, <1>5, <1>6, <1>7, <1>8, <1>9

LEMMA SettledMoves ==
  ASSUME TInv, NEW t \in Threads,
         \/ DropExpired(t) \/ KeepReaped(t) \/ Collect(t) \/ Unserved(t)
         \/ LookStatus(t) \/ LookResult(t) \/ MarkDelivered(t)
         \/ Discard(t) \/ ProveGone(t) \/ DiscardFailed(t)
  PROVE  Moved(t)
<1>1. th \in [Threads -> Thread] /\ th[t] \in Thread
  BY DEF TInv, TypeOK
<1>2. ASSUME NEW pc, Go(t, pc)
      PROVE  th'[t].pc = pc /\ Stays(t)
  BY <1>2, GoesOne DEF Stays
<1>3. CASE Return(t) \/ SectionDone(t)
  BY <1>3, ReleasedMoves DEF Moved
<1>4. ASSUME Passed(t), th[t].sec = "reap"
      PROVE  Moved(t)
  <2> DEFINE r == [th[t] EXCEPT !.pc = "next", !.cur = NoJob, !.st = "none"]
  <2>1. r.pc = "next" /\ r.sec = th[t].sec /\ r.seen = th[t].seen /\ r.todo = th[t].todo
    BY <1>1 DEF Thread
  <2>2. th'[t] = r
    BY <1>4, PassesOne
  <2> HIDE DEF r
  <2> QED
    BY <1>4, <2>1, <2>2 DEF Moved
<1>5. CASE DropExpired(t)
  BY <1>3, <1>4, <1>5 DEF DropExpired
<1>6. CASE KeepReaped(t)
  BY <1>4, <1>6 DEF KeepReaped, Found
<1>7. CASE Collect(t)
  <2> DEFINE r == [th[t] EXCEPT !.pc = "next", !.cur = NoJob, !.st = "none",
                                !.seen[th[t].cur] = th[t].st]
  <2>1. Return(t) \/ Move(t, r)
    BY <1>7 DEF Collect
  <2>2. /\ r.pc = "next" /\ r.sec = "collect" /\ r.todo = th[t].todo
        /\ r.seen = [th[t].seen EXCEPT ![th[t].cur] = th[t].st]
    BY <1>1, <1>7 DEF Thread, Collect, Found
  <2> HIDE DEF r
  <2>3. Return(t) \/ th'[t] = r
    BY <1>1, <2>1, MovesOne
  <2> QED
    BY <1>3, <1>7, <2>2, <2>3 DEF Moved
<1>8. CASE LookStatus(t)
  BY <1>2, <1>3, <1>8 DEF LookStatus, Moved
<1>9. CASE LookResult(t)
  <2> DEFINE r(sec, want) == [th[t] EXCEPT !.pc = "enter", !.sec = sec,
                                           !.want = want, !.st = "none"]
  <2>1. \A sec, want : /\ r(sec, want).pc = "enter" /\ r(sec, want).sec = sec
                       /\ r(sec, want).cur = th[t].cur /\ r(sec, want).seen = th[t].seen
                       /\ r(sec, want).todo = th[t].todo
    BY <1>1 DEF Thread
  <2> HIDE DEF r
  <2>2. Return(t) \/ Move(t, r("mark", "none")) \/ Move(t, r("discard", th[t].st))
    BY <1>9, SMTT(60) DEF LookResult, r
  <2>3. Return(t) \/ \E want : \E sec \in {"mark", "discard"} : th'[t] = r(sec, want)
    BY <1>1, <2>2, MovesOne
  <2>4. th[t].sec = "look"
    BY <1>9 DEF LookResult, Found
  <2> QED
    BY <1>3, <2>1, <2>3, <2>4 DEF Moved
<1>10. CASE Discard(t)
  BY <1>2, <1>3, <1>10 DEF Discard, Moved
<1>11. CASE ProveGone(t)
  <2> DEFINE r == [th[t] EXCEPT !.pc = "probe", !.sec = "recheck", !.st = "none"]
  <2>1. Return(t) \/ (WorkerGone(t, th[t].cur) /\ Move(t, r))
    BY <1>11 DEF ProveGone
  <2>2. /\ r.pc = "probe" /\ r.sec = "recheck" /\ r.todo = th[t].todo
        /\ r.seen = th[t].seen /\ r.cur = th[t].cur
    BY <1>1 DEF Thread
  <2> HIDE DEF r
  <2>3. Return(t) \/ (WorkerGone(t, th[t].cur) /\ th'[t] = r)
    BY <1>1, <2>1, MovesOne
  <2> QED
    BY <1>3, <1>11, <2>2, <2>3 DEF Moved
<1>12. CASE Unserved(t) \/ MarkDelivered(t) \/ DiscardFailed(t)
  BY <1>3, <1>12 DEF Unserved, MarkDelivered, DiscardFailed
<1> QED
  BY <1>5, <1>6, <1>7, <1>8, <1>9, <1>10, <1>11, <1>12

LEMMA StartMoves ==
  ASSUME TInv, NEW t \in Threads,
         FinishCancel(t) \/ Evict(t) \/ Spawn(t) \/ Publish(t) \/ DropUnrecorded(t)
  PROVE  Moved(t)
<1>1. th \in [Threads -> Thread] /\ th[t] \in Thread
  BY DEF TInv, TypeOK
<1>2. CASE Return(t)
  BY <1>2, ReleasedMoves DEF Moved
<1>3. CASE Evict(t)
  <2> DEFINE EvictsOne(j, d) ==
        /\ th[t].seen[j] # "none"
        /\ Move(t, [th[t] EXCEPT !.cur = j, !.seen[j] = IF d.at = "none" THEN "none" ELSE @])
  <2>1. CASE Move(t, [th[t] EXCEPT !.pc = "spawn", !.cur = NoJob, !.seen = Unseen])
    <3> DEFINE r == [th[t] EXCEPT !.pc = "spawn", !.cur = NoJob, !.seen = Unseen]
    <3>1. r.pc = "spawn" /\ r.seen = Unseen /\ r.todo = th[t].todo /\ r.sec = th[t].sec
      BY <1>1 DEF Thread
    <3>2. th'[t] = r
      BY <1>1, <2>1, MovesOne
    <3> HIDE DEF r
    <3> QED
      BY <1>3, <3>1, <3>2 DEF Moved
  <2>2. ASSUME NEW j \in Jobs, th[t].seen[j] # "none", NEW v \in {"none", th[t].seen[j]},
               Move(t, [th[t] EXCEPT !.cur = j, !.seen[j] = v])
        PROVE  Moved(t)
    <3> DEFINE r == [th[t] EXCEPT !.cur = j, !.seen[j] = v]
    <3>1. /\ r.pc = "evict" /\ r.todo = th[t].todo /\ r.sec = th[t].sec
          /\ r.seen = [th[t].seen EXCEPT ![j] = v]
      BY <1>1, <1>3 DEF Thread, Evict
    <3>2. [th[t].seen EXCEPT ![j] = v] \in {[th[t].seen EXCEPT ![j] = "none"], th[t].seen}
      BY <1>1, <2>2 DEF Thread
    <3>3. th'[t] = r
      BY <1>1, <2>2, MovesOne
    <3> HIDE DEF r
    <3> QED
      BY <1>3, <2>2, <3>1, <3>2, <3>3 DEF Moved
  <2>3. \/ Return(t)
        \/ Move(t, [th[t] EXCEPT !.pc = "spawn", !.cur = NoJob, !.seen = Unseen])
        \/ \E j \in Jobs : \E d : EvictsOne(j, d)
    BY <1>3 DEF Evict
  <2>4. CASE \E j \in Jobs : \E d : EvictsOne(j, d)
    <3>1. PICK j \in Jobs : \E d : EvictsOne(j, d)
      BY <2>4
    <3>2. PICK d : EvictsOne(j, d)
      BY <3>1
    <3>3. PICK v \in {"none", th[t].seen[j]} : v = IF d.at = "none" THEN "none" ELSE th[t].seen[j]
      OBVIOUS
    <3>4. th[t].seen[j] # "none" /\ Move(t, [th[t] EXCEPT !.cur = j, !.seen[j] = v])
      BY <3>2, <3>3
    <3> QED
      BY <2>2, <3>4
  <2> QED
    BY <1>2, <2>1, <2>3, <2>4
<1>4. CASE Spawn(t)
  <2>1. ASSUME NEW j \in Unstarted, Move(t, [th[t] EXCEPT !.pc = "publish", !.cur = j])
        PROVE  Moved(t)
    <3> DEFINE r == [th[t] EXCEPT !.pc = "publish", !.cur = j]
    <3>1. /\ r.pc = "publish" /\ r.cur = j /\ r.todo = th[t].todo
          /\ r.sec = th[t].sec /\ r.seen = th[t].seen
      BY <1>1, <2>1 DEF Thread
    <3>2. th'[t] = r
      BY <1>1, <2>1, MovesOne
    <3> HIDE DEF r
    <3> QED
      BY <1>4, <2>1, <3>1, <3>2 DEF Moved
  <2> QED
    BY <1>2, <1>4, <2>1 DEF Spawn
<1>5. CASE Publish(t)
  BY <1>2, <1>5, GoesOne DEF Publish, Moved, Stays
<1> QED
  BY <1>2, <1>3, <1>4, <1>5 DEF FinishCancel, DropUnrecorded

LEMMA CallMoves ==
  ASSUME TInv, NEW t \in Threads, CallStep(t)
  PROVE  Moved(t) /\ \A u \in Threads \ {t} : th'[u] = th[u]
  BY FirstMoves, SettledMoves, StartMoves, CallStepBehaves DEF CallStep, Behaves

-----------------------------------------------------------------------------
(* What a step leaves of a worker, and what the steps of workers and of    *)
(* the world leave of a directory.                                         *)

Ages(j) ==
  /\ Born(j) => Born(j)'
  /\ Born(j) /\ Alive(j)' => Alive(j)
  /\ Born(j) /\ Busy(j)' => Busy(j)
  /\ Alive(j)' /\ worker[j].lock => worker'[j].lock

Evolves(j) ==
  /\ disk'[j].at = disk[j].at /\ disk'[j].stamp = disk[j].stamp
  /\ disk'[j].warned = disk[j].warned
  /\ disk[j].lockFile => disk'[j].lockFile
  /\ disk[j].manifest => disk'[j].manifest
  /\ \/ disk'[j].result = disk[j].result
     \/ Alive(j) /\ ~Busy(j)' /\ disk'[j].result # "none"
  /\ disk[j] = Absent => disk'[j] = Absent
  /\ ~Born(j) => ~Born(j)' /\ worker'[j].tree = worker[j].tree
  /\ worker'[j].tree = "declared"
       => worker[j].tree = "declared" \/ (Alive(j) /\ disk'[j].manifest)

(* A step of a worker or of the world, a call that begins, a crash *)
Quiet ==
  /\ \A j \in Jobs : Ages(j) /\ Evolves(j)
  /\ UNCHANGED doubted
  /\ \A t \in Threads :
       \/ /\ th'[t] = th[t]
          /\ \A j \in Jobs : Born(j) => worker'[j].parent = worker[j].parent \/ ~Owned(t, j)
       \/ /\ th[t].pc = "idle" \/ "crash" \in Events
          /\ th'[t].pc \in {"idle", "enter"} /\ th'[t].seen = Unseen /\ th'[t].todo = {}
          /\ th'[t].sec \in {"none", "reap", "look"}

LEMMA WorkerQuiet ==
  ASSUME TInv, NEW j \in Jobs, WorkerStep(j)
  PROVE  Quiet
<1>1. /\ disk \in [Jobs -> Dir] /\ disk[j] \in Dir /\ "none" \notin Results
      /\ worker \in [Jobs -> Proc] /\ worker[j] \in Proc
  BY InputsAssumption DEF TInv, TypeOK
<1>2. \A k \in Jobs \ {j} : disk'[k] = disk[k] /\ worker'[k] = worker[k]
  BY <1>1 DEF WorkerStep, OpenLockFile, TakeLock, RunUnlocked, MakeTree, DeclareTree,
              RemoveTree, WriteResult, WorkerExits, Phase
<1>3. UNCHANGED <<th, doubted>>
  BY DEF WorkerStep, OpenLockFile, TakeLock, RunUnlocked, MakeTree, DeclareTree,
         RemoveTree, WriteResult, WorkerExits, history
<1> DEFINE Lives == worker'[j].parent = worker[j].parent /\ Ages(j)
<1>4. Lives
  <2>1. ASSUME NEW from, NEW to, Phase(j, from, to),
               <<from, to>> \in {<<"boot", "opening">>, <<"boot", "working">>,
                                 <<"opening", "working">>, <<"working", "wrote">>}
        PROVE  Lives
    BY <1>1, <2>1 DEF Phase, Proc, Ages, Born, Busy, Alive
  <2>2. CASE TakeLock(j)
    BY <1>1, <2>2 DEF TakeLock, Proc, Ages, Born, Busy, Alive
  <2>3. CASE MakeTree(j) \/ DeclareTree(j) \/ RemoveTree(j)
    <3>1. \E tree : worker' = [worker EXCEPT ![j].tree = tree]
      BY <2>3 DEF MakeTree, DeclareTree, RemoveTree
    <3> QED
      BY <1>1, <3>1 DEF Proc, Ages, Born, Busy, Alive
  <2>4. CASE WorkerExits(j)
    BY <1>1, <2>4 DEF WorkerExits, Exited, Proc, Ages, Born, Busy, Alive
  <2> QED
    BY <2>1, <2>2, <2>3, <2>4 DEF WorkerStep, OpenLockFile, RunUnlocked, WriteResult
<1>5. Evolves(j)
  <2>1. CASE OpenLockFile(j)
    BY <1>1, <2>1, AbsentLemma DEF OpenLockFile, Phase, Evolves, Dir, Proc, Born
  <2>2. CASE TakeLock(j) \/ RunUnlocked(j) \/ RemoveTree(j) \/ MakeTree(j)
    BY <1>1, <2>2 DEF TakeLock, RunUnlocked, RemoveTree, MakeTree, Phase, Evolves, Proc, Born
  <2>3. CASE DeclareTree(j)
    BY <1>1, <2>3, AbsentLemma DEF DeclareTree, Evolves, Dir, Proc, Born, Alive
  <2>4. CASE WriteResult(j)
    BY <1>1, <2>4, AbsentLemma DEF WriteResult, Phase, Evolves, Dir, Proc, Born, Alive, Busy
  <2>5. CASE WorkerExits(j)
    BY <1>1, <2>5 DEF WorkerExits, Exited, Evolves, Proc, Born, Alive
  <2> QED
    BY <2>1, <2>2, <2>3, <2>4, <2>5 DEF WorkerStep
<1>6. \A k \in Jobs \ {j} : Ages(k) /\ Evolves(k)
  BY <1>2 DEF Ages, Evolves, Born, Alive, Busy
<1> QED
  BY <1>2, <1>3, <1>4, <1>5, <1>6 DEF Quiet

LEMMA WorldQuiet ==
  ASSUME TInv, NEW j \in Jobs, WorldStep(j)
  PROVE  Quiet
<1>1. /\ disk \in [Jobs -> Dir] /\ disk[j] \in Dir
      /\ worker \in [Jobs -> Proc] /\ worker[j] \in Proc
  BY DEF TInv, TypeOK
<1>2. \A k \in Jobs \ {j} : disk'[k] = disk[k] /\ worker'[k] = worker[k]
  BY <1>1 DEF WorldStep, PopenReaps, PidReused, StrangerExits, DeadlinePasses, TtlPasses,
              ReadErrorStarts, ReadErrorEnds, Phase, store
<1>3. worker'[j].parent = worker[j].parent /\ UNCHANGED <<th, doubted>>
  BY <1>1 DEF WorldStep, PopenReaps, PidReused, StrangerExits, DeadlinePasses, TtlPasses,
              ReadErrorStarts, ReadErrorEnds, Phase, Proc, store, history
<1>4. Ages(j)
  BY <1>1 DEF WorldStep, PopenReaps, PidReused, StrangerExits, DeadlinePasses, TtlPasses,
              ReadErrorStarts, ReadErrorEnds, Phase, Proc, store, Ages, Born, Busy, Alive
<1>5. Evolves(j)
  <2>1. CASE PopenReaps(j) \/ PidReused(j) \/ StrangerExits(j)
    BY <1>1, <2>1 DEF PopenReaps, PidReused, StrangerExits, Phase, Evolves, Proc, Born
  <2>2. CASE DeadlinePasses(j)
    BY <1>1, <2>2, AbsentLemma DEF DeadlinePasses, Evolves, Dir, Born
  <2>3. CASE TtlPasses(j)
    <3>1. Absent.completed = "unset" /\ Absent.deadline = "unset"
      BY DEF Absent
    <3> QED
      BY <1>1, <2>3, <3>1 DEF TtlPasses, Evolves, Dir, Born
  <2>4. CASE UNCHANGED store
    BY <2>4 DEF store, Evolves, Born
  <2> QED
    BY <2>1, <2>2, <2>3, <2>4 DEF WorldStep, ReadErrorStarts, ReadErrorEnds
<1>6. \A k \in Jobs \ {j} : Ages(k) /\ Evolves(k)
  BY <1>2 DEF Ages, Evolves, Born, Alive, Busy
<1> QED
  BY <1>2, <1>3, <1>4, <1>5, <1>6 DEF Quiet

LEMMA BeginQuiet ==
  ASSUME TInv, NEW t \in Threads, NEW call \in Calls, NEW j \in Jobs \cup {NoJob},
         Begin(t, call, j)
  PROVE  Quiet
<1> DEFINE r == [Idle EXCEPT !.pc = "enter", !.call = call, !.cur = j,
                             !.sec = IF j = NoJob THEN "reap" ELSE "look"]
<1>1. r.pc = "enter" /\ r.sec \in {"reap", "look"} /\ r.seen = Unseen /\ r.todo = {}
  BY DEF Idle
<1>2. /\ th \in [Threads -> Thread] /\ Move(t, r) /\ th[t].pc = "idle"
      /\ UNCHANGED <<disk, worker, doubted>>
  BY DEF Begin, TInv, TypeOK, store, history
<1>3. th'[t] = r /\ \A u \in Threads \ {t} : th'[u] = th[u]
  BY <1>2, MovesOne
<1> HIDE DEF r
<1>4. \A k \in Jobs : Ages(k) /\ Evolves(k)
  BY <1>2 DEF Ages, Evolves, Born, Alive, Busy
<1> QED
  BY <1>1, <1>2, <1>3, <1>4 DEF Quiet

LEMMA CrashQuiet ==
  ASSUME TInv, NEW s \in Servers, Crash(s)
  PROVE  Quiet
<1>1. /\ \A t \in Threads : th'[t] = IF Home[t] = s THEN Idle ELSE th[t]
      /\ \A j \in Jobs : worker'[j] = Orphaned(worker[j], s)
      /\ UNCHANGED <<disk, doubted>> /\ worker \in [Jobs -> Proc] /\ "crash" \in Events
  BY DEF Crash, history, TInv, TypeOK
<1>2. ASSUME NEW j \in Jobs
      PROVE  /\ worker'[j].lock = worker[j].lock /\ worker'[j].tree = worker[j].tree
             /\ \/ worker'[j].phase = worker[j].phase
                \/ worker[j].phase = "zombie" /\ worker'[j].phase = "gone"
             /\ worker[j].parent # s => worker'[j] = worker[j]
  BY <1>1 DEF Orphaned, Proc
<1>3. ASSUME NEW j \in Jobs
      PROVE  Ages(j)
  BY <1>2 DEF Ages, Born, Alive, Busy
<1>4. ASSUME NEW j \in Jobs
      PROVE  Evolves(j)
  BY <1>1, <1>2 DEF Evolves, Born
<1>5. ASSUME NEW t \in Threads, th'[t] # Idle, NEW j \in Jobs
      PROVE  worker'[j].parent = worker[j].parent \/ ~Owned(t, j)
  BY <1>1, <1>2, <1>5 DEF Owned
<1>6. Idle.pc = "idle" /\ Idle.seen = Unseen /\ Idle.todo = {} /\ Idle.sec = "none"
  BY DEF Idle
<1> QED
  BY <1>1, <1>3, <1>4, <1>5, <1>6 DEF Quiet

LEMMA NextKinds ==
  ASSUME TInv, [Next]_vars
  PROVE  Quiet \/ \E t \in Threads : CallStep(t)
<1>1. CASE UNCHANGED vars
  <2>1. UNCHANGED <<disk, worker, th, doubted>>
    BY <1>1 DEF vars, store, history
  <2>2. \A k \in Jobs : Ages(k) /\ Evolves(k)
    BY <2>1 DEF Ages, Evolves, Born, Alive, Busy
  <2> QED
    BY <2>1, <2>2 DEF Quiet
<1> QED
  BY <1>1, WorkerQuiet, WorldQuiet, BeginQuiet, CrashQuiet DEF Next

-----------------------------------------------------------------------------
(* What a step of a call does to a worker and to a directory.              *)

(* A worker that is left alone, reaped or killed *)
Handled(k) == /\ Ages(k) /\ (Born(k)' => Born(k))
              /\ worker'[k].parent = worker[k].parent /\ worker'[k].tree = worker[k].tree

LEMMA HandledAges ==
  ASSUME TInv, NEW t \in Threads, NEW j \in Jobs,
         \/ UNCHANGED worker
         \/ worker' = Reaped(t, j)
         \/ worker' = Killed(t, j)
  PROVE  \A k \in Jobs : Handled(k)
<1>1. worker \in [Jobs -> Proc] /\ worker[j] \in Proc
  BY DEF TInv, TypeOK
<1>2. CASE UNCHANGED worker
  BY <1>2 DEF Handled, Ages, Born, Alive, Busy
<1>3. CASE worker' = Reaped(t, j)
  BY <1>1, <1>3 DEF Reaped, Handled, Ages, Born, Alive, Busy, Proc
<1>4. CASE worker' = Killed(t, j)
  BY <1>1, <1>4 DEF Killed, Exited, Handled, Ages, Born, Alive, Busy, Proc
<1> QED
  BY <1>2, <1>3, <1>4

LEMMA TreeAges ==
  ASSUME TInv, NEW j \in Jobs, NEW left, worker' = [worker EXCEPT ![j].tree = left]
  PROVE  /\ \A k \in Jobs : Ages(k) /\ (Born(k)' => Born(k)) /\ worker'[k].parent = worker[k].parent
         /\ \A k \in Jobs \ {j} : Handled(k)
         /\ worker'[j].tree = left
<1>1. worker \in [Jobs -> Proc] /\ worker[j] \in Proc
  BY DEF TInv, TypeOK
<1> QED
  BY <1>1 DEF Handled, Ages, Born, Alive, Busy, Proc

Same(k) == /\ disk'[k].result = disk[k].result /\ disk'[k].lockFile = disk[k].lockFile
           /\ disk'[k].manifest = disk[k].manifest
           /\ worker'[k].tree = worker[k].tree

Keeps(k) == /\ Same(k)
            /\ disk'[k].at = disk[k].at /\ disk'[k].stamp = disk[k].stamp
            /\ disk'[k].warned = disk[k].warned
            /\ ~Born(k) => disk'[k] = disk[k] /\ ~Born(k)'

Deletes(t, k) == /\ disk'[k] \in Rmtree(k) /\ UNCHANGED worker
                 /\ \/ /\ th[t].pc = "settled" /\ th[t].sec # "collect" /\ th[t].cur = k
                       /\ th[t].st \in Terminal \cup {"unreadable"}
                    \/ th[t].pc = "evict" /\ th[t].seen[k] \in Terminal

Marks(t, k) == /\ th[t].cur = k /\ th[t].pc \in {"read", "overread", "finish"}
               /\ Same(k) /\ ~Stamped(k) /\ disk[k].result # "none"
               /\ disk'[k].at = disk[k].at /\ disk'[k].stamp = "done"

Finalizes(t, k) ==
  /\ th[t].cur = k
  /\ th[t].pc = "overread" \/ (th[t].pc = "finish" /\ k \in Records)
  /\ ~Stamped(k) /\ disk[k].result = "none"
  /\ disk'[k].at = disk[k].at /\ disk'[k].stamp \in {"cancelled", "timeout"}
  /\ th[t].pc = "finish" => disk'[k].stamp = "cancelled"
  /\ disk'[k].result = disk[k].result /\ disk'[k].lockFile = disk[k].lockFile
  /\ worker'[k].tree = "declared"
       => worker[k].tree = "declared" /\ (disk[k].manifest => disk'[k].warned)

Begins(t, k) == /\ th[t].pc = "spawn" /\ ~Born(k) /\ Born(k)'
                /\ th'[t].cur = k /\ th'[t].pc = "publish"
                /\ disk'[k] = [disk[k] EXCEPT !.at = "bare"]
                /\ worker'[k].tree = worker[k].tree

Publishes(t, k) == /\ th[t].cur = k /\ th[t].pc = "publish" /\ th'[t] = Idle
                   /\ Same(k) /\ disk'[k].stamp = disk[k].stamp
                   /\ disk'[k].at = "record"

Drops(t, k) == /\ th[t].cur = k /\ th[t].pc = "drop"
               /\ disk'[k] \in {Absent, [Absent EXCEPT !.at = "bare"]}

Touches(t, k) ==
  \/ Keeps(k) \/ Deletes(t, k) \/ Marks(t, k) \/ Finalizes(t, k)
  \/ Begins(t, k) \/ Publishes(t, k) \/ Drops(t, k)

LEMMA SameIsKept ==
  ASSUME NEW k \in Jobs, disk'[k] = disk[k], Handled(k)
  PROVE  Keeps(k)
  BY DEF Handled, Keeps, Same

LEMMA DeleteTouches ==
  ASSUME TInv, NEW t \in Threads, NEW j \in Jobs, NEW d \in Rmtree(j),
         disk' = [disk EXCEPT ![j] = d], UNCHANGED worker,
         \/ /\ th[t].pc = "settled" /\ th[t].sec # "collect" /\ th[t].cur = j
            /\ th[t].st \in Terminal \cup {"unreadable"}
         \/ th[t].pc = "evict" /\ th[t].seen[j] \in Terminal
  PROVE  \A k \in Jobs : Touches(t, k)
<1>1. disk \in [Jobs -> Dir]
  BY DEF TInv, TypeOK
<1>2. Deletes(t, j)
  BY <1>1 DEF Deletes
<1>3. \A k \in Jobs : Handled(k)
  BY HandledAges
<1>4. \A k \in Jobs \ {j} : Keeps(k)
  BY <1>1, <1>3, SameIsKept
<1> QED
  BY <1>2, <1>4 DEF Touches

LEMMA MarkTouches ==
  ASSUME TInv, NEW t \in Threads, NEW j \in Jobs, disk' = [disk EXCEPT ![j] = MarkDone(disk[j])],
         UNCHANGED worker, Envelope(j) \in Results, ~Stamped(j),
         th[t].cur = j, th[t].pc \in {"read", "overread", "finish"}
  PROVE  \A k \in Jobs : Touches(t, k)
<1>1. disk \in [Jobs -> Dir] /\ disk[j] \in Dir
  BY DEF TInv, TypeOK
<1>2. disk[j].result # "none"
  BY InputsAssumption DEF Envelope
<1>3. Marks(t, j)
  BY <1>1, <1>2 DEF Marks, Same, MarkDone, Dir
<1>4. \A k \in Jobs \ {j} : Keeps(k)
  BY <1>1, HandledAges, SameIsKept
<1> QED
  BY <1>3, <1>4 DEF Touches

LEMMA FinalizeTouches ==
  ASSUME TInv, NEW t \in Threads, NEW j \in Jobs, NEW status \in {"cancelled", "timeout"},
         FinalizeCleanup(j, status), Envelope(j) = "none", ~Stamped(j), th[t].cur = j,
         \/ th[t].pc = "overread"
         \/ th[t].pc = "finish" /\ j \in Records /\ status = "cancelled"
  PROVE  \A k \in Jobs : Touches(t, k)
<1>1. disk \in [Jobs -> Dir] /\ disk[j] \in Dir
  BY DEF TInv, TypeOK
<1>2. PICK left \in CleanupResults(j) :
        /\ disk' = [disk EXCEPT
                      ![j].stamp = status,
                      ![j].completed = "recent",
                      ![j].warned = @ \/ (disk[j].manifest /\ left = "declared")]
        /\ worker' = [worker EXCEPT ![j].tree = left]
  BY DEF FinalizeCleanup
<1>3. /\ disk'[j].at = disk[j].at /\ disk'[j].stamp = status
      /\ disk'[j].result = disk[j].result /\ disk'[j].lockFile = disk[j].lockFile
      /\ disk[j].manifest /\ left = "declared" => disk'[j].warned
      /\ \A k \in Jobs \ {j} : disk'[k] = disk[k]
  BY <1>1, <1>2 DEF Dir
<1>4. left = "declared" => worker[j].tree = "declared"
  BY DEF CleanupResults
<1>5. worker'[j].tree = left /\ \A k \in Jobs \ {j} : Handled(k)
  BY <1>2, TreeAges
<1>6. disk[j].result = "none"
  BY DEF Envelope
<1>7. Finalizes(t, j)
  BY <1>3, <1>4, <1>5, <1>6 DEF Finalizes
<1> QED
  BY <1>3, <1>5, <1>7, SameIsKept DEF Touches

(* The two steps that read a job to an end, and the start of one *)
LEMMA ReadTouches ==
  ASSUME TInv, Derived, Met, NEW t \in Threads, Read(t) \/ FinishCancel(t)
  PROVE  \A k \in Jobs : Touches(t, k)
<1> DEFINE j == th[t].cur
<1>1. disk \in [Jobs -> Dir] /\ j \in Jobs /\ disk[j] \in Dir /\ Born(j)
  BY DEF TInv, TypeOK, Cursor, AtRecord, Read, FinishCancel, Met
<1> HIDE DEF j
<1>2. CASE UNCHANGED store
  <2>1. \A k \in Jobs : Handled(k)
    BY <1>1, <1>2, HandledAges DEF store
  <2> QED
    BY <1>2, <2>1, SameIsKept DEF Touches, store
<1>3. CASE Read(t)
  <2>1. ~Stamped(j) /\ th[t].pc \in {"read", "overread"} /\ th[t].cur = j
    BY <1>3 DEF Read, Derived, Deriving, Stamped, j
  <2>2. CASE /\ Envelope(j) \in Results
             /\ disk' = [disk EXCEPT ![j] = MarkDone(disk[j])] /\ UNCHANGED worker
    BY <1>1, <2>1, <2>2, MarkTouches
  <2>3. CASE Envelope(j) = "none" /\ th[t].pc = "overread" /\ FinalizeCleanup(j, "timeout")
    BY <1>1, <2>1, <2>3, FinalizeTouches
  <2>4. CASE disk' = [disk EXCEPT ![j] = StampFailed(disk[j])] /\ UNCHANGED worker
    <3>1. \A k \in Jobs : Handled(k)
      BY <1>1, <2>4, HandledAges
    <3>2. Keeps(j)
      BY <1>1, <2>4 DEF Keeps, Same, StampFailed, Dir
    <3>3. \A k \in Jobs \ {j} : Keeps(k)
      BY <1>1, <2>4, <3>1, SameIsKept
    <3> QED
      BY <3>2, <3>3 DEF Touches
  <2> QED
    BY <1>2, <1>3, <2>2, <2>3, <2>4 DEF Read, j
<1>4. CASE FinishCancel(t)
  <2>1. th[t].pc = "finish" /\ th[t].cur = j
    BY <1>4 DEF FinishCancel, j
  <2>2. CASE /\ ~Stamped(j) /\ Envelope(j) \in Results
             /\ disk' = [disk EXCEPT ![j] = MarkDone(disk[j])] /\ UNCHANGED worker
    BY <1>1, <2>1, <2>2, MarkTouches
  <2>3. CASE j \in Records /\ ~Stamped(j) /\ Envelope(j) = "none" /\ FinalizeCleanup(j, "cancelled")
    BY <1>1, <2>1, <2>3, FinalizeTouches
  <2> QED
    BY <1>2, <1>4, <2>2, <2>3 DEF FinishCancel, j
<1> QED
  BY <1>3, <1>4

LEMMA StartTouches ==
  ASSUME TInv, Met, NEW t \in Threads,
         Evict(t) \/ Spawn(t) \/ Publish(t) \/ DropUnrecorded(t)
  PROVE  \A k \in Jobs : Touches(t, k)
<1>1. disk \in [Jobs -> Dir] /\ th[t] \in Thread /\ th \in [Threads -> Thread] /\ worker \in [Jobs -> Proc]
  BY DEF TInv, TypeOK
<1>2. CASE UNCHANGED <<disk, worker>>
  <2>1. \A k \in Jobs : Handled(k)
    BY <1>2 DEF Handled, Ages, Born, Alive, Busy
  <2> QED
    BY <1>2, <2>1, SameIsKept DEF Touches
<1>3. CASE Evict(t)
  <2>1. ASSUME NEW j \in Jobs, th[t].seen[j] \in Terminal, NEW d \in Rmtree(j),
               disk' = [disk EXCEPT ![j] = d]
        PROVE  \A k \in Jobs : Touches(t, k)
    <3>1. UNCHANGED worker /\ th[t].pc = "evict"
      BY <1>3 DEF Evict
    <3> QED
      BY <2>1, <3>1, DeleteTouches
  <2> QED
    BY <1>2, <1>3, <2>1 DEF Evict, Evictable
<1>4. CASE Spawn(t)
  <2>1. ASSUME NEW j \in Unstarted,
               disk' = [disk EXCEPT ![j].at = "bare"],
               worker' = [worker EXCEPT ![j].phase = "boot", ![j].parent = Home[t]],
               Move(t, [th[t] EXCEPT !.pc = "publish", !.cur = j])
        PROVE  \A k \in Jobs : Touches(t, k)
    <3>1. j \in Jobs /\ ~Born(j)
      BY DEF Unstarted, Born
    <3>2. worker'[j].phase = "boot" /\ worker'[j].tree = worker[j].tree
      BY <1>1, <2>1, <3>1 DEF Proc
    <3>3. th'[t].cur = j /\ th'[t].pc = "publish"
      BY <1>1, <2>1 DEF Move, Thread
    <3>4. disk'[j] = [disk[j] EXCEPT !.at = "bare"]
      BY <1>1, <2>1, <3>1
    <3>5. Begins(t, j)
      BY <1>4, <3>1, <3>2, <3>3, <3>4 DEF Begins, Born, Spawn
    <3>6. \A k \in Jobs \ {j} : disk'[k] = disk[k] /\ worker'[k] = worker[k]
      BY <1>1, <2>1
    <3>7. \A k \in Jobs \ {j} : Keeps(k)
      BY <3>6 DEF Keeps, Same, Born
    <3> QED
      BY <3>5, <3>7 DEF Touches
  <2> QED
    BY <1>2, <1>4, <2>1 DEF Spawn, store
<1>5. CASE Publish(t)
  <2> DEFINE j == th[t].cur
  <2>1. th[t].pc = "publish" /\ j \in Jobs /\ UNCHANGED worker
    BY <1>5 DEF Publish, TInv, Cursor, AtRecord
  <2> HIDE DEF j
  <2>2. CASE disk' = [disk EXCEPT ![j].at = "record"] /\ Return(t)
    <3>1. th'[t] = Idle /\ th[t].cur = j
      BY <1>1, <2>2, MovesOne DEF Return, j
    <3>2. disk'[j] = [disk[j] EXCEPT !.at = "record"] /\ disk[j] \in Dir
      BY <1>1, <2>1, <2>2
    <3>3. Publishes(t, j)
      BY <2>1, <3>1, <3>2 DEF Publishes, Same, Dir
    <3>4. \A k \in Jobs : Handled(k)
      BY <2>1, HandledAges
    <3>5. \A k \in Jobs \ {j} : Keeps(k)
      BY <1>1, <2>2, <3>4, SameIsKept
    <3> QED
      BY <3>3, <3>5 DEF Touches
  <2> QED
    BY <1>2, <1>5, <2>1, <2>2 DEF Publish, j
<1>6. CASE DropUnrecorded(t)
  <2> DEFINE j == th[t].cur
  <2>1. th[t].pc = "drop" /\ j \in Jobs /\ th[t].cur = j
    BY <1>6 DEF DropUnrecorded, TInv, Cursor, AtRecord
  <2>2. PICK left : worker' = [worker EXCEPT ![j].tree = left]
    BY <1>6 DEF DropUnrecorded
  <2>3. PICK d \in {Absent, [Absent EXCEPT !.at = "bare"]} : disk' = [disk EXCEPT ![j] = d]
    BY <1>6 DEF DropUnrecorded
  <2> HIDE DEF j
  <2>4. Drops(t, j)
    BY <1>1, <2>1, <2>3 DEF Drops
  <2>5. \A k \in Jobs \ {j} : Handled(k)
    BY <2>1, <2>2, TreeAges
  <2>6. \A k \in Jobs \ {j} : Keeps(k)
    BY <1>1, <2>3, <2>5, SameIsKept
  <2> QED
    BY <2>4, <2>6 DEF Touches
<1> QED
  BY <1>3, <1>4, <1>5, <1>6

LEMMA CallTouches ==
  ASSUME TInv, Derived, Met, NEW t \in Threads, CallStep(t)
  PROVE  \A k \in Jobs : Touches(t, k)
<1> DEFINE j == th[t].cur
<1>1. /\ disk \in [Jobs -> Dir]
      /\ th[t].pc \in AtRecord => j \in Jobs /\ Born(j)
  BY DEF TInv, TypeOK, Cursor, Met
<1>2. CASE UNCHANGED disk /\ \A k \in Jobs : Handled(k)
  BY <1>2, SameIsKept DEF Touches
<1>3. CASE Probe(t) \/ GraceEnds(t) \/ ProveGone(t) \/ Signal(t)
  <2>1. j \in Jobs /\ UNCHANGED disk
    BY <1>1, <1>3 DEF Probe, GraceEnds, ProveGone, Signal, AtRecord
  <2>2. UNCHANGED worker \/ worker' = Reaped(t, j) \/ worker' = Killed(t, j)
    BY <1>3 DEF Probe, GraceEnds, ProveGone, Signal
  <2> QED
    BY <1>2, <2>1, <2>2, HandledAges
<1>4. CASE UNCHANGED <<disk, worker>>
  <2>1. \A k \in Jobs : Handled(k)
    BY <1>4 DEF Handled, Ages, Born, Alive, Busy
  <2> QED
    BY <1>2, <1>4, <2>1
<1>5. CASE DropExpired(t) \/ Discard(t) \/ DiscardFailed(t)
  <2>1. j \in Jobs /\ th[t].pc = "settled" /\ th[t].sec # "collect" /\ UNCHANGED worker
    BY <1>1, <1>5 DEF DropExpired, Discard, DiscardFailed, Found, AtRecord
  <2>2. ASSUME NEW d \in Rmtree(j), disk' = [disk EXCEPT ![j] = d],
               th[t].st \in Terminal \cup {"unreadable"}
        PROVE  \A k \in Jobs : Touches(t, k)
    BY <2>1, <2>2, DeleteTouches
  <2>3. th[t].want \in Terminal \cup {"none"} /\ "none" \notin Terminal \cup {"running"}
    BY DEF TInv, TypeOK, Thread, Terminal
  <2>4. CASE DropExpired(t)
    BY <2>2, <2>4 DEF DropExpired, Removable
  <2>5. CASE Discard(t)
    BY <1>4, <2>1, <2>2, <2>3, <2>5 DEF Discard, Found
  <2>6. CASE DiscardFailed(t)
    BY <1>4, <2>1, <2>2, <2>6 DEF DiscardFailed, Terminal
  <2> QED
    BY <1>5, <2>4, <2>5, <2>6
<1>6. CASE MarkDelivered(t)
  <2>1. j \in Jobs /\ Born(j) /\ UNCHANGED worker
    BY <1>1, <1>6 DEF MarkDelivered, Found, AtRecord
  <2>2. \A k \in Jobs : Handled(k)
    BY <2>1, HandledAges
  <2>3. Keeps(j)
    BY <1>1, <1>6, <2>1 DEF MarkDelivered, Keeps, Same, Dir
  <2>4. \A k \in Jobs \ {j} : Keeps(k)
    BY <1>1, <1>6, <2>2, SameIsKept DEF MarkDelivered
  <2> QED
    BY <2>3, <2>4 DEF Touches
<1>7. CASE Enter(t) \/ NextRecord(t) \/ KeepReaped(t) \/ Collect(t) \/ Unserved(t)
           \/ LookStatus(t) \/ LookResult(t)
  BY <1>4, <1>7 DEF Enter, NextRecord, KeepReaped, Collect, Unserved, LookStatus, LookResult, store
<1> QED
  BY <1>3, <1>5, <1>6, <1>7, ReadTouches, StartTouches DEF CallStep

LEMMA CallAges ==
  ASSUME TInv, NEW t \in Threads, CallStep(t)
  PROVE  \A k \in Jobs : Ages(k) /\ (Born(k) => worker'[k].parent = worker[k].parent)
<1> DEFINE j == th[t].cur
           Aged == \A k \in Jobs : Ages(k) /\ (Born(k) => worker'[k].parent = worker[k].parent)
<1>1. th[t].pc \in AtRecord => j \in Jobs
  BY DEF TInv, Cursor
<1>2. CASE UNCHANGED worker
  BY <1>2 DEF Ages, Born, Alive, Busy
<1>3. CASE Probe(t) \/ GraceEnds(t) \/ ProveGone(t) \/ Signal(t)
  <2>1. j \in Jobs /\ (UNCHANGED worker \/ worker' = Reaped(t, j) \/ worker' = Killed(t, j))
    BY <1>1, <1>3 DEF Probe, GraceEnds, ProveGone, Signal, AtRecord
  <2>2. \A k \in Jobs : Handled(k)
    BY <2>1, HandledAges
  <2> QED
    BY <2>2 DEF Handled
<1>4. CASE Read(t) \/ FinishCancel(t) \/ DropUnrecorded(t)
  <2>1. j \in Jobs
    BY <1>1, <1>4 DEF Read, FinishCancel, DropUnrecorded, AtRecord
  <2>2. UNCHANGED worker \/ \E left : worker' = [worker EXCEPT ![j].tree = left]
    BY <1>4 DEF Read, FinishCancel, DropUnrecorded, FinalizeCleanup, store
  <2> QED
    BY <1>2, <2>1, <2>2, TreeAges
<1>5. CASE Spawn(t)
  <2>1. ASSUME NEW k \in Unstarted,
               worker' = [worker EXCEPT ![k].phase = "boot", ![k].parent = Home[t]]
        PROVE  Aged
    BY <2>1 DEF Ages, Born, Alive, Busy, Unstarted, TInv, TypeOK, Proc
  <2> QED
    BY <1>2, <1>5, <2>1 DEF Spawn, store
<1> QED
  BY <1>2, <1>3, <1>4, <1>5
  DEF CallStep, Enter, NextRecord, DropExpired, KeepReaped, Collect, Unserved, LookStatus,
      LookResult, MarkDelivered, Discard, DiscardFailed, Evict, Publish, store

(* What a delete leaves of a record *)
LEMMA RmtreeLeaves ==
  ASSUME NEW j \in Jobs, disk[j] \in Dir, NEW d \in Rmtree(j)
  PROVE  /\ d.result \in {disk[j].result, "none"}
         /\ d.stamp \in {disk[j].stamp, "none"}
         /\ d.at = "record" => disk[j].at = "record" /\ d.stamp = disk[j].stamp
         /\ {"kept", "lost"} \cap Events = {} /\ d.at = "record"
              => d.result = disk[j].result /\ d.result # "none"
<1> DEFINE s == Stripped(disk[j])
           l == [Stripped(disk[j]) EXCEPT !.result = "none"]
<1>1. s.at = disk[j].at /\ s.stamp = disk[j].stamp /\ s.result = disk[j].result
  BY DEF Stripped, Dir
<1>2. l.at = disk[j].at /\ l.stamp = disk[j].stamp /\ l.result = "none"
  BY DEF Stripped, Dir
<1>3. /\ Absent.result = "none" /\ [Absent EXCEPT !.at = "bare"].result = "none"
      /\ Absent.at = "none" /\ [Absent EXCEPT !.at = "bare"].at = "bare"
      /\ Absent.stamp = "none" /\ [Absent EXCEPT !.at = "bare"].stamp = "none"
  BY DEF Absent
<1>4. \/ d = disk[j] /\ "kept" \in Events
      \/ d = s /\ ("kept" \in Events \/ Unreadable(j))
      \/ d = Absent
      \/ d = l /\ "lost" \in Events
      \/ d = [Absent EXCEPT !.at = "bare"]
  BY DEF Rmtree
<1>5. Unreadable(j) => disk[j].result # "none"
  BY InputsAssumption DEF Unreadable, Envelope, Dir
<1> HIDE DEF s, l
<1> QED
  BY <1>1, <1>2, <1>3, <1>4, <1>5

-----------------------------------------------------------------------------
(* Where calls come to be: at a job, in a start, in a cancel.              *)

LEMMA GraceLeads ==
  ASSUME TInv, NEW t \in Threads, GraceEnds(t)
  PROVE  \/ th[t].pc = "overrun" /\ th'[t].pc = "overread"
         \/ th[t].pc = "grace" /\ th'[t].pc = "finish"
         \/ th[t].pc = "abort" /\ th'[t].pc = "drop"
<1>1. CASE th[t].pc = "overrun"
  BY <1>1, GoesOne DEF GraceEnds
<1>2. CASE th[t].pc = "grace"
  BY <1>2, GoesOne DEF GraceEnds
<1>3. CASE th[t].pc = "abort"
  BY <1>3, GoesOne DEF GraceEnds
<1> QED
  BY <1>1, <1>2, <1>3 DEF GraceEnds

LEMMA Arrives ==
  ASSUME TInv, NEW t \in Threads, Moved(t), NEW j \in Jobs
  PROVE  /\ th'[t].pc \in AtRecord /\ th'[t].cur = j
              => \/ th[t].pc \in AtRecord /\ th[t].cur = j
                 \/ j \in Records \cup th[t].todo
                 \/ th'[t].pc = "publish" /\ j \in Unstarted
         /\ j \in th'[t].todo => j \in th[t].todo \cup Records
         /\ th'[t].seen[j] # "none"
              => \/ th'[t].seen[j] = th[t].seen[j]
                 \/ /\ th[t].pc = "settled" /\ th[t].sec = "collect" /\ th[t].cur = j
                    /\ th'[t].seen[j] = th[t].st
<1>1. th[t] \in Thread /\ th[t].seen \in [Jobs -> Readings] /\ Records \subseteq Jobs
  BY DEF TInv, TypeOK, Thread, Records
<1>2. Idle.pc = "idle" /\ Idle.todo = {} /\ Idle.seen = Unseen /\ Unseen[j] = "none"
  BY DEF Idle, Unseen
<1>3. CASE th'[t] = Idle
  BY <1>2, <1>3 DEF AtRecord
<1>4. CASE Stays(t) /\ \/ Probe(t) \/ Read(t) \/ GraceEnds(t) \/ Signal(t) \/ LookStatus(t)
                       \/ Discard(t) \/ Publish(t)
  <2>1. th[t].pc \in AtRecord
    BY <1>4 DEF Probe, Read, GraceEnds, Signal, LookStatus, Discard, Publish, Found, AtRecord
  <2> QED
    BY <1>4, <2>1 DEF Stays
<1>5. CASE Stays(t) /\ (th'[t].pc \in {"evict", "next"} \/ th[t].cur \in Records)
  BY <1>5 DEF Stays, AtRecord
<1>6. CASE th'[t].pc \in {"enter", "next"} /\ th'[t].todo \subseteq th[t].todo \cup Records
           /\ th'[t].seen = th[t].seen
  BY <1>6 DEF AtRecord
<1>7. CASE th'[t].pc = "next" /\ Collect(t) /\ th'[t].todo = th[t].todo
           /\ th'[t].seen = [th[t].seen EXCEPT ![th[t].cur] = th[t].st]
  <2>1. th[t].pc = "settled" /\ th[t].sec = "collect"
    BY <1>7 DEF Collect, Found
  <2> QED
    BY <1>1, <1>7, <2>1 DEF AtRecord
<1>8. CASE th'[t].cur \in th[t].todo /\ th'[t].todo \subseteq th[t].todo
           /\ th'[t].seen = th[t].seen
  BY <1>8
<1>9. CASE ProveGone(t) /\ th'[t].cur = th[t].cur /\ th'[t].todo = th[t].todo
           /\ th'[t].seen = th[t].seen
  BY <1>9 DEF ProveGone, AtRecord
<1>10. CASE th'[t].pc \in {"spawn", "evict"} /\ th'[t].todo = th[t].todo
            /\ \/ th'[t].seen = Unseen
               \/ th'[t].seen = th[t].seen
               \/ \E k \in Jobs : th'[t].seen = [th[t].seen EXCEPT ![k] = "none"]
  BY <1>1, <1>2, <1>10 DEF AtRecord
<1>11. CASE th'[t].pc = "publish" /\ th'[t].cur \in Unstarted
            /\ th'[t].todo = th[t].todo /\ th'[t].seen = th[t].seen
  BY <1>11
<1> QED
  BY <1>3, <1>4, <1>5, <1>6, <1>7, <1>8, <1>9, <1>10, <1>11 DEF Moved

LEMMA Turns ==
  ASSUME TInv, NEW t \in Threads, Moved(t), NEW j \in Jobs
  PROVE  /\ Starting(t, j)' => \/ Starting(t, j)
                               \/ j \in Unstarted /\ th'[t].pc = "publish"
         /\ Stopping(t, j)' => \/ Stopping(t, j)
                               \/ LookStatus(t) /\ th[t].cur = j
         /\ Stopped(t, j)' => Stopping(t, j)
<1>1. Idle.pc = "idle"
  BY DEF Idle
<1>2. CASE Stays(t) /\ GraceEnds(t)
  BY <1>2, GraceLeads DEF Stays, Starting, Stopping, Stopped
<1>3. CASE Stays(t) /\ Signal(t) /\ th'[t].pc \in {"finish", "grace"}
  BY <1>3 DEF Signal, Stays, Starting, Stopping, Stopped
<1>4. CASE Stays(t) /\ LookStatus(t) /\ th'[t].pc = "signal"
  BY <1>4 DEF Stays, Starting, Stopping, Stopped
<1>5. CASE Stays(t) /\ Publish(t) /\ th'[t].pc = "abort"
  BY <1>5 DEF Publish, Stays, Starting, Stopping, Stopped
<1>6. CASE th'[t].pc = "publish" /\ th'[t].cur \in Unstarted
  BY <1>6 DEF Starting, Stopping, Stopped
<1>7. CASE th'[t].pc \notin {"publish", "abort", "drop", "signal", "grace", "finish"}
  BY <1>7 DEF Starting, Stopping, Stopped
<1> QED
  BY <1>1, <1>2, <1>3, <1>4, <1>5, <1>6, <1>7 DEF Moved

LEMMA FreshCall ==
  ASSUME TInv, Fresh, NEW t \in Threads, Moved(t), th'[t].seen # Unseen
  PROVE  /\ th'[t].sec = "collect"
         /\ th'[t].pc \in {"next", "probe", "read", "overrun", "overread", "settled", "evict"}
<1> DEFINE Pass == {"next", "probe", "read", "overrun", "overread", "settled", "evict"}
           Kept == th'[t].sec = "collect" /\ th'[t].pc \in Pass
<1>1. Idle.seen = Unseen
  BY DEF Idle
<1>2. th[t].seen # Unseen => th[t].sec = "collect" /\ th[t].pc \in Pass
  BY DEF Fresh
<1>3. CASE Stays(t)
  <2>1. th'[t].sec = "collect" /\ th[t].pc \in Pass /\ th[t].sec = "collect"
    BY <1>2, <1>3 DEF Stays
  <2>2. ~LookStatus(t) /\ ~Discard(t) /\ ~Signal(t) /\ ~Publish(t) /\ ~Enter(t)
    BY <2>1 DEF LookStatus, Discard, Signal, Publish, Enter, Found
  <2>3. GraceEnds(t) => th'[t].pc = "overread"
    BY <2>1, GraceLeads
  <2>4. th'[t] # Idle
    BY <1>1
  <2>5. Kept
    BY <1>3, <2>1, <2>2, <2>3, <2>4 DEF Moved, Stays, Evict, ProveGone, Spawn, Collect, Found
  <2> QED
    BY <2>5
<1>4. CASE th'[t].seen = th[t].seen /\ \/ th[t].sec \in {"look", "mark", "reap"}
                                       \/ ProveGone(t) \/ Spawn(t)
  BY <1>2, <1>4 DEF ProveGone, Spawn
<1>5. CASE th'[t].seen = th[t].seen /\ th'[t].pc = "probe" /\ th'[t].sec = th[t].sec
  BY <1>2, <1>5
<1>6. CASE /\ th'[t].pc = "evict" /\ th'[t].sec = th[t].sec
           /\ \E k \in Jobs : th[t].seen[k] # "none"
  BY <1>2, <1>6 DEF Unseen
<1> QED
  BY <1>1, <1>3, <1>4, <1>5, <1>6 DEF Moved

-----------------------------------------------------------------------------
(* Where calls and records are in step with each other.                    *)

LEMMA QuietPlaced ==
  ASSUME BInv, Quiet, SInv'
  PROVE  BInv'
<1>1. \A k \in Jobs : Ages(k) /\ Evolves(k)
  BY DEF Quiet
<1>2. ASSUME NEW t \in Threads
      PROVE  \/ th'[t] = th[t]
             \/ /\ th'[t].pc \in {"idle", "enter"} /\ th'[t].seen = Unseen
                /\ th'[t].todo = {}
  BY DEF Quiet
<1>3. Unbegun'
  BY <1>1 DEF BInv, Unbegun, Ages, Evolves
<1>4. Met'
  <2> SUFFICES ASSUME NEW t \in Threads, NEW j \in Jobs
               PROVE  /\ th'[t].cur = j /\ th'[t].pc \in AtRecord => Born(j)'
                      /\ j \in th'[t].todo => Born(j)'
                      /\ th'[t].seen[j] # "none" => Born(j)'
    BY DEF Met
  <2>1. Born(j) => Born(j)'
    BY <1>1 DEF Ages
  <2>2. CASE th'[t] = th[t]
    BY <2>1, <2>2 DEF BInv, Met
  <2>3. CASE th'[t].pc \in {"idle", "enter"} /\ th'[t].seen = Unseen /\ th'[t].todo = {}
    BY <2>3 DEF Unseen, AtRecord
  <2> QED
    BY <1>2, <2>2, <2>3
<1>5. Fresh'
  BY <1>2 DEF BInv, Fresh, Unseen
<1>6. Apart'
  <2> SUFFICES ASSUME NEW t \in Threads, NEW j \in Jobs, Starting(t, j)'
               PROVE  /\ (j \notin Records)' /\ ~Stamped(j)'
                      /\ \A u \in Threads : ~Stopping(u, j)' /\ ~Stopped(u, j)'
    BY DEF Apart
  <2>1. Starting(t, j)
    BY <1>2 DEF Starting
  <2>2. j \notin Records /\ ~Stamped(j) /\ \A u \in Threads : ~Stopping(u, j) /\ ~Stopped(u, j)
    BY <2>1 DEF BInv, Apart
  <2>3. (j \notin Records)' /\ ~Stamped(j)'
    BY <1>1, <2>2 DEF Evolves, Records, Stamped
  <2>4. ASSUME NEW u \in Threads
        PROVE  ~Stopping(u, j)' /\ ~Stopped(u, j)'
    BY <1>2, <2>2 DEF Stopping, Stopped
  <2> QED
    BY <2>3, <2>4
<1> QED
  BY <1>3, <1>4, <1>5, <1>6 DEF BInv

(* Under the record lock the disk is one call's own *)
LEMMA OwnDisk ==
  ASSUME SInv, NEW t \in Threads, CallStep(t), NEW u \in Threads \ {t},
         th[u].pc \in InSection
  PROVE  UNCHANGED disk
<1>1. TInv /\ Exclusive /\ Behaves(t)
  BY CallStepBehaves DEF SInv, LInv
<1> QED
  BY <1>1, ExclusiveStep

LEMMA OneInSection ==
  ASSUME SInv, NEW t \in Threads, NEW u \in Threads,
         th[t].pc \in InSection, th[u].pc \in InSection
  PROVE  t = u
  BY DEF SInv, LInv, Exclusive

LEMMA CallPlaced ==
  ASSUME BInv, NEW t \in Threads, CallStep(t), SInv'
  PROVE  BInv'
<1>1. TInv /\ Derived /\ SInv /\ Unbegun /\ Met /\ Fresh /\ Apart
  BY DEF BInv, SInv, LInv
<1>2. Moved(t) /\ \A u \in Threads \ {t} : th'[u] = th[u]
  BY <1>1, CallMoves
<1>3. \A k \in Jobs : Touches(t, k) /\ Ages(k)
  BY <1>1, CallTouches, CallAges
<1>4. \A k \in Records : Born(k)
  BY <1>1, AbsentLemma DEF Unbegun, Records
<1>5. ASSUME NEW j \in Jobs, Deletes(t, j)
      PROVE  Born(j)
  <2>1. "none" \notin Terminal /\ "settled" \in AtRecord
    BY DEF Terminal, AtRecord
  <2> QED
    BY <1>1, <1>5, <2>1 DEF Deletes, Met
<1>6. ASSUME NEW j \in Jobs, th'[t].pc = "publish", th'[t].cur = j
      PROVE  Born(j)'
  BY <1>6 DEF SInv, Parented, Born
<1>7. Unbegun'
  <2> SUFFICES ASSUME NEW k \in Jobs, ~Born(k)'
               PROVE  disk'[k] = Absent /\ worker'[k].tree = "none"
    BY DEF Unbegun
  <2>1. ~Born(k) /\ disk[k] = Absent /\ worker[k].tree = "none"
    BY <1>1, <1>3 DEF Ages, Unbegun
  <2>2. th[t].cur = k => th[t].pc \notin AtRecord
    BY <1>1, <2>1 DEF Met
  <2>3. ~Deletes(t, k)
    BY <1>5, <2>1
  <2>4. ~Marks(t, k) /\ ~Finalizes(t, k) /\ ~Publishes(t, k) /\ ~Drops(t, k)
    BY <2>2 DEF Marks, Finalizes, Publishes, Drops, AtRecord
  <2>5. Keeps(k)
    BY <1>3, <2>3, <2>4 DEF Touches, Begins
  <2> QED
    BY <2>1, <2>5 DEF Keeps, Same
<1>8. Met'
  <2> SUFFICES ASSUME NEW u \in Threads, NEW j \in Jobs
               PROVE  /\ th'[u].cur = j /\ th'[u].pc \in AtRecord => Born(j)'
                      /\ j \in th'[u].todo => Born(j)'
                      /\ th'[u].seen[j] # "none" => Born(j)'
    BY DEF Met
  <2>1. Born(j) => Born(j)'
    BY <1>3 DEF Ages
  <2>2. CASE th'[u] = th[u]
    BY <1>1, <2>1, <2>2 DEF Met
  <2>3. CASE u = t
    <3>1. "settled" \in AtRecord
      BY DEF AtRecord
    <3> QED
      BY <1>1, <1>2, <1>4, <1>6, <2>1, <2>3, <3>1, Arrives DEF Met
  <2> QED
    BY <1>2, <2>2, <2>3
<1>9. Fresh'
  BY <1>1, <1>2, FreshCall DEF Fresh
<1>10. Apart'
  <2> SUFFICES ASSUME NEW v \in Threads, NEW j \in Jobs, Starting(v, j)'
               PROVE  /\ (j \notin Records)' /\ ~Stamped(j)'
                      /\ \A u \in Threads : ~Stopping(u, j)' /\ ~Stopped(u, j)'
    BY DEF Apart
  <2>1. CASE Starting(v, j)
    <3>1. j \notin Records /\ ~Stamped(j) /\ \A u \in Threads : ~Stopping(u, j) /\ ~Stopped(u, j)
      BY <1>1, <2>1 DEF Apart
    <3>2. th[v].cur = j /\ th[v].pc \in {"publish", "abort", "drop"} /\ th[v].pc \in InSection
      BY <2>1 DEF Starting, InSection
    <3>3. (j \notin Records)' /\ ~Stamped(j)'
      <4>1. CASE UNCHANGED disk
        BY <3>1, <4>1 DEF Records, Stamped
      <4>2. CASE v = t
        <5>1. Keeps(j) \/ Publishes(v, j) \/ Drops(v, j)
          BY <1>3, <3>2, <4>2 DEF Touches, Deletes, Marks, Finalizes, Begins
        <5>2. ~Publishes(v, j)
          BY <3>2 DEF Publishes, Starting, Idle
        <5> QED
          BY <3>1, <5>1, <5>2, AbsentLemma DEF Keeps, Drops, Records, Stamped
      <4> QED
        BY <1>1, <3>2, <4>1, <4>2, OwnDisk
    <3>4. ASSUME NEW u \in Threads
          PROVE  ~Stopping(u, j)' /\ ~Stopped(u, j)'
      <4>1. CASE th'[u] = th[u]
        BY <3>1, <4>1 DEF Stopping, Stopped
      <4>2. CASE u = t
        <5>1. LookStatus(t) /\ th[t].cur = j => t = v
          BY <1>1, <3>2, OneInSection DEF LookStatus, Found, InSection
        <5>2. ~(LookStatus(t) /\ th[t].cur = j)
          BY <3>2, <5>1 DEF LookStatus, Found
        <5> QED
          BY <1>1, <1>2, <3>1, <4>2, <5>2, Turns
      <4> QED
        BY <1>2, <4>1, <4>2
    <3> QED
      BY <3>3, <3>4
  <2>2. CASE ~Starting(v, j)
    <3>1. v = t
      BY <1>2, <2>2 DEF Starting
    <3>2. j \in Unstarted /\ th'[t].pc = "publish" /\ th'[t].cur = j
      BY <1>1, <1>2, <2>2, <3>1, Turns DEF Starting
    <3>3. ~Born(j) /\ disk[j] = Absent
      BY <1>1, <3>2 DEF Unstarted, Born, Unbegun
    <3>4. th[t].cur = j => th[t].pc \notin AtRecord
      BY <1>1, <3>3 DEF Met
    <3>5. Keeps(j) \/ Begins(t, j)
      BY <1>3, <1>5, <3>3, <3>4 DEF Touches, Deletes, Marks, Finalizes, Publishes, Drops, AtRecord
    <3>6. (j \notin Records)' /\ ~Stamped(j)'
      BY <3>3, <3>5, AbsentLemma DEF Keeps, Begins, Records, Stamped
    <3>7. ASSUME NEW u \in Threads
          PROVE  ~Stopping(u, j)' /\ ~Stopped(u, j)'
      <4>1. CASE th'[u] = th[u]
        BY <1>1, <3>3, <4>1 DEF Stopping, Stopped, Met, AtRecord
      <4>2. CASE u = t
        BY <3>2, <4>2 DEF Stopping, Stopped
      <4> QED
        BY <1>2, <4>1, <4>2
    <3> QED
      BY <3>6, <3>7
  <2> QED
    BY <2>1, <2>2
<1> QED
  BY <1>7, <1>8, <1>9, <1>10 DEF BInv

LEMMA PlacedNext ==
  ASSUME BInv, [Next]_vars
  PROVE  BInv'
<1>1. SInv' /\ TInv
  BY SignalNext DEF BInv, SInv, LInv
<1> QED
  BY <1>1, NextKinds, QuietPlaced, CallPlaced

LEMMA PlacedInit == Init => BInv
<1> SUFFICES ASSUME Init
             PROVE  BInv
  OBVIOUS
<1>1. /\ Idle.pc = "idle" /\ Idle.todo = {} /\ Idle.seen = Unseen
      /\ Unborn.tree = "none" /\ \A j \in Jobs : Unseen[j] = "none"
  BY DEF Idle, Unborn, Unseen
<1>2. Unbegun /\ Met /\ Fresh /\ Apart
  BY <1>1 DEF Init, Unbegun, Met, Fresh, Apart, Starting, AtRecord
<1> QED
  BY <1>2, SignalInit DEF BInv

-----------------------------------------------------------------------------
(* What a call read stays so until it acts on it.                          *)

LEMMA KilledEnds ==
  ASSUME TInv, NEW t \in Threads, NEW j \in Jobs, worker' = Killed(t, j)
  PROVE  ~Alive(j)'
<1>1. worker \in [Jobs -> Proc] /\ worker[j] \in Proc
  BY DEF TInv, TypeOK
<1> QED
  BY <1>1 DEF Killed, Exited, Alive, Proc

LEMMA SeenAlive ==
  ASSUME NEW t \in Threads, NEW j \in Jobs, Sees(t, j), Alive(j)
  PROVE  JobRunning(t, j)
  BY DEF Sees, JobRunning, IsRunning

LEMMA DoubtsStay ==
  ASSUME NEW t \in Threads, CallStep(t)
  PROVE  doubted \subseteq doubted'
  BY DEF CallStep, Enter, NextRecord, Probe, Read, GraceEnds, DropExpired, KeepReaped,
         Collect, Unserved, LookStatus, LookResult, MarkDelivered, Discard, ProveGone,
         DiscardFailed, Signal, FinishCancel, Evict, Spawn, Publish, DropUnrecorded, history

(* A job whose directory says anything was started *)
LEMMA WrittenIsBorn ==
  ASSUME Unbegun, NEW j \in Jobs, j \in Records \/ disk[j].result # "none" \/ Stamped(j)
  PROVE  Born(j)
<1>1. Absent.at = "none" /\ Absent.result = "none" /\ Absent.stamp = "none"
  BY DEF Absent
<1> QED
  BY <1>1 DEF Unbegun, Records, Stamped

LEMMA DeletesLeave ==
  ASSUME TInv, NEW t \in Threads, NEW j \in Jobs, Deletes(t, j)
  PROVE  /\ (disk[j].result = "none" => disk'[j].result = "none")
         /\ disk'[j].stamp \in {disk[j].stamp, "none"}
         /\ (j \in Records)' => j \in Records /\ disk'[j].stamp = disk[j].stamp
<1>1. disk[j] \in Dir
  BY DEF TInv, TypeOK
<1>2. PICK d \in Rmtree(j) : disk'[j] = d
  BY DEF Deletes
<1>3. /\ d.result \in {disk[j].result, "none"} /\ d.stamp \in {disk[j].stamp, "none"}
      /\ d.at = "record" => disk[j].at = "record" /\ d.stamp = disk[j].stamp
  BY <1>1, RmtreeLeaves
<1> QED
  BY <1>2, <1>3 DEF Stamped, Records

(* Once a cancel can do no harm it stays so *)
LEMMA OverStays ==
  ASSUME BInv, NEW t \in Threads, CallStep(t), NEW j \in Jobs, Born(j), Over(j), ~Publishes(t, j)
  PROVE  Over(j)'
<1>1. TInv /\ Derived /\ Met
  BY DEF BInv, SInv, LInv
<1>2. Touches(t, j) /\ Ages(j)
  BY <1>1, CallTouches, CallAges
<1>3. Alive(j)' => Alive(j)
  BY <1>2 DEF Ages
<1>4. Stamped(j) \/ j \notin Records => Stamped(j)' \/ (j \notin Records)'
  <2>1. CASE Keeps(j) \/ Marks(t, j) \/ Finalizes(t, j)
    BY <2>1 DEF Keeps, Marks, Finalizes, Stamped, Records
  <2>2. CASE Deletes(t, j)
    BY <1>1, <2>2, DeletesLeave DEF Stamped, Records
  <2>3. CASE Drops(t, j)
    BY <2>3, AbsentLemma DEF Drops, Records
  <2> QED
    BY <1>2, <2>1, <2>2, <2>3 DEF Touches, Begins
<1> QED
  BY <1>3, <1>4 DEF Over

LEMMA QuietLast ==
  ASSUME BInv, Last, Quiet
  PROVE  Last'
<1> SUFFICES ASSUME NEW j \in Jobs, disk'[j].result # "none" \/ Stamped(j)'
             PROVE  ~Busy(j)'
  BY DEF Last
<1>1. Ages(j) /\ Evolves(j)
  BY DEF Quiet
<1>2. CASE ~Busy(j)'
  BY <1>2
<1>3. CASE disk[j].result # "none" \/ Stamped(j)
  <2>1. Born(j)
    BY <1>3, WrittenIsBorn DEF BInv
  <2> QED
    BY <1>1, <1>3, <2>1 DEF Ages, Last
<1> QED
  BY <1>1, <1>2, <1>3 DEF Evolves, Stamped

LEMMA CallLast ==
  ASSUME BInv, Last, Seeing, NEW t \in Threads, CallStep(t)
  PROVE  Last'
<1>1. TInv /\ Derived /\ Met /\ Unbegun
  BY DEF BInv, SInv, LInv
<1> SUFFICES ASSUME NEW j \in Jobs, disk'[j].result # "none" \/ Stamped(j)'
             PROVE  ~Busy(j)'
  BY DEF Last
<1>2. Touches(t, j) /\ Ages(j)
  BY <1>1, CallTouches, CallAges
<1>3. CASE disk[j].result # "none" \/ Stamped(j)
  <2>1. Born(j)
    BY <1>1, <1>3, WrittenIsBorn
  <2> QED
    BY <1>2, <1>3, <2>1 DEF Ages, Last
<1>4. CASE Finalizes(t, j)
  <2>1. ~Alive(j)
    BY <1>4 DEF Finalizes, Seeing, Stopped, Over
  <2>2. Born(j)
    BY <1>1, <1>4 DEF Finalizes, Met, AtRecord
  <2> QED
    BY <1>2, <2>1, <2>2 DEF Ages, Busy
<1>5. CASE Begins(t, j)
  <2>1. disk[j] = Absent
    BY <1>1, <1>5 DEF Begins, Unbegun
  <2>2. disk'[j].result = "none" /\ disk'[j].stamp = "none"
    BY <1>5, <2>1 DEF Begins, Absent
  <2> QED
    BY <2>2 DEF Stamped
<1>6. CASE Drops(t, j)
  BY <1>6 DEF Drops, Absent, Stamped
<1>7. CASE Deletes(t, j)
  BY <1>1, <1>3, <1>7, DeletesLeave DEF Stamped
<1> QED
  BY <1>2, <1>3, <1>4, <1>5, <1>6, <1>7 DEF Touches, Keeps, Marks, Publishes, Same, Stamped

-----------------------------------------------------------------------------
(* Reads                                                                   *)

LEMMA HasIsBorn ==
  ASSUME Met, NEW t \in Threads, NEW j \in Jobs, NEW st, st # "none", Has(t, j, st)
  PROVE  Born(j)
  BY DEF Has, Met, AtRecord

LEMMA ReadAsNone ==
  ASSUME NEW j \in Jobs
  PROVE  ReadAs(j, "none")' /\ ReadAs(j, "running")'
  BY DEF ReadAs

LEMMA ReadAsStays ==
  ASSUME NEW j \in Jobs, NEW st, Born(j), ReadAs(j, st), Ages(j), doubted \subseteq doubted',
         /\ Stamped(j) => disk'[j].stamp = disk[j].stamp \/ (j \notin Records)'
         /\ j \notin Records => (j \notin Records)'
         /\ ~Alive(j) /\ disk[j].result = "none" => disk'[j].result = "none"
         /\ st = "unreadable" /\ disk[j].result # "none"
              => disk'[j].result # "none" \/ (j \notin Records)'
  PROVE  ReadAs(j, st)'
<1>1. ~Alive(j) => ~Alive(j)'
  BY DEF Ages
<1> QED
  BY <1>1 DEF ReadAs, Stamped

LEMMA QuietReads ==
  ASSUME BInv, Reads, Quiet
  PROVE  Reads'
<1> SUFFICES ASSUME NEW t \in Threads, NEW j \in Jobs, NEW st \in Readings, Has(t, j, st)'
             PROVE  ReadAs(j, st)'
  BY DEF Reads
<1>1. Ages(j) /\ Evolves(j) /\ doubted \subseteq doubted'
  BY DEF Quiet
<1>2. CASE st = "none"
  BY <1>2, ReadAsNone
<1>3. CASE st # "none"
  <2>1. Has(t, j, st)
    BY <1>3 DEF Quiet, Has, Unseen
  <2>2. Born(j) /\ ReadAs(j, st)
    BY <1>3, <2>1, HasIsBorn DEF BInv, Reads
  <2>3. /\ disk'[j].stamp = disk[j].stamp
        /\ j \notin Records => (j \notin Records)'
        /\ ~Alive(j) /\ disk[j].result = "none" => disk'[j].result = "none"
        /\ disk[j].result # "none" => disk'[j].result # "none"
    BY <1>1 DEF Evolves, Records
  <2> QED
    BY <1>1, <2>2, <2>3, ReadAsStays
<1> QED
  BY <1>2, <1>3

(* What a step of a call reads is so *)
LEMMA ReadsRight ==
  ASSUME TInv, Derived, NEW t \in Threads, Probe(t) \/ Read(t), th'[t].pc = "settled",
         NEW j \in Jobs, th[t].cur = j, NEW st, th'[t].st = st
  PROVE  ReadAs(j, st)'
<1>1. disk \in [Jobs -> Dir] /\ disk[j] \in Dir
  BY DEF TInv, TypeOK
<1>2. CASE Probe(t)
  <2>1. \/ Stamped(j) /\ Settle(t, disk[j].stamp) /\ UNCHANGED disk
        \/ Settle(t, "running")
        \/ \E pc \in {"read", "overrun"} : Go(t, pc)
    BY <1>2 DEF Probe
  <2>2. CASE Stamped(j) /\ Settle(t, disk[j].stamp) /\ UNCHANGED disk
    <3>1. st = disk[j].stamp /\ st \in {"done", "cancelled", "timeout"}
      BY <1>1, <2>2, SettlesOne DEF Stamped, Dir, Stamps
    <3> QED
      BY <2>2, <3>1 DEF ReadAs, Stamped
  <2>3. CASE Settle(t, "running")
    BY <2>3, SettlesOne, ReadAsNone
  <2>4. CASE \E pc \in {"read", "overrun"} : Go(t, pc)
    BY <2>4, GoesOne
  <2> QED
    BY <2>1, <2>2, <2>3, <2>4
<1>3. CASE Read(t)
  <2>1. CASE Unreadable(j) /\ Settle(t, "unreadable") /\ UNCHANGED disk
    <3>1. disk[j].result # "none"
      BY <1>1, <2>1, InputsAssumption DEF Unreadable, Envelope, Dir
    <3> QED
      BY <2>1, <3>1, SettlesOne DEF ReadAs
  <2>2. CASE disk' = [disk EXCEPT ![j] = MarkDone(disk[j])] /\ Settle(t, "done")
    <3>1. disk'[j].stamp = "done" /\ st = "done"
      BY <1>1, <2>2, MarkDoneLemma, SettlesOne
    <3> QED
      BY <3>1 DEF ReadAs
  <2>3. CASE FinalizeCleanup(j, "timeout") /\ Settle(t, "timeout")
    <3>1. disk'[j].stamp = "timeout" /\ st = "timeout"
      BY <1>1, <2>3, SettlesOne DEF FinalizeCleanup, Dir
    <3> QED
      BY <3>1 DEF ReadAs
  <2>4. CASE /\ Settle(t, "failed") /\ UNCHANGED worker /\ Envelope(j) = "none"
             /\ disk' = [disk EXCEPT ![j] = StampFailed(disk[j])]
             /\ doubted' = IF Alive(j) THEN doubted \cup {j} ELSE doubted
    <3>1. st = "failed" /\ (~Alive(j)' \/ j \in doubted')
      BY <2>4, SettlesOne DEF Alive
    <3>2. disk'[j].result = "none"
      BY <1>1, <2>4, StampFailedLemma DEF Envelope
    <3> QED
      BY <3>1, <3>2 DEF ReadAs
  <2> QED
    BY <1>3, <2>1, <2>2, <2>3, <2>4 DEF Read, store
<1> QED
  BY <1>2, <1>3

(* A call that has read or collected something is in a section *)
LEMMA HasInSection ==
  ASSUME Fresh, NEW t \in Threads, NEW j \in Jobs, NEW st, st # "none", Has(t, j, st)
  PROVE  th[t].pc \in InSection
  BY DEF Has, Fresh, Unseen, InSection

LEMMA CallReads ==
  ASSUME BInv, Reads, NEW t \in Threads, CallStep(t), BInv'
  PROVE  Reads'
<1>1. TInv /\ Derived /\ Met /\ SInv /\ Fresh
  BY DEF BInv, SInv, LInv
<1> SUFFICES ASSUME NEW u \in Threads, NEW j \in Jobs, NEW st \in Readings, Has(u, j, st)',
                    st # "none"
             PROVE  ReadAs(j, st)'
  BY ReadAsNone DEF Reads
<1>2. Moved(t) /\ \A v \in Threads \ {t} : th'[v] = th[v]
  BY <1>1, CallMoves
<1>3. Touches(t, j) /\ Ages(j) /\ doubted \subseteq doubted'
  BY <1>1, CallTouches, CallAges, DoubtsStay
<1>4. CASE u # t
  <2>1. Has(u, j, st)
    BY <1>2, <1>4 DEF Has
  <2>2. Born(j) /\ ReadAs(j, st) /\ UNCHANGED disk
    BY <1>1, <1>4, <2>1, HasIsBorn, HasInSection, OwnDisk DEF Reads
  <2> QED
    BY <1>3, <2>2, ReadAsStays DEF Stamped, Records
<1>5. CASE u = t /\ Has(t, j, st)
  <2>1. Born(j) /\ ReadAs(j, st)
    BY <1>1, <1>5, HasIsBorn DEF Reads
  <2>2. CASE Keeps(j) \/ Marks(t, j) \/ Finalizes(t, j)
    <3>1. /\ Stamped(j) => disk'[j].stamp = disk[j].stamp
          /\ j \notin Records => (j \notin Records)'
          /\ disk'[j].result = disk[j].result
      BY <2>2 DEF Keeps, Marks, Finalizes, Same, Records
    <3> QED
      BY <1>3, <2>1, <3>1, ReadAsStays
  <2>3. CASE Deletes(t, j)
    <3>1. /\ Stamped(j) => disk'[j].stamp = disk[j].stamp \/ (j \notin Records)'
          /\ j \notin Records => (j \notin Records)'
          /\ disk[j].result = "none" => disk'[j].result = "none"
      BY <1>1, <2>3, DeletesLeave
    <3>2. th'[t].pc # "settled"
      BY <1>2, <2>3 DEF Deletes, Moved, Idle, Probe, Read
    <3>3. th'[t].seen[j] = st
      BY <1>5, <3>2 DEF Has
    <3>4. th[t].sec = "collect" => th[t].pc = "evict" /\ th[t].seen[j] \in Terminal
      BY <2>3 DEF Deletes
    <3>5. th[t].sec # "collect" => th[t].seen[j] = "none"
      BY <1>1 DEF Fresh, Unseen
    <3>6. th[t].pc = "settled" => th[t].sec # "collect"
      BY <2>3 DEF Deletes
    <3>7. st \in Terminal
      BY <1>1, <1>2, <3>3, <3>4, <3>5, <3>6, Arrives
    <3>8. st # "unreadable"
      BY <3>7 DEF Terminal
    <3> QED
      BY <1>3, <2>1, <3>1, <3>8, ReadAsStays
  <2>4. ~Publishes(t, j) /\ ~Begins(t, j)
    BY <1>5, <2>1 DEF Publishes, Begins, Has, Idle, Unseen
  <2>5. ~Drops(t, j)
    BY <1>1, <1>5 DEF Drops, Has, Fresh, Unseen
  <2> QED
    BY <1>3, <2>2, <2>3, <2>4, <2>5 DEF Touches
<1>6. CASE u = t /\ ~Has(t, j, st)
  <2>1. th'[t].seen[j] # st
    BY <1>1, <1>2, <1>6, Arrives DEF Has
  <2>2. th'[t].pc = "settled" /\ th'[t].cur = j /\ th'[t].st = st
    BY <1>6, <2>1 DEF Has
  <2>3. (Probe(t) \/ Read(t)) /\ th[t].cur = j
    BY <1>2, <2>2 DEF Moved, Stays, Idle
  <2> QED
    BY <1>1, <2>2, <2>3, ReadsRight
<1> QED
  BY <1>4, <1>5, <1>6

-----------------------------------------------------------------------------
(* Who stops a worker sees it.                                             *)

LEMMA QuietSeeing ==
  ASSUME EInv, Quiet
  PROVE  Seeing' /\ Unhanded'
<1>1. TInv /\ Met /\ Seeing /\ Unhanded
  BY DEF EInv, BInv, SInv, LInv
<1>2. \A j \in Jobs : Ages(j) /\ Evolves(j)
  BY DEF Quiet
<1>3. ASSUME NEW t \in Threads, th'[t].pc \notin {"idle", "enter"}
      PROVE  /\ th'[t] = th[t]
             /\ \A j \in Jobs : Born(j) /\ Owned(t, j) => Owned(t, j)'
  BY <1>3 DEF Quiet, Owned
<1>4. ASSUME NEW t \in Threads, NEW j \in Jobs, th'[t].cur = j,
             th'[t].pc \in AtRecord
      PROVE  /\ th'[t] = th[t] /\ Born(j) /\ (Alive(j)' => Alive(j))
             /\ Owned(t, j) => Owned(t, j)'
             /\ Alive(j)' /\ Sees(t, j) => Sees(t, j)'
             /\ Over(j) => Over(j)'
  <2>1. th'[t].pc \notin {"idle", "enter"}
    BY <1>4 DEF AtRecord
  <2>2. th'[t] = th[t] /\ Born(j)
    BY <1>1, <1>3, <1>4, <2>1 DEF Met
  <2>3. (Alive(j)' => Alive(j)) /\ (Owned(t, j) => Owned(t, j)')
    BY <1>2, <1>3, <2>1, <2>2 DEF Ages
  <2>4. Alive(j)' /\ Held(j) => Held(j)'
    BY <1>2 DEF Ages, Evolves, Held
  <2>5. Over(j) => Over(j)'
    BY <1>2, <2>3 DEF Evolves, Over, Stamped, Records
  <2> QED
    BY <2>2, <2>3, <2>4, <2>5 DEF Sees
<1>5. ASSUME NEW t \in Threads, NEW j \in Jobs, Stopping(t, j)'
      PROVE  Stopping(t, j) /\ (Over(j) => Over(j)') /\ (Owned(t, j) => Owned(t, j)')
  BY <1>4, <1>5 DEF Stopping, AtRecord
<1>6. Seeing'
  <2> SUFFICES ASSUME NEW t \in Threads, NEW j \in Jobs, th'[t].cur = j
               PROVE  /\ th'[t].pc = "overrun" => (Alive(j)' => Sees(t, j)')
                      /\ th'[t].pc = "settled" /\ th'[t].st = "running"
                           => (Alive(j)' => Sees(t, j)')
                      /\ th'[t].pc \in {"overread", "drop"} => ~Alive(j)'
                      /\ Stopping(t, j)' => Over(j)' \/ Sees(t, j)'
                      /\ Stopped(t, j)' => Over(j)'
    BY DEF Seeing, Stopping, Stopped
  <2>1. CASE th'[t].pc \in {"overrun", "settled", "overread", "drop"}
    <3>1. th'[t].pc \in AtRecord
      BY <2>1 DEF AtRecord
    <3> QED
      BY <1>1, <1>4, <2>1, <3>1 DEF Seeing, Stopping, Stopped
  <2>2. CASE Stopping(t, j)'
    <3>1. th'[t].pc \in AtRecord /\ th'[t].pc \in {"signal", "grace"}
      BY <2>2 DEF Stopping, AtRecord
    <3>2. Stopping(t, j) /\ (Over(j) \/ Sees(t, j))
      BY <1>1, <1>5, <2>2 DEF Seeing
    <3>3. ~Alive(j)' => Over(j)'
      BY DEF Over
    <3> QED
      BY <1>4, <3>1, <3>2, <3>3 DEF Stopped
  <2>3. CASE Stopped(t, j)'
    <3>1. th'[t].pc \in AtRecord /\ th'[t].pc = "finish"
      BY <2>3 DEF Stopped, AtRecord
    <3> QED
      BY <1>1, <1>4, <3>1 DEF Seeing, Stopped, Stopping
  <2> QED
    BY <2>1, <2>2, <2>3
<1>7. Unhanded'
  <2> SUFFICES ASSUME NEW t \in Threads, NEW u \in Threads, NEW j \in Jobs,
                      Stopping(t, j)', Doomed(u, j)'
               PROVE  Over(j)' \/ Owned(t, j)'
    BY DEF Unhanded
  <2>1. Doomed(u, j)
    BY DEF Quiet, Doomed, Has, Unseen
  <2> QED
    BY <1>1, <1>5, <2>1 DEF Unhanded
<1> QED
  BY <1>6, <1>7

(* A worker that a probe saw is one the call sees *)
LEMMA ProbeSees ==
  ASSUME TInv, NEW t \in Threads, Probe(t) \/ Read(t),
         th'[t].pc = "overrun" \/ (th'[t].pc = "settled" /\ th'[t].st = "running"),
         NEW j \in Jobs, th[t].cur = j
  PROVE  Sees(t, j) /\ UNCHANGED <<disk, worker>>
<1>1. disk[j] \in Dir
  BY DEF TInv, TypeOK
<1>2. CASE Probe(t)
  <2>1. ~Settle(t, disk[j].stamp) /\ ~Go(t, "read")
    BY <1>1, SettlesOne, GoesOne DEF Dir, Stamps
  <2>2. JobRunning(t, j) /\ UNCHANGED <<disk, worker>>
    BY <1>2, <2>1 DEF Probe
  <2> QED
    BY <2>2 DEF JobRunning, Sees
<1>3. CASE Read(t)
  <2>1. \E st \in {"unreadable", "done", "timeout", "failed"} : Settle(t, st)
    BY <1>3 DEF Read
  <2> QED
    BY <2>1, SettlesOne
<1> QED
  BY <1>2, <1>3

(* An overrun, a cancel or an abandoned start leaves no live worker that   *)
(* its call could see, and none at all if it is the worker's own server.   *)
LEMMA WaitedOut ==
  ASSUME SInv, NEW t \in Threads, GraceEnds(t), NEW j \in Jobs, th[t].cur = j,
         th[t].pc # "abort" => Sees(t, j) \/ ~Alive(j), Ages(j), Born(j)
  PROVE  ~Alive(j)'
<1>1. TInv /\ (th[t].pc = "abort" => Owned(t, j))
  BY DEF SInv, LInv, Parented
<1>2. CASE worker' = Killed(t, j)
  BY <1>1, <1>2, KilledEnds
<1>3. CASE IF th[t].pc = "abort" THEN ~IsRunning(j) ELSE ~JobRunning(t, j)
  <2>1. ~Alive(j)
    BY <1>3, SeenAlive DEF IsRunning
  <2> QED
    BY <2>1 DEF Ages
<1> QED
  BY <1>2, <1>3 DEF GraceEnds

LEMMA CallSeeing ==
  ASSUME EInv, NEW t \in Threads, CallStep(t)
  PROVE  Seeing'
<1>1. /\ BInv /\ TInv /\ Derived /\ SInv /\ Met /\ Fresh /\ Apart
      /\ Seeing /\ Reads /\ Unhanded
  BY DEF EInv, BInv, SInv, LInv
<1>2. Moved(t) /\ \A v \in Threads \ {t} : th'[v] = th[v]
  BY <1>1, CallMoves
<1>3. \A j \in Jobs : Touches(t, j) /\ Ages(j) /\ (Born(j) => worker'[j].parent = worker[j].parent)
  BY <1>1, CallTouches, CallAges
<1>4. ASSUME NEW u \in Threads, NEW j \in Jobs, Born(j)
      PROVE  /\ Owned(u, j) => Owned(u, j)'
             /\ UNCHANGED disk /\ Alive(j)' /\ Held(j) => Held(j)'
             /\ UNCHANGED disk /\ Alive(j)' /\ Sees(u, j) => Sees(u, j)'
             /\ ~Alive(j) => ~Alive(j)' /\ Over(j)'
  BY <1>3, <1>4 DEF Owned, Held, Sees, Ages, Over
<1>5. ASSUME NEW u \in Threads, NEW j \in Jobs, Stopping(u, j) \/ Stopped(u, j), Over(j)
      PROVE  Over(j)'
  <2>1. Born(j)
    BY <1>1, <1>5 DEF Stopping, Stopped, Met, AtRecord
  <2>2. ~Publishes(t, j)
    BY <1>1, <1>5 DEF Publishes, Apart, Starting
  <2> QED
    BY <1>1, <1>5, <2>1, <2>2, OverStays
<1> SUFFICES ASSUME NEW u \in Threads, NEW j \in Jobs, th'[u].cur = j
             PROVE  /\ th'[u].pc = "overrun" => (Alive(j)' => Sees(u, j)')
                    /\ th'[u].pc = "settled" /\ th'[u].st = "running"
                         => (Alive(j)' => Sees(u, j)')
                    /\ th'[u].pc \in {"overread", "drop"} => ~Alive(j)'
                    /\ Stopping(u, j)' => Over(j)' \/ Sees(u, j)'
                    /\ Stopped(u, j)' => Over(j)'
  BY DEF Seeing, Stopping, Stopped
<1>6. ASSUME Stopping(u, j)
      PROVE  Over(j)' \/ Sees(u, j)'
  <2>1. Born(j)
    BY <1>1, <1>6 DEF Stopping, Met, AtRecord
  <2>2. CASE Over(j) \/ Owned(u, j) \/ ~Alive(j)'
    BY <1>4, <1>5, <1>6, <2>1, <2>2 DEF Sees, Over
  <2>3. CASE ~Over(j) /\ ~Owned(u, j) /\ Alive(j)'
    <3>1. Held(j)
      BY <1>1, <1>6, <2>3 DEF Seeing, Sees
    <3>2. ~Stamped(j) /\ j \in Records /\ Alive(j)
      BY <2>3 DEF Over
    <3>3. ASSUME NEW st \in Readings, Has(t, j, st), st \in Terminal \cup {"unreadable"}
          PROVE  FALSE
      <4>1. st \notin {"done", "cancelled", "timeout"}
        BY <1>1, <3>2, <3>3 DEF Reads, ReadAs, Stamped
      <4>2. Doomed(t, j)
        BY <3>3, <4>1 DEF Doomed, Terminal
      <4> QED
        BY <1>1, <1>6, <2>3, <4>2 DEF Unhanded
    <3>4. ~Deletes(t, j)
      <4> SUFFICES ASSUME Deletes(t, j)
                   PROVE  FALSE
        OBVIOUS
      <4>1. \E st \in Terminal \cup {"unreadable"} : Has(t, j, st)
        BY DEF Deletes, Has
      <4>2. Terminal \cup {"unreadable"} \subseteq Readings
        BY DEF Readings
      <4> QED
        BY <3>3, <4>1, <4>2
    <3>5. ~Begins(t, j) /\ ~Publishes(t, j) /\ ~Drops(t, j)
      BY <1>1, <1>6, <2>1 DEF Begins, Publishes, Drops, Apart, Starting
    <3>6. CASE Keeps(j)
      BY <1>3, <2>3, <3>1, <3>6 DEF Keeps, Same, Held, Sees, Ages
    <3>7. CASE Marks(t, j) \/ Finalizes(t, j)
      BY <3>7 DEF Marks, Finalizes, Over, Stamped
    <3> QED
      BY <1>3, <3>4, <3>5, <3>6, <3>7 DEF Touches
  <2> QED
    BY <2>2, <2>3
<1>7. CASE u # t
  <2>1. th'[u] = th[u]
    BY <1>2, <1>7
  <2>2. CASE th[u].pc \in {"overrun", "settled", "overread", "drop"}
    <3>1. Born(j) /\ th[u].pc \in InSection
      BY <1>1, <2>1, <2>2 DEF Met, AtRecord, InSection
    <3>2. UNCHANGED disk
      BY <1>1, <1>7, <3>1, OwnDisk
    <3>3. Alive(j)' => Alive(j)
      BY <1>4, <3>1
    <3> QED
      BY <1>1, <1>4, <2>1, <2>2, <3>1, <3>2, <3>3 DEF Seeing, Stopping, Stopped
  <2>3. CASE Stopping(u, j)
    BY <1>6, <2>1, <2>3 DEF Stopping, Stopped
  <2>4. CASE Stopped(u, j)
    BY <1>1, <1>5, <2>1, <2>4 DEF Stopping, Stopped, Seeing
  <2> QED
    BY <2>1, <2>2, <2>3, <2>4 DEF Stopping, Stopped
<1>8. CASE u = t
  <2>1. CASE \/ th'[t].pc = "overrun"
             \/ th'[t].pc = "settled" /\ th'[t].st = "running"
    <3>1. (Probe(t) \/ Read(t)) /\ th[t].cur = j
      BY <1>2, <1>8, <2>1 DEF Moved, Stays, Idle
    <3>2. Sees(t, j) /\ UNCHANGED <<disk, worker>>
      BY <1>1, <2>1, <3>1, ProbeSees
    <3> QED
      BY <1>8, <2>1, <3>2 DEF Sees, Owned, Held, Stopping, Stopped
  <2>2. CASE th'[t].pc \in {"overread", "drop"}
    <3>1. GraceEnds(t) /\ th[t].cur = j
      BY <1>2, <1>8, <2>2 DEF Moved, Stays, Idle
    <3>2. th[t].pc \in {"overrun", "abort"} /\ Born(j)
      BY <1>1, <2>2, <3>1, GraceLeads DEF Met, AtRecord
    <3>3. ~Alive(j)'
      BY <1>1, <1>3, <3>1, <3>2, WaitedOut DEF Seeing
    <3> QED
      BY <1>8, <2>2, <3>3 DEF Stopping, Stopped
  <2>3. CASE Stopping(t, j)'
    <3>1. Over(j)' \/ Sees(t, j)'
      <4>1. CASE LookStatus(t) /\ th[t].cur = j
        <5>1. th[t].pc = "settled" /\ UNCHANGED <<disk, worker>>
          BY <4>1 DEF LookStatus, Found, store
        <5>2. ~Return(t)
          BY <1>1, <2>3, Released DEF Stopping
        <5>3. th[t].st = "running"
          BY <4>1, <5>2 DEF LookStatus
        <5>4. Alive(j) => Sees(t, j)
          BY <1>1, <4>1, <5>1, <5>3 DEF Seeing
        <5> QED
          BY <5>1, <5>4 DEF Over, Alive, Sees, Owned, Held
      <4> QED
        BY <1>1, <1>2, <1>6, <1>8, <2>3, <4>1, Turns
    <3> QED
      BY <1>8, <2>3, <3>1 DEF Stopping, Stopped
  <2>4. CASE Stopped(t, j)'
    <3>1. Stopping(t, j)
      BY <1>1, <1>2, <2>4, Turns
    <3>2. Born(j) /\ th[t].cur = j
      BY <1>1, <3>1 DEF Stopping, Met, AtRecord
    <3>3. GraceEnds(t) \/ Signal(t)
      BY <1>2, <2>4 DEF Moved, Stays, Idle, Stopped
    <3>4. ASSUME Over(j)
          PROVE  Over(j)'
      BY <1>5, <3>1, <3>4
    <3>5. ASSUME ~Over(j), GraceEnds(t)
          PROVE  Over(j)'
      <4>1. ~Alive(j)'
        BY <1>1, <1>3, <1>8, <3>1, <3>2, <3>5, WaitedOut DEF Seeing
      <4> QED
        BY <4>1 DEF Over
    <3>6. ASSUME ~Over(j), Signal(t)
          PROVE  Over(j)'
      <4>1. ~Go(t, "grace")
        BY <1>1, <2>4, GoesOne DEF Stopped
      <4>2. ~JobRunning(t, j)
        BY <3>2, <3>6, <4>1 DEF Signal
      <4>3. ~Alive(j)
        BY <1>1, <1>8, <3>1, <3>6, <4>2, SeenAlive DEF Seeing
      <4> QED
        BY <1>4, <3>2, <4>3
    <3>7. Over(j)'
      BY <3>3, <3>4, <3>5, <3>6
    <3> QED
      BY <1>8, <2>4, <3>7 DEF Stopping, Stopped
  <2> QED
    BY <1>8, <2>1, <2>2, <2>3, <2>4 DEF Stopping, Stopped
<1> QED
  BY <1>7, <1>8

LEMMA CallUnhanded ==
  ASSUME EInv, NEW t \in Threads, CallStep(t), BInv', Seeing'
  PROVE  Unhanded'
<1>1. /\ BInv /\ TInv /\ Derived /\ SInv /\ Met /\ Fresh /\ Apart
      /\ Seeing /\ Unhanded
  BY DEF EInv, BInv, SInv, LInv
<1>2. Moved(t) /\ \A v \in Threads \ {t} : th'[v] = th[v]
  BY <1>1, CallMoves
<1> SUFFICES ASSUME NEW s \in Threads, NEW u \in Threads, NEW j \in Jobs,
                    Stopping(s, j)', Doomed(u, j)'
             PROVE  Over(j)' \/ Owned(s, j)'
  BY DEF Unhanded
<1>3. ASSUME Stopping(s, j), Over(j) \/ Owned(s, j)
      PROVE  Over(j)' \/ Owned(s, j)'
  <2>1. Born(j)
    BY <1>1, <1>3 DEF Stopping, Met, AtRecord
  <2>2. ~Publishes(t, j)
    BY <1>1, <1>3 DEF Publishes, Apart, Starting
  <2>3. worker'[j].parent = worker[j].parent
    BY <1>1, <2>1, CallAges
  <2> QED
    BY <1>1, <1>3, <2>1, <2>2, <2>3, OverStays DEF Owned
<1>4. CASE Stopping(s, j) /\ Doomed(u, j)
  BY <1>1, <1>3, <1>4 DEF Unhanded
<1>5. CASE Stopping(s, j) /\ ~Doomed(u, j)
  <2>1. u = t
    BY <1>2, <1>5 DEF Doomed, Has
  <2>2. CASE th'[t].pc = "read" /\ th'[t].cur = j
    <3>1. Probe(t) /\ th[t].cur = j
      BY <1>2, <2>2 DEF Moved, Stays, Idle
    <3>2. ~JobRunning(t, j)
      BY <1>1, <2>2, <3>1, SettlesOne, GoesOne DEF Probe
    <3>3. Over(j) \/ Owned(s, j)
      BY <1>1, <1>5, <3>2 DEF JobRunning, Seeing, Sees
    <3> QED
      BY <1>3, <1>5, <3>3
  <2>3. CASE th'[t].pc = "overread" /\ th'[t].cur = j
    <3>1. ~Alive(j)'
      BY <2>3 DEF Seeing
    <3> QED
      BY <3>1 DEF Over
  <2>4. ASSUME NEW st \in {"failed", "unreadable"}, Has(t, j, st)'
        PROVE  FALSE
    <3>1. ~Has(t, j, st)
      BY <1>5, <2>1 DEF Doomed
    <3>2. th'[t].seen[j] # st
      BY <1>1, <1>2, <3>1, Arrives DEF Has
    <3>3. th'[t].pc = "settled" /\ th'[t].st = st /\ th'[t].cur = j
      BY <2>4, <3>2 DEF Has
    <3>4. (Probe(t) \/ Read(t)) /\ th[t].cur = j
      BY <1>2, <3>3 DEF Moved, Stays, Idle
    <3>5. ~Read(t)
      BY <1>5, <2>1, <3>4 DEF Read, Doomed
    <3>6. disk[j].stamp \notin {"failed", "unreadable"}
      BY <1>1 DEF TInv, TypeOK, Dir, Stamps
    <3> QED
      BY <1>1, <3>3, <3>4, <3>5, <3>6, SettlesOne, GoesOne DEF Probe
  <2> QED
    BY <2>1, <2>2, <2>3, <2>4 DEF Doomed
<1>6. CASE ~Stopping(s, j)
  <2>1. s = t
    BY <1>2, <1>6 DEF Stopping
  <2>2. LookStatus(t) /\ th[t].cur = j
    BY <1>1, <1>2, <1>6, <2>1, Turns
  <2>3. th[t].pc = "settled" /\ th[t].pc \in InSection
    BY <2>2 DEF LookStatus, Found, InSection
  <2>4. u = t
    <3> SUFFICES ASSUME u # t
                 PROVE  FALSE
      OBVIOUS
    <3>1. Doomed(u, j)
      BY <1>2 DEF Doomed, Has
    <3>2. th[u].pc \in InSection
      BY <1>1, <3>1, HasInSection DEF Doomed, InSection
    <3> QED
      BY <1>1, <2>3, <3>2, OneInSection
  <2>5. th'[t].pc \in {"signal", "grace"}
    BY <2>1 DEF Stopping
  <2>6. th'[t].seen[j] = "none"
    BY <2>5 DEF BInv, Fresh, Unseen
  <2> QED
    BY <2>4, <2>5, <2>6 DEF Doomed, Has
<1> QED
  BY <1>4, <1>5, <1>6

LEMMA EndedInit == Init => EInv
<1> SUFFICES ASSUME Init
             PROVE  EInv
  OBVIOUS
<1>1. Idle.pc = "idle" /\ Idle.seen = Unseen /\ \A j \in Jobs : Unseen[j] = "none"
  BY DEF Idle, Unseen
<1>2. \A t \in Threads : th[t] = Idle
  BY DEF Init
<1>3. \A j \in Jobs : disk[j].result = "none" /\ ~Stamped(j)
  BY DEF Init, Absent, Stamped
<1>4. Last
  BY <1>3 DEF Last
<1>5. Reads
  BY <1>1, <1>2 DEF Reads, Has, ReadAs
<1>6. Seeing /\ Unhanded
  BY <1>1, <1>2 DEF Seeing, Unhanded, Stopping, Stopped
<1> QED
  BY <1>4, <1>5, <1>6, PlacedInit DEF EInv

LEMMA EndedNext ==
  ASSUME EInv, [Next]_vars
  PROVE  EInv'
<1>1. BInv /\ BInv' /\ TInv
  BY PlacedNext DEF EInv, BInv, SInv, LInv
<1>2. CASE Quiet
  BY <1>1, <1>2, QuietLast, QuietReads, QuietSeeing DEF EInv
<1>3. ASSUME NEW t \in Threads, CallStep(t)
      PROVE  EInv'
  BY <1>1, <1>3, CallLast, CallReads, CallSeeing, CallUnhanded DEF EInv
<1> QED
  BY <1>1, <1>2, <1>3, NextKinds

LEMMA EndedInvariant == Spec => []EInv
  BY EndedInit, EndedNext, PTL DEF Spec

-----------------------------------------------------------------------------
(* Stopped means stopped.                                                  *)

LEMMA QuietStopped ==
  ASSUME BInv, StoppedMeansStopped, Quiet
  PROVE  StoppedMeansStopped'
<1> SUFFICES ASSUME NEW j \in Jobs, disk'[j].stamp \in {"cancelled", "timeout"}
             PROVE  ~Alive(j)' /\ disk'[j].result = "none"
  BY DEF StoppedMeansStopped
<1>1. Ages(j) /\ Evolves(j)
  BY DEF Quiet
<1>2. ~Alive(j) /\ disk[j].result = "none" /\ Stamped(j)
  BY <1>1 DEF Evolves, StoppedMeansStopped, Stamped
<1>3. Born(j)
  BY <1>2, WrittenIsBorn DEF BInv
<1> QED
  BY <1>1, <1>2, <1>3 DEF Ages, Evolves

LEMMA CallStopped ==
  ASSUME EInv, StoppedMeansStopped, NEW t \in Threads, CallStep(t)
  PROVE  StoppedMeansStopped'
<1>1. TInv /\ Derived /\ Met /\ Unbegun /\ Seeing
  BY DEF EInv, BInv, SInv, LInv
<1> SUFFICES ASSUME NEW j \in Jobs, disk'[j].stamp \in {"cancelled", "timeout"}
             PROVE  ~Alive(j)' /\ disk'[j].result = "none"
  BY DEF StoppedMeansStopped
<1>2. Touches(t, j) /\ Ages(j)
  BY <1>1, CallTouches, CallAges
<1>3. ASSUME disk'[j].stamp = disk[j].stamp, disk[j].result = "none" => disk'[j].result = "none"
      PROVE  ~Alive(j)' /\ disk'[j].result = "none"
  <2>1. ~Alive(j) /\ disk[j].result = "none" /\ Stamped(j)
    BY <1>3 DEF StoppedMeansStopped, Stamped
  <2>2. Born(j)
    BY <1>1, <2>1, WrittenIsBorn
  <2> QED
    BY <1>2, <1>3, <2>1, <2>2 DEF Ages
<1>4. CASE Keeps(j) \/ Publishes(t, j)
  BY <1>3, <1>4 DEF Keeps, Publishes, Same
<1>5. CASE Deletes(t, j)
  BY <1>1, <1>3, <1>5, DeletesLeave
<1>6. CASE Finalizes(t, j)
  <2>1. ~Alive(j) /\ Born(j)
    BY <1>1, <1>6 DEF Finalizes, Seeing, Stopped, Over, Met, AtRecord
  <2> QED
    BY <1>2, <1>6, <2>1 DEF Ages, Finalizes
<1>7. CASE Begins(t, j)
  <2>1. disk[j] = Absent
    BY <1>1, <1>7 DEF Begins, Unbegun
  <2> QED
    BY <1>7, <2>1 DEF Begins, Absent
<1> QED
  BY <1>2, <1>4, <1>5, <1>6, <1>7, AbsentLemma DEF Touches, Marks, Drops

LEMMA StoppedNext ==
  ASSUME EInv, StoppedMeansStopped, [Next]_vars
  PROVE  StoppedMeansStopped'
  BY NextKinds, QuietStopped, CallStopped DEF EInv, BInv, SInv, LInv

LEMMA StoppedInit == Init => StoppedMeansStopped
<1>1. Absent.stamp = "none"
  BY DEF Absent
<1> QED
  BY <1>1 DEF Init, StoppedMeansStopped

(* cancelled and timeout are stamped on stopped workers only and never hide *)
(* a result, whichever calls of whichever servers stop the worker (cancel,  *)
(* an overrun, a start that failed) and whichever deletes fail half-way.    *)
THEOREM StoppedStays == Spec => []StoppedMeansStopped
<1>1. EInv /\ StoppedMeansStopped /\ [Next]_vars => (EInv /\ StoppedMeansStopped)'
  BY EndedNext, StoppedNext
<1> QED
  BY <1>1, EndedInit, StoppedInit, PTL DEF Spec

-----------------------------------------------------------------------------
(* A consumed failure is final.                                            *)

LEMMA ResultOutlasts ==
  ASSUME TInv, NEW j \in Jobs, Envelope(j) = "none"
  PROVE  disk[j].result = "none"
  BY DEF Envelope

LEMMA QuietRechecks ==
  ASSUME BInv, Rechecked, Quiet
  PROVE  Rechecked'
<1> SUFFICES ASSUME NEW t \in Threads, th'[t].sec = "recheck"
             PROVE  /\ th'[t].pc \in {"probe", "read", "overrun", "overread", "settled"}
                    /\ \A j \in Jobs : th'[t].cur = j =>
                         /\ ~Alive(j)'
                         /\ th'[t].pc = "settled" /\ th'[t].st = "failed"
                              => disk'[j].result = "none"
  BY DEF Rechecked
<1>1. th'[t] = th[t]
  BY DEF Quiet
<1>2. th[t].pc \in {"probe", "read", "overrun", "overread", "settled"}
  BY <1>1 DEF Rechecked
<1>3. ASSUME NEW j \in Jobs, th[t].cur = j
      PROVE  /\ ~Alive(j)'
             /\ th[t].pc = "settled" /\ th[t].st = "failed" => disk'[j].result = "none"
  <2>1. Born(j) /\ Ages(j) /\ Evolves(j)
    BY <1>2, <1>3 DEF BInv, Met, AtRecord, Quiet
  <2>2. ~Alive(j)
    BY <1>1, <1>3 DEF Rechecked
  <2> QED
    BY <1>1, <1>3, <2>1, <2>2 DEF Ages, Evolves, Rechecked
<1> QED
  BY <1>1, <1>2, <1>3

LEMMA CallRechecks ==
  ASSUME BInv, Rechecked, NEW t \in Threads, CallStep(t)
  PROVE  Rechecked'
<1> DEFINE At == {"probe", "read", "overrun", "overread", "settled"}
<1>1. TInv /\ SInv /\ Derived /\ Met
  BY DEF BInv, SInv, LInv
<1>2. Moved(t) /\ \A v \in Threads \ {t} : th'[v] = th[v]
  BY <1>1, CallMoves
<1>3. \A j \in Jobs : Ages(j)
  BY <1>1, CallAges
<1> SUFFICES ASSUME NEW u \in Threads, th'[u].sec = "recheck"
             PROVE  /\ th'[u].pc \in At
                    /\ \A j \in Jobs : th'[u].cur = j =>
                         /\ ~Alive(j)'
                         /\ th'[u].pc = "settled" /\ th'[u].st = "failed"
                              => disk'[j].result = "none"
  BY DEF Rechecked
<1>4. CASE u # t
  <2>1. th'[u] = th[u]
    BY <1>2, <1>4
  <2>2. th[u].pc \in At /\ th[u].pc \in InSection /\ th[u].pc \in AtRecord
    BY <2>1 DEF Rechecked, InSection, AtRecord
  <2>3. UNCHANGED disk
    BY <1>1, <1>4, <2>2, OwnDisk
  <2>4. \A j \in Jobs : th[u].cur = j => Born(j) /\ Ages(j)
    BY <1>1, <1>3, <2>2 DEF Met
  <2> QED
    BY <2>1, <2>2, <2>3, <2>4 DEF Rechecked, Ages
<1>5. CASE u = t /\ th[t].sec = "recheck"
  <2>1. th[t].pc \in At /\ th[t].pc \in AtRecord
    BY <1>5 DEF Rechecked, AtRecord
  <2>2. th'[t].pc \in At /\ Stays(t)
    <3>1. ~Enter(t) /\ ~NextRecord(t) /\ ~Signal(t) /\ ~LookStatus(t) /\ ~Discard(t) /\ ~Publish(t)
      BY <1>5, <2>1 DEF Enter, NextRecord, Signal, LookStatus, Discard, Publish, Found
    <3>2. GraceEnds(t) => th'[t].pc = "overread"
      BY <1>1, <2>1, GraceLeads
    <3>3. ~Collect(t) /\ ~ProveGone(t) /\ ~Evict(t) /\ ~Spawn(t)
      BY <1>5, <2>1 DEF Collect, ProveGone, Evict, Spawn, Found
    <3>4. th'[t] # Idle
      BY <1>5 DEF Idle
    <3> QED
      BY <1>2, <1>5, <3>1, <3>2, <3>3, <3>4 DEF Moved
  <2>3. ASSUME NEW j \in Jobs, th'[t].cur = j
        PROVE  /\ ~Alive(j)'
               /\ th'[t].pc = "settled" /\ th'[t].st = "failed" => disk'[j].result = "none"
    <3>1. th[t].cur = j /\ ~Alive(j) /\ Born(j)
      BY <1>1, <1>5, <2>1, <2>2, <2>3 DEF Stays, Rechecked, Met
    <3>2. ~Alive(j)'
      BY <1>3, <3>1 DEF Ages
    <3>3. ASSUME th'[t].pc = "settled", th'[t].st = "failed"
          PROVE  disk'[j].result = "none"
      <4>1. Probe(t) \/ Read(t)
        BY <1>2, <1>5, <3>3 DEF Moved, Stays, Idle
      <4>2. disk[j] \in Dir /\ disk[j].stamp # "failed" /\ disk \in [Jobs -> Dir]
        BY <1>1 DEF TInv, TypeOK, Dir, Stamps
      <4>3. ~Probe(t)
        BY <1>1, <3>1, <3>3, <4>2, SettlesOne, GoesOne DEF Probe
      <4>4. Envelope(j) = "none" /\ disk' = [disk EXCEPT ![j] = StampFailed(disk[j])]
        BY <1>1, <3>1, <3>3, <4>1, <4>3, SettlesOne DEF Read
      <4> QED
        BY <1>1, <4>2, <4>4, ResultOutlasts, StampFailedLemma
    <3> QED
      BY <3>2, <3>3
  <2> QED
    BY <1>5, <2>2, <2>3
<1>6. CASE u = t /\ th[t].sec # "recheck"
  <2>1. /\ th'[t].pc = "probe" /\ ProveGone(t) /\ WorkerGone(t, th[t].cur)
        /\ th'[t].cur = th[t].cur
    BY <1>2, <1>6 DEF Moved, Stays, Idle
  <2>2. ASSUME NEW j \in Jobs, th[t].cur = j
        PROVE  ~Alive(j)'
    <3>1. Born(j) /\ WorkerGone(t, j)
      BY <1>1, <2>1, <2>2 DEF ProveGone, Met, AtRecord
    <3>2. ~Alive(j)
      BY <3>1 DEF WorkerGone, IsRunning, PidAlive, Alive
    <3> QED
      BY <1>3, <3>1, <3>2 DEF Ages
  <2> QED
    BY <1>6, <2>1, <2>2
<1> QED
  BY <1>4, <1>5, <1>6

LEMMA RecheckedInit == Init => Rechecked
<1>1. Idle.sec = "none"
  BY DEF Idle
<1> QED
  BY <1>1 DEF Init, Rechecked

(* A consume deletes a failed job only when no result can appear any more:  *)
(* what proves the worker gone (its own server's waitpid, or a lock nobody  *)
(* holds and no process under the pid) still holds when the record is read  *)
(* again, under the record lock, before the delete (#126).                  *)
THEOREM FailuresAreFinal == Spec => []ConsumedFailureIsFinal
<1> DEFINE FInv == BInv /\ Rechecked
<1>1. FInv /\ [Next]_vars => FInv'
  <2> SUFFICES ASSUME BInv, Rechecked, [Next]_vars
               PROVE  BInv' /\ Rechecked'
    OBVIOUS
  <2>1. TInv
    BY DEF BInv, SInv, LInv
  <2> QED
    BY <2>1, NextKinds, PlacedNext, QuietRechecks, CallRechecks
<1>2. FInv => ConsumedFailureIsFinal
  <2> SUFFICES ASSUME BInv, Rechecked, NEW t \in Threads,
                      th[t].pc = "settled", th[t].sec = "recheck", th[t].st = "failed"
               PROVE  ~Alive(th[t].cur) /\ disk[th[t].cur].result = "none"
    BY DEF ConsumedFailureIsFinal
  <2>1. th[t].cur \in Jobs
    BY DEF BInv, SInv, LInv, TInv, Cursor, AtRecord
  <2> QED
    BY <2>1 DEF Rechecked
<1> QED
  BY <1>1, <1>2, PlacedInit, RecheckedInit, PTL DEF Spec

-----------------------------------------------------------------------------
(* No worker runs untracked.                                               *)

LEMMA QuietTracked ==
  ASSUME Tracked, Quiet
  PROVE  Tracked'
<1> SUFFICES ASSUME "crash" \notin Events, NEW j \in Jobs, Busy(j)'
             PROVE  \/ (j \in Records)' \/ j \in doubted'
                    \/ \E t \in Threads : Starting(t, j)'
  BY DEF Tracked
<1>1. Ages(j) /\ Evolves(j) /\ UNCHANGED doubted
  BY DEF Quiet
<1>2. Busy(j)
  BY <1>1 DEF Ages, Evolves, Busy, Alive, Born
<1>3. CASE j \in Records \cup doubted
  BY <1>1, <1>3 DEF Evolves, Records
<1>4. CASE \E t \in Threads : Starting(t, j)
  BY <1>4 DEF Quiet, Starting
<1> QED
  BY <1>2, <1>3, <1>4 DEF Tracked

LEMMA PublishFollows ==
  ASSUME TInv, NEW t \in Threads, CallStep(t), NEW j \in Jobs, Starting(t, j)
  PROVE  th[t].pc = "drop" \/ Starting(t, j)' \/ (j \in Records)'
<1>1. th \in [Threads -> Thread] /\ disk \in [Jobs -> Dir] /\ disk[j] \in Dir
  BY DEF TInv, TypeOK
<1>2. Publish(t) \/ GraceEnds(t) \/ DropUnrecorded(t)
  BY DEF Starting, CallStep, Enter, NextRecord, Probe, Read, DropExpired, KeepReaped,
         Collect, Unserved, LookStatus, LookResult, MarkDelivered, Discard, ProveGone,
         DiscardFailed, Signal, FinishCancel, Evict, Spawn, Found
<1>3. CASE Publish(t)
  <2>1. CASE Go(t, "abort")
    BY <2>1, GoesOne DEF Starting
  <2>2. CASE disk' = [disk EXCEPT ![j].at = "record"]
    BY <1>1, <2>2 DEF Records, Dir
  <2> QED
    BY <1>3, <2>1, <2>2 DEF Publish, Starting
<1>4. CASE GraceEnds(t)
  <2>1. th'[t].pc = "drop"
    BY <1>4, GraceLeads DEF Starting
  <2>2. \E pc : Go(t, pc)
    BY <1>4 DEF GraceEnds
  <2> QED
    BY <2>1, <2>2, GoesOne DEF Starting
<1>5. CASE DropUnrecorded(t)
  BY <1>5 DEF DropUnrecorded
<1> QED
  BY <1>2, <1>3, <1>4, <1>5

(* A section deletes no record of a worker that is still at work *)
LEMMA DeletesEnded ==
  ASSUME EInv, NEW t \in Threads, NEW j \in Records, Deletes(t, j)
  PROVE  ~Busy(j) \/ j \in doubted
<1>1. j \in Jobs
  BY DEF Records
<1>2. PICK st \in Terminal \cup {"unreadable"} : Has(t, j, st)
  BY <1>1 DEF Deletes, Has
<1>3. ReadAs(j, st)
  BY <1>1, <1>2 DEF EInv, Reads, Readings
<1>4. Stamped(j) \/ disk[j].result # "none" \/ ~Alive(j) \/ j \in doubted
  BY <1>2, <1>3 DEF ReadAs, Terminal, Stamped
<1> QED
  BY <1>1, <1>4 DEF EInv, Last, Busy

LEMMA CallTracked ==
  ASSUME EInv, Tracked, NEW t \in Threads, CallStep(t)
  PROVE  Tracked'
<1>1. TInv /\ Derived /\ Met /\ Apart /\ Seeing
  BY DEF EInv, BInv, SInv, LInv
<1> SUFFICES ASSUME "crash" \notin Events, NEW j \in Jobs, Busy(j)'
             PROVE  \/ (j \in Records)' \/ j \in doubted'
                    \/ \E u \in Threads : Starting(u, j)'
  BY DEF Tracked
<1>2. Touches(t, j) /\ Ages(j) /\ doubted \subseteq doubted'
  BY <1>1, CallTouches, CallAges, DoubtsStay
<1>3. CASE ~Born(j)
  <2>1. Born(j)'
    BY DEF Busy, Alive, Born
  <2>2. ~Keeps(j)
    BY <1>3, <2>1 DEF Keeps
  <2>3. ~Deletes(t, j)
    BY <1>3, <2>1 DEF Deletes, Born
  <2>4. ~Marks(t, j) /\ ~Finalizes(t, j) /\ ~Publishes(t, j) /\ ~Drops(t, j)
    BY <1>1, <1>3 DEF Marks, Finalizes, Publishes, Drops, Met, AtRecord
  <2>5. Starting(t, j)'
    BY <1>2, <2>2, <2>3, <2>4 DEF Touches, Begins, Starting
  <2> QED
    BY <2>5
<1>4. CASE Born(j) /\ j \in doubted
  BY <1>2, <1>4
<1>5. CASE Born(j) /\ j \in Records
  <2>1. CASE Deletes(t, j)
    BY <1>2, <1>5, <2>1, DeletesEnded DEF Ages
  <2>2. CASE Keeps(j) \/ Marks(t, j) \/ Finalizes(t, j) \/ Publishes(t, j)
    BY <1>5, <2>2 DEF Keeps, Marks, Finalizes, Publishes, Records
  <2>3. ~Begins(t, j) /\ ~Drops(t, j)
    BY <1>1, <1>5 DEF Begins, Drops, Apart, Starting
  <2> QED
    BY <1>2, <2>1, <2>2, <2>3 DEF Touches
<1>6. ASSUME Born(j), NEW u \in Threads, Starting(u, j)
      PROVE  (j \in Records)' \/ Starting(u, j)'
  <2>1. CASE u # t
    <3>1. th'[u] = th[u]
      BY <1>1, <2>1, CallMoves
    <3> QED
      BY <1>6, <3>1 DEF Starting
  <2>2. CASE u = t
    <3>1. th[t].pc # "drop"
      BY <1>1, <1>2, <1>6, <2>2 DEF Seeing, Starting, Ages, Busy
    <3> QED
      BY <1>1, <1>6, <2>2, <3>1, PublishFollows
  <2> QED
    BY <2>1, <2>2
<1>7. Born(j) => Busy(j)
  BY <1>2 DEF Ages
<1> QED
  BY <1>3, <1>4, <1>5, <1>6, <1>7 DEF Tracked

(* Nobody is left paying for a worker that no call can find: as long as no *)
(* server dies in the middle of a start, a worker that is at work has its  *)
(* record or a start that has yet to return, unless it was reported failed *)
(* by a server that could not see it.                                      *)
THEOREM WorkersAreTracked == Spec => []RunningIsTracked
<1> DEFINE KInv == EInv /\ Tracked
<1>1. Init => Tracked
  BY DEF Init, Unborn, Tracked, Busy, Alive
<1>2. KInv /\ [Next]_vars => KInv'
  <2> SUFFICES ASSUME EInv, Tracked, [Next]_vars
               PROVE  EInv' /\ Tracked'
    OBVIOUS
  <2>1. TInv
    BY DEF EInv, BInv, SInv, LInv
  <2> QED
    BY <2>1, NextKinds, EndedNext, QuietTracked, CallTracked
<1>3. KInv => RunningIsTracked
  BY DEF Tracked, RunningIsTracked, Starting
<1> QED
  BY <1>1, <1>2, <1>3, EndedInit, PTL DEF Spec

-----------------------------------------------------------------------------
(* A worktree that is left is reported.                                    *)

(* Without a delete that fails after it took the manifest *)
ManifestsStand == {"kept", "lost"} \cap Events = {}

LEMMA QuietManifested ==
  ASSUME Manifested, Quiet
  PROVE  Manifested'
<1> SUFFICES ASSUME ManifestsStand, NEW j \in Jobs, Recorded(j)',
                    worker'[j].tree = "declared", ~Stamped(j)'
             PROVE  disk'[j].manifest \/ disk'[j].result # "none"
  BY DEF Manifested, ManifestsStand
<1>1. Ages(j) /\ Evolves(j)
  BY DEF Quiet
<1>2. Recorded(j)
  BY <1>1 DEF Quiet, Recorded, Evolves, Records
<1> QED
  BY <1>1, <1>2 DEF Manifested, ManifestsStand, Evolves, Stamped

LEMMA QuietLeft ==
  ASSUME StoppedMeansStopped, LeftTreeIsReported, Quiet
  PROVE  LeftTreeIsReported'
<1> SUFFICES ASSUME ManifestsStand, NEW j \in Jobs, (j \in Records)',
                    disk'[j].stamp \in {"cancelled", "timeout"}, worker'[j].tree = "declared"
             PROVE  disk'[j].warned
  BY DEF LeftTreeIsReported, ManifestsStand, Records
<1>1. Evolves(j)
  BY DEF Quiet
<1>2. j \in Records /\ disk[j].stamp \in {"cancelled", "timeout"} /\ ~Alive(j)
  BY <1>1 DEF Evolves, Records, StoppedMeansStopped
<1> QED
  BY <1>1, <1>2 DEF LeftTreeIsReported, ManifestsStand, Evolves

(* A record that a delete leaves behind has its result *)
LEMMA LeavesResult ==
  ASSUME TInv, ManifestsStand, NEW t \in Threads, NEW j \in Jobs, Deletes(t, j), (j \in Records)'
  PROVE  /\ disk'[j].result # "none" /\ disk'[j].result = disk[j].result
         /\ disk'[j].stamp = disk[j].stamp
<1>1. disk[j] \in Dir
  BY DEF TInv, TypeOK
<1>2. PICK d \in Rmtree(j) : disk'[j] = d
  BY DEF Deletes
<1> QED
  BY <1>1, <1>2, RmtreeLeaves DEF ManifestsStand, Records

LEMMA CallManifested ==
  ASSUME BInv, Manifested, NEW t \in Threads, CallStep(t), BInv'
  PROVE  Manifested'
<1>1. TInv /\ SInv /\ Derived /\ Met /\ Unbegun
  BY DEF BInv, SInv, LInv
<1> SUFFICES ASSUME ManifestsStand, NEW j \in Jobs, Recorded(j)',
                    worker'[j].tree = "declared", ~Stamped(j)'
             PROVE  disk'[j].manifest \/ disk'[j].result # "none"
  BY DEF Manifested, ManifestsStand
<1>2. Touches(t, j) /\ Ages(j)
  BY <1>1, CallTouches, CallAges
<1>3. Moved(t) /\ \A v \in Threads \ {t} : th'[v] = th[v]
  BY <1>1, CallMoves
<1>4. CASE (j \in Records)'
  <2>1. CASE Keeps(j)
    <3>1. j \in Records
      BY <1>4, <2>1 DEF Keeps, Records
    <3> QED
      BY <2>1, <3>1 DEF Keeps, Same, Recorded, Manifested, ManifestsStand, Stamped
  <2>2. CASE Deletes(t, j)
    BY <1>1, <1>4, <2>2, LeavesResult
  <2>3. CASE Publishes(t, j)
    BY <2>3 DEF Publishes, Same, Recorded, Manifested, ManifestsStand, Stamped
  <2>4. ~Marks(t, j) /\ ~Finalizes(t, j) /\ ~Drops(t, j)
    BY <1>4, AbsentLemma DEF Marks, Finalizes, Drops, Stamped, Records
  <2>5. ~Begins(t, j)
    BY <1>1 DEF Begins, Unbegun
  <2> QED
    BY <1>2, <2>1, <2>2, <2>3, <2>4, <2>5 DEF Touches
<1>5. ASSUME NEW u \in Threads, th'[u].pc = "publish", th'[u].cur = j
      PROVE  disk'[j].manifest \/ disk'[j].result # "none"
  <2>1. CASE u = t
    <3>1. Spawn(t) /\ j \in Unstarted
      BY <1>3, <1>5, <2>1 DEF Moved, Stays, Idle, Probe, Read, GraceEnds, Signal
    <3>2. worker[j].tree = "none" /\ ~Born(j)
      BY <1>1, <3>1 DEF Unstarted, Born, Unbegun
    <3>3. Born(j)'
      BY <1>5 DEF BInv, Met, AtRecord
    <3>4. Begins(t, j)
      BY <1>1, <1>2, <3>1, <3>2, <3>3 DEF Touches, Keeps, Deletes, Marks, Finalizes, Publishes,
                                          Drops, Spawn
    <3> QED
      BY <3>2, <3>4 DEF Begins
  <2>2. CASE u # t
    <3>1. th[u].pc = "publish" /\ th[u].cur = j
      BY <1>3, <1>5, <2>2
    <3>2. UNCHANGED disk
      BY <1>1, <2>2, <3>1, OwnDisk DEF InSection
    <3>3. Born(j) /\ worker[j].tree = "declared"
      <4>1. Born(j)
        BY <1>1, <3>1 DEF Met, AtRecord
      <4>2. worker[j].tree = "declared"
        <5>1. ~Begins(t, j)
          BY <4>1 DEF Begins
        <5>2. ~Drops(t, j)
          BY <1>1, <2>2, <3>1, OneInSection DEF Drops, InSection
        <5> QED
          BY <1>2, <5>1, <5>2 DEF Touches, Keeps, Same, Deletes, Marks, Finalizes, Publishes
      <4> QED
        BY <4>1, <4>2
    <3> QED
      BY <3>1, <3>2, <3>3 DEF Recorded, Manifested, ManifestsStand, Stamped
  <2> QED
    BY <2>1, <2>2
<1> QED
  BY <1>4, <1>5 DEF Recorded

LEMMA CallLeft ==
  ASSUME BInv, StoppedMeansStopped, Manifested, LeftTreeIsReported,
         NEW t \in Threads, CallStep(t)
  PROVE  LeftTreeIsReported'
<1>1. TInv /\ Derived /\ Met /\ Apart /\ Unbegun
  BY DEF BInv, SInv, LInv
<1> SUFFICES ASSUME ManifestsStand, NEW j \in Jobs, (j \in Records)',
                    disk'[j].stamp \in {"cancelled", "timeout"}, worker'[j].tree = "declared"
             PROVE  disk'[j].warned
  BY DEF LeftTreeIsReported, ManifestsStand, Records
<1>2. Touches(t, j)
  BY <1>1, CallTouches
<1>3. CASE Keeps(j)
  BY <1>3 DEF Keeps, Same, Records, LeftTreeIsReported, ManifestsStand
<1>4. ~Deletes(t, j)
  <2> SUFFICES ASSUME Deletes(t, j)
               PROVE  FALSE
    OBVIOUS
  <2>1. disk[j].result # "none" /\ disk[j].stamp \in {"cancelled", "timeout"}
    BY <1>1, LeavesResult
  <2> QED
    BY <2>1 DEF StoppedMeansStopped
<1>5. CASE Finalizes(t, j)
  <2>1. j \in Records /\ ~Stamped(j) /\ disk[j].result = "none" /\ worker[j].tree = "declared"
    BY <1>5 DEF Finalizes, Records
  <2>2. disk[j].manifest
    BY <2>1 DEF Manifested, Recorded, ManifestsStand
  <2> QED
    BY <1>5, <2>2 DEF Finalizes
<1>6. ~Publishes(t, j)
  <2>1. Publishes(t, j) => ~Stamped(j)
    BY <1>1 DEF Publishes, Apart, Starting
  <2> QED
    BY <2>1 DEF Publishes, Stamped
<1>7. ~Marks(t, j) /\ ~Begins(t, j) /\ ~Drops(t, j)
  BY <1>1, AbsentLemma DEF Marks, Begins, Drops, Records, Unbegun
<1> QED
  BY <1>2, <1>3, <1>4, <1>5, <1>6, <1>7 DEF Touches

(* A cancelled or timed out job whose worktree is still there says so,     *)
(* whoever stopped the worker and whenever the worker had declared it,     *)
(* short of a delete that failed after it had taken the manifest.          *)
THEOREM LeftTreesAreReported == Spec => []LeftTreeIsReported
<1> DEFINE WInv == EInv /\ StoppedMeansStopped /\ Manifested /\ LeftTreeIsReported
<1>1. Init => WInv
  <2>1. Absent.stamp = "none" /\ Absent.at = "none" /\ Unborn.tree = "none"
    BY DEF Absent, Unborn
  <2>2. Init => \A j \in Jobs : ~Recorded(j) /\ j \notin Records
    <3> SUFFICES ASSUME Init, NEW j \in Jobs
                 PROVE  ~Recorded(j) /\ j \notin Records
      OBVIOUS
    <3>1. \A t \in Threads : th[t].pc # "publish"
      BY DEF Init, Idle
    <3>2. disk[j].at = "none"
      BY <2>1 DEF Init
    <3> QED
      BY <3>1, <3>2 DEF Recorded, Records
  <2>3. Init => Manifested
    BY <2>2 DEF Manifested
  <2>4. Init => LeftTreeIsReported
    BY <2>2 DEF LeftTreeIsReported, Records
  <2> QED
    BY <2>3, <2>4, EndedInit, StoppedInit
<1>2. WInv /\ [Next]_vars => WInv'
  <2> SUFFICES ASSUME EInv, StoppedMeansStopped, Manifested, LeftTreeIsReported, [Next]_vars
               PROVE  EInv' /\ StoppedMeansStopped' /\ Manifested' /\ LeftTreeIsReported'
    OBVIOUS
  <2>1. EInv' /\ StoppedMeansStopped'
    BY EndedNext, StoppedNext
  <2>2. TInv /\ BInv /\ BInv'
    BY <2>1 DEF EInv, BInv, SInv, LInv
  <2>3. Manifested' /\ LeftTreeIsReported'
    BY <2>2, NextKinds, QuietManifested, QuietLeft, CallManifested, CallLeft
  <2> QED
    BY <2>1, <2>3
<1>3. WInv => LeftTreeIsReported
  OBVIOUS
<1> QED
  BY <1>1, <1>2, <1>3, PTL DEF Spec

-----------------------------------------------------------------------------
(* A result that was not returned is kept.                                 *)

(* A section that marks a record delivered, or discards it as done *)
Handing(t) == \/ th[t].sec = "mark"
              \/ th[t].sec = "discard" /\ th[t].want = "done"

Handed == /\ \A t \in Threads :
               /\ th[t].pc \in {"next", "evict", "spawn"} => th[t].sec \in {"reap", "collect"}
               /\ Handing(t) => th[t].cur \in returned
          /\ \A j \in Jobs : disk[j].delivered => j \in returned

(* What a section is about is settled when it is entered *)
Aims(t) ==
  \/ th'[t] = Idle
  \/ th'[t].want = th[t].want /\ th'[t].sec \in {th[t].sec, "collect", "recheck"}
  \/ th'[t].sec = "discard" /\ th[t].sec = "mark" /\ th'[t].cur = th[t].cur
  \/ th'[t].sec = "discard" /\ th'[t].want # "done"
  \/ th'[t].sec = "mark" /\ th'[t].cur \in returned'

LEMMA GoAims ==
  ASSUME TInv, NEW t \in Threads,
         (\E pc : Go(t, pc)) \/ (\E st : Settle(t, st)) \/ Passed(t)
  PROVE  Aims(t)
<1>1. th \in [Threads -> Thread] /\ th[t] \in Thread
  BY DEF TInv, TypeOK
<1>2. ASSUME NEW pc, Go(t, pc)
      PROVE  th'[t].want = th[t].want /\ th'[t].sec = th[t].sec
  BY <1>1, <1>2 DEF Go, Thread
<1>3. ASSUME NEW st, Settle(t, st)
      PROVE  th'[t].want = th[t].want /\ th'[t].sec = th[t].sec
  BY <1>1, <1>3 DEF Settle, Thread
<1>4. ASSUME Passed(t)
      PROVE  th'[t].want = th[t].want /\ th'[t].sec = th[t].sec
  <2> DEFINE r == [th[t] EXCEPT !.pc = "next", !.cur = NoJob, !.st = "none"]
  <2>1. r.want = th[t].want /\ r.sec = th[t].sec
    BY <1>1 DEF Thread
  <2>2. Move(t, r)
    BY <1>4 DEF Passed
  <2> HIDE DEF r
  <2> QED
    BY <1>1, <2>1, <2>2, MovesOne
<1> QED
  BY <1>2, <1>3, <1>4 DEF Aims

LEMMA ReleasedAims ==
  ASSUME TInv, NEW t \in Threads, Return(t) \/ SectionDone(t)
  PROVE  Aims(t)
  BY ReleasedMoves DEF Aims

LEMMA CallAims ==
  ASSUME TInv, NEW t \in Threads, CallStep(t)
  PROVE  Aims(t) /\ returned \subseteq returned'
<1>1. th \in [Threads -> Thread] /\ th[t] \in Thread
  BY DEF TInv, TypeOK
<1>2. ASSUME NEW r, Move(t, r), r.want = th[t].want, r.sec \in {th[t].sec, "collect", "recheck"}
      PROVE  Aims(t)
  BY <1>1, <1>2, MovesOne DEF Aims
<1>3. CASE Enter(t)
  <2> DEFINE r == [th[t] EXCEPT !.pc = "next", !.todo = Records]
  <2>1. r.want = th[t].want /\ r.sec = th[t].sec
    BY <1>1 DEF Thread
  <2>2. Move(t, r) \/ Go(t, "probe") \/ SectionDone(t)
    BY <1>3 DEF Enter
  <2>3. returned' = returned
    BY <1>3 DEF Enter, history
  <2> HIDE DEF r
  <2> QED
    BY <1>2, <2>1, <2>2, <2>3, GoAims, ReleasedAims
<1>4. CASE NextRecord(t)
  <2> DEFINE r(j) == [th[t] EXCEPT !.pc = "probe", !.cur = j, !.todo = @ \ {j}]
             s == [th[t] EXCEPT !.sec = "collect", !.todo = Records]
  <2>1. /\ \A j : r(j).want = th[t].want /\ r(j).sec = th[t].sec
        /\ s.want = th[t].want /\ s.sec = "collect"
    BY <1>1 DEF Thread
  <2>2. (\E j : Move(t, r(j))) \/ Move(t, s) \/ Return(t) \/ Go(t, "evict")
    BY <1>4 DEF NextRecord
  <2>3. returned' = returned
    BY <1>4 DEF NextRecord
  <2> HIDE DEF r, s
  <2> QED
    BY <1>2, <2>1, <2>2, <2>3, GoAims, ReleasedAims
<1>5. CASE Probe(t) \/ Read(t)
  BY <1>5, GoAims DEF Probe, Read
<1>6. CASE GraceEnds(t) \/ Signal(t)
  BY <1>6, GoAims DEF GraceEnds, Signal
<1>7. CASE DropExpired(t) \/ KeepReaped(t) \/ Unserved(t) \/ MarkDelivered(t) \/ DiscardFailed(t)
  BY <1>7, GoAims, ReleasedAims
  DEF DropExpired, KeepReaped, Unserved, MarkDelivered, DiscardFailed, history
<1>8. CASE Collect(t)
  <2> DEFINE r == [th[t] EXCEPT !.pc = "next", !.cur = NoJob, !.st = "none",
                                !.seen[th[t].cur] = th[t].st]
  <2>1. r.want = th[t].want /\ r.sec = th[t].sec
    BY <1>1 DEF Thread
  <2>2. (Move(t, r) \/ Return(t)) /\ returned' = returned
    BY <1>8 DEF Collect, history
  <2> HIDE DEF r
  <2> QED
    BY <1>2, <2>1, <2>2, ReleasedAims
<1>9. CASE LookStatus(t)
  BY <1>9, GoAims, ReleasedAims DEF LookStatus
<1>10. CASE LookResult(t)
  <2> DEFINE r(sec, want) == [th[t] EXCEPT !.pc = "enter", !.sec = sec,
                                           !.want = want, !.st = "none"]
  <2>1. \A sec, want : /\ r(sec, want).sec = sec /\ r(sec, want).want = want
                       /\ r(sec, want).cur = th[t].cur
    BY <1>1 DEF Thread
  <2> HIDE DEF r
  <2>2. \/ Return(t) /\ returned' = returned
        \/ Move(t, r("mark", "none")) /\ returned' = returned \cup {th[t].cur}
        \/ Move(t, r("discard", th[t].st)) /\ returned' = returned /\ th[t].st # "done"
    BY <1>10, SMTT(60) DEF LookResult, r
  <2>3. CASE Move(t, r("mark", "none")) /\ returned' = returned \cup {th[t].cur}
    <3>1. th'[t] = r("mark", "none")
      BY <1>1, <2>3, MovesOne
    <3> QED
      BY <2>1, <2>3, <3>1 DEF Aims
  <2>4. CASE Move(t, r("discard", th[t].st)) /\ returned' = returned /\ th[t].st # "done"
    <3>1. th'[t] = r("discard", th[t].st)
      BY <1>1, <2>4, MovesOne
    <3> QED
      BY <2>1, <2>4, <3>1 DEF Aims
  <2> QED
    BY <2>2, <2>3, <2>4, ReleasedAims
<1>11. CASE Discard(t)
  BY <1>11, GoAims, ReleasedAims DEF Discard, history
<1>12. CASE ProveGone(t)
  <2> DEFINE r == [th[t] EXCEPT !.pc = "probe", !.sec = "recheck", !.st = "none"]
  <2>1. r.want = th[t].want /\ r.sec = "recheck"
    BY <1>1 DEF Thread
  <2>2. (Move(t, r) \/ Return(t)) /\ returned' = returned
    BY <1>12 DEF ProveGone, history
  <2> HIDE DEF r
  <2> QED
    BY <1>2, <2>1, <2>2, ReleasedAims
<1>13. CASE Evict(t)
  <2> DEFINE r == [th[t] EXCEPT !.pc = "spawn", !.cur = NoJob, !.seen = Unseen]
             s(j, v) == [th[t] EXCEPT !.cur = j, !.seen[j] = v]
  <2>1. /\ r.want = th[t].want /\ r.sec = th[t].sec
        /\ \A j, v : s(j, v).want = th[t].want /\ s(j, v).sec = th[t].sec
    BY <1>1 DEF Thread
  <2>2. Move(t, r) \/ Return(t)
        \/ \E j, d : Move(t, [th[t] EXCEPT !.cur = j, !.seen[j] = IF d.at = "none" THEN "none" ELSE @])
    BY <1>13 DEF Evict
  <2>3. ASSUME NEW j, NEW d,
               Move(t, [th[t] EXCEPT !.cur = j, !.seen[j] = IF d.at = "none" THEN "none" ELSE @])
        PROVE  Aims(t)
    <3>1. Move(t, s(j, IF d.at = "none" THEN "none" ELSE th[t].seen[j]))
      BY <1>1, <2>3 DEF Thread
    <3> HIDE DEF s
    <3> QED
      BY <1>2, <2>1, <3>1
  <2>4. returned' = returned
    BY <1>13 DEF Evict, history
  <2> HIDE DEF r
  <2> QED
    BY <1>2, <2>1, <2>2, <2>3, <2>4, ReleasedAims
<1>14. CASE Spawn(t)
  <2> DEFINE r(j) == [th[t] EXCEPT !.pc = "publish", !.cur = j]
  <2>1. \A j : r(j).want = th[t].want /\ r(j).sec = th[t].sec
    BY <1>1 DEF Thread
  <2>2. ((\E j : Move(t, r(j))) \/ Return(t)) /\ returned' = returned
    BY <1>14 DEF Spawn, history
  <2> HIDE DEF r
  <2> QED
    BY <1>2, <2>1, <2>2, ReleasedAims
<1>15. CASE Publish(t) \/ DropUnrecorded(t) \/ FinishCancel(t)
  BY <1>15, GoAims, ReleasedAims DEF Publish, DropUnrecorded, FinishCancel, history
<1> QED
  BY <1>3, <1>4, <1>5, <1>6, <1>7, <1>8, <1>9, <1>10, <1>11, <1>12, <1>13, <1>14, <1>15
  DEF CallStep

LEMMA CallHandles ==
  ASSUME TInv, Handed, NEW t \in Threads, CallStep(t), NEW u \in Threads
  PROVE  /\ th'[u].pc \in {"next", "evict", "spawn"} => th'[u].sec \in {"reap", "collect"}
         /\ Handing(u)' => th'[u].cur \in returned'
<1>1. Moved(t) /\ Aims(t) /\ returned \subseteq returned'
  BY CallMoves, CallAims
<1>2. CASE u # t
  <2>1. th'[u] = th[u]
    BY <1>2, CallMoves
  <2> QED
    BY <1>1, <2>1 DEF Handed, Handing
<1>3. ASSUME th'[t].pc \in {"next", "evict", "spawn"}
      PROVE  th'[t].sec \in {"reap", "collect"}
  <2>1. Evict(t) => th[t].sec \in {"reap", "collect"}
    BY DEF Evict, Handed
  <2> QED
    BY <1>1, <1>3, <2>1 DEF Moved, Stays, Idle
<1>4. ASSUME Handing(t)'
      PROVE  th'[t].cur \in returned'
  <2>1. CASE th'[t].want = th[t].want /\ th'[t].sec = th[t].sec
    <3>1. Handing(t) /\ th[t].sec \in {"mark", "discard"}
      BY <1>4, <2>1 DEF Handing
    <3>2. th[t].pc \notin {"next", "evict", "spawn"}
      BY <3>1 DEF Handed
    <3>3. ~NextRecord(t) /\ ~Evict(t) /\ ~Spawn(t)
      BY <3>2 DEF NextRecord, Evict, Spawn
    <3>4. th'[t] # Idle
      BY <2>1, <3>1 DEF Idle
    <3>5. th'[t].cur = th[t].cur
      BY <1>1, <2>1, <3>1, <3>3, <3>4 DEF Moved, Stays
    <3> QED
      BY <1>1, <3>1, <3>5 DEF Handed
  <2>2. CASE th'[t].sec = "discard" /\ th[t].sec = "mark" /\ th'[t].cur = th[t].cur
    BY <1>1, <2>2 DEF Handed, Handing
  <2> QED
    BY <1>1, <1>4, <2>1, <2>2 DEF Aims, Handing, Idle
<1> QED
  BY <1>2, <1>3, <1>4

(* Only a section that marks what was returned sets delivered *)
LEMMA CallDelivers ==
  ASSUME TInv, NEW t \in Threads, CallStep(t), NEW j \in Jobs, disk'[j].delivered
  PROVE  disk[j].delivered \/ (th[t].cur = j /\ Handing(t))
<1>1. disk \in [Jobs -> Dir] /\ \A k \in Jobs : disk[k] \in Dir
  BY DEF TInv, TypeOK
<1>2. ASSUME NEW k \in Jobs, NEW d, disk' = [disk EXCEPT ![k] = d], d.delivered => disk[k].delivered
      PROVE  disk[j].delivered
  BY <1>1, <1>2
<1>3. ASSUME NEW k, NEW d, disk' = [disk EXCEPT ![k] = d], d.delivered => disk[k].delivered
      PROVE  disk[j].delivered
  BY <1>1, <1>3
<1>4. ASSUME NEW k \in Jobs, NEW d \in Rmtree(k)
      PROVE  d.delivered => disk[k].delivered
  <2> DEFINE s == Stripped(disk[k])
             l == [Stripped(disk[k]) EXCEPT !.result = "none"]
             b == [Absent EXCEPT !.at = "bare"]
  <2>1. s.delivered = disk[k].delivered /\ l.delivered = disk[k].delivered
    BY <1>1 DEF Stripped, Dir
  <2>2. ~Absent.delivered /\ ~b.delivered
    BY DEF Absent
  <2>3. d \in {disk[k], s, l, Absent, b}
    BY <1>4 DEF Rmtree
  <2> HIDE DEF s, l, b
  <2> QED
    BY <2>1, <2>2, <2>3
<1>5. CASE UNCHANGED disk
  BY <1>5
<1>6. CASE Enter(t) \/ NextRecord(t) \/ Probe(t) \/ GraceEnds(t) \/ KeepReaped(t) \/ Collect(t)
           \/ Unserved(t) \/ LookStatus(t) \/ LookResult(t) \/ ProveGone(t) \/ Signal(t)
  BY <1>5, <1>6 DEF Enter, NextRecord, Probe, GraceEnds, KeepReaped, Collect, Unserved,
                    LookStatus, LookResult, ProveGone, Signal, store
<1>7. CASE Read(t) \/ FinishCancel(t)
  <2> DEFINE k == th[t].cur
  <2>1. k \in Jobs
    BY <1>7 DEF Read, FinishCancel, TInv, Cursor, AtRecord
  <2> HIDE DEF k
  <2>2. /\ MarkDone(disk[k]).delivered = disk[k].delivered
        /\ StampFailed(disk[k]).delivered = disk[k].delivered
    BY <1>1, <2>1 DEF MarkDone, StampFailed, Dir
  <2>3. ASSUME NEW status, FinalizeCleanup(k, status)
        PROVE  disk[j].delivered
    BY <1>1, <2>1, <2>3 DEF FinalizeCleanup, Dir
  <2>4. \/ UNCHANGED disk
        \/ disk' = [disk EXCEPT ![k] = MarkDone(disk[k])]
        \/ disk' = [disk EXCEPT ![k] = StampFailed(disk[k])]
        \/ \E status : FinalizeCleanup(k, status)
    BY <1>7 DEF Read, FinishCancel, store, k
  <2> QED
    BY <1>2, <1>5, <2>1, <2>2, <2>3, <2>4
<1>8. CASE DropExpired(t) \/ Discard(t) \/ DiscardFailed(t)
  <2>1. th[t].cur \in Jobs
    BY <1>8 DEF DropExpired, Discard, DiscardFailed, Found, TInv, Cursor, AtRecord
  <2>2. UNCHANGED disk \/ \E d \in Rmtree(th[t].cur) : disk' = [disk EXCEPT ![th[t].cur] = d]
    BY <1>8 DEF DropExpired, Discard, DiscardFailed
  <2> QED
    BY <1>2, <1>4, <1>5, <2>1, <2>2
<1>9. CASE MarkDelivered(t)
  BY <1>1, <1>9 DEF MarkDelivered, Found, Handing
<1>10. CASE Evict(t)
  <2>1. UNCHANGED disk \/ \E k \in Jobs : \E d \in Rmtree(k) : disk' = [disk EXCEPT ![k] = d]
    BY <1>10 DEF Evict
  <2> QED
    BY <1>2, <1>4, <1>5, <2>1
<1>11. CASE Spawn(t) \/ Publish(t)
  <2>1. UNCHANGED disk \/ \E k, at : disk' = [disk EXCEPT ![k].at = at]
    BY <1>11 DEF Spawn, Publish, store
  <2> QED
    BY <1>1, <2>1 DEF Dir
<1>12. CASE DropUnrecorded(t)
  <2>1. \E d \in {Absent, [Absent EXCEPT !.at = "bare"]} : disk' = [disk EXCEPT ![th[t].cur] = d]
    BY <1>12 DEF DropUnrecorded
  <2>2. \A d \in {Absent, [Absent EXCEPT !.at = "bare"]} : ~d.delivered
    BY DEF Absent
  <2> QED
    BY <1>3, <2>1, <2>2
<1> QED
  BY <1>6, <1>7, <1>8, <1>9, <1>10, <1>11, <1>12 DEF CallStep

LEMMA OthersDeliver ==
  ASSUME TInv, [Next]_vars, \A t \in Threads : ~CallStep(t)
  PROVE  /\ returned' = returned /\ told' = told
         /\ \A j \in Jobs : disk'[j].delivered => disk[j].delivered
<1>1. disk \in [Jobs -> Dir] /\ \A k \in Jobs : disk[k] \in Dir
  BY DEF TInv, TypeOK
<1>2. returned' = returned /\ told' = told
  BY DEF Next, vars, history, Begin, WorkerStep, OpenLockFile, TakeLock, RunUnlocked, MakeTree,
         DeclareTree, RemoveTree, WriteResult, WorkerExits, WorldStep, PopenReaps, PidReused,
         StrangerExits, DeadlinePasses, TtlPasses, ReadErrorStarts, ReadErrorEnds, Crash
<1>3. ASSUME NEW k \in Jobs, WorkerStep(k) \/ WorldStep(k)
      PROVE  \A j \in Jobs : disk'[j].delivered => disk[j].delivered
  <2>1. CASE WorkerStep(k)
    BY <1>1, <2>1 DEF WorkerStep, OpenLockFile, TakeLock, RunUnlocked, MakeTree, DeclareTree,
                      RemoveTree, WriteResult, WorkerExits, Dir
  <2>2. CASE WorldStep(k)
    BY <1>1, <2>2 DEF WorldStep, PopenReaps, PidReused, StrangerExits, DeadlinePasses, TtlPasses,
                      ReadErrorStarts, ReadErrorEnds, store, Dir
  <2> QED
    BY <1>3, <2>1, <2>2
<1> QED
  BY <1>2, <1>3 DEF Next, vars, store, Begin, Crash

LEMMA HandedNext ==
  ASSUME TInv, Handed, [Next]_vars
  PROVE  Handed'
<1>1. ASSUME NEW t \in Threads, CallStep(t)
      PROVE  Handed'
  <2>1. returned \subseteq returned'
    BY <1>1, CallAims
  <2>2. \A j \in Jobs : disk'[j].delivered => j \in returned
    BY <1>1, CallDelivers DEF Handed
  <2> QED
    BY <1>1, <2>1, <2>2, CallHandles DEF Handed
<1>2. ASSUME \A t \in Threads : ~CallStep(t)
      PROVE  Handed'
  <2>1. Quiet /\ returned' = returned /\ \A j \in Jobs : disk'[j].delivered => disk[j].delivered
    BY <1>2, NextKinds, OthersDeliver
  <2>2. \A t \in Threads : \/ th'[t] = th[t]
                          \/ /\ th'[t].sec \in {"none", "reap", "look"}
                             /\ th'[t].pc \in {"idle", "enter"}
    BY <2>1 DEF Quiet
  <2> QED
    BY <2>1, <2>2 DEF Handed, Handing
<1> QED
  BY <1>1, <1>2

LEMMA HandedInit == Init => Handed
<1>1. Idle.pc = "idle" /\ Idle.sec = "none" /\ ~Absent.delivered
  BY DEF Idle, Absent
<1> QED
  BY <1>1 DEF Init, Handed, Handing

(* Why a section may delete a record that still has its result *)
LEMMA DeletesReturned ==
  ASSUME EInv, StoppedMeansStopped, Rechecked, Handed, NEW t \in Threads, CallStep(t),
         NEW j \in Records, Deletes(t, j), disk[j].result # "none", disk'[j].result = "none"
  PROVE  j \in returned \cup doubted \/ PastRetention(j)
<1>1. TInv /\ Reads /\ j \in Jobs
  BY DEF EInv, BInv, SInv, LInv, Records
<1>2. ASSUME NEW st \in {"failed", "cancelled", "timeout"}, Has(t, j, st)
      PROVE  j \in doubted
  <2>1. ReadAs(j, st)
    BY <1>1, <1>2 DEF Reads, Readings, Terminal
  <2> QED
    BY <1>1, <2>1 DEF ReadAs, StoppedMeansStopped
<1>3. CASE th[t].pc = "evict"
  <2>1. Evict(t)
    BY <1>3 DEF CallStep, Enter, NextRecord, Probe, Read, GraceEnds, DropExpired, KeepReaped,
                Collect, Unserved, LookStatus, LookResult, MarkDelivered, Discard, ProveGone,
                DiscardFailed, Signal, FinishCancel, Spawn, Publish, DropUnrecorded, Found
  <2>2. Evictable(j, th[t].seen[j])
    BY <1>1, <2>1 DEF Evict, TInv, TypeOK
  <2>3. Has(t, j, th[t].seen[j])
    BY DEF Has
  <2>4. CASE th[t].seen[j] = "done"
    BY <1>1, <2>2, <2>4 DEF Evictable, Handed
  <2>5. CASE th[t].seen[j] # "done"
    BY <1>2, <2>2, <2>3, <2>5 DEF Evictable, Terminal
  <2> QED
    BY <2>4, <2>5
<1>4. CASE th[t].pc = "settled" /\ th[t].sec # "collect" /\ th[t].cur = j
  <2>1. Has(t, j, th[t].st)
    BY <1>4 DEF Has
  <2>2. \/ DropExpired(t) \/ Discard(t) \/ DiscardFailed(t) \/ MarkDelivered(t) \/ UNCHANGED disk
    BY <1>4 DEF CallStep, Enter, NextRecord, Probe, Read, GraceEnds, KeepReaped, store,
                Collect, Unserved, LookStatus, LookResult, ProveGone,
                Signal, FinishCancel, Evict, Spawn, Publish, DropUnrecorded
  <2>3. CASE DropExpired(t)
    BY <1>4, <2>3 DEF DropExpired, Removable, Expired, PastRetention
  <2>4. CASE Discard(t)
    <3>1. th[t].st = th[t].want /\ th[t].st \in Terminal /\ th[t].sec = "discard"
      <4>1. th[t].want \in Terminal \cup {"none"}
        BY <1>1 DEF TInv, TypeOK, Thread
      <4> QED
        BY <2>4, <4>1 DEF Discard, Found, Terminal
    <3>2. th[t].st = "done" => j \in returned
      BY <1>4, <3>1 DEF Handed, Handing
    <3> QED
      BY <1>2, <2>1, <3>1, <3>2 DEF Terminal
  <2>5. CASE DiscardFailed(t)
    <3>1. th[t].st = "failed" \/ UNCHANGED disk
      BY <2>5 DEF DiscardFailed
    <3> QED
      BY <1>2, <2>1, <3>1
  <2>6. CASE MarkDelivered(t)
    <3>1. disk'[j].result = disk[j].result
      BY <1>1, <2>6 DEF MarkDelivered, TInv, TypeOK, Dir
    <3> QED
      BY <3>1
  <2> QED
    BY <2>2, <2>3, <2>4, <2>5, <2>6
<1> QED
  BY <1>3, <1>4 DEF Deletes

(* No eviction, consume or cancel deletes a result that was never handed   *)
(* back, before its retention has run out: done was read of it and marked  *)
(* delivered only after it was returned, and a job that was read as ended  *)
(* without one never gets one (#244).                                      *)
THEOREM UnreturnedResultsAreKept == Spec => UnreturnedResultKept
<1> DEFINE RInv == EInv /\ StoppedMeansStopped /\ Rechecked /\ Handed
           Kept == \A j \in Records :
                     disk[j].result # "none" /\ disk'[j].result = "none"
                       => j \in returned \cup doubted \/ PastRetention(j)
<1>1. RInv /\ [Next]_vars => RInv'
  <2> SUFFICES ASSUME EInv, StoppedMeansStopped, Rechecked, Handed, [Next]_vars
               PROVE  EInv' /\ StoppedMeansStopped' /\ Rechecked' /\ Handed'
    OBVIOUS
  <2>1. TInv /\ BInv
    BY DEF EInv, BInv, SInv, LInv
  <2> QED
    BY <2>1, NextKinds, EndedNext, StoppedNext, QuietRechecks, CallRechecks, HandedNext
<1>2. RInv /\ [Next]_vars => [Kept]_vars
  <2> SUFFICES ASSUME EInv, StoppedMeansStopped, Rechecked, Handed, [Next]_vars,
                      NEW j \in Records, disk[j].result # "none", disk'[j].result = "none"
               PROVE  j \in returned \cup doubted \/ PastRetention(j)
    OBVIOUS
  <2>1. TInv /\ Derived /\ Met /\ Apart /\ Unbegun /\ j \in Jobs
    BY DEF EInv, BInv, SInv, LInv, Records
  <2>2. ASSUME NEW t \in Threads, CallStep(t)
        PROVE  j \in returned \cup doubted \/ PastRetention(j)
    <3>1. Touches(t, j)
      BY <2>1, <2>2, CallTouches
    <3>2. ~Begins(t, j) /\ ~Drops(t, j)
      BY <2>1, AbsentLemma DEF Begins, Drops, Unbegun, Apart, Starting, Records
    <3> QED
      BY <2>2, <3>1, <3>2, DeletesReturned
         DEF Touches, Keeps, Marks, Finalizes, Publishes, Same
  <2>3. ~Quiet
    BY <2>1 DEF Quiet, Evolves
  <2> QED
    BY <2>1, <2>2, <2>3, NextKinds
<1> QED
  BY <1>1, <1>2, EndedInit, StoppedInit, RecheckedInit, HandedInit, PTL
     DEF Spec, UnreturnedResultKept

-----------------------------------------------------------------------------
(* A section reads records that are there, and each of them once.          *)

Reading == {"probe", "read", "overrun", "overread", "settled", "proof"}

Present ==
  \A t \in Threads, j \in Jobs :
    /\ j \in th[t].todo =>
         /\ j \in Records /\ th[t].sec \in {"reap", "collect"}
         /\ th[t].pc \in {"next", "probe", "read", "overrun", "overread", "settled"}
    /\ th[t].cur = j /\ th[t].pc \in Reading => j \in Records /\ j \notin th[t].todo
    /\ th[t].seen[j] # "none"
         => j \notin th[t].todo /\ ~(th[t].cur = j /\ th[t].pc \in Reading)

(* A job that was read as failed has no stamp as long as the section lasts *)
Unstamped ==
  \A t \in Threads, j \in Jobs : Has(t, j, "failed") => ~Stamped(j) \/ j \notin Records

(* Another process has the pid of no child *)
Strangers ==
  \A j \in Jobs : worker[j].phase = "stranger" => worker[j].parent = NoServer

LEMMA RecordsLeave ==
  ASSUME BInv, NEW t \in Threads, CallStep(t), NEW j \in Records, (j \notin Records)'
  PROVE  Deletes(t, j)
<1>1. TInv /\ Derived /\ Met /\ Apart /\ Unbegun /\ j \in Jobs
  BY DEF BInv, SInv, LInv, Records
<1>2. Touches(t, j)
  BY <1>1, CallTouches
<1>3. ~Begins(t, j) /\ ~Drops(t, j)
  BY <1>1, AbsentLemma DEF Begins, Drops, Unbegun, Apart, Starting, Records
<1> QED
  BY <1>1, <1>2, <1>3 DEF Touches, Keeps, Marks, Finalizes, Publishes, Records

LEMMA QuietPresent ==
  ASSUME Present, Quiet
  PROVE  Present'
<1> SUFFICES ASSUME NEW t \in Threads, NEW j \in Jobs
             PROVE  /\ j \in th'[t].todo =>
                         /\ (j \in Records)' /\ th'[t].sec \in {"reap", "collect"}
                         /\ th'[t].pc \in {"next", "probe", "read", "overrun", "overread", "settled"}
                    /\ th'[t].cur = j /\ th'[t].pc \in Reading
                         => (j \in Records)' /\ j \notin th'[t].todo
                    /\ th'[t].seen[j] # "none"
                         => j \notin th'[t].todo /\ ~(th'[t].cur = j /\ th'[t].pc \in Reading)
  BY DEF Present
<1>1. j \in Records => (j \in Records)'
  BY DEF Quiet, Evolves, Records
<1>2. CASE th'[t] = th[t]
  BY <1>1, <1>2 DEF Present
<1>3. CASE th'[t].pc \in {"idle", "enter"} /\ th'[t].seen = Unseen /\ th'[t].todo = {}
  BY <1>3 DEF Unseen, Reading
<1> QED
  BY <1>2, <1>3 DEF Quiet

(* Where the reads of the call itself come from *)
LEMMA PresentMoves ==
  ASSUME BInv, Present, NEW t \in Threads, Moved(t), NEW j \in Jobs
  PROVE  /\ j \in th'[t].todo =>
              /\ j \in th[t].todo \/ (j \in Records /\ th[t].pc \notin {"settled", "evict"})
              /\ th'[t].sec \in {"reap", "collect"}
              /\ th'[t].pc \in {"next", "probe", "read", "overrun", "overread", "settled"}
         /\ th'[t].cur = j /\ th'[t].pc \in Reading
              => /\ j \in Records /\ j \notin th'[t].todo /\ th'[t].seen[j] = "none"
                 /\ th[t].pc = "settled" => th'[t].pc = "proof"
                 /\ th[t].pc # "evict"
         /\ th'[t].seen[j] # "none" => j \notin th'[t].todo
<1> DEFINE Pass == {"next", "probe", "read", "overrun", "overread", "settled"}
           P1 == j \in th'[t].todo =>
                   /\ j \in th[t].todo \/ (j \in Records /\ th[t].pc \notin {"settled", "evict"})
                   /\ th'[t].sec \in {"reap", "collect"} /\ th'[t].pc \in Pass
           P2 == th'[t].cur = j /\ th'[t].pc \in Reading
                   => /\ j \in Records /\ j \notin th'[t].todo /\ th'[t].seen[j] = "none"
                      /\ th[t].pc = "settled" => th'[t].pc = "proof"
                      /\ th[t].pc # "evict"
           P3 == th'[t].seen[j] # "none" => j \notin th'[t].todo
<1>1. TInv /\ Fresh /\ th[t] \in Thread /\ th[t].seen \in [Jobs -> Readings]
  BY DEF BInv, SInv, LInv, TInv, TypeOK, Thread
<1>2. Idle.pc = "idle" /\ Idle.todo = {} /\ Idle.seen = Unseen /\ Unseen[j] = "none"
  BY DEF Idle, Unseen
<1>3. /\ j \in th[t].todo => th[t].sec \in {"reap", "collect"} /\ th[t].pc \in Pass
      /\ th[t].cur = j /\ th[t].pc \in Reading
           => j \in Records /\ j \notin th[t].todo /\ th[t].seen[j] = "none"
      /\ th[t].seen[j] # "none" => j \notin th[t].todo
  BY DEF Present
<1>4. CASE th'[t] = Idle
  BY <1>2, <1>4 DEF Reading
<1>5. CASE Stays(t) /\ (Probe(t) \/ Read(t) \/ GraceEnds(t))
  <2>1. GraceEnds(t) => \/ th[t].pc = "overrun" /\ th'[t].pc = "overread"
                        \/ th[t].pc \in {"grace", "abort"} /\ th'[t].pc \notin Reading
    BY <1>1, GraceLeads DEF Reading
  <2>2. Probe(t) \/ Read(t) => th[t].pc \in {"probe", "read", "overread"}
    BY DEF Probe, Read
  <2>3. th'[t].pc \in {"settled", "read", "overrun"} \/ GraceEnds(t)
    BY <1>1, <1>5, SettlesOne, GoesOne DEF Probe, Read
  <2> QED
    BY <1>3, <1>5, <2>1, <2>2, <2>3 DEF Stays, Reading
<1>6. CASE Stays(t) /\ Signal(t) /\ th'[t].pc \in {"finish", "grace"}
  BY <1>3, <1>6 DEF Signal, Stays, Reading
<1>7. CASE Stays(t) /\ LookStatus(t) /\ th'[t].pc = "signal"
  BY <1>3, <1>7 DEF LookStatus, Found, Stays, Reading
<1>8. CASE Stays(t) /\ Discard(t) /\ th'[t].pc = "proof"
  BY <1>3, <1>8 DEF Discard, Found, Stays, Reading
<1>9. CASE Stays(t) /\ \/ th'[t].pc = "evict" /\ th[t].todo = {}
                       \/ th'[t].pc = "abort" /\ Publish(t)
                       \/ th'[t].pc = "next" /\ th[t].sec = "reap"
  BY <1>3, <1>9 DEF Publish, Stays, Reading
<1>10. CASE Stays(t) /\ th'[t].pc = "probe" /\ Enter(t) /\ th[t].cur \in Records
  <2>1. th[t].pc = "enter" /\ th[t].seen = Unseen
    BY <1>1, <1>10 DEF Enter, Fresh
  <2> QED
    BY <1>2, <1>3, <1>10, <2>1 DEF Stays, Reading
<1>11. CASE /\ th'[t].pc = "enter" /\ th[t].sec \in {"look", "mark"}
            /\ th'[t].todo = th[t].todo
  BY <1>3, <1>11 DEF Reading
<1>12. CASE /\ th'[t].pc = "next"
            /\ th'[t].todo \subseteq th[t].todo \cup (IF th[t].pc \in {"enter", "next"} THEN Records ELSE {})
            /\ th[t].sec = "reap" /\ th'[t].sec \in {"reap", "collect"} /\ th'[t].seen = th[t].seen
  <2>1. th[t].seen = Unseen
    BY <1>1, <1>12 DEF Fresh
  <2> QED
    BY <1>2, <1>3, <1>12, <2>1 DEF Reading
<1>13. CASE /\ th'[t].pc = "next" /\ Collect(t) /\ th'[t].sec = "collect"
            /\ th'[t].todo = th[t].todo /\ th'[t].seen = [th[t].seen EXCEPT ![th[t].cur] = th[t].st]
  <2>1. th[t].pc = "settled" /\ th[t].pc \in Reading
    BY <1>13 DEF Collect, Found, Reading
  <2> QED
    BY <1>1, <1>3, <1>13, <2>1 DEF Reading
<1>14. CASE /\ th'[t].pc = "probe" /\ NextRecord(t) /\ th'[t].sec = th[t].sec
            /\ th'[t].cur \in th[t].todo /\ th'[t].todo = th[t].todo \ {th'[t].cur}
            /\ th'[t].seen = th[t].seen
  <2>1. th[t].pc = "next" /\ (j \in th[t].todo => j \in Records)
    BY <1>14 DEF NextRecord, Present
  <2> QED
    BY <1>3, <1>14, <2>1 DEF Reading
<1>15. CASE /\ th'[t].pc = "probe" /\ ProveGone(t) /\ th'[t].cur = th[t].cur
            /\ th'[t].todo = th[t].todo /\ th'[t].seen = th[t].seen
  BY <1>3, <1>15 DEF ProveGone, Reading
<1>16. CASE Evict(t) /\ th'[t].pc \in {"spawn", "evict"} /\ th'[t].todo = th[t].todo
  BY <1>3, <1>16 DEF Evict, Reading
<1>17. CASE th'[t].pc = "publish" /\ Spawn(t) /\ th'[t].todo = th[t].todo
  BY <1>3, <1>17 DEF Spawn, Reading
<1> QED
  BY <1>4, <1>5, <1>6, <1>7, <1>8, <1>9, <1>10, <1>11, <1>12, <1>13, <1>14, <1>15, <1>16, <1>17
  DEF Moved

LEMMA CallPresent ==
  ASSUME BInv, Present, NEW t \in Threads, CallStep(t)
  PROVE  Present'
<1>1. TInv /\ SInv
  BY DEF BInv, SInv, LInv
<1>2. Moved(t) /\ \A v \in Threads \ {t} : th'[v] = th[v]
  BY <1>1, CallMoves
<1> SUFFICES ASSUME NEW u \in Threads, NEW j \in Jobs
             PROVE  /\ j \in th'[u].todo =>
                         /\ (j \in Records)' /\ th'[u].sec \in {"reap", "collect"}
                         /\ th'[u].pc \in {"next", "probe", "read", "overrun", "overread", "settled"}
                    /\ th'[u].cur = j /\ th'[u].pc \in Reading
                         => (j \in Records)' /\ j \notin th'[u].todo
                    /\ th'[u].seen[j] # "none"
                         => j \notin th'[u].todo /\ ~(th'[u].cur = j /\ th'[u].pc \in Reading)
  BY DEF Present
<1>3. CASE u # t
  <2>1. th'[u] = th[u]
    BY <1>2, <1>3
  <2>2. th[u].pc \in InSection => UNCHANGED disk
    BY <1>1, <1>3, OwnDisk
  <2>3. th[u].pc \in Reading => th[u].pc \in InSection
    BY DEF Reading, InSection
  <2>4. j \in th[u].todo => th[u].pc \in InSection
    BY DEF Present, InSection
  <2> QED
    BY <2>1, <2>2, <2>3, <2>4 DEF Present, Records
<1>4. CASE u = t
  <2>1. /\ j \in th'[t].todo =>
             /\ j \in th[t].todo \/ (j \in Records /\ th[t].pc \notin {"settled", "evict"})
             /\ th'[t].sec \in {"reap", "collect"}
             /\ th'[t].pc \in {"next", "probe", "read", "overrun", "overread", "settled"}
        /\ th'[t].cur = j /\ th'[t].pc \in Reading
             => /\ j \in Records /\ j \notin th'[t].todo /\ th'[t].seen[j] = "none"
                /\ th[t].pc = "settled" => th'[t].pc = "proof"
                /\ th[t].pc # "evict"
        /\ th'[t].seen[j] # "none" => j \notin th'[t].todo
    BY <1>2, PresentMoves
  <2>2. ASSUME j \in th'[t].todo
        PROVE  (j \in Records)'
    <3>1. j \in Records
      BY <2>1, <2>2 DEF Present
    <3>2. j \in th[t].todo => th[t].pc # "evict" /\ ~(th[t].pc = "settled" /\ th[t].cur = j)
      BY DEF Present, Reading
    <3>3. ~Deletes(t, j)
      BY <2>1, <2>2, <3>2 DEF Deletes
    <3> QED
      BY <3>1, <3>3, RecordsLeave
  <2>3. ASSUME th'[t].cur = j, th'[t].pc \in Reading
        PROVE  (j \in Records)'
    <3>1. CASE th[t].pc \notin {"settled", "evict"}
      BY <2>1, <2>3, <3>1, RecordsLeave DEF Deletes
    <3>2. CASE th[t].pc = "settled"
      <4>1. th'[t].pc = "proof"
        BY <2>1, <2>3, <3>2
      <4>2. Discard(t)
        BY <1>2, <4>1 DEF Moved, Idle
      <4>3. UNCHANGED disk
        BY <1>1, <4>1, <4>2, Released DEF Discard
      <4> QED
        BY <2>1, <2>3, <4>3 DEF Records
    <3> QED
      BY <2>1, <2>3, <3>1, <3>2
  <2> QED
    BY <1>4, <2>1, <2>2, <2>3
<1> QED
  BY <1>3, <1>4

LEMMA QuietUnstamped ==
  ASSUME Unstamped, Quiet
  PROVE  Unstamped'
<1> SUFFICES ASSUME NEW t \in Threads, NEW j \in Jobs, Has(t, j, "failed")'
             PROVE  ~Stamped(j)' \/ (j \notin Records)'
  BY DEF Unstamped
<1>1. Has(t, j, "failed")
  BY DEF Quiet, Has, Unseen
<1> QED
  BY <1>1 DEF Unstamped, Quiet, Evolves, Stamped, Records

(* A job that a step of a call reads as failed has no stamp *)
LEMMA ReadUnstamped ==
  ASSUME TInv, Derived, NEW t \in Threads, Probe(t) \/ Read(t), th'[t].pc = "settled",
         NEW j \in Jobs, th[t].cur = j, th'[t].st = "failed"
  PROVE  ~Stamped(j)'
<1>1. disk \in [Jobs -> Dir] /\ disk[j] \in Dir
  BY DEF TInv, TypeOK
<1>2. ~Probe(t)
  <2>1. disk[j].stamp # "failed"
    BY <1>1 DEF Dir, Stamps
  <2> QED
    BY <2>1, SettlesOne, GoesOne DEF Probe
<1>3. Read(t) /\ ~Stamped(j)
  BY <1>2 DEF Read, Derived, Deriving, Stamped
<1>4. disk' = [disk EXCEPT ![j] = StampFailed(disk[j])]
  BY <1>3, SettlesOne DEF Read
<1>5. StampFailed(disk[j]).stamp = disk[j].stamp
  BY <1>1 DEF StampFailed, Dir
<1> QED
  BY <1>1, <1>3, <1>4, <1>5 DEF Stamped

LEMMA CallUnstamped ==
  ASSUME BInv, Present, Unstamped, NEW t \in Threads, CallStep(t)
  PROVE  Unstamped'
<1>1. TInv /\ SInv /\ Derived /\ Met /\ Fresh /\ Apart /\ Unbegun
  BY DEF BInv, SInv, LInv
<1>2. Moved(t) /\ \A v \in Threads \ {t} : th'[v] = th[v]
  BY <1>1, CallMoves
<1> SUFFICES ASSUME NEW u \in Threads, NEW j \in Jobs, Has(u, j, "failed")'
             PROVE  ~Stamped(j)' \/ (j \notin Records)'
  BY DEF Unstamped
<1>3. Touches(t, j)
  BY <1>1, CallTouches
<1>4. CASE u # t
  <2>1. Has(u, j, "failed")
    BY <1>2, <1>4 DEF Has
  <2>2. UNCHANGED disk
    BY <1>1, <1>4, <2>1, HasInSection, OwnDisk
  <2> QED
    BY <2>1, <2>2 DEF Unstamped, Stamped, Records
<1>5. CASE u = t /\ Has(t, j, "failed")
  <2>1. Born(j) /\ (~Stamped(j) \/ j \notin Records)
    BY <1>1, <1>5, HasIsBorn DEF Unstamped
  <2>2. ~Marks(t, j) /\ ~Finalizes(t, j)
    <3> SUFFICES ASSUME th[t].cur = j, th[t].pc \in {"read", "overread", "finish"}
                 PROVE  FALSE
      BY DEF Marks, Finalizes
    <3>1. th[t].seen[j] = "failed"
      BY <1>5 DEF Has
    <3> QED
      BY <1>1, <3>1 DEF Present, Reading, Fresh, Unseen
  <2>3. CASE Keeps(j)
    BY <2>1, <2>3 DEF Keeps, Stamped, Records
  <2>4. CASE Deletes(t, j)
    BY <1>1, <2>1, <2>4, DeletesLeave DEF Stamped, Records
  <2>5. CASE Publishes(t, j)
    BY <1>1, <2>5 DEF Publishes, Apart, Starting, Stamped
  <2>6. CASE Drops(t, j)
    BY <2>6 DEF Drops, Absent, Stamped
  <2> QED
    BY <1>3, <2>1, <2>2, <2>3, <2>4, <2>5, <2>6 DEF Touches, Begins
<1>6. CASE u = t /\ ~Has(t, j, "failed")
  <2>1. th'[t].seen[j] # "failed"
    BY <1>1, <1>2, <1>6, Arrives DEF Has
  <2>2. th'[t].pc = "settled" /\ th'[t].cur = j /\ th'[t].st = "failed"
    BY <1>6, <2>1 DEF Has
  <2>3. (Probe(t) \/ Read(t)) /\ th[t].cur = j
    BY <1>2, <2>2 DEF Moved, Stays, Idle
  <2> QED
    BY <1>1, <2>2, <2>3, ReadUnstamped
<1> QED
  BY <1>4, <1>5, <1>6

LEMMA StrangersNext ==
  ASSUME TInv, "childreuse" \notin Events, Strangers, [Next]_vars
  PROVE  Strangers'
<1> SUFFICES ASSUME NEW j \in Jobs, worker'[j].phase = "stranger"
             PROVE  worker'[j].parent = NoServer
  BY DEF Strangers
<1>1. worker \in [Jobs -> Proc] /\ worker[j] \in Proc
  BY DEF TInv, TypeOK
<1>2. ASSUME worker'[j].phase = worker[j].phase,
             worker'[j].parent \in {worker[j].parent, NoServer}
      PROVE  worker'[j].parent = NoServer
  BY <1>2 DEF Strangers
<1>3. CASE UNCHANGED worker
  BY <1>2, <1>3
<1>4. ASSUME NEW t \in Threads, CallStep(t)
      PROVE  worker'[j].parent = NoServer
  <2>1. ASSUME NEW k \in Jobs, worker' = Reaped(t, k) \/ worker' = Killed(t, k)
        PROVE  worker'[j].parent = NoServer
    BY <1>1, <1>2, <2>1 DEF Reaped, Killed, Exited, Proc
  <2>2. ASSUME NEW k, NEW left, worker' = [worker EXCEPT ![k].tree = left]
        PROVE  worker'[j].parent = NoServer
    BY <1>1, <1>2, <2>2 DEF Proc
  <2>3. CASE Probe(t) \/ GraceEnds(t) \/ ProveGone(t) \/ Signal(t)
    <3>1. th[t].cur \in Jobs
      BY <2>3 DEF Probe, GraceEnds, ProveGone, Signal, TInv, Cursor, AtRecord
    <3>2. \/ UNCHANGED worker
          \/ worker' = Reaped(t, th[t].cur) \/ worker' = Killed(t, th[t].cur)
      BY <2>3 DEF Probe, GraceEnds, ProveGone, Signal
    <3> QED
      BY <1>3, <2>1, <3>1, <3>2
  <2>4. CASE Read(t) \/ FinishCancel(t) \/ DropUnrecorded(t)
    <3>1. UNCHANGED worker \/ \E left : worker' = [worker EXCEPT ![th[t].cur].tree = left]
      BY <2>4 DEF Read, FinishCancel, DropUnrecorded, FinalizeCleanup, store
    <3> QED
      BY <1>3, <2>2, <3>1
  <2>5. CASE Spawn(t)
    <3>1. \/ UNCHANGED worker
          \/ \E k \in Jobs : worker' = [worker EXCEPT ![k].phase = "boot", ![k].parent = Home[t]]
      BY <2>5 DEF Spawn, store, Unstarted
    <3> QED
      BY <1>1, <1>2, <1>3, <3>1 DEF Proc
  <2> QED
    BY <1>3, <1>4, <2>3, <2>4, <2>5
    DEF CallStep, Enter, NextRecord, DropExpired, KeepReaped, Collect, Unserved, LookStatus,
        LookResult, MarkDelivered, Discard, DiscardFailed, Evict, Publish, store
<1>5. ASSUME NEW k \in Jobs, WorkerStep(k)
      PROVE  worker'[j].parent = NoServer
  <2>1. CASE WorkerExits(k)
    BY <1>1, <1>2, <2>1 DEF WorkerExits, Exited, Proc
  <2>2. ASSUME NEW from, NEW to \in {"opening", "working", "wrote"}, Phase(k, from, to)
        PROVE  worker'[j].parent = NoServer
    BY <1>1, <1>2, <2>2 DEF Phase, Proc
  <2>3. CASE TakeLock(k) \/ MakeTree(k) \/ DeclareTree(k) \/ RemoveTree(k)
    BY <1>1, <1>2, <2>3 DEF TakeLock, MakeTree, DeclareTree, RemoveTree, Proc
  <2> QED
    BY <1>5, <2>1, <2>2, <2>3 DEF WorkerStep, OpenLockFile, RunUnlocked, WriteResult
<1>6. ASSUME NEW k \in Jobs, WorldStep(k)
      PROVE  worker'[j].parent = NoServer
  <2>1. CASE PopenReaps(k) \/ StrangerExits(k)
    BY <1>1, <1>2, <2>1 DEF PopenReaps, StrangerExits, Phase, Proc
  <2>2. CASE PidReused(k)
    BY <1>1, <1>2, <2>2 DEF PidReused, Phase, Proc
  <2> QED
    BY <1>3, <1>6, <2>1, <2>2
    DEF WorldStep, DeadlinePasses, TtlPasses, ReadErrorStarts, ReadErrorEnds, store
<1>7. ASSUME NEW s \in Servers, Crash(s)
      PROVE  worker'[j].parent = NoServer
  BY <1>1, <1>2, <1>7 DEF Crash, Orphaned, Proc
<1>8. ASSUME NEW t \in Threads, NEW call \in Calls, NEW k \in Jobs \cup {NoJob}, Begin(t, call, k)
      PROVE  worker'[j].parent = NoServer
  BY <1>3, <1>8 DEF Begin, store
<1> QED
  BY <1>3, <1>4, <1>5, <1>6, <1>7, <1>8 DEF Next, vars, store

(* A job whose worker is gone is seen running by nobody *)
LEMMA DeadUnseen ==
  ASSUME SInv, Strangers, NEW t \in Threads, NEW j \in Jobs, ~Alive(j)
  PROVE  ~JobRunning(t, j)
<1>1. ~Held(j)
  BY DEF SInv, LocksLive, Held
<1>2. Owned(t, j) => worker[j].phase # "stranger"
  BY ActorsAssumption DEF Owned, Strangers
<1> QED
  BY <1>1, <1>2 DEF JobRunning, IsRunning

-----------------------------------------------------------------------------
(* What a client was told stands.                                          *)

Final == {"done", "cancelled", "timeout"}
Answered == Readings \ {"none"}

ToldStarted(j) == told[j] # "none" => Born(j) /\ \A t \in Threads : ~Starting(t, j)

ToldFinal(j) ==
  told[j] \in Final =>
    /\ disk[j].stamp = told[j] \/ j \notin Records
    /\ \A t \in Threads, st \in Answered : Has(t, j, st) => st = told[j]

(* Only a cancel that is already stopping the worker may still stamp it *)
ToldFailed(j) ==
  told[j] = "failed" /\ j \notin doubted =>
    /\ ~Alive(j) /\ disk[j].result = "none"
    /\ disk[j].stamp \in {"none", "cancelled"} \/ j \notin Records
    /\ \A t \in Threads : ~(th[t].cur = j /\ th[t].pc \in {"overrun", "overread"})
    /\ \A t \in Threads, st \in Answered : Has(t, j, st) => st \in {"failed", "cancelled"}

ToldRight == \A j \in Jobs : ToldStarted(j) /\ ToldFinal(j) /\ ToldFailed(j)

OInv == EInv /\ Present /\ Unstamped /\ Strangers /\ ToldRight

(* A report of what a section read, and one of a cancel that is done *)
Tells(t, j) ==
  /\ told'[j] \in Answered /\ Has(t, j, told'[j])
  /\ th[t].pc \in InSection /\ th'[t].pc \in {"idle", "enter", "signal"}
  /\ UNCHANGED <<disk, worker, doubted>>

Cancels(t, j) ==
  /\ Stopped(t, j) /\ recLock = NoThread /\ th'[t].pc = "idle" /\ j \in Records
  /\ told'[j] = disk'[j].stamp /\ told'[j] # "none"
  /\ \/ Stamped(j) /\ told'[j] = disk[j].stamp
     \/ ~Stamped(j) /\ told'[j] = "cancelled"
     \/ ~Stamped(j) /\ told'[j] = "done" /\ disk[j].result # "none"

LEMMA CallTells ==
  ASSUME TInv, NEW t \in Threads, CallStep(t), NEW j \in Jobs
  PROVE  told'[j] = told[j] \/ Tells(t, j) \/ Cancels(t, j)
<1> DEFINE Holds == told'[j] = told[j] \/ Tells(t, j) \/ Cancels(t, j)
           k == th[t].cur
<1>1. /\ disk \in [Jobs -> Dir] /\ disk[j] \in Dir
      /\ told \in [Jobs -> Terminal \cup {"none", "running", "unreadable"}]
      /\ th[t] \in Thread /\ th[t].seen \in [Jobs -> Readings]
      /\ Terminal \cup {"running"} \subseteq Answered
  BY DEF TInv, TypeOK, Thread, Readings, Terminal, Answered
<1> SUFFICES ASSUME told'[j] # told[j]
             PROVE  Tells(t, j) \/ Cancels(t, j)
  OBVIOUS
<1>2. ASSUME Return(t)
      PROVE  th'[t].pc \in {"idle", "enter"}
  BY <1>2, Released
<1>3. CASE NextRecord(t)
  <2>1. /\ told' = [i \in Jobs |-> IF th[t].seen[i] = "none" THEN told[i] ELSE th[t].seen[i]]
        /\ Return(t)
    BY <1>3 DEF NextRecord
  <2>2. told'[j] = th[t].seen[j] /\ told'[j] \in Answered
    BY <1>1, <2>1 DEF Answered
  <2> QED
    BY <1>2, <1>3, <2>1, <2>2 DEF NextRecord, Tells, Has, InSection, store
<1>4. CASE LookStatus(t) \/ LookResult(t)
  <2>1. th[t].pc = "settled" /\ th[t].st \in Answered
    BY <1>1, <1>4 DEF LookStatus, LookResult, Found
  <2>2. told' = [told EXCEPT ![k] = th[t].st]
    BY <1>4 DEF LookStatus, LookResult, Report
  <2>3. k = j /\ told'[j] = th[t].st
    BY <1>1, <2>2
  <2>4. th'[t].pc \in {"idle", "enter", "signal"}
    <3>1. CASE LookStatus(t)
      BY <1>2, <3>1, GoesOne DEF LookStatus
    <3>2. CASE LookResult(t)
      <4> DEFINE r(sec, want) == [th[t] EXCEPT !.pc = "enter", !.sec = sec,
                                               !.want = want, !.st = "none"]
      <4>1. \A sec, want : r(sec, want).pc = "enter"
        BY <1>1 DEF Thread
      <4> HIDE DEF r
      <4>2. Return(t) \/ Move(t, r("mark", "none")) \/ Move(t, r("discard", th[t].st))
        BY <3>2, SMTT(60) DEF LookResult, r
      <4>3. th \in [Threads -> Thread]
        BY DEF TInv, TypeOK
      <4> QED
        BY <1>2, <4>1, <4>2, <4>3, MovesOne
    <3> QED
      BY <1>4, <3>1, <3>2
  <2>5. UNCHANGED <<disk, worker, doubted>>
    BY <1>4 DEF LookStatus, LookResult, store
  <2> QED
    BY <2>1, <2>3, <2>4, <2>5 DEF Tells, Has, InSection
<1>5. CASE FinishCancel(t)
  <2>1. th[t].pc = "finish" /\ recLock = NoThread /\ th'[t].pc = "idle"
    <3>1. th'[t] = Idle
      BY <1>5, MovesOne DEF FinishCancel, Return, TInv, TypeOK
    <3> QED
      BY <1>5, <3>1 DEF FinishCancel, LockFree, Idle
  <2>2. ASSUME NEW st, Report(k, st)
        PROVE  k = j /\ told'[j] = st
    BY <1>1, <2>2 DEF Report
  <2>3. "none" \notin {"done", "cancelled"}
    OBVIOUS
  <2>4. CASE k \in Records /\ Stamped(k) /\ Report(k, disk[k].stamp) /\ UNCHANGED store
    BY <2>1, <2>2, <2>4 DEF Cancels, Stopped, Stamped, store
  <2>5. CASE /\ k \in Records /\ ~Stamped(k) /\ Envelope(k) \in Results
             /\ disk' = [disk EXCEPT ![k] = MarkDone(disk[k])] /\ Report(k, "done")
    <3>1. k = j /\ told'[j] = "done" /\ disk'[j].stamp = "done"
      BY <1>1, <2>2, <2>5, MarkDoneLemma
    <3>2. disk[j].result # "none"
      BY <2>5, <3>1, InputsAssumption DEF Envelope
    <3> QED
      BY <2>1, <2>5, <3>1, <3>2 DEF Cancels, Stopped
  <2>6. CASE /\ k \in Records /\ ~Stamped(k)
             /\ FinalizeCleanup(k, "cancelled") /\ Report(k, "cancelled")
    <3>1. k = j /\ told'[j] = "cancelled"
      BY <2>2, <2>6
    <3>2. disk'[j].stamp = "cancelled"
      BY <1>1, <2>6, <3>1 DEF FinalizeCleanup, Dir
    <3> QED
      BY <2>1, <2>6, <3>1, <3>2 DEF Cancels, Stopped
  <2> QED
    BY <1>5, <2>4, <2>5, <2>6 DEF FinishCancel
<1> QED
  BY <1>3, <1>4, <1>5
  DEF CallStep, Enter, Probe, Read, GraceEnds, DropExpired, KeepReaped, Collect, Unserved,
      MarkDelivered, Discard, ProveGone, DiscardFailed, Signal, Evict, Spawn, Publish,
      DropUnrecorded, history

(* After a report no section has read anything *)
LEMMA ReportEmpties ==
  ASSUME BInv, NEW t \in Threads, CallStep(t), BInv',
         th[t].pc \in InSection \/ recLock = NoThread,
         th'[t].pc \in {"idle", "enter", "signal"}
  PROVE  \A u \in Threads : /\ th'[u].pc \notin InSection
                            /\ \A j \in Jobs, st \in Answered : ~Has(u, j, st)'
<1>1. TInv /\ SInv /\ Exclusive
  BY DEF BInv, SInv, LInv
<1>2. \A u \in Threads \ {t} : th'[u] = th[u]
  BY <1>1, CallMoves
<1>3. ASSUME NEW u \in Threads
      PROVE  th'[u].pc \notin InSection
  <2>1. CASE u = t
    BY <2>1 DEF InSection
  <2>2. CASE u # t /\ th[t].pc \in InSection
    BY <1>1, <1>2, <2>2, OneInSection
  <2>3. CASE u # t /\ recLock = NoThread
    BY <1>1, <1>2, <2>3, ActorsAssumption DEF Exclusive
  <2> QED
    BY <2>1, <2>2, <2>3
<1>4. ASSUME NEW u \in Threads, NEW j \in Jobs, NEW st \in Answered, Has(u, j, st)'
      PROVE  FALSE
  <2>1. th'[u].pc # "settled"
    BY <1>3 DEF InSection
  <2>2. th'[u].seen[j] = st /\ st # "none"
    BY <1>4, <2>1 DEF Has, Answered
  <2>3. th'[u].seen # Unseen
    BY <2>2 DEF Unseen
  <2>4. th'[u].pc \in InSection
    BY <2>3 DEF BInv, Fresh, InSection
  <2> QED
    BY <1>3, <2>4
<1> QED
  BY <1>3, <1>4

LEMMA TellsRight ==
  ASSUME EInv, Unstamped, NEW t \in Threads, CallStep(t), BInv', NEW j \in Jobs, Tells(t, j)
  PROVE  ToldStarted(j)' /\ ToldFinal(j)' /\ ToldFailed(j)'
<1>1. BInv /\ TInv /\ Met /\ Reads
  BY DEF EInv, BInv, SInv, LInv
<1>2. \A u \in Threads : /\ th'[u].pc \notin InSection
                         /\ \A st \in Answered : ~Has(u, j, st)'
  BY <1>1, ReportEmpties DEF Tells
<1>3. Born(j) /\ Born(j)' /\ ReadAs(j, told'[j])
  <2>1. Born(j)
    BY <1>1, HasIsBorn DEF Tells, Answered
  <2> QED
    BY <1>1, <2>1 DEF Tells, Reads, Answered, Born
<1>4. ToldStarted(j)'
  BY <1>2, <1>3 DEF ToldStarted, Starting, InSection
<1>5. ToldFinal(j)'
  BY <1>2, <1>3 DEF ToldFinal, Final, ReadAs, Tells, Records
<1>6. ToldFailed(j)'
  <2> SUFFICES ASSUME told'[j] = "failed", j \notin doubted'
               PROVE  /\ ~Alive(j)' /\ disk'[j].result = "none"
                      /\ disk'[j].stamp \in {"none", "cancelled"} \/ (j \notin Records)'
    BY <1>2 DEF ToldFailed, InSection
  <2>1. ~Stamped(j) \/ j \notin Records
    BY DEF Unstamped, Tells
  <2> QED
    BY <1>3, <2>1 DEF Tells, ReadAs, Alive, Stamped, Records
<1> QED
  BY <1>4, <1>5, <1>6

LEMMA CancelsRight ==
  ASSUME EInv, NEW t \in Threads, CallStep(t), BInv', NEW j \in Jobs, Cancels(t, j)
  PROVE  ToldStarted(j)' /\ ToldFinal(j)' /\ ToldFailed(j)'
<1>1. BInv /\ TInv /\ Met
  BY DEF EInv, BInv, SInv, LInv
<1>2. \A u \in Threads : /\ th'[u].pc \notin InSection
                         /\ \A st \in Answered : ~Has(u, j, st)'
  BY <1>1, ReportEmpties DEF Cancels
<1>3. Born(j)'
  <2>1. Born(j)
    BY <1>1 DEF Cancels, Stopped, Met, AtRecord
  <2> QED
    BY <1>1, <2>1, CallAges DEF Ages
<1>4. disk'[j].stamp # "failed"
  BY DEF BInv, SInv, LInv, TInv, TypeOK, Dir, Stamps
<1> QED
  BY <1>2, <1>3, <1>4 DEF Cancels, ToldStarted, ToldFinal, ToldFailed, Starting, InSection

(* What a call has read that it had not read before *)
LEMMA NewReads ==
  ASSUME BInv, Present, NEW t \in Threads, Moved(t), NEW j \in Jobs, NEW st \in Answered,
         Has(t, j, st)', ~Has(t, j, st)
  PROVE  /\ th[t].cur = j /\ j \in Records
         /\ Probe(t) \/ Read(t)
         /\ th'[t].pc = "settled" /\ th'[t].st = st
<1>1. TInv /\ st # "none"
  BY DEF BInv, SInv, LInv, Answered
<1>2. th'[t].seen[j] # st
  BY <1>1, Arrives DEF Has
<1>3. th'[t].pc = "settled" /\ th'[t].cur = j /\ th'[t].st = st
  BY <1>2 DEF Has
<1>4. (Probe(t) \/ Read(t)) /\ th[t].cur = j
  BY <1>3 DEF Moved, Stays, Idle
<1>5. th[t].pc \in Reading
  BY <1>4 DEF Probe, Read, Reading
<1> QED
  BY <1>3, <1>4, <1>5 DEF Present

LEMMA QuietTold ==
  ASSUME ToldRight, Quiet, told' = told
  PROVE  ToldRight'
<1> SUFFICES ASSUME NEW j \in Jobs
             PROVE  ToldStarted(j)' /\ ToldFinal(j)' /\ ToldFailed(j)'
  BY DEF ToldRight
<1>1. Ages(j) /\ Evolves(j) /\ ToldStarted(j) /\ ToldFinal(j) /\ ToldFailed(j)
  BY DEF Quiet, ToldRight
<1>2. ASSUME NEW t \in Threads
      PROVE  th'[t] = th[t] \/ (th'[t].pc \in {"idle", "enter"} /\ th'[t].seen = Unseen)
  BY DEF Quiet
<1>3. ASSUME NEW t \in Threads, NEW st \in Answered, Has(t, j, st)'
      PROVE  Has(t, j, st)
  BY <1>2, <1>3 DEF Has, Unseen, Answered
<1>4. ToldStarted(j)'
  BY <1>1, <1>2 DEF ToldStarted, Ages, Starting
<1>5. ToldFinal(j)'
  BY <1>1, <1>3 DEF ToldFinal, Evolves, Records
<1>6. ToldFailed(j)'
  <2> SUFFICES ASSUME told[j] = "failed", j \notin doubted
               PROVE  ToldFailed(j)'
    BY DEF ToldFailed, Quiet
  <2>1. Born(j) /\ ~Alive(j) /\ ~Alive(j)'
    BY <1>1 DEF ToldStarted, ToldFailed, Ages
  <2>2. \A t \in Threads : ~(th'[t].cur = j /\ th'[t].pc \in {"overrun", "overread"})
    BY <1>1, <1>2 DEF ToldFailed
  <2> QED
    BY <1>1, <1>3, <2>1, <2>2 DEF ToldFailed, Evolves, Records
<1> QED
  BY <1>4, <1>5, <1>6

LEMMA StartedStays ==
  ASSUME BInv, NEW t \in Threads, CallStep(t), NEW j \in Jobs,
         told[j] # "none", ToldStarted(j)
  PROVE  /\ Born(j)' /\ \A u \in Threads : ~Starting(u, j)'
         /\ ~Begins(t, j) /\ ~Publishes(t, j) /\ ~Drops(t, j)
<1>1. TInv /\ Born(j)
  BY DEF BInv, SInv, LInv, ToldStarted
<1>2. Moved(t) /\ (\A v \in Threads \ {t} : th'[v] = th[v]) /\ Ages(j)
  BY <1>1, CallMoves, CallAges
<1>3. ASSUME NEW u \in Threads, Starting(u, j)'
      PROVE  FALSE
  <2>1. Starting(u, j) \/ (u = t /\ j \in Unstarted)
    BY <1>1, <1>2, <1>3, Turns DEF Starting
  <2> QED
    BY <1>1, <2>1 DEF ToldStarted, Born, Unstarted
<1> QED
  BY <1>1, <1>2, <1>3 DEF Ages, ToldStarted, Starting, Begins, Publishes, Drops

LEMMA FinalStays ==
  ASSUME BInv, Present, NEW t \in Threads, CallStep(t), NEW j \in Jobs,
         told[j] \in Final, ToldStarted(j), ToldFinal(j)
  PROVE  /\ disk'[j].stamp = told[j] \/ (j \notin Records)'
         /\ \A u \in Threads, st \in Answered : Has(u, j, st)' => st = told[j]
<1>1. TInv /\ Derived /\ Met /\ told[j] # "none"
  BY DEF BInv, SInv, LInv, Final
<1>2. Moved(t) /\ (\A v \in Threads \ {t} : th'[v] = th[v]) /\ Touches(t, j)
  BY <1>1, CallMoves, CallTouches
<1>3. disk'[j].stamp = told[j] \/ (j \notin Records)'
  <2>1. ~Begins(t, j) /\ ~Publishes(t, j) /\ ~Drops(t, j)
    BY <1>1, StartedStays
  <2>2. disk[j].stamp = told[j] \/ j \notin Records
    BY DEF ToldFinal
  <2>3. CASE Deletes(t, j)
    BY <1>1, <2>2, <2>3, DeletesLeave
  <2>4. CASE Keeps(j)
    BY <2>2, <2>4 DEF Keeps, Records
  <2>5. CASE Marks(t, j) \/ Finalizes(t, j)
    BY <1>1, <2>2, <2>5 DEF Marks, Finalizes, Stamped, Records
  <2> QED
    BY <1>2, <2>1, <2>3, <2>4, <2>5 DEF Touches
<1>4. ASSUME NEW u \in Threads, NEW st \in Answered, Has(u, j, st)'
      PROVE  st = told[j]
  <2>1. CASE Has(u, j, st)
    BY <2>1 DEF ToldFinal
  <2>2. CASE ~Has(u, j, st)
    <3>1. u = t
      BY <1>2, <1>4, <2>2 DEF Has
    <3>2. /\ th[t].cur = j /\ j \in Records
          /\ Probe(t) \/ Read(t)
          /\ th'[t].pc = "settled" /\ th'[t].st = st
      BY <1>2, <1>4, <2>2, <3>1, NewReads
    <3>3. Stamped(j) /\ disk[j].stamp = told[j]
      BY <1>1, <3>2 DEF ToldFinal, Stamped
    <3>4. ~Read(t)
      BY <3>2, <3>3 DEF BInv, SInv, LInv, Read, Derived, Deriving, Stamped
    <3> QED
      BY <1>1, <3>2, <3>3, <3>4, SettlesOne DEF Probe
  <2> QED
    BY <2>1, <2>2
<1> QED
  BY <1>3, <1>4

LEMMA FailedStays ==
  ASSUME BInv, Present, Strangers, NEW t \in Threads, CallStep(t), NEW j \in Jobs,
         told[j] = "failed", j \notin doubted, ToldStarted(j), ToldFailed(j)
  PROVE  /\ ~Alive(j)' /\ disk'[j].result = "none"
         /\ disk'[j].stamp \in {"none", "cancelled"} \/ (j \notin Records)'
         /\ \A u \in Threads : ~(th'[u].cur = j /\ th'[u].pc \in {"overrun", "overread"})
         /\ \A u \in Threads, st \in Answered : Has(u, j, st)' => st \in {"failed", "cancelled"}
<1>1. /\ TInv /\ SInv /\ Derived /\ Met /\ Born(j) /\ ~Alive(j) /\ disk[j].result = "none"
      /\ disk[j].stamp \in {"none", "cancelled"} \/ j \notin Records
      /\ ~(th[t].cur = j /\ th[t].pc \in {"overrun", "overread"})
  BY DEF BInv, SInv, LInv, ToldStarted, ToldFailed
<1>2. /\ Moved(t) /\ (\A v \in Threads \ {t} : th'[v] = th[v])
      /\ Touches(t, j) /\ Ages(j) /\ ~JobRunning(t, j)
  BY <1>1, CallMoves, CallTouches, CallAges, DeadUnseen
<1>3. /\ ~Alive(j)' /\ disk'[j].result = "none"
      /\ disk'[j].stamp \in {"none", "cancelled"} \/ (j \notin Records)'
  <2>1. ~Begins(t, j) /\ ~Publishes(t, j) /\ ~Drops(t, j) /\ ~Marks(t, j)
    BY <1>1, StartedStays DEF Marks
  <2>2. CASE Deletes(t, j)
    BY <1>1, <1>2, <2>2, DeletesLeave DEF Ages
  <2>3. CASE Keeps(j)
    BY <1>1, <1>2, <2>3 DEF Keeps, Same, Records, Ages
  <2>4. CASE Finalizes(t, j)
    <3>1. th[t].pc = "finish"
      BY <1>1, <2>4 DEF Finalizes
    <3> QED
      BY <1>1, <1>2, <2>4, <3>1 DEF Finalizes, Ages
  <2> QED
    BY <1>2, <2>1, <2>2, <2>3, <2>4 DEF Touches
<1>4. ASSUME NEW u \in Threads, th'[u].cur = j, th'[u].pc \in {"overrun", "overread"}
      PROVE  FALSE
  <2>1. u = t
    BY <1>2, <1>4 DEF ToldFailed
  <2>2. CASE th'[t].pc = "overrun"
    <3>1. Probe(t) /\ th[t].cur = j
      BY <1>2, <1>4, <2>1, <2>2 DEF Moved, Stays, Idle
    <3> QED
      BY <1>1, <1>2, <2>2, <3>1, GoesOne, SettlesOne DEF Probe
  <2>3. CASE th'[t].pc = "overread"
    <3>1. GraceEnds(t) /\ th[t].cur = j
      BY <1>2, <1>4, <2>1, <2>3 DEF Moved, Stays, Idle
    <3>2. th[t].pc = "overrun"
      BY <1>1, <2>3, <3>1, GraceLeads
    <3> QED
      BY <1>1, <3>1, <3>2
  <2> QED
    BY <1>4, <2>1, <2>2, <2>3
<1>5. ASSUME NEW u \in Threads, NEW st \in Answered, Has(u, j, st)'
      PROVE  st \in {"failed", "cancelled"}
  <2>1. CASE Has(u, j, st)
    BY <2>1 DEF ToldFailed
  <2>2. CASE ~Has(u, j, st)
    <3>1. u = t
      BY <1>2, <1>5, <2>2 DEF Has
    <3>2. /\ th[t].cur = j /\ j \in Records
          /\ Probe(t) \/ Read(t)
          /\ th'[t].pc = "settled" /\ th'[t].st = st
      BY <1>2, <1>5, <2>2, <3>1, NewReads
    <3>3. CASE Probe(t)
      <4>1. Stamped(j) /\ th'[t].st = disk[j].stamp
        BY <1>1, <1>2, <3>2, <3>3, GoesOne, SettlesOne DEF Probe
      <4> QED
        BY <1>1, <3>2, <4>1 DEF Stamped
    <3>4. CASE Read(t)
      <4>1. Envelope(j) = "none" /\ ~Unreadable(j) /\ "none" \notin Results
        BY <1>1, InputsAssumption DEF Envelope, Unreadable
      <4>2. Settle(t, "failed")
        BY <1>1, <3>2, <3>4, <4>1 DEF Read
      <4> QED
        BY <1>1, <3>2, <4>2, SettlesOne
    <3> QED
      BY <3>2, <3>3, <3>4
  <2> QED
    BY <2>1, <2>2
<1> QED
  BY <1>3, <1>4, <1>5

LEMMA CallTold ==
  ASSUME OInv, NEW t \in Threads, CallStep(t), BInv'
  PROVE  ToldRight'
<1>1. EInv /\ BInv /\ TInv /\ Present /\ Unstamped /\ Strangers /\ ToldRight
  BY DEF OInv, EInv, BInv, SInv, LInv
<1> SUFFICES ASSUME NEW j \in Jobs
             PROVE  ToldStarted(j)' /\ ToldFinal(j)' /\ ToldFailed(j)'
  BY DEF ToldRight
<1>2. ToldStarted(j) /\ ToldFinal(j) /\ ToldFailed(j) /\ doubted \subseteq doubted'
  BY <1>1, DoubtsStay DEF ToldRight
<1>3. CASE Tells(t, j) \/ Cancels(t, j)
  BY <1>1, <1>3, TellsRight, CancelsRight
<1>4. CASE told'[j] = told[j]
  <2>1. ToldStarted(j)'
    <3>1. told[j] # "none" => Born(j)' /\ \A u \in Threads : ~Starting(u, j)'
      BY <1>1, <1>2, StartedStays
    <3> QED
      BY <1>4, <3>1 DEF ToldStarted
  <2>2. ToldFinal(j)'
    <3>1. told[j] \in Final =>
            /\ disk'[j].stamp = told[j] \/ (j \notin Records)'
            /\ \A u \in Threads, st \in Answered : Has(u, j, st)' => st = told[j]
      BY <1>1, <1>2, FinalStays
    <3> QED
      BY <1>4, <3>1 DEF ToldFinal
  <2>3. ToldFailed(j)'
    <3>1. told[j] = "failed" /\ j \notin doubted =>
            /\ ~Alive(j)' /\ disk'[j].result = "none"
            /\ disk'[j].stamp \in {"none", "cancelled"} \/ (j \notin Records)'
            /\ \A u \in Threads : ~(th'[u].cur = j /\ th'[u].pc \in {"overrun", "overread"})
            /\ \A u \in Threads, st \in Answered : Has(u, j, st)' => st \in {"failed", "cancelled"}
      BY <1>1, <1>2, FailedStays
    <3>2. j \notin doubted' => j \notin doubted
      BY <1>2
    <3> QED
      BY <1>4, <3>1, <3>2 DEF ToldFailed
  <2> QED
    BY <2>1, <2>2, <2>3
<1> QED
  BY <1>1, <1>3, <1>4, CallTells

LEMMA OutcomesNext ==
  ASSUME "childreuse" \notin Events, OInv, [Next]_vars
  PROVE  OInv'
<1>1. EInv /\ BInv /\ TInv /\ Present /\ Unstamped /\ Strangers /\ ToldRight
  BY DEF OInv, EInv, BInv, SInv, LInv
<1>2. EInv' /\ BInv' /\ Strangers'
  BY <1>1, EndedNext, StrangersNext DEF EInv
<1>3. ASSUME NEW t \in Threads, CallStep(t)
      PROVE  Present' /\ Unstamped' /\ ToldRight'
  BY <1>1, <1>2, <1>3, CallPresent, CallUnstamped, CallTold
<1>4. ASSUME \A t \in Threads : ~CallStep(t)
      PROVE  Present' /\ Unstamped' /\ ToldRight'
  <2>1. Quiet /\ told' = told
    BY <1>1, <1>4, NextKinds, OthersDeliver
  <2> QED
    BY <1>1, <2>1, QuietPresent, QuietUnstamped, QuietTold
<1> QED
  BY <1>2, <1>3, <1>4 DEF OInv

LEMMA OutcomesInit == Init => OInv
<1> SUFFICES ASSUME Init
             PROVE  Present /\ Unstamped /\ Strangers /\ ToldRight
  BY EndedInit DEF OInv
<1>1. \A t \in Threads : /\ th[t].pc = "idle" /\ th[t].todo = {}
                         /\ \A j \in Jobs : th[t].seen[j] = "none"
  BY DEF Init, Idle, Unseen
<1>2. \A j \in Jobs : told[j] = "none" /\ worker[j].phase = "none"
  BY DEF Init, Unborn
<1>3. Present /\ Unstamped
  BY <1>1 DEF Present, Unstamped, Reading, Has
<1>4. Strangers /\ ToldRight
  BY <1>2 DEF Strangers, ToldRight, ToldStarted, ToldFinal, ToldFailed, Final
<1> QED
  BY <1>3, <1>4

(* What a client was told stands (#280): done, cancelled and timeout for as *)
(* long as the job is served, and failed unless a cancel was already       *)
(* stopping the worker, or another server had reported it while the worker *)
(* ran.  The hypothesis is that of a server whose dead child's pid does not *)
(* come back: with kill(pid, 0) it would read as running.                  *)
THEOREM AnswersStand == "childreuse" \notin Events /\ Spec => OutcomesStand
<1> DEFINE AInv == "childreuse" \notin Events /\ OInv
           Stands == \A j \in Jobs :
                       /\ told[j] \in {"done", "cancelled", "timeout"} => told'[j] = told[j]
                       /\ told[j] = "failed" /\ j \notin doubted
                            => told'[j] \in {"failed", "cancelled"}
<1>1. "childreuse" \notin Events /\ Init => AInv
  BY OutcomesInit
<1>2. AInv /\ [Next]_vars => AInv'
  BY OutcomesNext
<1>3. AInv /\ [Next]_vars => [Stands]_vars
  <2> SUFFICES ASSUME OInv, [Next]_vars, NEW j \in Jobs
               PROVE  /\ told[j] \in Final => told'[j] = told[j]
                      /\ told[j] = "failed" /\ j \notin doubted
                           => told'[j] \in {"failed", "cancelled"}
    BY DEF Final
  <2>1. TInv /\ ToldFinal(j) /\ ToldFailed(j)
    BY DEF OInv, EInv, BInv, SInv, LInv, ToldRight
  <2>2. ASSUME NEW t \in Threads, CallStep(t), Tells(t, j)
        PROVE  /\ told[j] \in Final => told'[j] = told[j]
               /\ told[j] = "failed" /\ j \notin doubted
                    => told'[j] \in {"failed", "cancelled"}
    BY <2>1, <2>2 DEF Tells, ToldFinal, ToldFailed
  <2>3. ASSUME NEW t \in Threads, CallStep(t), Cancels(t, j)
        PROVE  /\ told[j] \in Final => told'[j] = told[j]
               /\ told[j] = "failed" /\ j \notin doubted
                    => told'[j] \in {"failed", "cancelled"}
    BY <2>1, <2>3 DEF Cancels, ToldFinal, ToldFailed, Stamped, Final
  <2>4. CASE \A t \in Threads : ~CallStep(t)
    BY <2>1, <2>4, OthersDeliver DEF Final
  <2> QED
    BY <2>1, <2>2, <2>3, <2>4, CallTells DEF Final
<1> QED
  BY <1>1, <1>2, <1>3, PTL DEF Spec, OutcomesStand

=============================================================================
