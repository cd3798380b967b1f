------------------------ MODULE ProcessRuntimeProofs ------------------------
(***************************************************************************)
(* Proof about ProcessRuntime, for every command, every budget and every   *)
(* size of pipe, chunk and queue.                                          *)
(*                                                                         *)
(* The group is killed by the waiter at a deadline and by the caller at a  *)
(* cancellation, maybe by both; what left it is swept by either.  A kill   *)
(* is for good because a child is only born of a living parent (Quiet), so *)
(* that a sweep which begins after it and gets through finds all that      *)
(* there will ever be.                                                     *)
(*                                                                         *)
(* What the pumps make of a stream is told of two texts, done and rest,    *)
(* which together with the chunk and the pipe are what was written (Read): *)
(* done is what was delivered, a whole number of records, and the capture  *)
(* is the head and the tail of these; rest is the record begun, and what   *)
(* the assembler keeps is what it would keep had rest come in one chunk    *)
(* (Assembled).  What holds of folds and of recursive functions is shown   *)
(* by climbing a set of numbers (Climb).                                   *)
(***************************************************************************)
EXTENDS ProcessRuntime, SequenceTheorems, WellFoundedInduction, TLAPS

-----------------------------------------------------------------------------
(* The leader has been started and nobody of its group lives.              *)
Quiet == caller # "spawn" /\ ~Alive("leader") /\ ~Alive("heir")

Cancelling == caller \in {"sweepCancelled", "cancelled"}
Returning == caller \in {"sweepReturned", "returned"}

(* The waiter has killed the group.                                        *)
Overrun == waiter \in {"sweep", "reap", "drain"} \/ (waiter \in {"observe", "done"} /\ timedOut)

Shaped == proc \in [Procs -> ProcStates] /\ sweep \in [{"waiter", "caller"} -> SweepStates]

Staged ==
  /\ waiter # "unstarted" => caller \notin {"spawn", "missing"}
  /\ Returning => waiter = "done"
  /\ sweep["caller"] # "idle" => Cancelling \/ Returning
  /\ caller \in {"cancelled", "returned"} => SweepOver("caller")

Killed == Overrun \/ Cancelling => Quiet

SweptClean ==
  /\ sweep["caller"] = "done" /\ (Cancelling \/ Overrun) => ~Alive("stray")
  /\ sweep["waiter"] = "done" => Quiet /\ ~Alive("stray")

StopInv == Shaped /\ Staged /\ Killed /\ SweptClean

-----------------------------------------------------------------------------
(* No step that leaves the threads where they are brings a process of a    *)
(* quiet group back, nor starts one that leaves it.                        *)
LEMMA ThreadsWait ==
  ASSUME StopInv, UNCHANGED <<command, waiter, timedOut, caller, sweep>>, Shaped',
         Alive("leader")' => Alive("leader"),
         Alive("heir")' => Alive("heir") \/ Alive("leader"),
         Alive("stray")' => Alive("stray") \/ Alive("leader") \/ Alive("heir")
  PROVE  StopInv'
<1>1. Staged'
  BY DEF StopInv, Staged, Cancelling, Returning, SweepOver
<1>2. Quiet => Quiet' /\ (~Alive("stray") => ~Alive("stray")')
  BY DEF Quiet
<1>3. Killed' /\ SweptClean'
  BY <1>2 DEF StopInv, Killed, SweptClean, Overrun, Cancelling
<1> QED
  BY <1>1, <1>3 DEF StopInv

LEMMA ProcessesKeep ==
  ASSUME StopInv, NEW p \in Procs, Fork(p) \/ ClosePipes(p) \/ Exit(p) \/ Hang(p)
  PROVE  StopInv'
<1>0. UNCHANGED <<command, waiter, timedOut, caller, sweep>> /\ Shaped
  BY DEF StopInv, Fork, ClosePipes, Exit, Hang
<1>1. CASE Fork(p)
  <2>1. PICK parent \in Parents(p) : Alive(parent)
    BY <1>1 DEF Fork, AliveProcs
  <2>2. p # "leader"
    BY <2>1 DEF Parents
  <2>3. (p = "heir" => Alive("leader")) /\ (p = "stray" => Alive("leader") \/ Alive("heir"))
    BY <2>1 DEF Parents, RunGroup
  <2>4. proc' = [proc EXCEPT ![p] = "alive"] /\ Shaped'
    BY <1>0, <1>1 DEF Fork, Shaped, ProcStates
  <2>5. /\ Alive("leader")' => Alive("leader") \/ p = "leader"
        /\ Alive("heir")' => Alive("heir") \/ p = "heir"
        /\ Alive("stray")' => Alive("stray") \/ p = "stray"
    BY <1>0, <2>4 DEF Alive, Shaped, Procs
  <2> QED
    BY <1>0, <2>1, <2>2, <2>3, <2>4, <2>5, ThreadsWait
<1>2. CASE ClosePipes(p) \/ Hang(p)
  BY <1>0, <1>2, ThreadsWait DEF ClosePipes, Hang, Shaped, Alive
<1>3. CASE Exit(p)
  <2>1. proc' = [proc EXCEPT ![p] = Dead(p)] /\ Dead(p) \in {"zombie", "gone"}
    BY <1>3 DEF Exit, Dead
  <2>2. /\ Shaped' /\ (Alive("leader")' => Alive("leader")) /\ (Alive("heir")' => Alive("heir"))
        /\ Alive("stray")' => Alive("stray")
    BY <1>0, <2>1 DEF Shaped, Alive, ProcStates, Procs
  <2> QED
    BY <1>0, <2>2, ThreadsWait
<1> QED
  BY <1>1, <1>2, <1>3

LEMMA StreamsKeep ==
  ASSUME StopInv, UNCHANGED <<command, proc, waiter, timedOut, caller, sweep>>
  PROVE  StopInv'
  BY ThreadsWait DEF StopInv, Shaped, Alive

LEMMA KillsDead ==
  ASSUME Shaped, NEW victims, Kill(victims)
  PROVE  /\ proc' \in [Procs -> ProcStates]
         /\ \A p \in Procs : Alive(p)' => Alive(p) /\ p \notin victims
<1>1. \A p \in Procs : Dead(p) \in {"zombie", "gone"}
  BY DEF Dead
<1> QED
  BY <1>1 DEF Kill, Shaped, Alive, ProcStates

LEMMA ReapsOnly ==
  ASSUME Shaped, proc' = Reaped(proc)
  PROVE  /\ proc' \in [Procs -> ProcStates]
         /\ \A p \in Procs : Alive(p)' <=> Alive(p)
  BY DEF Shaped, Reaped, Alive, ProcStates

LEMMA SweepKeeps ==
  ASSUME StopInv, NEW a \in {"waiter", "caller"}, Sweep(a)
  PROVE  StopInv'
<1>0. /\ Shaped /\ Staged /\ Killed /\ SweptClean
      /\ UNCHANGED <<command, waiter, timedOut, caller>>
      /\ IF a = "waiter" THEN waiter = "sweep" ELSE caller \in {"sweepCancelled", "sweepReturned"}
  BY DEF StopInv, Sweep
<1>1. /\ Shaped'
      /\ \A b \in {"waiter", "caller"} : b # a => sweep'[b] = sweep[b]
      /\ \A p \in Procs : Alive(p)' => Alive(p)
      /\ sweep'[a] = "done" => ~Alive("stray")'
  <2>1. CASE SweepFinds(a)
    <3>1. MarkedAlive = {} <=> ~Alive("stray")
      BY DEF MarkedAlive, Marked, AliveProcs, Procs
    <3> QED
      BY <1>0, <2>1, <3>1 DEF SweepFinds, Shaped, SweepStates, Alive
  <2>2. CASE SweepKills(a)
    <3>1. Alive("stray") => "stray" \in MarkedGroups
      BY DEF MarkedGroups, MarkedAlive, Marked, AliveProcs, Procs, GroupOf, RunGroup, StrayGroup
    <3>2. "stray" \in Procs
      BY DEF Procs
    <3>3. /\ proc' \in [Procs -> ProcStates]
          /\ \A p \in Procs : Alive(p)' => Alive(p) /\ p \notin MarkedGroups
      BY <1>0, <2>2, KillsDead DEF SweepKills
    <3> QED
      BY <1>0, <2>2, <3>1, <3>2, <3>3 DEF SweepKills, Shaped, SweepStates
  <2>3. CASE SweepBlind(a)
    BY <1>0, <2>3 DEF SweepBlind, Shaped, SweepStates, Alive
  <2> QED
    BY <2>1, <2>2, <2>3 DEF Sweep
<1>2. Quiet => Quiet'
  BY <1>0, <1>1 DEF Quiet, Procs
<1>3. Killed'
  BY <1>0, <1>2 DEF Killed, Overrun, Cancelling
<1>4. Staged'
  BY <1>0, <1>1 DEF Staged, Cancelling, Returning, Shaped, SweepOver
<1>5. SweptClean'
  BY <1>0, <1>1, <1>2 DEF SweptClean, Killed, Overrun, Cancelling, Procs
<1> QED
  BY <1>1, <1>3, <1>4, <1>5 DEF StopInv

LEMMA WaiterKeeps ==
  ASSUME StopInv, Waiter
  PROVE  StopInv'
<1>0. Shaped /\ Staged /\ Killed /\ SweptClean /\ UNCHANGED <<command, caller, sweep>>
  BY DEF StopInv, Waiter, WaiterAt, WaitLeader, JoinPumps, KillGroup, SweepDone, ReapKilled,
         JoinKilled, JoinObserver
<1> DEFINE Sleeps == Shaped' /\ \A p \in Procs : Alive(p)' => Alive(p)
<1>1. Sleeps => /\ Quiet => Quiet'
                /\ ~Alive("stray") => ~Alive("stray")'
  BY <1>0 DEF Quiet, Procs
<1>2. (UNCHANGED proc) => Sleeps
  BY <1>0 DEF Shaped, Alive
<1>3. proc' = Reaped(proc) => Sleeps
  BY <1>0, ReapsOnly DEF Shaped
<1> HIDE DEF Sleeps
<1>4. ASSUME Sleeps, waiter # "unstarted", waiter' # "unstarted", waiter # "done",
             Overrun' => Overrun
      PROVE  StopInv'
  <2>1. Staged'
    BY <1>0, <1>4 DEF Staged, Cancelling, Returning, SweepOver
  <2>2. Killed' /\ SweptClean'
    BY <1>0, <1>1, <1>4 DEF Killed, SweptClean, Cancelling
  <2> QED
    BY <1>4, <2>1, <2>2 DEF StopInv, Sleeps
<1>5. CASE WaitLeader
  BY <1>3, <1>4, <1>5 DEF WaitLeader, WaiterAt, Overrun
<1>6. CASE JoinPumps
  BY <1>3, <1>4, <1>6 DEF JoinPumps, WaiterAt, Overrun
<1>7. CASE SweepDone \/ JoinKilled \/ JoinObserver
  BY <1>2, <1>4, <1>7 DEF SweepDone, JoinKilled, JoinObserver, WaiterAt, Overrun
<1>8. CASE ReapKilled
  BY <1>3, <1>4, <1>8 DEF ReapKilled, WaiterAt, Overrun
<1>9. CASE KillGroup
  <2>1. waiter = "kill" /\ waiter' = "sweep" /\ Kill(RunGroup)
    BY <1>9 DEF KillGroup, WaiterAt
  <2>2. /\ proc' \in [Procs -> ProcStates]
        /\ \A p \in Procs : Alive(p)' => Alive(p) /\ p \notin RunGroup
    BY <1>0, <2>1, KillsDead
  <2>3. Quiet' /\ Shaped' /\ (~Alive("stray") => ~Alive("stray")')
    BY <1>0, <2>1, <2>2 DEF Quiet, Staged, Shaped, RunGroup, Procs
  <2>4. Staged' /\ Killed'
    BY <1>0, <2>1, <2>3 DEF Staged, Killed, Cancelling, Returning, SweepOver
  <2>5. SweptClean'
    BY <1>0, <2>1, <2>3 DEF SweptClean, Staged, Cancelling, Returning
  <2> QED
    BY <2>3, <2>4, <2>5 DEF StopInv
<1> QED
  BY <1>5, <1>6, <1>7, <1>8, <1>9 DEF Waiter

LEMMA CallerKeeps ==
  ASSUME StopInv, Caller \/ Cancel
  PROVE  StopInv'
<1>0. Shaped /\ Staged /\ Killed /\ SweptClean /\ UNCHANGED <<command, timedOut, sweep>>
  BY DEF StopInv, Caller, Cancel, CallerAt, Spawn, SpawnFails, StartWaiter, KillCancelled,
         Drained, Swept, tree
<1>1. CASE Spawn
  <2>1. /\ caller = "spawn" /\ caller' = "await" /\ waiter' = waiter
        /\ proc' = [proc EXCEPT !["leader"] = "alive"]
    BY <1>1 DEF Spawn, CallerAt
  <2>2. waiter = "unstarted" /\ sweep["caller"] = "idle"
    BY <1>0, <2>1 DEF Staged, Cancelling, Returning
  <2>3. Shaped' /\ Staged' /\ Killed' /\ SweptClean'
    BY <1>0, <2>1, <2>2 DEF Shaped, ProcStates, Staged, Killed, SweptClean, Overrun, Cancelling,
                            Returning, Quiet
  <2> QED
    BY <2>3 DEF StopInv
<1>2. CASE StartWaiter
  <2>1. UNCHANGED <<proc, caller>> /\ caller = "await" /\ waiter' = "wait"
    BY <1>2 DEF StartWaiter, CallerAt, tree
  <2> QED
    BY <1>0, <2>1 DEF StopInv, Shaped, Staged, Killed, SweptClean, Overrun, Cancelling, Returning,
                          Quiet, Alive
<1>3. CASE KillCancelled
  <2>1. caller = "kill" /\ caller' = "sweepCancelled" /\ waiter' = waiter /\ Kill(RunGroup)
    BY <1>3 DEF KillCancelled, CallerAt
  <2>2. /\ proc' \in [Procs -> ProcStates]
        /\ \A p \in Procs : Alive(p)' => Alive(p) /\ p \notin RunGroup
    BY <1>0, <2>1, KillsDead
  <2>3. /\ Quiet' /\ Shaped' /\ (~Alive("stray") => ~Alive("stray")')
        /\ sweep["caller"] = "idle"
    BY <1>0, <2>1, <2>2 DEF Quiet, Staged, Shaped, RunGroup, Procs, Cancelling, Returning
  <2>4. Staged' /\ Killed' /\ SweptClean'
    BY <1>0, <2>1, <2>3 DEF Staged, Killed, SweptClean, Cancelling, Returning
  <2> QED
    BY <2>3, <2>4 DEF StopInv
<1>4. CASE Cancel \/ SpawnFails \/ Drained \/ Swept
  <2>1. UNCHANGED <<proc, waiter>>
    BY <1>4 DEF Cancel, SpawnFails, Drained, Swept, tree
  <2>2. \/ caller = "await" /\ caller' = "kill"
        \/ caller = "spawn" /\ caller' = "missing"
        \/ caller = "await" /\ caller' = "sweepReturned" /\ waiter = "done"
        \/ caller = "sweepCancelled" /\ caller' = "cancelled" /\ SweepOver("caller")
        \/ caller = "sweepReturned" /\ caller' = "returned" /\ SweepOver("caller")
    BY <1>4 DEF Cancel, SpawnFails, Drained, Swept, CallerAt
  <2>3. Shaped' /\ Staged'
    BY <1>0, <2>1, <2>2 DEF Shaped, Staged, Cancelling, Returning, SweepOver
  <2>4. Killed' /\ SweptClean'
    BY <1>0, <2>1, <2>2 DEF Killed, SweptClean, Staged, Quiet, Alive, Overrun, Cancelling, Returning
  <2> QED
    BY <2>3, <2>4 DEF StopInv
<1> QED
  BY <1>1, <1>2, <1>3, <1>4 DEF Caller

LEMMA StopInit == Init => StopInv
  BY DEF Init, StopInv, Shaped, Staged, Killed, SweptClean, Overrun, Cancelling, Returning,
         ProcStates, SweepStates

LEMMA StopNext == StopInv /\ [Next]_vars => StopInv'
<1> SUFFICES ASSUME StopInv, [Next]_vars
             PROVE  StopInv'
  OBVIOUS
<1>1. CASE UNCHANGED vars
  BY <1>1, StreamsKeep DEF vars, tree
<1>2. ASSUME NEW s \in Streams,
             \/ Write(s) \/ Fill(s) \/ LastChunk(s) \/ SplitRecord(s) \/ SplitRest(s)
             \/ Drain(s) \/ PumpFails(s)
      PROVE  StopInv'
  <2>1. UNCHANGED <<command, proc, waiter, timedOut, caller, sweep>>
    BY <1>2 DEF Write, Fill, LastChunk, SplitRecord, SplitRest, Drain, PumpFails, tree
  <2> QED
    BY <2>1, StreamsKeep
<1>3. CASE StdinDone \/ Observe \/ ObserverSticks \/ Deadline
  <2>1. UNCHANGED <<command, proc, waiter, timedOut, caller, sweep>>
    BY <1>3 DEF StdinDone, Observe, ObserverSticks, Deadline, Observing, ObserverTakes,
                ObserverFindsNone, ObserverCounts, ObserverCalled, ObserverGoesOn,
                ObserverEnds, tree
  <2> QED
    BY <2>1, StreamsKeep
<1> QED
  BY <1>1, <1>2, <1>3, ProcessesKeep, SweepKeeps, WaiterKeeps, CallerKeeps DEF Next

-----------------------------------------------------------------------------
(* When a run ends by its deadline or by a cancellation nothing of its     *)
(* group runs any more, whoever forks, leaves or ignores the first signal  *)
(* meanwhile (_kill_group, run_async).  Where the backend gives a marker,  *)
(* nothing whose command line names the worktree does either, unless ps    *)
(* failed in the caller's sweep and no sweep of the waiter got through     *)
(* before it (sweep_orphans).                                              *)
THEOREM NothingOutlivesItsRun == Spec => []NothingLeftRunning
<1>1. StopInv => NothingLeftRunning
  <2> SUFFICES ASSUME StopInv, caller = "cancelled" \/ (caller = "returned" /\ timedOut)
               PROVE  /\ ~Alive("leader") /\ ~Alive("heir")
                      /\ command.marker =>
                           ~Alive("stray") \/ (sweep["caller"] = "blind" /\ sweep["waiter"] # "done")
    BY DEF NothingLeftRunning, RunGroup, Marked, AliveProcs
  <2>1. Quiet /\ SweepOver("caller") /\ (Cancelling \/ Overrun)
    BY DEF StopInv, Staged, Killed, Cancelling, Returning, Overrun
  <2>2. CASE sweep["caller"] = "done" \/ sweep["waiter"] = "done"
    BY <2>1, <2>2 DEF StopInv, SweptClean, Quiet
  <2>3. CASE sweep["caller"] # "done" /\ sweep["waiter"] # "done"
    BY <2>1, <2>3 DEF SweepOver, Quiet
  <2> QED
    BY <2>2, <2>3
<1> QED
  BY <1>1, StopInit, StopNext, PTL DEF Spec

-----------------------------------------------------------------------------
(* What has 0 and with every number the next has them all: the least that  *)
(* it lacked would have one before it.                                     *)
LEMMA LeastOf ==
  ASSUME NEW T \in SUBSET Nat, T # {}
  PROVE  \E n \in T : \A k \in T : n <= k
<1> DEFINE R == OpToRel(<, Nat)
<1>1. R = {ss \in Nat \X Nat : ss[1] < ss[2]}
  BY DEF OpToRel
<1>2. IsWellFoundedOn(R, Nat)
  BY NatLessThanWellFounded
<1> HIDE DEF R
<1>3. PICK n \in T : \A k \in T : <<k, n>> \notin R
  BY <1>2, WFMin
<1>4. \A k \in T : k < n => <<k, n>> \in R
  BY <1>1
<1>5. \A k \in T : ~(k < n)
  BY <1>3, <1>4
<1>6. \A k \in T : k \in Nat /\ n \in Nat
  OBVIOUS
<1>7. \A k \in T : n <= k
  BY <1>5, <1>6
<1> QED
  BY <1>7

LEMMA Climb ==
  ASSUME NEW S, 0 \in S, \A n \in Nat : n \in S => n + 1 \in S
  PROVE  \A n \in Nat : n \in S
<1> SUFFICES ASSUME NEW k \in Nat, k \notin S
             PROVE  FALSE
  OBVIOUS
<1> DEFINE T == {n \in Nat : n \notin S}
<1>1. PICK n \in T : \A y \in T : n <= y
  BY LeastOf
<1>2. n - 1 \in T /\ n - 1 < n
  OBVIOUS
<1> QED
  BY <1>1, <1>2

LEMMA MinIs ==
  ASSUME NEW S \in SUBSET Nat, S # {}
  PROVE  Min(S) \in S /\ \A k \in S : Min(S) <= k
<1>1. \E n \in S : \A k \in S : n <= k
  BY LeastOf
<1> QED
  BY <1>1 DEF Min

LEMMA MaxIs ==
  ASSUME NEW n \in Nat, NEW S \in SUBSET (0..n), S # {}
  PROVE  Max(S) \in S /\ \A k \in S : k <= Max(S)
<1> DEFINE T == {n - x : x \in S}
<1>1. T \in SUBSET Nat /\ T # {}
  OBVIOUS
<1>2. PICK m \in T : \A k \in T : m <= k
  <2> HIDE DEF T
  <2> QED
    BY <1>1, LeastOf
<1>3. PICK x \in S : m = n - x
  OBVIOUS
<1>4. \A y \in S : y <= x
  <2> SUFFICES ASSUME NEW y \in S PROVE y <= x
    OBVIOUS
  <2>1. n - y \in T /\ y \in 0..n /\ x \in 0..n
    OBVIOUS
  <2>2. n - x <= n - y
    BY <1>2, <1>3, <2>1
  <2> QED
    BY <2>1, <2>2
<1>5. \A y \in S : x >= y
  BY <1>4
<1> QED
  BY <1>4, <1>5 DEF Max

LEMMA MinOfTwo ==
  ASSUME NEW a \in Int, NEW b \in Int
  PROVE  Min({a, b}) = IF a <= b THEN a ELSE b
<1> DEFINE m == IF a <= b THEN a ELSE b
<1>1. m \in {a, b} /\ \A y \in {a, b} : m <= y
  OBVIOUS
<1>2. \A x \in {a, b} : (\A y \in {a, b} : x <= y) => x = m
  OBVIOUS
<1> HIDE DEF m
<1>3. Min({a, b}) = m
  BY <1>1, <1>2 DEF Min
<1> QED
  BY <1>3 DEF m

LEMMA MaxOfTwo ==
  ASSUME NEW a \in Int, NEW b \in Int
  PROVE  Max({a, b}) = IF a >= b THEN a ELSE b
<1> DEFINE m == IF a >= b THEN a ELSE b
<1>1. m \in {a, b} /\ \A y \in {a, b} : m >= y
  OBVIOUS
<1>2. \A x \in {a, b} : (\A y \in {a, b} : x >= y) => x = m
  OBVIOUS
<1> HIDE DEF m
<1>3. Max({a, b}) = m
  BY <1>1, <1>2 DEF Max
<1> QED
  BY <1>3 DEF m

-----------------------------------------------------------------------------
(* FlattenSeq, and Bytes with it, of a sequence that grows.                *)
LEMMA ConcatAssoc ==
  ASSUME NEW E, NEW a \in Seq(E), NEW b \in Seq(E), NEW c \in Seq(E)
  PROVE  (a \o b) \o c = a \o (b \o c)
<1> QED
  OBVIOUS

Flattens(f, seqs, m) ==
  f = [i \in 1..m |-> IF i = 1 THEN seqs[i] ELSE f[i - 1] \o seqs[i]]

LEMMA FlattensIs ==
  ASSUME NEW f, NEW seqs, NEW m \in Nat
  PROVE  Flattens(f, seqs, m) <=>
           /\ f = [i \in 1..m |-> f[i]]
           /\ \A i \in 1..m : f[i] = IF i = 1 THEN seqs[i] ELSE f[i - 1] \o seqs[i]
BY DEF Flattens

LEMMA FlattenExists ==
  ASSUME NEW seqs, NEW n \in Nat
  PROVE  \E f : Flattens(f, seqs, n)
<1> DEFINE S == {m \in Nat : \E f : Flattens(f, seqs, m)}
<1>1. 0 \in S
  <2>1. Flattens(<<>>, seqs, 0)
    BY DEF Flattens
  <2> QED
    BY <2>1
<1>2. ASSUME NEW m \in Nat, m \in S
      PROVE  m + 1 \in S
  <2>1. PICK f : Flattens(f, seqs, m)
    BY <1>2
  <2> DEFINE at(i) == IF i = 1 THEN seqs[i] ELSE f[i - 1] \o seqs[i]
             g == [i \in 1..(m + 1) |-> IF i = m + 1 THEN at(i) ELSE f[i]]
  <2>2. \A i \in 1..m : f[i] = at(i)
    BY <2>1, FlattensIs
  <2>3. \A i \in 1..(m + 1) : g[i] = IF i = 1 THEN seqs[i] ELSE g[i - 1] \o seqs[i]
    <3> TAKE i \in 1..(m + 1)
    <3>1. CASE i = m + 1
      BY <3>1
    <3>2. CASE i \in 1..m
      BY <2>2, <3>2
    <3> QED
      BY <3>1, <3>2
  <2>4. g = [i \in 1..(m + 1) |-> g[i]]
    OBVIOUS
  <2> HIDE DEF g
  <2>5. Flattens(g, seqs, m + 1)
    <3> DEFINE h == [i \in 1..(m + 1) |-> IF i = 1 THEN seqs[i] ELSE g[i - 1] \o seqs[i]]
    <3>1. \A i \in 1..(m + 1) : g[i] = h[i]
      BY <2>3
    <3>2. g = h
      BY <2>4, <3>1
    <3> QED
      BY <3>2 DEF Flattens
  <2> QED
    BY <2>5
<1> HIDE DEF S
<1>3. n \in S
  BY <1>1, <1>2, Climb
<1> QED
  BY <1>3 DEF S

LEMMA FlattenSeqIs ==
  ASSUME NEW seqs, Len(seqs) \in Nat \ {0}
  PROVE  \E f : Flattens(f, seqs, Len(seqs)) /\ FlattenSeq(seqs) = f[Len(seqs)]
<1>1. FlattenSeq(seqs) = (CHOOSE f : Flattens(f, seqs, Len(seqs)))[Len(seqs)]
  BY DEF FlattenSeq, Flattens
<1> QED
  BY <1>1, FlattenExists

LEMMA FlattenEmpty == FlattenSeq(<<>>) = <<>>
  BY DEF FlattenSeq

LEMMA FlattenAppend ==
  ASSUME NEW E, NEW seqs \in Seq(Seq(E)), NEW e \in Seq(E)
  PROVE  /\ FlattenSeq(seqs) \in Seq(E)
         /\ FlattenSeq(Append(seqs, e)) = FlattenSeq(seqs) \o e
<1> DEFINE n == Len(seqs)
           t == Append(seqs, e)
<1>1. /\ n \in Nat /\ t \in Seq(Seq(E)) /\ Len(t) = n + 1 /\ t[n + 1] = e
      /\ \A i \in 1..n : t[i] = seqs[i] /\ seqs[i] \in Seq(E)
  BY AppendProperties, ElementOfSeq, LenProperties
<1>2. PICK f : Flattens(f, t, n + 1) /\ FlattenSeq(t) = f[n + 1]
  <2> HIDE DEF t
  <2> QED
    BY <1>1, FlattenSeqIs
<1>3. \A i \in 1..(n + 1) : f[i] = IF i = 1 THEN t[i] ELSE f[i - 1] \o t[i]
  <2>1. n + 1 \in Nat
    BY <1>1
  <2> HIDE DEF t, n
  <2> QED
    BY <1>2, <2>1, FlattensIs
<1>4. CASE n = 0
  <2>1. seqs = <<>> /\ FlattenSeq(seqs) = <<>>
    BY <1>4, FlattenEmpty, EmptySeq
  <2>2. FlattenSeq(t) = e
    <3> HIDE DEF t
    <3> QED
      BY <1>1, <1>2, <1>3, <1>4
  <2>3. <<>> \in Seq(E)
    OBVIOUS
  <2> QED
    BY <2>1, <2>2, <2>3, ConcatEmptySeq
<1>5. CASE n # 0
  <2>1. PICK g : Flattens(g, seqs, n) /\ FlattenSeq(seqs) = g[n]
    BY <1>1, <1>5, FlattenSeqIs
  <2>2. \A i \in 1..n : g[i] = IF i = 1 THEN seqs[i] ELSE g[i - 1] \o seqs[i]
    BY <1>1, <2>1, FlattensIs, SMTT(30)
  <2> DEFINE S == {m \in Nat : m \in 1..n => f[m] = g[m] /\ g[m] \in Seq(E)}
  <2>3. 0 \in S
    OBVIOUS
  <2>4. ASSUME NEW m \in Nat, m \in S PROVE m + 1 \in S
    <3> SUFFICES ASSUME m + 1 \in 1..n
                 PROVE  f[m + 1] = g[m + 1] /\ g[m + 1] \in Seq(E)
      OBVIOUS
    <3>1. CASE m = 0
      BY <1>1, <1>3, <2>2, <3>1
    <3>2. CASE m # 0
      <4>1. f[m] = g[m] /\ g[m] \in Seq(E) /\ seqs[m + 1] \in Seq(E) /\ t[m + 1] = seqs[m + 1]
        BY <1>1, <2>4, <3>2
      <4>2. g[m + 1] = g[m] \o seqs[m + 1] /\ f[m + 1] = f[m] \o t[m + 1]
        <5>1. m + 1 \in 1..n /\ m + 1 \in 1..(n + 1) /\ m + 1 # 1 /\ (m + 1) - 1 = m
          BY <1>1, <3>2
        <5> HIDE DEF t, n
        <5> QED
          BY <1>3, <2>2, <5>1
      <4> QED
        BY <4>1, <4>2, ConcatProperties
    <3> QED
      BY <3>1, <3>2
  <2> HIDE DEF S
  <2>5. n \in S
    BY <1>1, <2>3, <2>4, Climb
  <2>6. f[n] = g[n] /\ g[n] \in Seq(E)
    BY <1>1, <1>5, <2>5 DEF S
  <2>7. f[n + 1] = f[n] \o e
    <3>1. n + 1 \in 1..(n + 1) /\ n + 1 # 1 /\ (n + 1) - 1 = n
      BY <1>1, <1>5
    <3> HIDE DEF t, n
    <3> QED
      BY <1>1, <1>3, <3>1
  <2> QED
    BY <1>2, <2>1, <2>6, <2>7
<1> QED
  BY <1>1, <1>4, <1>5

LEMMA FlattenConcat ==
  ASSUME NEW E, NEW s \in Seq(Seq(E)), NEW t \in Seq(Seq(E))
  PROVE  FlattenSeq(s \o t) = FlattenSeq(s) \o FlattenSeq(t)
<1> DEFINE S == {n \in Nat : \A u \in Seq(Seq(E)) :
                   Len(u) = n => FlattenSeq(s \o u) = FlattenSeq(s) \o FlattenSeq(u)}
<1>0. \A u \in Seq(Seq(E)) : FlattenSeq(u) \in Seq(E)
  <2>1. <<>> \in Seq(E)
    OBVIOUS
  <2> QED
    BY <2>1, FlattenAppend
<1>1. 0 \in S
  <2> SUFFICES ASSUME NEW u \in Seq(Seq(E)), Len(u) = 0
               PROVE  FlattenSeq(s \o u) = FlattenSeq(s) \o FlattenSeq(u)
    OBVIOUS
  <2>1. u = <<>> /\ s \o u = s /\ FlattenSeq(u) = <<>>
    BY EmptySeq, ConcatEmptySeq, FlattenEmpty
  <2> QED
    BY <1>0, <2>1, ConcatEmptySeq
<1>2. ASSUME NEW n \in Nat, n \in S PROVE n + 1 \in S
  <2> SUFFICES ASSUME NEW u \in Seq(Seq(E)), Len(u) = n + 1
               PROVE  FlattenSeq(s \o u) = FlattenSeq(s) \o FlattenSeq(u)
    OBVIOUS
  <2>1. u # <<>>
    OBVIOUS
  <2>2. PICK v \in Seq(Seq(E)), e \in Seq(E) : u = Append(v, e)
    BY <2>1, SequenceEmptyOrAppend
  <2>3. Len(v) = n
    BY <2>2, AppendProperties, LenProperties
  <2>4. FlattenSeq(s \o v) = FlattenSeq(s) \o FlattenSeq(v)
    BY <1>2, <2>3
  <2>5. s \o v \in Seq(Seq(E)) /\ s \o u = Append(s \o v, e)
    BY <2>2
  <2>6. /\ FlattenSeq(Append(s \o v, e)) = FlattenSeq(s \o v) \o e
        /\ FlattenSeq(u) = FlattenSeq(v) \o e
    BY <2>2, <2>5, FlattenAppend
  <2>7. (FlattenSeq(s) \o FlattenSeq(v)) \o e = FlattenSeq(s) \o (FlattenSeq(v) \o e)
    <3>1. FlattenSeq(s) \in Seq(E) /\ FlattenSeq(v) \in Seq(E)
      BY <1>0
    <3> QED
      BY <2>2, <3>1, ConcatAssoc, SMTT(30)
  <2> QED
    BY <2>4, <2>5, <2>6, <2>7
<1> HIDE DEF S
<1>3. Len(t) \in S
  BY <1>1, <1>2, Climb, LenProperties
<1> QED
  BY <1>3 DEF S

LEMMA BytesAppend ==
  ASSUME NEW E, NEW s \in Seq(Seq(E)), NEW e \in Seq(E)
  PROVE  Bytes(s) \in Nat /\ Bytes(Append(s, e)) = Bytes(s) + Len(e)
<1>1. FlattenSeq(s) \in Seq(E) /\ FlattenSeq(Append(s, e)) = FlattenSeq(s) \o e
  BY FlattenAppend
<1> QED
  BY <1>1, ConcatProperties, LenProperties DEF Bytes

LEMMA BytesHeadTail ==
  ASSUME NEW E, NEW s \in Seq(Seq(E)), s # <<>>
  PROVE  Bytes(s) = Len(Head(s)) + Bytes(Tail(s))
<1> DEFINE e == Head(s)
           one == Append(<<>>, e)
<1>1. e \in Seq(E) /\ Tail(s) \in Seq(Seq(E)) /\ one \in Seq(Seq(E)) /\ s = one \o Tail(s)
  OBVIOUS
<1>2. FlattenSeq(one) = <<>> \o e
  <2>1. <<>> \in Seq(Seq(E))
    OBVIOUS
  <2> QED
    BY <1>1, <2>1, FlattenAppend, FlattenEmpty
<1>3. <<>> \o e = e
  BY <1>1, ConcatEmptySeq
<1> HIDE DEF one, e
<1>4. FlattenSeq(s) = e \o FlattenSeq(Tail(s)) /\ FlattenSeq(Tail(s)) \in Seq(E)
  <2>1. FlattenSeq(s) = FlattenSeq(one) \o FlattenSeq(Tail(s))
    BY <1>1, FlattenConcat
  <2>2. FlattenSeq(Tail(s)) \in Seq(E)
    BY <1>1, FlattenAppend
  <2> QED
    BY <1>2, <1>3, <2>1, <2>2
<1> QED
  BY <1>1, <1>4, ConcatProperties DEF Bytes, e

-----------------------------------------------------------------------------
(* What the assembler holds of a record of which rest was read, in         *)
(* whatever chunks.                                                        *)
Assembled(rest, cap) ==
  IF Len(rest) > cap THEN [pending |-> CutRecord(rest, cap), over |-> TRUE]
  ELSE [pending |-> rest, over |-> FALSE]

Alphabet == Char \cup {Sep, Ellipsis}

LEMMA TextIs == Text = Seq(Alphabet)
  BY DEF Text, Alphabet

LEMMA InAlphabet == Sep \in Alphabet /\ Ellipsis \in Alphabet
  BY DEF Alphabet

LEMMA CutRecordIs ==
  ASSUME NEW text \in Text, NEW cap \in Nat, cap >= MarkerBytes, Len(text) >= cap - MarkerBytes
  PROVE  CutRecord(text, cap) = SubSeq(text, 1, cap - MarkerBytes) \o <<Ellipsis, Sep>>
<1>1. Len(text) \in Nat /\ cap - MarkerBytes \in Nat
  BY TextIs DEF MarkerBytes
<1>2. Min({Len(text), cap - MarkerBytes}) = cap - MarkerBytes
  BY <1>1, MinOfTwo
<1>3. Max({0, cap - MarkerBytes}) = cap - MarkerBytes
  BY <1>1, MaxOfTwo
<1> QED
  BY <1>2, <1>3 DEF CutRecord

LEMMA MarkerEnds ==
  ASSUME NEW p \in Text
  PROVE  /\ p \o <<Ellipsis, Sep>> \in Text /\ p \o <<Ellipsis, Sep>> # <<>>
         /\ IsLossMarker(p \o <<Ellipsis, Sep>>)
<1> DEFINE r == p \o <<Ellipsis, Sep>>
           n == Len(p)
<1>1. /\ r \in Text /\ Len(r) = n + 2 /\ n \in Nat /\ r[n + 1] = Ellipsis /\ r[n + 2] = Sep
      /\ \A i \in 1..n + 1 : r[i] \in Alphabet
  BY TextIs, InAlphabet
<1> HIDE DEF r
<1>2. r # <<>> /\ Last(r) = Sep
  BY <1>1 DEF Last
<1>3. Stripped(r) = SubSeq(r, 1, n + 1)
  BY <1>1, <1>2 DEF Stripped, Front
<1>4. Len(SubSeq(r, 1, n + 1)) = n + 1 /\ SubSeq(r, 1, n + 1)[n + 1] = Ellipsis
  BY <1>1, SubSeqProperties, TextIs
<1>5. IsLossMarker(r)
  BY <1>1, <1>3, <1>4 DEF IsLossMarker, Last
<1> QED
  BY <1>1, <1>2, <1>5 DEF r

LEMMA CutRecordTyped ==
  ASSUME NEW text \in Text, NEW cap \in Nat
  PROVE  /\ CutRecord(text, cap) \in Text /\ CutRecord(text, cap) # <<>>
         /\ IsLossMarker(CutRecord(text, cap))
<1> DEFINE k == Max({0, Min({Len(text), cap - MarkerBytes})})
<1>1. k \in 0..Len(text)
  <2>1. Len(text) \in Nat /\ cap - MarkerBytes \in Int
    BY TextIs DEF MarkerBytes
  <2>2. /\ Min({Len(text), cap - MarkerBytes}) \in Int
        /\ Min({Len(text), cap - MarkerBytes}) <= Len(text)
    BY <2>1, MinOfTwo
  <2> DEFINE q == Min({Len(text), cap - MarkerBytes})
  <2> HIDE DEF q
  <2>3. q \in Int /\ q <= Len(text)
    BY <2>2 DEF q
  <2>4. Max({0, q}) = IF 0 >= q THEN 0 ELSE q
    BY <2>3, MaxOfTwo
  <2> QED
    BY <2>1, <2>3, <2>4 DEF q
<1>2. SubSeq(text, 1, k) \in Text
  <2> HIDE DEF k
  <2> QED
    BY <1>1, TextIs
<1> QED
  BY <1>2, MarkerEnds DEF CutRecord

LEMMA CutAlike ==
  ASSUME NEW a \in Text, NEW b \in Text, NEW cap \in Nat, cap >= MarkerBytes,
         Len(a) >= cap - MarkerBytes
  PROVE  CutRecord(a \o b, cap) = CutRecord(a, cap)
<1>1. a \o b \in Text /\ Len(a \o b) >= cap - MarkerBytes /\ Len(a) \in Nat
  BY TextIs DEF MarkerBytes
<1>2. SubSeq(a \o b, 1, cap - MarkerBytes) = SubSeq(a, 1, cap - MarkerBytes)
  BY <1>1, TextIs DEF MarkerBytes
<1> QED
  BY <1>1, <1>2, CutRecordIs

LEMMA StrippedIs ==
  ASSUME NEW r \in Text
  PROVE  Stripped(r) \in Text /\ Len(Stripped(r)) >= Len(r) - 1 /\ Len(r) \in Nat
  BY TextIs DEF Stripped, Front

LEMMA BoundedIs ==
  ASSUME NEW r \in Text, NEW cap \in Nat
  PROVE  /\ Bounded(r, cap) \in Text
         /\ Len(r) > cap => IsLossMarker(Bounded(r, cap))
         /\ Len(r) <= cap => Bounded(r, cap) = r
  BY StrippedIs, CutRecordTyped DEF Bounded

-----------------------------------------------------------------------------
(* The assembler's steps, told of rest: a stretch absorbed, a record       *)
(* completed, and what is pending at the end.                              *)
LEMMA NoSepIn ==
  ASSUME NEW a \in Text, SepAt(a) = {}
  PROVE  \A i \in 1..Len(a) : a[i] # Sep
  BY TextIs DEF SepAt

LEMMA FirstSep ==
  ASSUME NEW chunk \in Text, SepAt(chunk) # {}, NEW i, i = Min(SepAt(chunk))
  PROVE  i \in 1..Len(chunk) /\ chunk[i] = Sep /\ \A j \in 1..(i - 1) : chunk[j] # Sep
<1>1. SepAt(chunk) = {j \in 1..Len(chunk) : chunk[j] = Sep} /\ Len(chunk) \in Nat
  BY TextIs DEF SepAt
<1>2. SepAt(chunk) \in SUBSET Nat
  BY <1>1
<1>3. i \in SepAt(chunk) /\ \A k \in SepAt(chunk) : i <= k
  BY <1>2, MinIs
<1>4. ASSUME NEW j \in 1..(i - 1), chunk[j] = Sep
      PROVE  FALSE
  <2>1. j \in SepAt(chunk) /\ j < i
    BY <1>1, <1>3, <1>4
  <2> QED
    BY <1>1, <1>3, <2>1
<1> QED
  BY <1>1, <1>3, <1>4

LEMMA AbsorbIs ==
  ASSUME NEW rest \in Text, NEW chunk \in Text, NEW cap \in Nat, cap >= MarkerBytes
  PROVE  Absorb(Assembled(rest, cap), chunk, cap) = Assembled(rest \o chunk, cap)
<1>1. /\ Len(rest) \in Nat /\ Len(chunk) \in Nat /\ Len(rest \o chunk) = Len(rest) + Len(chunk)
  BY TextIs
<1>2. CASE Len(rest) > cap
  <2>1. CutRecord(rest \o chunk, cap) = CutRecord(rest, cap) /\ Len(rest \o chunk) > cap
    BY <1>1, <1>2, CutAlike DEF MarkerBytes
  <2> QED
    BY <1>2, <2>1 DEF Absorb, Assembled
<1>3. CASE ~(Len(rest) > cap)
  <2> DEFINE text == rest \o chunk
             asm == Assembled(rest, cap)
  <2>1. asm.pending = rest /\ asm.over = FALSE
    BY <1>3 DEF Assembled
  <2> HIDE DEF asm
  <2>2. CASE Len(text) > cap
    <3>1. Absorb(asm, chunk, cap) = [pending |-> CutRecord(text, cap), over |-> TRUE]
      BY <2>1, <2>2 DEF Absorb
    <3> QED
      BY <2>2, <3>1 DEF Assembled, asm
  <2>3. CASE ~(Len(text) > cap)
    <3>0. (Len(text) > cap) = FALSE
      BY <2>3
    <3>1. Absorb(asm, chunk, cap) = [pending |-> text, over |-> Len(text) > cap]
      BY <2>1, <2>3 DEF Absorb
    <3> QED
      BY <3>0, <3>1 DEF Assembled, asm
  <2> QED
    BY <2>2, <2>3
<1> QED
  BY <1>2, <1>3

LEMMA FrontOfAppend ==
  ASSUME NEW r \in Text, NEW x \in Alphabet
  PROVE  Front(Append(r, x)) = r /\ Append(r, x) # <<>>
<1>1. Len(Append(r, x)) - 1 = Len(r)
  BY TextIs, AppendProperties, LenProperties
<1>2. SubSeq(Append(r, x), 1, Len(r)) = r
  BY TextIs
<1> QED
  BY <1>1, <1>2, TextIs, AppendProperties DEF Front

(* What is added to a record that is too long already changes nothing.     *)
LEMMA BoundedAlike ==
  ASSUME NEW rest \in Text, NEW more \in Text, NEW cap \in Nat, cap >= MarkerBytes,
         more # <<>>, Len(rest) > cap
  PROVE  Bounded(rest \o more, cap) = CutRecord(rest, cap)
<1>1. /\ Len(rest) \in Nat /\ Len(more) \in Nat \ {0} /\ Len(rest \o more) = Len(rest) + Len(more)
      /\ rest \o more \in Text
  BY TextIs
<1>2. PICK less \in Text, x \in Alphabet : more = Append(less, x)
  BY TextIs, SequenceEmptyOrAppend
<1>3. rest \o more = Append(rest \o less, x) /\ rest \o less \in Text
  BY <1>2, TextIs
<1>4. Front(rest \o more) = rest \o less /\ rest \o more # <<>>
  BY <1>3, FrontOfAppend
<1>5. /\ CutRecord(rest \o more, cap) = CutRecord(rest, cap)
      /\ CutRecord(rest \o less, cap) = CutRecord(rest, cap)
  <2>1. Len(rest) >= cap - MarkerBytes
    BY <1>1 DEF MarkerBytes
  <2> QED
    BY <2>1, CutAlike
<1>6. CutRecord(Stripped(rest \o more), cap) = CutRecord(rest, cap)
  BY <1>4, <1>5 DEF Stripped
<1>7. Len(rest \o more) > cap
  BY <1>1
<1> QED
  BY <1>6, <1>7 DEF Bounded

LEMMA CompletedIs ==
  ASSUME NEW rest \in Text, NEW chunk, NEW i, NEW cap \in Nat, cap >= MarkerBytes,
         SubSeq(chunk, 1, i) \in Text, SubSeq(chunk, 1, i) # <<>>
  PROVE  Completed(Assembled(rest, cap), chunk, i, cap) = Bounded(rest \o SubSeq(chunk, 1, i), cap)
<1>1. CASE Len(rest) > cap
  <2>1. Bounded(rest \o SubSeq(chunk, 1, i), cap) = CutRecord(rest, cap)
    BY <1>1, BoundedAlike
  <2> QED
    BY <1>1, <2>1 DEF Completed, Assembled
<1>2. CASE ~(Len(rest) > cap)
  BY <1>2 DEF Completed, Assembled
<1> QED
  BY <1>1, <1>2

LEMMA PendingIs ==
  ASSUME NEW rest \in Text, NEW cap \in Nat, cap >= MarkerBytes, SepAt(rest) = {}
  PROVE  /\ Assembled(rest, cap).pending = <<>> <=> rest = <<>>
         /\ rest # <<>> => Assembled(rest, cap).pending = Bounded(rest, cap)
<1>1. Len(rest) \in Nat /\ (rest = <<>> <=> Len(rest) = 0)
  BY TextIs
<1>2. CASE Len(rest) > cap
  <2>1. Last(rest) # Sep
    BY <1>1, <1>2, NoSepIn DEF Last
  <2>2. Stripped(rest) = rest
    BY <2>1 DEF Stripped
  <2> QED
    BY <1>1, <1>2, <2>2, CutRecordTyped DEF Assembled, Bounded
<1>3. CASE ~(Len(rest) > cap)
  BY <1>3 DEF Assembled, Bounded
<1> QED
  BY <1>2, <1>3

-----------------------------------------------------------------------------
(* The records of a text.                                                  *)
SepsBefore(text, n) == {0} \cup {i \in 1..(n - 1) : text[i] = Sep}

RecordUpTo(text, n, cap) == Bounded(SubSeq(text, 1 + Max(SepsBefore(text, n)), n), cap)

(* f[n] is the sequence of the records that end at n or before.            *)
Splits(f, text, m, cap) ==
  f = [n \in 0..m |->
         IF n = 0 THEN <<>>
         ELSE IF text[n] = Sep \/ n = Len(text)
              THEN Append(f[n - 1], RecordUpTo(text, n, cap))
              ELSE f[n - 1]]

LEMMA SplitsAt ==
  ASSUME NEW f, NEW text, NEW m \in Nat, NEW cap, Splits(f, text, m, cap)
  PROVE  /\ f[0] = <<>>
         /\ \A n \in 1..m :
              f[n] = IF text[n] = Sep \/ n = Len(text)
                     THEN Append(f[n - 1], RecordUpTo(text, n, cap))
                     ELSE f[n - 1]
<1>1. 0 \in 0..m /\ \A n \in 1..m : n \in 0..m /\ n # 0
  OBVIOUS
<1>2. \A n \in 0..m :
        f[n] = IF n = 0 THEN <<>>
               ELSE IF text[n] = Sep \/ n = Len(text)
                    THEN Append(f[n - 1], RecordUpTo(text, n, cap))
                    ELSE f[n - 1]
  BY DEF Splits
<1> QED
  BY <1>1, <1>2

LEMMA SplitsExists ==
  ASSUME NEW text, NEW cap, NEW k \in Nat
  PROVE  \E f : Splits(f, text, k, cap)
<1> DEFINE S == {m \in Nat : \E f : Splits(f, text, m, cap)}
<1>1. 0 \in S
  <2> DEFINE g == [n \in 0..0 |-> <<>>]
  <2>1. Splits(g, text, 0, cap)
    BY DEF Splits
  <2> HIDE DEF g
  <2> QED
    BY <2>1
<1>2. ASSUME NEW m \in Nat, m \in S
      PROVE  m + 1 \in S
  <2>1. PICK f : Splits(f, text, m, cap)
    BY <1>2
  <2> DEFINE more(h, n) == IF n = 0 THEN <<>>
                           ELSE IF text[n] = Sep \/ n = Len(text)
                                THEN Append(h[n - 1], RecordUpTo(text, n, cap))
                                ELSE h[n - 1]
             g == [n \in 0..(m + 1) |-> IF n = m + 1 THEN more(f, n) ELSE f[n]]
  <2>2. \A n \in 0..m : f[n] = more(f, n)
    BY <2>1 DEF Splits
  <2>3. \A n \in 0..(m + 1) : g[n] = more(g, n)
    <3> TAKE n \in 0..(m + 1)
    <3>1. CASE n = m + 1
      BY <3>1
    <3>2. CASE n \in 0..m
      BY <2>2, <3>2
    <3> QED
      BY <3>1, <3>2
  <2>4. g = [n \in 0..(m + 1) |-> g[n]]
    OBVIOUS
  <2> HIDE DEF g
  <2> DEFINE h == [n \in 0..(m + 1) |-> more(g, n)]
  <2>5. \A n \in 0..(m + 1) : g[n] = h[n]
    BY <2>3
  <2>6. g = h
    BY <2>4, <2>5
  <2>7. Splits(g, text, m + 1, cap)
    BY <2>6 DEF Splits
  <2> QED
    BY <2>7
<1> HIDE DEF S
<1>3. k \in S
  BY <1>1, <1>2, Climb
<1> QED
  BY <1>3 DEF S

LEMMA RecordsOfIs ==
  ASSUME NEW text, Len(text) \in Nat, NEW cap
  PROVE  \E f : Splits(f, text, Len(text), cap) /\ RecordsOf(text, cap) = f[Len(text)]
<1>1. RecordsOf(text, cap) = (CHOOSE f : Splits(f, text, Len(text), cap))[Len(text)]
  BY DEF RecordsOf, Splits, RecordUpTo, SepsBefore
<1> QED
  BY <1>1, SplitsExists

LEMMA RecordsOfNone ==
  ASSUME NEW cap
  PROVE  RecordsOf(<<>>, cap) = <<>>
<1>1. Len(<<>>) = 0
  OBVIOUS
<1>2. PICK f : Splits(f, <<>>, 0, cap) /\ RecordsOf(<<>>, cap) = f[0]
  BY <1>1, RecordsOfIs
<1> QED
  BY <1>2, SplitsAt

LEMMA SepsBeforeIs ==
  ASSUME NEW text \in Text, NEW n \in 1..Len(text)
  PROVE  /\ Max(SepsBefore(text, n)) \in 0..(n - 1)
         /\ Max(SepsBefore(text, n)) \in SepsBefore(text, n)
         /\ \A k \in SepsBefore(text, n) : k <= Max(SepsBefore(text, n))
<1>1. n - 1 \in Nat /\ SepsBefore(text, n) \in SUBSET (0..(n - 1)) /\ SepsBefore(text, n) # {}
  BY TextIs DEF SepsBefore
<1> QED
  BY <1>1, MaxIs

LEMMA RecordTyped ==
  ASSUME NEW text \in Text, NEW n \in 1..Len(text), NEW cap \in Nat
  PROVE  RecordUpTo(text, n, cap) \in Text
<1> DEFINE a == Max(SepsBefore(text, n))
<1>1. a \in 0..(n - 1)
  BY SepsBeforeIs
<1> HIDE DEF a
<1>2. SubSeq(text, 1 + a, n) \in Text
  BY <1>1, TextIs
<1> QED
  BY <1>2, BoundedIs DEF RecordUpTo, a

LEMMA RecordsTyped ==
  ASSUME NEW text \in Text, NEW cap \in Nat
  PROVE  RecordsOf(text, cap) \in Seq(Text)
<1>0. Len(text) \in Nat
  BY TextIs
<1>1. PICK f : Splits(f, text, Len(text), cap) /\ RecordsOf(text, cap) = f[Len(text)]
  BY <1>0, RecordsOfIs
<1>2. /\ f[0] = <<>>
      /\ \A n \in 1..Len(text) :
           f[n] = IF text[n] = Sep \/ n = Len(text)
                  THEN Append(f[n - 1], RecordUpTo(text, n, cap))
                  ELSE f[n - 1]
  BY <1>0, <1>1, SplitsAt
<1> DEFINE S == {n \in Nat : n <= Len(text) => f[n] \in Seq(Text)}
<1>3. 0 \in S
  <2>1. <<>> \in Seq(Text)
    OBVIOUS
  <2> QED
    BY <1>2, <2>1
<1>4. ASSUME NEW n \in Nat, n \in S
      PROVE  n + 1 \in S
  <2> SUFFICES ASSUME n + 1 <= Len(text)
               PROVE  f[n + 1] \in Seq(Text)
    OBVIOUS
  <2>1. n + 1 \in 1..Len(text) /\ (n + 1) - 1 = n /\ f[n] \in Seq(Text)
    BY <1>0, <1>4
  <2>2. RecordUpTo(text, n + 1, cap) \in Text
    BY <2>1, RecordTyped
  <2>3. f[n + 1] = f[n] \/ f[n + 1] = Append(f[n], RecordUpTo(text, n + 1, cap))
    BY <1>2, <2>1
  <2> QED
    BY <2>1, <2>2, <2>3, AppendProperties, SMTT(30)
<1> HIDE DEF S
<1>5. Len(text) \in S
  BY <1>0, <1>3, <1>4, Climb
<1> QED
  BY <1>0, <1>1, <1>5 DEF S

(* A text that goes on after a separator, or from its beginning, with a    *)
(* piece that has none but maybe at its end has that piece for its last    *)
(* record, and the others as before.                                       *)
LEMMA RecordsExtend ==
  ASSUME NEW done \in Text, NEW piece \in Text, NEW cap \in Nat,
         done = <<>> \/ Last(done) = Sep,
         piece # <<>>, \A i \in 1..(Len(piece) - 1) : piece[i] # Sep
  PROVE  RecordsOf(done \o piece, cap) = Append(RecordsOf(done, cap), Bounded(piece, cap))
<1> DEFINE text == done \o piece
           d == Len(done)
           k == Len(text)
<1>1. /\ text \in Text /\ d \in Nat /\ Len(piece) \in Nat \ {0} /\ k = d + Len(piece) /\ k \in Nat
      /\ \A i \in 1..d : text[i] = done[i]
      /\ \A i \in 1..Len(piece) : text[d + i] = piece[i]
      /\ d > 0 => done[d] = Sep
      /\ SubSeq(text, d + 1, k) = piece
  BY TextIs DEF Last
<1> HIDE DEF text, d, k
<1>2. PICK f : Splits(f, text, k, cap) /\ RecordsOf(text, cap) = f[k]
  BY <1>1, RecordsOfIs DEF k
<1>3. /\ f[0] = <<>>
      /\ \A n \in 1..k : f[n] = IF text[n] = Sep \/ n = k
                                THEN Append(f[n - 1], RecordUpTo(text, n, cap))
                                ELSE f[n - 1]
  BY <1>1, <1>2, SplitsAt DEF k
<1>4. PICK g : Splits(g, done, d, cap) /\ RecordsOf(done, cap) = g[d]
  BY <1>1, RecordsOfIs DEF d
<1>5. /\ g[0] = <<>>
      /\ \A n \in 1..d : g[n] = IF done[n] = Sep \/ n = d
                                THEN Append(g[n - 1], RecordUpTo(done, n, cap))
                                ELSE g[n - 1]
  BY <1>1, <1>4, SplitsAt DEF d
<1>6. \A n \in 1..d : RecordUpTo(text, n, cap) = RecordUpTo(done, n, cap)
  <2> SUFFICES ASSUME NEW n \in 1..d
               PROVE  RecordUpTo(text, n, cap) = RecordUpTo(done, n, cap)
    OBVIOUS
  <2>1. SepsBefore(text, n) = SepsBefore(done, n)
    BY <1>1 DEF SepsBefore
  <2> DEFINE a == Max(SepsBefore(done, n))
  <2>2. a \in 0..(n - 1)
    BY SepsBeforeIs DEF d
  <2> HIDE DEF a
  <2>3. SubSeq(text, 1 + a, n) = SubSeq(done, 1 + a, n)
    BY <1>1, <2>2, SubSeqOfConcat1, TextIs DEF text, d
  <2> QED
    BY <2>1, <2>3 DEF RecordUpTo, a
<1>7. f[d] = g[d]
  <2> DEFINE S == {n \in Nat : n <= d => f[n] = g[n]}
  <2>1. 0 \in S
    BY <1>3, <1>5
  <2>2. ASSUME NEW n \in Nat, n \in S
        PROVE  n + 1 \in S
    <3> SUFFICES ASSUME n + 1 <= d
                 PROVE  f[n + 1] = g[n + 1]
      OBVIOUS
    <3>1. /\ n + 1 \in 1..d /\ n + 1 \in 1..k /\ n + 1 # k /\ (n + 1) - 1 = n /\ f[n] = g[n]
          /\ n + 1 = d => done[n + 1] = Sep
      BY <1>1, <2>2
    <3> QED
      BY <1>1, <1>3, <1>5, <1>6, <3>1, SMTT(30)
  <2> HIDE DEF S
  <2>3. d \in S
    BY <1>1, <2>1, <2>2, Climb
  <2> QED
    BY <1>1, <2>3 DEF S
<1>8. f[k - 1] = f[d]
  <2> DEFINE S == {n \in Nat : d + n <= k - 1 => f[d + n] = f[d]}
  <2>1. 0 \in S
    BY <1>1
  <2>2. ASSUME NEW n \in Nat, n \in S
        PROVE  n + 1 \in S
    <3> SUFFICES ASSUME d + (n + 1) <= k - 1
                 PROVE  f[d + (n + 1)] = f[d]
      OBVIOUS
    <3>1. /\ d + (n + 1) \in 1..k /\ d + (n + 1) # k /\ (d + (n + 1)) - 1 = d + n
          /\ f[d + n] = f[d] /\ n + 1 \in 1..(Len(piece) - 1)
      BY <1>1, <2>2
    <3>2. text[d + (n + 1)] # Sep
      BY <1>1, <3>1
    <3> QED
      BY <1>3, <3>1, <3>2
  <2> HIDE DEF S
  <2>3. k - 1 - d \in S
    BY <1>1, <2>1, <2>2, Climb
  <2>4. d + (k - 1 - d) = k - 1
    BY <1>1
  <2> QED
    BY <1>1, <2>3, <2>4 DEF S
<1>9. RecordUpTo(text, k, cap) = Bounded(piece, cap)
  <2> DEFINE a == Max(SepsBefore(text, k))
  <2>1. k \in 1..Len(text)
    BY <1>1 DEF k
  <2>2. a \in SepsBefore(text, k) /\ \A i \in SepsBefore(text, k) : i <= a
    BY <1>1, <2>1, SepsBeforeIs
  <2>3. d \in SepsBefore(text, k)
    BY <1>1 DEF SepsBefore
  <2>4. \A i \in SepsBefore(text, k) : i \in Nat /\ i <= d
    <3> SUFFICES ASSUME NEW i \in 1..(k - 1), text[i] = Sep, ~(i <= d)
                 PROVE  FALSE
      BY <1>1 DEF SepsBefore
    <3>1. i - d \in 1..(Len(piece) - 1) /\ d + (i - d) = i
      BY <1>1
    <3>2. text[i] = piece[i - d]
      BY <1>1, <3>1
    <3> QED
      BY <3>1, <3>2
  <2> HIDE DEF a
  <2>5. a = d
    BY <1>1, <2>2, <2>3, <2>4
  <2>6. 1 + a = d + 1
    BY <1>1, <2>5
  <2> QED
    BY <1>1, <2>6 DEF RecordUpTo, a
<1>10. k \in 1..k
  BY <1>1
<1> QED
  BY <1>2, <1>3, <1>4, <1>7, <1>8, <1>9, <1>10 DEF text

-----------------------------------------------------------------------------
(* Prefix and suffix, position by position.                                *)
LEMMA PrefixIs ==
  ASSUME NEW E, NEW s \in Seq(E), NEW t \in Seq(E)
  PROVE  IsPrefix(s, t) <=> Len(s) <= Len(t) /\ \A i \in 1..Len(s) : s[i] = t[i]
<1>0. Len(s) \in Nat /\ Len(t) \in Nat
  OBVIOUS
<1>1. SUFFICES ASSUME Len(s) <= Len(t)
               PROVE  SubSeq(s, 1, Len(s)) = SubSeq(t, 1, Len(s))
                        <=> \A i \in 1..Len(s) : s[i] = t[i]
  BY DEF IsPrefix
<1> DEFINE a == SubSeq(s, 1, Len(s))
           b == SubSeq(t, 1, Len(s))
<1>2. a \in Seq(E) /\ Len(a) = Len(s) /\ \A i \in 1..Len(s) : a[i] = s[i]
  BY <1>0
<1>3. b \in Seq(E) /\ Len(b) = Len(s) /\ \A i \in 1..Len(s) : b[i] = t[i]
  BY <1>0, <1>1
<1> HIDE DEF a, b
<1>4. a = b <=> \A i \in 1..Len(s) : a[i] = b[i]
  BY <1>2, <1>3, SeqEqual
<1>5. a = b <=> \A i \in 1..Len(s) : s[i] = t[i]
  BY <1>2, <1>3, <1>4
<1> QED
  BY <1>5 DEF a, b

LEMMA SuffixIs ==
  ASSUME NEW E, NEW s \in Seq(E), NEW t \in Seq(E)
  PROVE  IsSuffix(s, t) <=>
           Len(s) <= Len(t) /\ \A i \in 1..Len(s) : s[i] = t[Len(t) - Len(s) + i]
<1> DEFINE a == Reverse(s)
           b == Reverse(t)
<1>0. Len(s) \in Nat /\ Len(t) \in Nat
  OBVIOUS
<1>1. a \in Seq(E) /\ Len(a) = Len(s) /\ \A i \in 1..Len(s) : a[i] = s[(Len(s) - i) + 1]
  BY <1>0 DEF Reverse
<1>2. b \in Seq(E) /\ Len(b) = Len(t) /\ \A i \in 1..Len(t) : b[i] = t[(Len(t) - i) + 1]
  BY <1>0 DEF Reverse
<1> HIDE DEF a, b
<1>3. IsPrefix(a, b) <=> Len(s) <= Len(t) /\ \A i \in 1..Len(s) : a[i] = b[i]
  <2>0. a \in Seq(E) /\ b \in Seq(E)
    BY <1>1, <1>2
  <2>1. IsPrefix(a, b) <=> Len(a) <= Len(b) /\ \A i \in 1..Len(a) : a[i] = b[i]
    BY <2>0, PrefixIs
  <2>2. Len(a) = Len(s) /\ Len(b) = Len(t)
    BY <1>1, <1>2
  <2> QED
    BY <2>1, <2>2, Zenon
<1>4. ASSUME Len(s) <= Len(t)
      PROVE  (\A i \in 1..Len(s) : a[i] = b[i])
               <=> \A i \in 1..Len(s) : s[i] = t[Len(t) - Len(s) + i]
  <2>1. ASSUME \A i \in 1..Len(s) : a[i] = b[i], NEW i \in 1..Len(s)
        PROVE  s[i] = t[Len(t) - Len(s) + i]
    <3> DEFINE j == (Len(s) - i) + 1
    <3>1. /\ j \in 1..Len(s) /\ j \in 1..Len(t) /\ (Len(s) - j) + 1 = i
          /\ (Len(t) - j) + 1 = Len(t) - Len(s) + i
      BY <1>0, <1>4
    <3> QED
      BY <1>1, <1>2, <2>1, <3>1, ZenonT(40)
  <2>2. ASSUME \A i \in 1..Len(s) : s[i] = t[Len(t) - Len(s) + i], NEW i \in 1..Len(s)
        PROVE  a[i] = b[i]
    <3> DEFINE j == (Len(s) - i) + 1
    <3>1. /\ j \in 1..Len(s) /\ i \in 1..Len(t)
          /\ (Len(t) - i) + 1 = Len(t) - Len(s) + j
      BY <1>0, <1>4
    <3> QED
      BY <1>1, <1>2, <2>2, <3>1
  <2> QED
    BY <2>1, <2>2
<1> QED
  BY <1>3, <1>4 DEF IsSuffix, a, b

-----------------------------------------------------------------------------
(* A capture stays the head and the tail of the records it was given.      *)
Captures == [head : Seq(Text), tail : Seq(Text), truncated : BOOLEAN]

LEMMA BytesOf ==
  ASSUME NEW s \in Seq(Text)
  PROVE  /\ Bytes(s) \in Nat
         /\ \A e \in Text : Bytes(Append(s, e)) = Bytes(s) + Len(e)
         /\ s # <<>> => Bytes(s) = Len(Head(s)) + Bytes(Tail(s))
<1>1. s \in Seq(Seq(Alphabet)) /\ <<>> \in Seq(Alphabet)
  BY TextIs
<1>2. \A e \in Seq(Alphabet) : Bytes(s) \in Nat /\ Bytes(Append(s, e)) = Bytes(s) + Len(e)
  BY <1>1, BytesAppend
<1>3. s # <<>> => Bytes(s) = Len(Head(s)) + Bytes(Tail(s))
  BY <1>1, BytesHeadTail
<1> QED
  BY <1>1, <1>2, <1>3, TextIs

LEMMA BytesNone == Bytes(<<>>) = 0
  BY FlattenEmpty DEF Bytes

(* Without its first record a tail is shorter by what that record has.     *)
LEMMA BytesWithout ==
  ASSUME NEW s \in Seq(Text), NEW k \in 1..Len(s)
  PROVE  Bytes(SubSeq(s, k, Len(s))) = Len(s[k]) + Bytes(SubSeq(s, k + 1, Len(s)))
<1> DEFINE t == SubSeq(s, k, Len(s))
<1>1. Len(s) \in Nat /\ Len(s) \in k..Len(s)
  OBVIOUS
<1>2. t \in Seq(Text) /\ t # <<>>
  <2>1. t \in Seq(Text) /\ Len(t) = Len(s) - k + 1
    BY <1>1
  <2>2. Len(t) # 0
    BY <1>1, <2>1
  <2> HIDE DEF t
  <2> QED
    BY <2>1, <2>2, EmptySeq
<1>3. Head(t) = s[k] /\ Tail(t) = SubSeq(s, k + 1, Len(s))
  BY <1>1, HeadTailOfSubSeq
<1> HIDE DEF t
<1>4. Bytes(t) = Len(Head(t)) + Bytes(Tail(t))
  BY <1>2, BytesOf
<1> QED
  BY <1>3, <1>4 DEF t

(* What is dropped is as little as makes the rest fit.                     *)
LEMMA DroppedIs ==
  ASSUME NEW head \in Seq(Text), NEW tail \in Seq(Text), NEW cap \in Nat,
         NEW k, k = Dropped(head, tail, cap)
  PROVE  /\ k \in 0..Len(tail)
         /\ k = Len(tail) \/ Bytes(head) + Bytes(SubSeq(tail, k + 1, Len(tail))) <= cap
         /\ k > 0 => Bytes(head) + Bytes(SubSeq(tail, k, Len(tail))) > cap
<1> DEFINE fits(j) == j = Len(tail) \/ Bytes(head) + Bytes(SubSeq(tail, j + 1, Len(tail))) <= cap
           S == {j \in 0..Len(tail) : fits(j)}
<1>0. Len(tail) \in Nat
  OBVIOUS
<1>1. S \in SUBSET Nat /\ Len(tail) \in S
  BY <1>0
<1>2. k = Min(S)
  BY DEF Dropped
<1>3. k \in S /\ \A j \in S : k <= j
  <2> HIDE DEF S
  <2> QED
    BY <1>1, <1>2, MinIs
<1>4. ASSUME k > 0
      PROVE  Bytes(head) + Bytes(SubSeq(tail, k, Len(tail))) > cap
  <2>1. k \in 0..Len(tail)
    BY <1>3
  <2>2. k - 1 \in 0..Len(tail) /\ ~(k <= k - 1) /\ k - 1 # Len(tail) /\ (k - 1) + 1 = k
    BY <1>0, <1>4, <2>1
  <2>3. ~fits(k - 1)
    <3> HIDE DEF fits
    <3> QED
      BY <1>3, <2>2
  <2>4. SubSeq(tail, k, Len(tail)) \in Seq(Text)
    BY <1>0, <1>4, <2>1
  <2>5. Bytes(head) \in Nat /\ Bytes(SubSeq(tail, k, Len(tail))) \in Nat
    BY <2>4, BytesOf
  <2>6. ~(Bytes(head) + Bytes(SubSeq(tail, k, Len(tail))) <= cap)
    BY <2>2, <2>3
  <2> QED
    BY <2>5, <2>6
<1> QED
  BY <1>3, <1>4

LEMMA HeadAndTailIs ==
  ASSUME NEW c \in Captures, NEW records \in Seq(Text), NEW cap
  PROVE  HeadAndTail(c, records, cap) <=>
           /\ Len(c.head) + Len(c.tail) <= Len(records)
           /\ \A i \in 1..Len(c.head) : c.head[i] = records[i]
           /\ \A i \in 1..Len(c.tail) : c.tail[i] = records[Len(records) - Len(c.tail) + i]
           /\ c.truncated <=> Len(c.head) + Len(c.tail) < Len(records)
           /\ Retained(c) <= cap
           /\ Len(c.head) + Len(c.tail) < Len(records) =>
                Retained(c) + Len(records[Len(records) - Len(c.tail)]) > cap
<1>0. c.head \in Seq(Text) /\ c.tail \in Seq(Text)
  BY DEF Captures
<1>1. Len(c.head) \in Nat /\ Len(c.tail) \in Nat /\ Len(records) \in Nat
  BY <1>0
<1>2. IsPrefix(c.head, records) <=>
        Len(c.head) <= Len(records) /\ \A i \in 1..Len(c.head) : c.head[i] = records[i]
  BY <1>0, PrefixIs
<1>3. IsSuffix(c.tail, records) <=>
        /\ Len(c.tail) <= Len(records)
        /\ \A i \in 1..Len(c.tail) : c.tail[i] = records[Len(records) - Len(c.tail) + i]
  BY <1>0, SuffixIs
<1> DEFINE h == Len(c.head)
           t == Len(c.tail)
           n == Len(records)
<1>4. \A x, y, z \in Nat :
        /\ z - x - y >= 0 <=> x + y <= z
        /\ z - x - y > 0 <=> x + y < z
        /\ x + (z - x - y) = z - y
        /\ x + y <= z => x <= z /\ y <= z
  OBVIOUS
<1>5. /\ n - h - t >= 0 <=> h + t <= n
      /\ n - h - t > 0 <=> h + t < n
      /\ h + (n - h - t) = n - t
      /\ h + t <= n => h <= n /\ t <= n
  <2> HIDE DEF h, t, n
  <2>1. h \in Nat /\ t \in Nat /\ n \in Nat
    BY <1>1 DEF h, t, n
  <2> QED
    BY <1>4, <2>1
<1> QED
  BY <1>2, <1>3, <1>5 DEF HeadAndTail

LEMMA HeadBudgetFits ==
  ASSUME NEW cap \in Nat, cap >= MarkerBytes
  PROVE  HeadBudget(cap) \in Nat /\ HeadBudget(cap) <= cap
<1>1. cap \div 2 \in Nat /\ cap \div 2 <= cap
  OBVIOUS
<1>2. Max({1, cap \div 2}) = IF 1 >= cap \div 2 THEN 1 ELSE cap \div 2
  BY <1>1, MaxOfTwo
<1> QED
  BY <1>1, <1>2 DEF HeadBudget, MarkerBytes

(* One record more is the last of the tail, or of the head as long as it   *)
(* is all there is.                                                        *)
LEMMA AddKeepsHeadAndTail ==
  ASSUME NEW c \in Captures, NEW records \in Seq(Text), NEW record \in Text,
         NEW cap \in Nat, cap >= MarkerBytes, HeadAndTail(c, records, cap)
  PROVE  /\ Add(c, record, cap) \in Captures
         /\ HeadAndTail(Add(c, record, cap), Append(records, record), cap)
<1> DEFINE h == Len(c.head)
           t == Len(c.tail)
           n == Len(records)
           all == Append(records, record)
           d == Add(c, record, cap)
<1>0. /\ c.head \in Seq(Text) /\ c.tail \in Seq(Text) /\ c.truncated \in BOOLEAN
      /\ c = [head |-> c.head, tail |-> c.tail, truncated |-> c.truncated]
  BY DEF Captures
<1>1. h \in Nat /\ t \in Nat /\ n \in Nat
  BY <1>0
<1>2. /\ h + t <= n
      /\ \A i \in 1..h : c.head[i] = records[i]
      /\ \A i \in 1..t : c.tail[i] = records[n - t + i]
      /\ c.truncated <=> h + t < n
      /\ Retained(c) <= cap
      /\ h + t < n => Retained(c) + Len(records[n - t]) > cap
  BY HeadAndTailIs
<1>3. all \in Seq(Text) /\ Len(all) = n + 1 /\ all[n + 1] = record
      /\ \A i \in 1..n : all[i] = records[i]
  BY AppendProperties
<1>4. /\ Bytes(c.head) \in Nat /\ Bytes(c.tail) \in Nat /\ Len(record) \in Nat
      /\ Retained(c) = Bytes(c.head) + Bytes(c.tail)
  BY <1>0, BytesOf, TextIs DEF Retained
<1> HIDE DEF h, t, n
<1>5. CASE FitsHead(c, record, cap)
  <2> DEFINE head == Append(c.head, record)
  <2>1. head \in Seq(Text) /\ Len(head) = h + 1 /\ head[h + 1] = record
        /\ \A i \in 1..h : head[i] = c.head[i]
    BY <1>0, AppendProperties DEF h
  <2>2. ~c.truncated /\ c.tail = <<>> /\ t = 0 /\ Bytes(c.head) + Len(record) <= HeadBudget(cap)
    BY <1>5 DEF FitsHead, t
  <2>3. h = n
    BY <1>1, <1>2, <2>2
  <2>4. Bytes(head) = Bytes(c.head) + Len(record)
    BY <1>0, BytesOf
  <2>5. d = [c EXCEPT !.head = head]
    BY <1>5 DEF Add
  <2> HIDE DEF d, head
  <2>6. d.head = head /\ d.tail = <<>> /\ d.truncated = FALSE /\ d \in Captures
    BY <1>0, <2>1, <2>2, <2>5 DEF Captures
  <2>7. Retained(d) <= cap
    <3>1. Retained(d) = Bytes(c.head) + Len(record)
      BY <1>4, <2>4, <2>6, BytesNone DEF Retained
    <3> QED
      BY <1>4, <2>2, <3>1, HeadBudgetFits
  <2>8. /\ Len(d.head) = n + 1 /\ Len(d.tail) = 0
        /\ \A i \in 1..(n + 1) : d.head[i] = all[i]
    <3> HIDE DEF all
    <3>1. \A i \in 1..(n + 1) : head[i] = all[i]
      <4> TAKE i \in 1..(n + 1)
      <4>1. CASE i = n + 1
        BY <1>3, <2>1, <2>3, <4>1
      <4>2. CASE i \in 1..n
        BY <1>2, <1>3, <2>1, <2>3, <4>2
      <4> QED
        BY <1>1, <4>1, <4>2
    <3> QED
      BY <2>1, <2>3, <2>6, <3>1
  <2> HIDE DEF all
  <2>9. HeadAndTail(d, all, cap)
    <3>1. /\ Len(d.head) + Len(d.tail) <= Len(all)
          /\ ~(Len(d.head) + Len(d.tail) < Len(all)) /\ d.truncated = FALSE
          /\ \A i \in 1..Len(d.head) : d.head[i] = all[i]
          /\ \A i \in 1..Len(d.tail) : d.tail[i] = all[Len(all) - Len(d.tail) + i]
      BY <1>1, <1>3, <2>6, <2>8
    <3> QED
      BY <1>3, <2>6, <2>7, <3>1, HeadAndTailIs
  <2> QED
    BY <2>6, <2>9 DEF d, all
<1>6. CASE ~FitsHead(c, record, cap)
  <2> DEFINE tail == Append(c.tail, record)
             k == Dropped(c.head, tail, cap)
             rest == SubSeq(tail, k + 1, Len(tail))
  <2>1. tail \in Seq(Text) /\ Len(tail) = t + 1
        /\ \A i \in 1..(t + 1) : tail[i] = all[n - t + i]
    <3>1. tail \in Seq(Text) /\ Len(tail) = t + 1 /\ tail[t + 1] = record
          /\ \A i \in 1..t : tail[i] = c.tail[i]
      BY <1>0, AppendProperties DEF t
    <3> HIDE DEF tail, all
    <3>2. ASSUME NEW i \in 1..(t + 1) PROVE tail[i] = all[n - t + i]
      <4>1. CASE i = t + 1
        <5>1. n - t + i = n + 1
          BY <1>1, <4>1
        <5> QED
          BY <1>3, <3>1, <4>1, <5>1
      <4>2. CASE i \in 1..t
        <5>1. n - t + i \in 1..n
          BY <1>1, <1>2, <4>2
        <5> QED
          BY <1>2, <1>3, <3>1, <4>2, <5>1
      <4> QED
        BY <1>1, <4>1, <4>2
    <3> QED
      BY <3>1, <3>2
  <2>2. Bytes(tail) = Bytes(c.tail) + Len(record)
    BY <1>0, BytesOf
  <2>3. /\ k \in 0..(t + 1)
        /\ k = t + 1 \/ Bytes(c.head) + Bytes(rest) <= cap
        /\ k > 0 => Bytes(c.head) + Bytes(SubSeq(tail, k, Len(tail))) > cap
    <3> HIDE DEF tail
    <3>1. /\ k \in 0..Len(tail)
          /\ k = Len(tail) \/ Bytes(c.head) + Bytes(SubSeq(tail, k + 1, Len(tail))) <= cap
          /\ k > 0 => Bytes(c.head) + Bytes(SubSeq(tail, k, Len(tail))) > cap
      <4> HIDE DEF k
      <4> QED
        BY <1>0, <2>1, DroppedIs DEF k
    <3> HIDE DEF k
    <3> QED
      BY <2>1, <3>1
  <2>4. d = [c EXCEPT !.tail = rest, !.truncated = @ \/ k > 0]
    <3>1. d = ToTail(c, record, cap)
      BY <1>6, Zenon DEF Add
    <3> HIDE DEF d
    <3> QED
      BY <3>1, Zenon DEF ToTail
  <2> HIDE DEF d, tail, k, all
  <2>5. /\ rest \in Seq(Text) /\ Len(rest) = t + 1 - k
        /\ \A i \in 1..(t + 1 - k) : rest[i] = tail[k + i]
    <3>1. Len(tail) \in Nat /\ k \in 0..Len(tail) /\ Len(tail) - k = t + 1 - k
      BY <1>1, <2>1, <2>3
    <3>2. SubSeq(tail, k + 1, Len(tail)) \in Seq(Text)
          /\ Len(SubSeq(tail, k + 1, Len(tail))) = Len(tail) - k
          /\ \A i \in 1..(Len(tail) - k) : SubSeq(tail, k + 1, Len(tail))[i] = tail[k + i]
      BY <2>1, <3>1
    <3> QED
      BY <3>1, <3>2
  <2> HIDE DEF rest
  <2>6. d.head = c.head /\ d.tail = rest /\ (d.truncated <=> c.truncated \/ k > 0) /\ d \in Captures
    BY <1>0, <2>4, <2>5 DEF Captures
  <2>7. Bytes(rest) \in Nat /\ Retained(d) = Bytes(c.head) + Bytes(rest)
    BY <2>5, <2>6, BytesOf DEF Retained
  <2>8. Retained(d) <= cap
    <3>1. CASE k = t + 1
      <4>1. rest = <<>>
        BY <1>1, <2>5, <3>1, EmptySeq
      <4> QED
        BY <1>2, <1>4, <2>7, <4>1, BytesNone
    <3> QED
      BY <2>3, <2>7, <3>1
  <2>9. ASSUME NEW i \in 1..Len(rest) PROVE rest[i] = all[(n + 1) - Len(rest) + i]
    <3>1. i \in 1..(t + 1 - k) /\ k + i \in 1..(t + 1) /\ n - t + (k + i) = (n + 1) - Len(rest) + i
      BY <1>1, <2>3, <2>5
    <3> QED
      BY <2>1, <2>5, <3>1
  <2>10. h + Len(rest) < n + 1 => Retained(d) + Len(all[(n + 1) - Len(rest)]) > cap
    <3>1. CASE k > 0
      <4>1. k \in 1..Len(tail) /\ n - t + k = (n + 1) - Len(rest)
        BY <1>1, <2>1, <2>3, <2>5, <3>1, SMTT(30)
      <4>2. Bytes(SubSeq(tail, k, Len(tail))) = Len(tail[k]) + Bytes(rest)
        BY <2>1, <4>1, BytesWithout DEF rest
      <4>3. tail[k] = all[(n + 1) - Len(rest)] /\ Len(tail[k]) \in Nat
        <5>1. tail[k] \in Text
          BY <2>1, <4>1, ElementOfSeq
        <5> QED
          BY <2>1, <4>1, <5>1, TextIs
      <4> QED
        BY <1>4, <2>3, <2>7, <3>1, <4>2, <4>3
    <3>2. CASE ~(k > 0)
      <4>1. k = 0 /\ Len(rest) = t + 1 /\ (n + 1) - Len(rest) = n - t
        BY <1>1, <2>3, <2>5, <3>2
      <4>2. rest = tail
        BY <2>1, <4>1 DEF rest
      <4>3. Retained(d) = Retained(c) + Len(record)
        BY <1>4, <2>2, <2>7, <4>2
      <4>4. ASSUME h + t < n
            PROVE  all[n - t] = records[n - t] /\ Len(records[n - t]) \in Nat
        <5>1. n - t \in 1..n
          BY <1>1, <4>4
        <5>2. records[n - t] \in Text
          BY <5>1, ElementOfSeq DEF n
        <5> QED
          BY <1>3, <5>1, <5>2, TextIs
      <4>5. h + Len(rest) < n + 1 <=> h + t < n
        BY <1>1, <4>1
      <4> QED
        BY <1>2, <1>4, <4>1, <4>3, <4>4, <4>5
    <3> QED
      BY <3>1, <3>2
  <2>11. /\ h + Len(rest) <= n + 1
         /\ d.truncated <=> h + Len(rest) < n + 1
    BY <1>1, <1>2, <2>3, <2>5, <2>6
  <2>12. \A i \in 1..h : c.head[i] = all[i]
    <3>1. \A i \in 1..h : i \in 1..n
      BY <1>1, <1>2
    <3> QED
      BY <1>2, <1>3, <3>1
  <2>13. HeadAndTail(d, all, cap)
    <3>1. /\ Len(d.head) + Len(d.tail) <= Len(all)
          /\ \A i \in 1..Len(d.head) : d.head[i] = all[i]
          /\ \A i \in 1..Len(d.tail) : d.tail[i] = all[Len(all) - Len(d.tail) + i]
          /\ d.truncated <=> Len(d.head) + Len(d.tail) < Len(all)
          /\ Len(d.head) + Len(d.tail) < Len(all) =>
               Retained(d) + Len(all[Len(all) - Len(d.tail)]) > cap
      BY <1>3, <2>6, <2>9, <2>10, <2>11, <2>12 DEF h
    <3> QED
      BY <1>3, <2>6, <2>8, <3>1, HeadAndTailIs
  <2> QED
    BY <2>6, <2>13 DEF d, all
<1> QED
  BY <1>5, <1>6

LEMMA HeadAndTailOfNone ==
  ASSUME NEW cap \in Nat
  PROVE  Empty \in Captures /\ HeadAndTail(Empty, <<>>, cap)
<1>1. Empty \in Captures /\ <<>> \in Seq(Text)
  BY DEF Empty, Captures
<1>2. Retained(Empty) = 0
  BY BytesNone DEF Retained, Empty
<1>3. Empty.head = <<>> /\ Empty.tail = <<>> /\ Empty.truncated = FALSE
  BY DEF Empty
<1> HIDE DEF Empty
<1> QED
  <2>1. /\ Len(Empty.head) + Len(Empty.tail) <= Len(<<>>)
        /\ \A i \in 1..Len(Empty.head) : Empty.head[i] = <<>>[i]
        /\ \A i \in 1..Len(Empty.tail) : Empty.tail[i] = <<>>[Len(<<>>) - Len(Empty.tail) + i]
        /\ ~(Len(Empty.head) + Len(Empty.tail) < Len(<<>>))
    BY <1>3
  <2>2. Retained(Empty) <= cap
    BY <1>2
  <2> QED
    BY <1>1, <1>3, <2>1, <2>2, HeadAndTailIs

LEMMA AddKeepsText ==
  ASSUME NEW c \in Captures, NEW record \in Text, NEW cap \in Nat,
         ~Add(c, record, cap).truncated
  PROVE  /\ ~c.truncated
         /\ LET d == Add(c, record, cap)
            IN  FlattenSeq(d.head \o d.tail) = FlattenSeq(c.head \o c.tail) \o record
<1> DEFINE d == Add(c, record, cap)
<1>0. c.head \in Seq(Text) /\ c.tail \in Seq(Text) /\ c.truncated \in BOOLEAN
      /\ c = [head |-> c.head, tail |-> c.tail, truncated |-> c.truncated]
  BY DEF Captures
<1>1. c.head \o c.tail \in Seq(Text)
  BY <1>0
<1>2. FlattenSeq(Append(c.head \o c.tail, record)) = FlattenSeq(c.head \o c.tail) \o record
  BY <1>1, FlattenAppend, TextIs
<1>3. d.head \o d.tail = Append(c.head \o c.tail, record) /\ ~c.truncated
  <2>1. CASE FitsHead(c, record, cap)
    <3>1. ~c.truncated /\ c.tail = <<>>
      BY <2>1 DEF FitsHead
    <3>2. d = [c EXCEPT !.head = Append(c.head, record)]
      BY <2>1, Zenon DEF Add
    <3> HIDE DEF d
    <3>3. d.head = Append(c.head, record) /\ d.tail = <<>>
      BY <1>0, <3>1, <3>2
    <3>4. Append(c.head, record) \in Seq(Text)
      BY <1>0, AppendProperties
    <3>5. Append(c.head, record) \o <<>> = Append(c.head, record) /\ c.head \o <<>> = c.head
      BY <1>0, <3>4, ConcatEmptySeq
    <3> QED
      BY <3>1, <3>3, <3>5
  <2>2. CASE ~FitsHead(c, record, cap)
    <3> DEFINE tail == Append(c.tail, record)
               k == Dropped(c.head, tail, cap)
               rest == SubSeq(tail, k + 1, Len(tail))
    <3>1. d = [c EXCEPT !.tail = rest, !.truncated = @ \/ k > 0]
      <4>1. d = ToTail(c, record, cap)
        BY <2>2, Zenon DEF Add
      <4> HIDE DEF d
      <4> QED
        BY <4>1, Zenon DEF ToTail
    <3>2. tail \in Seq(Text) /\ Len(tail) \in Nat
      BY <1>0, AppendProperties
    <3>3. k \in 0..Len(tail)
      <4> HIDE DEF k, tail
      <4> QED
        BY <1>0, <3>2, DroppedIs DEF k
    <3>4. ~d.truncated
      OBVIOUS
    <3> HIDE DEF d, k, rest, tail
    <3>5. d.head = c.head /\ d.tail = rest /\ (d.truncated <=> c.truncated \/ k > 0)
      BY <1>0, <3>1
    <3>6. ~c.truncated /\ k = 0
      BY <3>2, <3>3, <3>4, <3>5
    <3>7. rest = tail
      BY <3>2, <3>6, SubSeqFull DEF rest
    <3>8. c.head \o tail = Append(c.head \o c.tail, record)
      BY <1>0 DEF tail
    <3> QED
      BY <3>5, <3>6, <3>7, <3>8
  <2> QED
    BY <2>1, <2>2
<1> HIDE DEF d
<1> QED
  BY <1>2, <1>3 DEF d

-----------------------------------------------------------------------------
(* Every record that was delivered is one of what was written; rest is     *)
(* what the assembler has of the next.                                     *)
Intact(s, text) ==
  ~capture[s].truncated /\ ~lineCut => FlattenSeq(capture[s].head \o capture[s].tail) = text

Delivered(s, done) ==
  /\ HeadAndTail(capture[s], RecordsOf(done, Cap[s]), Cap[s])
  /\ s = "out" => Intact(s, done)

WholeRecords(done) == done = <<>> \/ Last(done) = Sep

Read(s, done, rest) ==
  /\ written[s] = (done \o rest) \o (pump[s].chunk \o pipe[s])
  /\ WholeRecords(done)
  /\ SepAt(rest) = {}
  /\ pump[s].asm = Assembled(rest, Cap[s])
  /\ Delivered(s, done)

Captured(s) ==
  /\ Reading(s) => \E done, rest \in Text : Read(s, done, rest)
  /\ pump[s].state = "done" => Delivered(s, written[s])

Asm == [pending : Text, over : BOOLEAN]
PumpThread == [state : PumpStates, chunk : Text, asm : Asm]

StreamTyped ==
  /\ pipe \in [Streams -> Text] /\ written \in [Streams -> Text]
  /\ pump \in [Streams -> PumpThread]
  /\ capture \in [Streams -> Captures]
  /\ lineCut \in BOOLEAN

LEMMA DeliveredNext ==
  ASSUME StreamTyped, NEW s \in Streams, NEW done \in Text, NEW piece \in Text,
         WholeRecords(done), piece # <<>>, \A i \in 1..(Len(piece) - 1) : piece[i] # Sep,
         Delivered(s, done), Deliver(s, Bounded(piece, Cap[s]))
  PROVE  /\ Delivered(s, done \o piece)'
         /\ capture' \in [Streams -> Captures] /\ lineCut' \in BOOLEAN
<1> DEFINE cap == Cap[s]
           record == Bounded(piece, cap)
           c == capture[s]
           d == Add(c, record, cap)
<1>1. cap \in Nat /\ cap >= MarkerBytes
  BY RuntimeAssumption
<1>2. /\ c \in Captures /\ capture' = [capture EXCEPT ![s] = d] /\ capture'[s] = d
      /\ s = "out" => (lineCut' <=> lineCut \/ IsLossMarker(record))
      /\ s # "out" => lineCut' = lineCut
  BY DEF StreamTyped, Deliver
<1> HIDE DEF c, cap
<1>3. record \in Text /\ (Len(piece) > cap => IsLossMarker(record))
      /\ (Len(piece) <= cap => record = piece)
  BY <1>1, BoundedIs
<1> HIDE DEF record
<1>4. RecordsOf(done, cap) \in Seq(Text)
  BY <1>1, RecordsTyped
<1>5. RecordsOf(done \o piece, cap) = Append(RecordsOf(done, cap), record)
  BY <1>1, RecordsExtend DEF WholeRecords, record
<1>6. d \in Captures /\ HeadAndTail(d, Append(RecordsOf(done, cap), record), cap)
  BY <1>1, <1>2, <1>3, <1>4, AddKeepsHeadAndTail DEF Delivered, c, cap
<1>7. ASSUME s = "out", ~d.truncated, ~lineCut'
      PROVE  FlattenSeq(d.head \o d.tail) = done \o piece
  <2>1. ~lineCut /\ record = piece
    <3>1. Len(piece) \in Nat
      BY TextIs
    <3> QED
      BY <1>1, <1>2, <1>3, <1>7, <3>1
  <2>2. ~c.truncated /\ FlattenSeq(d.head \o d.tail) = FlattenSeq(c.head \o c.tail) \o record
    BY <1>1, <1>2, <1>3, <1>7, AddKeepsText
  <2>3. FlattenSeq(c.head \o c.tail) = done
    BY <1>7, <2>1, <2>2 DEF Delivered, Intact, c
  <2> QED
    BY <2>1, <2>2, <2>3
<1> HIDE DEF d
<1>8. Delivered(s, done \o piece)'
  BY <1>2, <1>5, <1>6, <1>7 DEF Delivered, Intact, cap
<1>9. capture' \in [Streams -> Captures] /\ lineCut' \in BOOLEAN
  BY <1>2, <1>6 DEF StreamTyped, Deliver
<1> QED
  BY <1>8, <1>9

LEMMA SetPump ==
  ASSUME StreamTyped, NEW s \in Streams, NEW new \in PumpThread, pump' = [pump EXCEPT ![s] = new]
  PROVE  /\ pump'[s] = new /\ pump' \in [Streams -> PumpThread]
         /\ \A r \in Streams \ {s} : pump'[r] = pump[r]
  BY DEF StreamTyped

LEMMA TextAssoc ==
  ASSUME NEW a \in Text, NEW b \in Text, NEW c \in Text
  PROVE  (a \o b) \o c = a \o (b \o c)
  BY TextIs, ConcatAssoc

LEMMA ConcatFour ==
  ASSUME NEW a \in Text, NEW b \in Text, NEW c \in Text, NEW d \in Text
  PROVE  (a \o (b \o c)) \o d = (a \o b) \o (c \o d)
<1>0. a \o b \in Text
  BY TextIs
<1>1. a \o (b \o c) = (a \o b) \o c
  BY TextIs, ConcatAssoc, SMTT(30)
<1>2. ((a \o b) \o c) \o d = (a \o b) \o (c \o d)
  BY <1>0, TextIs, ConcatAssoc, SMTT(30)
<1> QED
  BY <1>1, <1>2

LEMMA AssembledTyped ==
  ASSUME NEW rest \in Text, NEW cap \in Nat
  PROVE  Assembled(rest, cap) \in Asm
  BY CutRecordTyped DEF Assembled, Asm

LEMMA CapturedStays ==
  ASSUME NEW s \in Streams, Captured(s), written'[s] = written[s], pipe'[s] = pipe[s],
         pump'[s] = pump[s], capture'[s] = capture[s], s = "out" => lineCut' = lineCut
  PROVE  Captured(s)'
<1>1. ASSUME NEW done, Delivered(s, done)
      PROVE  Delivered(s, done)'
  BY <1>1 DEF Delivered, Intact
<1>2. ASSUME NEW done, NEW rest, Read(s, done, rest)
      PROVE  Read(s, done, rest)'
  BY <1>1, <1>2 DEF Read
<1>3. ASSUME pump[s].state = "done"
      PROVE  Delivered(s, written[s])'
  <2>1. Delivered(s, written[s])
    BY <1>3 DEF Captured
  <2> QED
    BY <2>1 DEF Delivered, Intact
<1> QED
  BY <1>2, <1>3 DEF Captured, Reading

(* The pump of a stream, in parts.                                         *)
LEMMA PumpParts ==
  ASSUME StreamTyped, NEW s \in Streams
  PROVE  /\ pump[s].chunk \in Text /\ pump[s].state \in PumpStates
         /\ pump[s].asm \in Asm /\ pump[s].asm.pending \in Text /\ pump[s].asm.over \in BOOLEAN
         /\ pump[s] = [state |-> pump[s].state, chunk |-> pump[s].chunk, asm |-> pump[s].asm]
         /\ pump = [r \in Streams |-> pump[r]] /\ pipe = [r \in Streams |-> pipe[r]]
         /\ pipe[s] \in Text /\ written[s] \in Text /\ Cap[s] \in Nat /\ Cap[s] >= MarkerBytes
  BY RuntimeAssumption DEF StreamTyped, PumpThread, Asm

LEMMA ReadChars ==
  ASSUME NEW a \in Text, NEW b \in Text, NEW k \in 0..Len(b)
  PROVE  /\ SubSeq(b, 1, k) \in Text /\ SubSeq(b, k + 1, Len(b)) \in Text
         /\ (a \o SubSeq(b, 1, k)) \o SubSeq(b, k + 1, Len(b)) = a \o b
<1> DEFINE c == SubSeq(b, 1, k)
           d == SubSeq(b, k + 1, Len(b))
<1>1. c \in Text /\ d \in Text
  BY TextIs
<1>2. c \o d = b
  <2>1. Len(b) \in Nat /\ 1 \in 1..(Len(b) + 1) /\ k \in (1 - 1)..Len(b) /\ Len(b) \in k..Len(b)
    BY TextIs
  <2>2. c \o d = SubSeq(b, 1, Len(b))
    BY <2>1, TextIs, ConcatAdjacentSubSeq
  <2> QED
    BY <2>2, TextIs, SubSeqFull
<1> HIDE DEF c, d
<1>3. (a \o c) \o d = a \o (c \o d)
  BY <1>1, TextIs, ConcatAssoc
<1> QED
  BY <1>1, <1>2, <1>3 DEF c, d

LEMMA FillCaptures ==
  ASSUME StreamTyped, NEW s \in Streams, Captured(s), Fill(s)
  PROVE  StreamTyped' /\ Captured(s)'
<1> DEFINE p == pump[s]
           k == Min({Len(pipe[s]), ChunkSize - Len(p.chunk)})
           chunk == p.chunk \o SubSeq(pipe[s], 1, k)
           state == IF Len(chunk) = ChunkSize THEN "splitting" ELSE p.state
           left == SubSeq(pipe[s], k + 1, Len(pipe[s]))
<1>0. p.chunk \in Text /\ p.asm \in Asm /\ pipe[s] \in Text
  BY PumpParts
<1>1. /\ p.state = "filling" /\ k > 0
      /\ pump' = [pump EXCEPT ![s].chunk = chunk, ![s].state = state]
      /\ pipe' = [pipe EXCEPT ![s] = left]
      /\ UNCHANGED <<written, capture, lineCut>>
  BY DEF Fill
<1>2. k \in 0..Len(pipe[s])
  <2> DEFINE x == Len(pipe[s])
             y == ChunkSize - Len(p.chunk)
  <2>1. x \in Nat /\ y \in Int
    BY <1>0, RuntimeAssumption, TextIs, SMTT(30)
  <2>2. k > 0 /\ k = Min({x, y})
    BY <1>1
  <2> HIDE DEF x, y, k
  <2>3. Min({x, y}) = IF x <= y THEN x ELSE y
    BY <2>1, MinOfTwo
  <2>4. k \in 0..x
    BY <2>1, <2>2, <2>3
  <2> QED
    BY <2>4 DEF x
<1> HIDE DEF p, k
<1>3. chunk \in Text /\ left \in Text /\ chunk \o left = p.chunk \o pipe[s]
  <2>1. SubSeq(pipe[s], 1, k) \in Text
    BY <1>0, <1>2, ReadChars
  <2>2. chunk \in Text
    BY <1>0, <2>1, TextIs
  <2> QED
    BY <1>0, <1>2, <2>2, ReadChars
<1>4. state \in {"filling", "splitting"}
  BY <1>1
<1>5. pump \in [Streams -> PumpThread] /\ state \in PumpStates
  BY <1>4 DEF StreamTyped, PumpStates
<1> HIDE DEF chunk, state, left
<1>6. /\ pump' \in [Streams -> PumpThread] /\ \A r \in Streams \ {s} : pump'[r] = pump[r]
      /\ pump'[s].state = state /\ pump'[s].chunk = chunk /\ pump'[s].asm = p.asm
  <2>1. pump[s] \in PumpThread /\ pump' = [pump EXCEPT ![s] = pump'[s]]
    BY <1>1, <1>3, <1>5
  <2>2. pump'[s] = [[pump[s] EXCEPT !.chunk = chunk] EXCEPT !.state = state]
    BY <1>1, <1>3, <1>5
  <2>3. [pump[s] EXCEPT !.chunk = chunk] \in PumpThread
    BY <2>1, <1>1, <1>3, <1>5 DEF PumpThread
  <2>4. /\ pump'[s] \in PumpThread /\ pump'[s].state = state /\ pump'[s].chunk = chunk
        /\ pump'[s].asm = p.asm
    BY <2>1, <2>2, <1>3, <1>5 DEF PumpThread, p
  <2> QED
    BY <1>5, <2>1, <2>4 DEF p
<1>7. pipe'[s] = left /\ StreamTyped'
  BY <1>1, <1>3, <1>6 DEF StreamTyped
<1>8. PICK done \in Text, rest \in Text : Read(s, done, rest)
  BY <1>1 DEF Captured, Reading, p
<1>9. Read(s, done, rest)'
  <2>1. pump'[s].chunk \o pipe'[s] = pump[s].chunk \o pipe[s] /\ pump'[s].asm = pump[s].asm
    BY <1>3, <1>6, <1>7 DEF p
  <2>2. Delivered(s, done)'
    BY <1>1, <1>8 DEF Read, Delivered, Intact
  <2>3. written' = written
    BY <1>1
  <2> QED
    BY <1>8, <2>1, <2>2, <2>3 DEF Read
<1> QED
  BY <1>4, <1>6, <1>7, <1>9 DEF Captured, Reading

LEMMA LastChunkCaptures ==
  ASSUME StreamTyped, NEW s \in Streams, Captured(s), LastChunk(s)
  PROVE  StreamTyped' /\ Captured(s)'
<1>1. /\ pump[s].state = "filling" /\ UNCHANGED <<written, pipe, capture, lineCut>>
      /\ pump' = [pump EXCEPT ![s].state = "splitting"]
  BY DEF LastChunk
<1>2. pump \in [Streams -> PumpThread] /\ "splitting" \in PumpStates
  BY DEF StreamTyped, PumpStates
<1>3. /\ pump' \in [Streams -> PumpThread] /\ \A r \in Streams \ {s} : pump'[r] = pump[r]
      /\ pump'[s].state = "splitting" /\ pump'[s].chunk = pump[s].chunk
      /\ pump'[s].asm = pump[s].asm
  <2>1. pump[s] \in PumpThread
    BY <1>2
  <2> QED
    BY <1>1, <1>2, <2>1 DEF PumpThread
<1>4. StreamTyped'
  BY <1>1, <1>3 DEF StreamTyped
<1>5. PICK done \in Text, rest \in Text : Read(s, done, rest)
  BY <1>1 DEF Captured, Reading
<1>6. Read(s, done, rest)'
  <2>1. Delivered(s, done)'
    BY <1>1, <1>5 DEF Read, Delivered, Intact
  <2> QED
    BY <1>1, <1>3, <1>5, <2>1 DEF Read
<1> QED
  BY <1>3, <1>4, <1>6 DEF Captured, Reading

LEMMA PumpFailsCaptures ==
  ASSUME StreamTyped, NEW s \in Streams, PumpFails(s)
  PROVE  StreamTyped' /\ Captured(s)'
<1> DEFINE new == [state |-> "failed", chunk |-> <<>>, asm |-> NoRecord]
<1>1. /\ UNCHANGED <<written, pipe, capture, lineCut>>
      /\ pump' = [pump EXCEPT ![s] = new]
  BY DEF PumpFails
<1>2. new \in PumpThread
  BY TextIs DEF PumpThread, PumpStates, Asm, NoRecord
<1>3. pump'[s] = new /\ pump' \in [Streams -> PumpThread]
  BY <1>1, <1>2, SetPump
<1>4. StreamTyped'
  BY <1>1, <1>3 DEF StreamTyped
<1> QED
  BY <1>3, <1>4 DEF Captured, Reading

LEMMA NoSepAcross ==
  ASSUME NEW a \in Text, NEW b \in Text, SepAt(a) = {}, SepAt(b) = {}
  PROVE  SepAt(a \o b) = {}
<1>1. /\ \A i \in 1..Len(a) : a[i] # Sep
      /\ \A i \in 1..Len(b) : b[i] # Sep
  BY NoSepIn
<1>2. /\ Len(a) \in Nat /\ Len(b) \in Nat /\ DOMAIN (a \o b) = 1..(Len(a) + Len(b))
      /\ \A i \in 1..Len(a) : (a \o b)[i] = a[i]
      /\ \A i \in 1..Len(b) : (a \o b)[Len(a) + i] = b[i]
  BY TextIs
<1>3. ASSUME NEW i \in 1..(Len(a) + Len(b)), (a \o b)[i] = Sep
      PROVE  FALSE
  <2>1. CASE i \in 1..Len(a)
    BY <1>1, <1>2, <1>3, <2>1
  <2>2. CASE i - Len(a) \in 1..Len(b)
    <3>1. Len(a) + (i - Len(a)) = i
      BY <1>2
    <3> QED
      BY <1>1, <1>2, <1>3, <2>2, <3>1
  <2> QED
    BY <1>2, <2>1, <2>2
<1> QED
  BY <1>2, <1>3 DEF SepAt

LEMMA SplitRestCaptures ==
  ASSUME StreamTyped, NEW s \in Streams, Captured(s), SplitRest(s)
  PROVE  StreamTyped' /\ Captured(s)'
<1> DEFINE chunk == pump[s].chunk
           asm == Absorb(pump[s].asm, chunk, Cap[s])
           new == [state |-> "filling", chunk |-> <<>>, asm |-> asm]
<1>0. chunk \in Text /\ pipe[s] \in Text /\ Cap[s] \in Nat /\ Cap[s] >= MarkerBytes
  BY PumpParts
<1>1. /\ pump[s].state = "splitting" /\ SepAt(chunk) = {}
      /\ UNCHANGED <<written, pipe, capture, lineCut>>
      /\ pump' = [pump EXCEPT ![s] = new]
  BY DEF SplitRest
<1>2. PICK done \in Text, rest \in Text : Read(s, done, rest)
  BY <1>1 DEF Captured, Reading
<1> HIDE DEF chunk
<1>3. PICK more \in Text : more = rest \o chunk
  <2>1. rest \o chunk \in Text
    BY <1>0, TextIs
  <2> QED
    BY <2>1
<1>4. asm = Assembled(more, Cap[s])
  BY <1>0, <1>2, <1>3, AbsorbIs DEF Read
<1> HIDE DEF asm
<1>5. new \in PumpThread
  <2>1. asm \in Asm
    BY <1>0, <1>4, AssembledTyped
  <2> QED
    BY <2>1, TextIs DEF PumpThread, PumpStates
<1>6. pump'[s] = new /\ pump' \in [Streams -> PumpThread]
  BY <1>1, <1>5, SetPump
<1>7. StreamTyped'
  BY <1>1, <1>6 DEF StreamTyped
<1>8. Read(s, done, more)'
  <2>1. SepAt(more) = {}
    BY <1>0, <1>1, <1>2, <1>3, NoSepAcross DEF Read
  <2>2. Delivered(s, done)'
    BY <1>1, <1>2 DEF Read, Delivered, Intact
  <2>3. written[s] = (done \o more) \o (<<>> \o pipe[s])
    <3>1. written[s] = (done \o rest) \o (chunk \o pipe[s])
      BY <1>2 DEF Read, chunk
    <3>2. \A c, d \in Text : (done \o (rest \o c)) \o d = (done \o rest) \o (c \o d)
      BY ConcatFour
    <3>4. (done \o (rest \o chunk)) \o pipe[s] = (done \o rest) \o (chunk \o pipe[s])
      BY <1>0, <3>2, Zenon
    <3>3. <<>> \o pipe[s] = pipe[s]
      BY <1>0, TextIs, ConcatEmptySeq
    <3> QED
      BY <1>3, <3>1, <3>3, <3>4, Zenon
  <2>4. pump'[s].chunk = <<>> /\ pump'[s].asm = Assembled(more, Cap[s])
    BY <1>4, <1>6
  <2>5. written'[s] = written[s] /\ pipe'[s] = pipe[s] /\ WholeRecords(done)
    BY <1>1, <1>2 DEF Read
  <2>6. written'[s] = (done \o more) \o (pump'[s].chunk \o pipe'[s])
    BY <2>3, <2>4, <2>5, Zenon
  <2> QED
    BY <2>1, <2>2, <2>4, <2>5, <2>6 DEF Read
<1>9. pump'[s].state = "filling"
  BY <1>6
<1>10. Captured(s)'
  BY <1>8, <1>9 DEF Captured, Reading
<1> QED
  BY <1>7, <1>10

LEMMA TextJoins ==
  ASSUME NEW a \in Text, NEW b \in Text
  PROVE  /\ \E c \in Text : c = a \o b
         /\ Len(a) \in Nat /\ Len(b) \in Nat /\ Len(a \o b) = Len(a) + Len(b)
         /\ \A i \in 1..Len(a) : (a \o b)[i] = a[i]
         /\ \A i \in 1..Len(b) : (a \o b)[Len(a) + i] = b[i]
         /\ a \o <<>> = a
<1>1. a \o b \in Text
  BY TextIs
<1>2. a \in Seq(Alphabet) /\ b \in Seq(Alphabet)
  BY TextIs
<1>3. /\ Len(a) \in Nat /\ Len(b) \in Nat /\ Len(a \o b) = Len(a) + Len(b)
      /\ \A i \in 1..Len(a) : (a \o b)[i] = a[i]
      /\ \A i \in 1..Len(b) : (a \o b)[Len(a) + i] = b[i]
  BY <1>2
<1>4. a \o <<>> = a
  BY <1>2, ConcatEmptySeq
<1> QED
  BY <1>1, <1>3, <1>4

LEMMA TextParts ==
  ASSUME NEW a \in Text, NEW k \in 0..Len(a)
  PROVE  /\ \E c, d \in Text : c = SubSeq(a, 1, k) /\ d = SubSeq(a, k + 1, Len(a)) /\ a = c \o d
         /\ Len(SubSeq(a, 1, k)) = k
         /\ \A i \in 1..k : SubSeq(a, 1, k)[i] = a[i]
<1>1. <<>> \in Text /\ SubSeq(a, 1, k) \in Text /\ SubSeq(a, k + 1, Len(a)) \in Text
  BY TextIs
<1>2. (<<>> \o SubSeq(a, 1, k)) \o SubSeq(a, k + 1, Len(a)) = <<>> \o a
  BY <1>1, ReadChars
<1>3. <<>> \o SubSeq(a, 1, k) = SubSeq(a, 1, k) /\ <<>> \o a = a
  BY <1>1, TextIs, ConcatEmptySeq
<1>4. a = SubSeq(a, 1, k) \o SubSeq(a, k + 1, Len(a))
  BY <1>2, <1>3, Zenon
<1>5. Len(SubSeq(a, 1, k)) = k /\ \A i \in 1..k : SubSeq(a, 1, k)[i] = a[i]
  BY TextIs
<1> QED
  BY <1>1, <1>4, <1>5

LEMMA AppendAcross ==
  ASSUME NEW a \in Text, NEW b \in Text, NEW x \in Alphabet
  PROVE  a \o Append(b, x) = Append(a \o b, x) /\ Append(b, x) \in Text
  BY TextIs

LEMMA WriteCaptures ==
  ASSUME StreamTyped, NEW s \in Streams, Captured(s), Write(s), pump[s].state # "done"
  PROVE  StreamTyped' /\ Captured(s)'
<1>0. pump[s].chunk \in Text /\ pipe[s] \in Text /\ written[s] \in Text
  BY PumpParts
<1>1. PICK x \in Alphabet : /\ pipe' = [pipe EXCEPT ![s] = Append(@, x)]
                            /\ written' = [written EXCEPT ![s] = Append(@, x)]
  BY DEF Write, Alphabet
<1>2. UNCHANGED <<pump, capture, lineCut>>
  BY DEF Write
<1>3. Append(pipe[s], x) \in Text /\ Append(written[s], x) \in Text
  BY <1>0, TextIs
<1>4. /\ pipe'[s] = Append(pipe[s], x) /\ written'[s] = Append(written[s], x)
      /\ StreamTyped'
  BY <1>1, <1>2, <1>3 DEF StreamTyped
<1>5. ASSUME Reading(s)
      PROVE  \E done, rest \in Text : Read(s, done, rest)'
  <2>1. PICK done \in Text, rest \in Text : Read(s, done, rest)
    BY <1>5 DEF Captured
  <2>2. Delivered(s, done)'
    BY <1>2, <2>1 DEF Read, Delivered, Intact
  <2>3. written'[s] = (done \o rest) \o (pump'[s].chunk \o pipe'[s])
    <3>1. PICK a \in Text : a = pump[s].chunk
      BY <1>0
    <3>2. PICK b \in Text : b = pipe[s]
      BY <1>0
    <3>3. PICK c \in Text : c = done \o rest
      BY TextJoins
    <3>4. a \o b \in Text
      BY TextIs
    <3>5. c \o (a \o Append(b, x)) = Append(c \o (a \o b), x)
      <4>1. a \o Append(b, x) = Append(a \o b, x)
        BY AppendAcross
      <4>2. c \o Append(a \o b, x) = Append(c \o (a \o b), x)
        BY <3>4, AppendAcross
      <4> QED
        BY <4>1, <4>2, Zenon
    <3>6. written[s] = c \o (a \o b)
      BY <2>1, <3>1, <3>2, <3>3 DEF Read
    <3>7. pump'[s].chunk = a /\ pipe'[s] = Append(b, x)
      BY <1>2, <1>4, <3>1, <3>2
    <3> QED
      BY <1>4, <3>3, <3>5, <3>6, <3>7, Zenon
  <2> QED
    BY <1>2, <2>1, <2>2, <2>3 DEF Read
<1>6. ~(pump'[s].state = "done") /\ (Reading(s)' <=> Reading(s))
  BY <1>2 DEF Reading
<1> QED
  BY <1>4, <1>5, <1>6 DEF Captured

LEMMA NoneAssembled ==
  ASSUME NEW cap \in Nat
  PROVE  NoRecord = Assembled(<<>>, cap) /\ SepAt(<<>>) = {}
<1>1. (0 > cap) = FALSE /\ Len(<<>>) = 0
  OBVIOUS
<1>2. NoRecord = Assembled(<<>>, cap)
  BY <1>1 DEF NoRecord, Assembled
<1> QED
  BY <1>2 DEF SepAt

LEMMA SplitRecordCaptures ==
  ASSUME StreamTyped, NEW s \in Streams, Captured(s), SplitRecord(s)
  PROVE  StreamTyped' /\ Captured(s)'
<1>0. /\ pump[s].chunk \in Text /\ pipe[s] \in Text /\ written[s] \in Text
      /\ Cap[s] \in Nat /\ Cap[s] >= MarkerBytes
  BY PumpParts
<1>1. PICK chunk \in Text : chunk = pump[s].chunk
  BY <1>0
<1>2. PICK i : i = Min(SepAt(chunk))
  OBVIOUS
<1>3. /\ pump[s].state = "splitting" /\ SepAt(chunk) # {} /\ UNCHANGED <<written, pipe>>
      /\ Deliver(s, Completed(pump[s].asm, chunk, i, Cap[s]))
      /\ pump' = [pump EXCEPT ![s].chunk = SubSeq(chunk, i + 1, Len(chunk)), ![s].asm = NoRecord]
  BY <1>1, <1>2 DEF SplitRecord
<1>4. i \in 1..Len(chunk) /\ chunk[i] = Sep /\ \A j \in 1..(i - 1) : chunk[j] # Sep
  BY <1>2, <1>3, FirstSep
<1>5. i \in 0..Len(chunk)
  BY <1>4
<1>6. PICK begun \in Text, left \in Text :
        /\ begun = SubSeq(chunk, 1, i) /\ left = SubSeq(chunk, i + 1, Len(chunk))
        /\ chunk = begun \o left
  BY <1>5, TextParts
<1>7. Len(begun) = i /\ \A j \in 1..i : begun[j] = chunk[j]
  BY <1>5, <1>6, TextParts
<1>8. chunk = begun \o left
  BY <1>6
<1>9. PICK done \in Text, rest \in Text : Read(s, done, rest)
  BY <1>3 DEF Captured, Reading
<1>10. PICK piece \in Text : piece = rest \o begun
  BY TextJoins
<1>11. /\ Len(rest) \in Nat /\ Len(piece) = Len(rest) + i /\ i \in Nat \ {0}
       /\ \A j \in 1..Len(rest) : piece[j] = rest[j]
       /\ \A j \in 1..i : piece[Len(rest) + j] = begun[j]
  <2>1. Len(chunk) \in Nat /\ i \in Nat \ {0}
    BY <1>4, TextIs
  <2> QED
    BY <1>7, <1>10, <2>1, TextJoins, ZenonT(40)
<1>12. piece # <<>> /\ piece[Len(piece)] = Sep
  <2>1. piece[Len(rest) + i] = begun[i] /\ begun[i] = chunk[i]
    BY <1>7, <1>11
  <2> QED
    BY <1>4, <1>11, <2>1
<1>13. \A j \in 1..(Len(piece) - 1) : piece[j] # Sep
  <2> TAKE j \in 1..(Len(piece) - 1)
  <2>1. CASE j \in 1..Len(rest)
    BY <1>9, <1>11, <2>1, NoSepIn DEF Read
  <2>2. CASE j \notin 1..Len(rest)
    <3>1. PICK k \in 1..(i - 1) : j = Len(rest) + k
      <4>1. j - Len(rest) \in 1..(i - 1) /\ Len(rest) + (j - Len(rest)) = j
        BY <1>11, <2>2
      <4> QED
        BY <4>1
    <3>2. k \in 1..i
      BY <1>11
    <3>3. piece[j] = chunk[k]
      BY <1>7, <1>11, <3>1, <3>2
    <3> QED
      BY <1>4, <3>3
  <2> QED
    BY <2>1, <2>2
<1>14. Completed(pump[s].asm, chunk, i, Cap[s]) = Bounded(piece, Cap[s])
  <2>1. begun # <<>>
    BY <1>7, <1>11
  <2>2. Completed(Assembled(rest, Cap[s]), chunk, i, Cap[s])
          = Bounded(rest \o SubSeq(chunk, 1, i), Cap[s])
    <3>1. SubSeq(chunk, 1, i) \in Text /\ SubSeq(chunk, 1, i) # <<>>
      BY <1>6, <2>1
    <3> QED
      BY <1>0, <3>1, CompletedIs
  <2> QED
    BY <1>6, <1>9, <1>10, <2>2 DEF Read
<1>15. PICK whole \in Text : whole = done \o piece
  BY TextJoins
<1>16. Delivered(s, whole)' /\ capture' \in [Streams -> Captures] /\ lineCut' \in BOOLEAN
  <2>1. Deliver(s, Bounded(piece, Cap[s])) /\ Delivered(s, done) /\ WholeRecords(done)
    BY <1>3, <1>9, <1>14 DEF Read
  <2> QED
    BY <1>12, <1>13, <1>15, <2>1, DeliveredNext
<1>17. WholeRecords(whole)
  <2>1. /\ Len(done) \in Nat /\ Len(whole) = Len(done) + Len(piece) /\ Len(piece) \in Nat \ {0}
        /\ whole[Len(done) + Len(piece)] = piece[Len(piece)]
    <3>1. Len(piece) \in Nat \ {0} /\ Len(piece) \in 1..Len(piece)
      BY <1>11
    <3>2. /\ Len(done) \in Nat /\ Len(done \o piece) = Len(done) + Len(piece)
          /\ \A j \in 1..Len(piece) : (done \o piece)[Len(done) + j] = piece[j]
      BY TextJoins
    <3> QED
      BY <1>15, <3>1, <3>2
  <2> QED
    BY <1>12, <2>1 DEF WholeRecords, Last
<1>18. written[s] = (whole \o <<>>) \o (left \o pipe[s])
  <2>1. PICK b \in Text : b = pipe[s]
    BY <1>0
  <2>2. whole \o <<>> = whole
    BY TextJoins
  <2>3. PICK c \in Text : c = left \o b
    <3>1. \E c \in Text : c = left \o b
      BY TextJoins
    <3> QED
      BY <3>1
  <2>4. chunk \o b = begun \o c
    <3>1. \A x, y \in Text : (begun \o x) \o y = begun \o (x \o y)
      BY TextAssoc
    <3> QED
      BY <1>8, <2>3, <3>1, Zenon
  <2>5. (done \o (rest \o begun)) \o c = (done \o rest) \o (begun \o c)
    <3>1. \A x, y \in Text : (done \o (rest \o x)) \o y = (done \o rest) \o (x \o y)
      BY ConcatFour, ZenonT(40)
    <3> QED
      BY <3>1, Zenon
  <2>6. written[s] = (done \o rest) \o (chunk \o b)
    BY <1>1, <1>9, <2>1 DEF Read
  <2> QED
    BY <1>10, <1>15, <2>1, <2>2, <2>3, <2>4, <2>5, <2>6, Zenon
<1>19. /\ pump' \in [Streams -> PumpThread]
       /\ pump'[s].state = "splitting" /\ pump'[s].chunk = left /\ pump'[s].asm = NoRecord
  <2>1. pump[s] \in PumpThread /\ pump' = [pump EXCEPT ![s] = pump'[s]]
    BY <1>3 DEF StreamTyped
  <2>2. pump'[s] = [[pump[s] EXCEPT !.chunk = left] EXCEPT !.asm = NoRecord]
    BY <1>3, <1>6 DEF StreamTyped
  <2>3. [pump[s] EXCEPT !.chunk = left] \in PumpThread
    BY <2>1 DEF PumpThread
  <2>4. NoRecord \in Asm
    BY TextIs DEF NoRecord, Asm
  <2>5. /\ pump'[s] \in PumpThread /\ pump'[s].state = pump[s].state
        /\ pump'[s].chunk = left /\ pump'[s].asm = NoRecord
    BY <2>1, <2>2, <2>4 DEF PumpThread
  <2> QED
    BY <1>3, <2>1, <2>5 DEF StreamTyped
<1>20. StreamTyped'
  BY <1>3, <1>16, <1>19 DEF StreamTyped
<1>21. Read(s, whole, <<>>)'
  <2>1. written'[s] = (whole \o <<>>) \o (pump'[s].chunk \o pipe'[s])
    BY <1>3, <1>18, <1>19
  <2> QED
    BY <1>0, <1>16, <1>17, <1>19, <2>1, NoneAssembled DEF Read
<1>22. <<>> \in Text
  BY TextIs
<1> QED
  BY <1>19, <1>20, <1>21, <1>22 DEF Captured, Reading

LEMMA DrainCaptures ==
  ASSUME StreamTyped, NEW s \in Streams, Captured(s), Drain(s)
  PROVE  StreamTyped' /\ Captured(s)'
<1>0. /\ pump[s].chunk \in Text /\ pipe[s] \in Text /\ written[s] \in Text
      /\ Cap[s] \in Nat /\ Cap[s] >= MarkerBytes
  BY PumpParts
<1>1. /\ pump[s].state = "filling" /\ pump[s].chunk = <<>> /\ pipe[s] = <<>>
      /\ UNCHANGED <<written, pipe>>
      /\ IF pump[s].asm.pending # <<>> THEN Deliver(s, pump[s].asm.pending)
         ELSE UNCHANGED <<capture, lineCut>>
      /\ pump' = [pump EXCEPT ![s].state = "done", ![s].asm = NoRecord]
  BY DEF Drain
<1>2. PICK done \in Text, rest \in Text : Read(s, done, rest)
  BY <1>1 DEF Captured, Reading
<1>3. written[s] = done \o rest
  <2>1. PICK c \in Text : c = done \o rest
    BY TextJoins
  <2>2. c \o (<<>> \o <<>>) = c
    BY TextJoins
  <2> QED
    BY <1>1, <1>2, <2>1, <2>2 DEF Read
<1>4. /\ pump[s].asm.pending = <<>> <=> rest = <<>>
      /\ rest # <<>> => pump[s].asm.pending = Bounded(rest, Cap[s])
  <2>1. SepAt(rest) = {} /\ pump[s].asm = Assembled(rest, Cap[s])
    BY <1>2 DEF Read
  <2> QED
    BY <1>0, <1>2, <2>1, PendingIs
<1>5. PICK all \in Text : all = done \o rest
  BY TextJoins
<1>6. Delivered(s, all)' /\ capture' \in [Streams -> Captures] /\ lineCut' \in BOOLEAN
  <2>1. CASE rest = <<>>
    <3>1. all = done
      BY <1>5, <2>1, TextIs, ConcatEmptySeq
    <3>2. UNCHANGED <<capture, lineCut>>
      BY <1>1, <1>4, <2>1
    <3>3. Delivered(s, done)'
      BY <1>2, <3>2 DEF Read, Delivered, Intact
    <3> QED
      BY <3>1, <3>2, <3>3 DEF StreamTyped
  <2>2. CASE rest # <<>>
    <3>1. Deliver(s, Bounded(rest, Cap[s])) /\ Delivered(s, done) /\ WholeRecords(done)
      BY <1>1, <1>2, <1>4, <2>2 DEF Read
    <3>2. \A i \in 1..(Len(rest) - 1) : rest[i] # Sep
      <4>1. Len(rest) \in Nat /\ \A i \in 1..Len(rest) : rest[i] # Sep
        BY <1>2, NoSepIn, TextIs DEF Read
      <4> QED
        BY <4>1
    <3> QED
      BY <1>5, <2>2, <3>1, <3>2, DeliveredNext
  <2> QED
    BY <2>1, <2>2
<1>7. /\ pump' \in [Streams -> PumpThread]
      /\ pump'[s].state = "done" /\ pump'[s].chunk = <<>> /\ pump'[s].asm = NoRecord
  <2>1. pump[s] \in PumpThread /\ pump' = [pump EXCEPT ![s] = pump'[s]]
    BY <1>1 DEF StreamTyped
  <2>2. pump'[s] = [[pump[s] EXCEPT !.state = "done"] EXCEPT !.asm = NoRecord]
    BY <1>1 DEF StreamTyped
  <2>3. NoRecord \in Asm
    BY TextIs DEF NoRecord, Asm
  <2>4. /\ pump'[s] \in PumpThread /\ pump'[s].state = "done"
        /\ pump'[s].chunk = pump[s].chunk /\ pump'[s].asm = NoRecord
    BY <2>1, <2>2, <2>3 DEF PumpThread, PumpStates
  <2> QED
    BY <1>1, <2>1, <2>4 DEF StreamTyped
<1>8. StreamTyped'
  BY <1>1, <1>6, <1>7 DEF StreamTyped
<1>9. written'[s] = all
  BY <1>1, <1>3, <1>5
<1>10. ~Reading(s)' /\ Delivered(s, written[s])'
  <2>1. Delivered(s, written[s])'
    BY <1>6, <1>9 DEF Delivered, Intact
  <2> QED
    BY <1>7, <2>1 DEF Reading
<1> QED
  BY <1>8, <1>10 DEF Captured

-----------------------------------------------------------------------------
(* A step of one pump reads on, and leaves the other stream alone.         *)
LEMMA PumpStep ==
  ASSUME StreamTyped, NEW s \in Streams,
         Fill(s) \/ LastChunk(s) \/ SplitRecord(s) \/ SplitRest(s) \/ Drain(s) \/ PumpFails(s)
  PROVE  /\ UNCHANGED <<tree, written, stdin, expired, waiter, timedOut, caller, sweep>>
         /\ Reading(s)
         /\ pump'[s].state = "splitting" => Started \/ pump[s].state = "splitting"
         /\ pump'[s].state = "done" => Started /\ WriteEndClosed /\ pipe'[s] = <<>>
         /\ \A r \in Streams \ {s} : /\ pump'[r] = pump[r] /\ pipe'[r] = pipe[r]
                                     /\ capture'[r] = capture[r]
                                     /\ r = "out" => lineCut' = lineCut
<1>0. pump[s] \in PumpThread /\ pump[s].state \in PumpStates
  BY DEF StreamTyped, PumpThread
<1>1. CASE Fill(s)
  <2>1. pump'[s].state = "splitting" \/ pump'[s].state = "filling"
    BY <1>0, <1>1 DEF Fill, StreamTyped, PumpThread
  <2> QED
    BY <1>1, <2>1 DEF Fill, StreamTyped, Reading, tree
<1>2. CASE LastChunk(s)
  <2>1. pump'[s].state = "splitting"
    BY <1>0, <1>2 DEF LastChunk, StreamTyped, PumpThread
  <2> QED
    BY <1>2, <2>1 DEF LastChunk, StreamTyped, Reading, tree
<1>3. CASE SplitRecord(s)
  <2>1. pump'[s].state = "splitting" /\ pump[s].state = "splitting"
    BY <1>0, <1>3 DEF SplitRecord, StreamTyped, PumpThread
  <2> QED
    BY <1>3, <2>1 DEF SplitRecord, Deliver, StreamTyped, Reading, tree
<1>4. CASE SplitRest(s)
  BY <1>4 DEF SplitRest, StreamTyped, Reading, tree
<1>5. CASE Drain(s)
  <2>1. pump'[s].state = "done"
    BY <1>0, <1>5 DEF Drain, StreamTyped, PumpThread
  <2>2. \A r \in Streams \ {s} : capture'[r] = capture[r] /\ (r = "out" => lineCut' = lineCut)
    BY <1>5 DEF Drain, Deliver, StreamTyped
  <2> QED
    BY <1>5, <2>1, <2>2 DEF Drain, StreamTyped, Reading, tree
<1>6. CASE PumpFails(s)
  BY <1>6 DEF PumpFails, StreamTyped, Reading, tree
<1> QED
  BY <1>1, <1>2, <1>3, <1>4, <1>5, <1>6

LEMMA PumpCaptures ==
  ASSUME StreamTyped, \A s \in Streams : Captured(s), NEW s \in Streams,
         Fill(s) \/ LastChunk(s) \/ SplitRecord(s) \/ SplitRest(s) \/ Drain(s) \/ PumpFails(s)
  PROVE  StreamTyped' /\ \A r \in Streams : Captured(r)'
<1>1. StreamTyped' /\ Captured(s)'
  BY FillCaptures, LastChunkCaptures, SplitRecordCaptures, SplitRestCaptures, DrainCaptures,
     PumpFailsCaptures
<1>2. ASSUME NEW r \in Streams \ {s}
      PROVE  Captured(r)'
  <2>1. /\ pump'[r] = pump[r] /\ pipe'[r] = pipe[r] /\ capture'[r] = capture[r]
        /\ r = "out" => lineCut' = lineCut
    BY PumpStep
  <2>2. written'[r] = written[r]
    BY PumpStep
  <2> QED
    BY <2>1, <2>2, CapturedStays
<1> QED
  BY <1>1, <1>2

LEMMA WriteAlsoCaptures ==
  ASSUME StreamTyped, \A s \in Streams : Captured(s), NEW s \in Streams, Write(s),
         pump[s].state # "done"
  PROVE  StreamTyped' /\ \A r \in Streams : Captured(r)'
<1>1. StreamTyped' /\ Captured(s)'
  BY WriteCaptures
<1>2. ASSUME NEW r \in Streams \ {s}
      PROVE  Captured(r)'
  <2>1. /\ pump'[r] = pump[r] /\ pipe'[r] = pipe[r] /\ capture'[r] = capture[r]
        /\ lineCut' = lineCut /\ written'[r] = written[r]
    BY DEF Write, StreamTyped
  <2> QED
    BY <2>1, CapturedStays
<1> QED
  BY <1>1, <1>2

-----------------------------------------------------------------------------
(* The queue of the observer.                                              *)
WatchTyped ==
  queue \in Seq(Text) /\ queued \in Nat /\ observer \in [state : ObserverStates, item : Text]

Itemless == observer.state # "counting" => observer.item = <<>>

Counted == WatchTyped /\ Itemless /\ QueueIsCounted

LEMMA OfferCounts ==
  ASSUME Counted, NEW record \in Text, Offer(record), observer' = observer
  PROVE  Counted'
<1>1. CASE queued + Len(record) <= QueueBytes /\ Len(queue) < QueueItems
  <2>1. queue' = Append(queue, record) /\ queued' = queued + Len(record)
    BY <1>1 DEF Offer
  <2>2. /\ queue \in Seq(Text) /\ queued \in Nat /\ Len(record) \in Nat /\ Len(queue) \in Nat
        /\ observer.item \in Text /\ Len(observer.item) \in Nat /\ QueueItems \in Nat
    BY RuntimeAssumption, TextIs DEF Counted, WatchTyped
  <2>3. Bytes(queue') = Bytes(queue) + Len(record) /\ Bytes(queue) \in Nat
    BY <2>1, <2>2, BytesOf
  <2>4. queue' \in Seq(Text) /\ Len(queue') = Len(queue) + 1 /\ queued' \in Nat
    BY <2>1, <2>2, AppendProperties
  <2>5. queued = Bytes(queue) + Len(observer.item)
    BY DEF Counted, QueueIsCounted
  <2>6. QueueIsCounted'
    BY <1>1, <2>1, <2>2, <2>3, <2>4, <2>5, SMTT(30) DEF QueueIsCounted
  <2> QED
    BY <2>4, <2>6 DEF Counted, WatchTyped, Itemless
<1>2. CASE ~(queued + Len(record) <= QueueBytes /\ Len(queue) < QueueItems)
  BY <1>2 DEF Offer, Counted, WatchTyped, Itemless, QueueIsCounted
<1> QED
  BY <1>1, <1>2

LEMMA WatchStays ==
  ASSUME Counted, UNCHANGED <<queue, queued, observer>>
  PROVE  Counted'
  BY DEF Counted, WatchTyped, Itemless, QueueIsCounted

LEMMA DeliverCounts ==
  ASSUME Counted, NEW s \in Streams, NEW record \in Text, Deliver(s, record), observer' = observer
  PROVE  Counted'
  BY OfferCounts, WatchStays DEF Deliver

LEMMA CompletedTyped ==
  ASSUME StreamTyped, NEW s \in Streams, SepAt(pump[s].chunk) # {}
  PROVE  Completed(pump[s].asm, pump[s].chunk, Min(SepAt(pump[s].chunk)), Cap[s]) \in Text
<1>0. pump[s].chunk \in Text /\ pump[s].asm.pending \in Text /\ Cap[s] \in Nat
  BY PumpParts
<1>1. PICK chunk \in Text : chunk = pump[s].chunk
  BY <1>0
<1>2. PICK i : i = Min(SepAt(chunk))
  OBVIOUS
<1>3. i \in 1..Len(chunk) /\ Len(chunk) \in Nat
  BY <1>1, <1>2, FirstSep, TextIs
<1>4. i \in 0..Len(chunk)
  BY <1>3
<1>5. PICK begun \in Text : begun = SubSeq(chunk, 1, i)
  BY <1>4, TextParts
<1>6. PICK text \in Text : text = pump[s].asm.pending \o begun
  BY <1>0, TextJoins
<1>7. Bounded(text, Cap[s]) \in Text
  BY <1>0, BoundedIs
<1> QED
  BY <1>0, <1>1, <1>2, <1>5, <1>6, <1>7, Zenon DEF Completed

LEMMA PumpCounts ==
  ASSUME StreamTyped, Counted, NEW s \in Streams,
         Fill(s) \/ LastChunk(s) \/ SplitRecord(s) \/ SplitRest(s) \/ Drain(s) \/ PumpFails(s)
  PROVE  Counted'
<1>1. CASE Fill(s) \/ LastChunk(s) \/ SplitRest(s) \/ PumpFails(s)
  BY <1>1, WatchStays DEF Fill, LastChunk, SplitRest, PumpFails, watch
<1>2. CASE SplitRecord(s)
  <2>1. /\ Deliver(s, Completed(pump[s].asm, pump[s].chunk, Min(SepAt(pump[s].chunk)), Cap[s]))
        /\ SepAt(pump[s].chunk) # {} /\ observer' = observer
    BY <1>2 DEF SplitRecord
  <2>2. Completed(pump[s].asm, pump[s].chunk, Min(SepAt(pump[s].chunk)), Cap[s]) \in Text
    BY <2>1, CompletedTyped
  <2> QED
    BY <2>1, <2>2, DeliverCounts
<1>3. CASE Drain(s)
  <2>1. observer' = observer /\ pump[s].asm.pending \in Text
    BY <1>3, PumpParts DEF Drain
  <2>2. Deliver(s, pump[s].asm.pending) \/ UNCHANGED <<queue, queued>>
    BY <1>3 DEF Drain
  <2> QED
    BY <2>1, <2>2, DeliverCounts, WatchStays
<1> QED
  BY <1>1, <1>2, <1>3

LEMMA ObserverCounted ==
  ASSUME Counted, Observe \/ ObserverSticks
  PROVE  Counted'
<1>0. /\ queue \in Seq(Text) /\ queued \in Nat /\ observer.item \in Text /\ Bytes(queue) \in Nat
      /\ Len(observer.item) \in Nat /\ queued = Bytes(queue) + Len(observer.item)
      /\ queued <= QueueBytes /\ Len(queue) <= QueueItems /\ Len(queue) \in Nat
      /\ QueueItems \in Nat /\ QueueBytes \in Nat
  <2>1. queue \in Seq(Text) /\ observer.item \in Text
    BY DEF Counted, WatchTyped
  <2>2. Bytes(queue) \in Nat /\ Len(observer.item) \in Nat
    BY <2>1, BytesOf, TextIs
  <2> QED
    BY <2>1, <2>2, RuntimeAssumption DEF Counted, WatchTyped, QueueIsCounted
<1>1. CASE ObserverTakes
  <2>1. /\ observer.state = "polling" /\ queue # <<>> /\ queue' = Tail(queue) /\ queued' = queued
        /\ observer' = [state |-> "counting", item |-> Head(queue)]
    BY <1>1 DEF ObserverTakes
  <2>2. observer.item = <<>> /\ Len(observer.item) = 0
    BY <2>1 DEF Counted, Itemless
  <2>3. Head(queue) \in Text /\ Tail(queue) \in Seq(Text) /\ Len(Tail(queue)) = Len(queue) - 1
    BY <1>0, <2>1
  <2>4. Bytes(queue) = Len(Head(queue)) + Bytes(Tail(queue))
    <3>1. \A q \in Seq(Text) : q # <<>> => Bytes(q) = Len(Head(q)) + Bytes(Tail(q))
      BY BytesOf
    <3> QED
      BY <1>0, <2>1, <3>1, Zenon
  <2>5. Bytes(Tail(queue)) \in Nat /\ Len(Head(queue)) \in Nat
    <3>1. (\A q \in Seq(Text) : Bytes(q) \in Nat) /\ \A r \in Text : Len(r) \in Nat
      BY BytesOf, TextIs
    <3> QED
      BY <2>3, <3>1, Zenon
  <2>6. observer'.item = Head(queue) /\ observer'.state = "counting"
    BY <2>1
  <2>7. QueueIsCounted'
    BY <1>0, <2>1, <2>2, <2>3, <2>4, <2>5, <2>6 DEF QueueIsCounted
  <2>8. WatchTyped'
    BY <1>0, <2>1, <2>3 DEF WatchTyped, ObserverStates
  <2> QED
    BY <2>6, <2>7, <2>8 DEF Counted, Itemless
<1>2. CASE ObserverCounts
  <2>1. /\ queue' = queue /\ queued' = queued - Len(observer.item)
        /\ observer' = [state |-> "calling", item |-> <<>>] /\ <<>> \in Text
    BY <1>2, TextIs DEF ObserverCounts
  <2>2. queued' = Bytes(queue) /\ observer'.item = <<>> /\ Len(observer'.item) = 0
    BY <1>0, <2>1
  <2>3. QueueIsCounted'
    BY <1>0, <2>1, <2>2 DEF QueueIsCounted
  <2> QED
    BY <1>0, <2>1, <2>2, <2>3 DEF Counted, WatchTyped, Itemless, ObserverStates
<1>3. ASSUME NEW from, NEW to \in ObserverStates, from # "counting", Observing(from, to)
      PROVE  Counted'
  <2>1. /\ observer.state = from /\ observer' = [observer EXCEPT !.state = to]
        /\ UNCHANGED <<queue, queued>>
    BY <1>3 DEF Observing
  <2>2. observer \in [state : ObserverStates, item : Text] /\ observer.item = <<>>
    BY <1>3, <2>1 DEF Counted, WatchTyped, Itemless
  <2>3. observer' \in [state : ObserverStates, item : Text] /\ observer'.item = observer.item
    BY <2>1, <2>2
  <2> QED
    BY <2>1, <2>2, <2>3 DEF Counted, WatchTyped, Itemless, QueueIsCounted
<1>4. {"polling", "idle", "calling", "stuck", "done"} \subseteq ObserverStates
  BY DEF ObserverStates
<1> QED
  BY <1>1, <1>2, <1>3, <1>4
  DEF Observe, ObserverFindsNone, ObserverCalled, ObserverSticks, ObserverGoesOn, ObserverEnds

-----------------------------------------------------------------------------
(* The rest of the state, and what the threads know of each other: only a  *)
(* process that was born holds the pipes, so that they are closed for good *)
(* once they are; a pump that ended by itself found them closed and empty; *)
(* and the waiter returns in time only after it saw the pumps done.        *)
ControlTyped ==
  /\ command \in Commands /\ holds \subseteq Procs /\ hung \subseteq Procs
  /\ stdin \in {"writing", "done"} /\ expired \in BOOLEAN
  /\ waiter \in WaiterStates /\ timedOut \in BOOLEAN /\ caller \in CallerStates

Held == \A p \in holds : proc[p] # "unborn"

Finished ==
  \A s \in Streams :
    /\ pump[s].state \in {"splitting", "done"} => Started
    /\ pump[s].state = "done" => WriteEndClosed /\ pipe[s] = <<>>

Joined ==
  /\ waiter \in {"kill", "sweep", "reap", "drain"} => timedOut
  /\ waiter \in {"observe", "done"} /\ ~timedOut => PumpsDone

(* No process is born in this step, and none takes hold of the pipes.      *)
Leaving ==
  /\ holds' \subseteq holds
  /\ \A p \in Procs : proc'[p] = proc[p] \/ proc'[p] \in {"zombie", "gone"}

LEMMA LeavingKeeps ==
  ASSUME ControlTyped, Held, Leaving
  PROVE  Held' /\ (WriteEndClosed => WriteEndClosed')
<1>1. Held'
  BY DEF ControlTyped, Held, Leaving
<1>2. AliveProcs' \subseteq AliveProcs
  BY DEF AliveProcs, Alive, Leaving
<1> QED
  BY <1>1, <1>2 DEF WriteEndClosed, Leaving

LEMMA FinishedKeeps ==
  ASSUME Finished, UNCHANGED <<pump, pipe>>, Started => Started',
         Started /\ WriteEndClosed => WriteEndClosed'
  PROVE  Finished'
  BY DEF Finished

LEMMA JoinedKeeps ==
  ASSUME Joined, UNCHANGED <<waiter, timedOut>>, PumpsDone => PumpsDone'
  PROVE  Joined'
  BY DEF Joined

LEMMA CapturesKeep ==
  ASSUME StreamTyped, \A s \in Streams : Captured(s),
         UNCHANGED <<pipe, written, pump, capture, lineCut>>
  PROVE  StreamTyped' /\ \A s \in Streams : Captured(s)'
<1>1. ASSUME NEW s \in Streams
      PROVE  Captured(s)'
  BY CapturedStays
<1> QED
  BY <1>1 DEF StreamTyped

RunInv ==
  /\ StopInv /\ ControlTyped /\ StreamTyped /\ Counted /\ Held /\ Finished /\ Joined
  /\ \A s \in Streams : Captured(s)

(* What a step keeps that touches neither the streams nor the queue, and   *)
(* lets nobody in.                                                         *)
LEMMA QuietStep ==
  ASSUME RunInv, StopInv', ControlTyped', UNCHANGED <<stream, written, watch>>,
         Leaving, Started => Started'
  PROVE  /\ StreamTyped' /\ Counted' /\ Held' /\ Finished'
         /\ \A s \in Streams : Captured(s)'
         /\ PumpsDone => PumpsDone'
<1>1. UNCHANGED <<pipe, written, pump, capture, lineCut, stdin, queue, queued, observer>>
  BY DEF stream, watch
<1>2. Held' /\ (WriteEndClosed => WriteEndClosed')
  BY LeavingKeeps DEF RunInv
<1>3. StreamTyped' /\ \A s \in Streams : Captured(s)'
  BY <1>1, CapturesKeep DEF RunInv
<1>4. Counted' /\ Finished'
  BY <1>1, <1>2, WatchStays, FinishedKeeps DEF RunInv
<1>5. PumpsDone => PumpsDone'
  BY <1>1 DEF PumpsDone, Reading
<1> QED
  BY <1>2, <1>3, <1>4, <1>5

LEMMA RunInit == Init => RunInv
<1> SUFFICES ASSUME Init
             PROVE  RunInv
  OBVIOUS
<1>1. StopInv
  BY StopInit
<1>2. <<>> \in Text /\ <<>> \in Seq(Text)
  BY TextIs
<1>3. NoRecord \in Asm
  BY <1>2 DEF NoRecord, Asm
<1>4. /\ pump = [s \in Streams |-> [state |-> "filling", chunk |-> <<>>, asm |-> NoRecord]]
      /\ pipe = [s \in Streams |-> <<>>] /\ written = [s \in Streams |-> <<>>]
      /\ capture = [s \in Streams |-> Empty] /\ lineCut = FALSE
  BY DEF Init
<1>5. Empty \in Captures
  BY <1>2 DEF Empty, Captures
<1>6. StreamTyped
  BY <1>2, <1>3, <1>4, <1>5 DEF StreamTyped, PumpThread, PumpStates
<1>7. ControlTyped
  BY DEF Init, ControlTyped, WaiterStates, CallerStates
<1>8. Counted
  <2>1. /\ queue = <<>> /\ queued = 0 /\ observer.state = "polling" /\ observer.item = <<>>
        /\ observer \in [state : ObserverStates, item : Text]
    BY <1>2 DEF Init, ObserverStates
  <2>2. QueueItems \in Nat /\ QueueBytes \in Nat
    BY RuntimeAssumption
  <2> QED
    BY <1>2, <2>1, <2>2, BytesNone DEF Counted, WatchTyped, Itemless, QueueIsCounted
<1>9. Held /\ Finished /\ Joined
  BY <1>4 DEF Init, Held, Finished, Joined
<1>10. ASSUME NEW s \in Streams
       PROVE  Captured(s)
  <2>1. Cap[s] \in Nat
    BY RuntimeAssumption
  <2>2. Delivered(s, <<>>)
    <3>1. RecordsOf(<<>>, Cap[s]) = <<>> /\ HeadAndTail(Empty, <<>>, Cap[s])
      BY <2>1, RecordsOfNone, HeadAndTailOfNone
    <3>2. FlattenSeq(Empty.head \o Empty.tail) = <<>>
      <4>1. Empty.head \o Empty.tail = <<>>
        BY DEF Empty
      <4> QED
        BY <4>1, FlattenEmpty
    <3>3. capture[s] = Empty
      BY <1>4
    <3> QED
      BY <3>1, <3>2, <3>3 DEF Delivered, Intact
  <2>3. Read(s, <<>>, <<>>)
    <3>1. /\ pump[s].chunk = <<>> /\ pump[s].asm = NoRecord /\ pipe[s] = <<>> /\ written[s] = <<>>
      BY <1>4
    <3>2. (<<>> \o <<>>) \o (<<>> \o <<>>) = <<>>
      OBVIOUS
    <3> QED
      BY <2>1, <2>2, <3>1, <3>2, NoneAssembled DEF Read, WholeRecords
  <2>4. pump[s].state = "filling"
    BY <1>4
  <2> QED
    BY <1>2, <2>3, <2>4 DEF Captured, Reading
<1> QED
  BY <1>1, <1>6, <1>7, <1>8, <1>9, <1>10 DEF RunInv

LEMMA ProcessesRun ==
  ASSUME RunInv, StopInv', NEW p \in Procs, Fork(p) \/ ClosePipes(p) \/ Exit(p) \/ Hang(p)
  PROVE  RunInv'
<1>0. /\ UNCHANGED <<command, stream, written, watch, expired, waiter, timedOut, caller, sweep>>
      /\ Started' = Started /\ Shaped /\ ControlTyped /\ Held
  BY DEF Fork, ClosePipes, Exit, Hang, Started, RunInv, StopInv
<1>1. UNCHANGED <<pipe, written, pump, capture, lineCut, stdin, queue, queued, observer>>
  BY <1>0 DEF stream, watch
<1>2. ControlTyped'
  BY <1>0, <1>1 DEF Fork, ClosePipes, Exit, Hang, ControlTyped
<1>3. Held' /\ (WriteEndClosed => WriteEndClosed')
  <2>1. CASE Fork(p)
    <3>1. /\ proc[p] = "unborn" /\ proc' = [proc EXCEPT ![p] = "alive"]
          /\ holds' = holds \/ (holds' = holds \cup {p} /\ ~WriteEndClosed)
      BY <2>1 DEF Fork, WriteEndClosed
    <3>2. p \notin holds
      BY <1>0, <3>1 DEF Held
    <3>3. Held'
      BY <1>0, <3>1 DEF Held, Shaped, ControlTyped
    <3>4. AliveProcs' \subseteq AliveProcs \cup {p}
      BY <1>0, <3>1 DEF AliveProcs, Alive, Shaped
    <3>5. WriteEndClosed => WriteEndClosed'
      BY <3>1, <3>2, <3>4 DEF WriteEndClosed
    <3> QED
      BY <3>3, <3>5
  <2>2. CASE ClosePipes(p) \/ Exit(p) \/ Hang(p)
    <3>1. Leaving
      BY <1>0, <2>2 DEF ClosePipes, Exit, Hang, Leaving, Dead, Shaped
    <3> QED
      BY <1>0, <3>1, LeavingKeeps
  <2> QED
    BY <2>1, <2>2
<1>4. StreamTyped' /\ (\A s \in Streams : Captured(s)') /\ Counted'
  BY <1>1, CapturesKeep, WatchStays DEF RunInv
<1>5. Finished' /\ Joined'
  <2>1. PumpsDone => PumpsDone'
    BY <1>1 DEF PumpsDone, Reading
  <2> QED
    BY <1>0, <1>1, <1>3, <2>1, FinishedKeeps, JoinedKeeps DEF RunInv
<1> QED
  BY <1>2, <1>3, <1>4, <1>5 DEF RunInv

LEMMA WriteRuns ==
  ASSUME RunInv, StopInv', NEW s \in Streams, Write(s)
  PROVE  RunInv'
<1>0. /\ UNCHANGED <<tree, pump, capture, lineCut, stdin, watch, expired, waiter, timedOut,
                     caller, sweep>>
      /\ ~WriteEndClosed
  BY DEF Write
<1>1. ControlTyped' /\ Held' /\ Counted'
  BY <1>0, WatchStays DEF RunInv, ControlTyped, Held, tree, watch
<1>2. \A r \in Streams : pump[r].state # "done"
  BY <1>0 DEF RunInv, Finished
<1>3. StreamTyped' /\ \A r \in Streams : Captured(r)'
  BY <1>2, WriteAlsoCaptures DEF RunInv
<1>4. Finished'
  BY <1>0, <1>2 DEF RunInv, Finished, Started
<1>5. Joined'
  <2>1. PumpsDone => PumpsDone'
    BY <1>0 DEF PumpsDone, Reading
  <2> QED
    BY <1>0, <2>1, JoinedKeeps DEF RunInv
<1> QED
  BY <1>1, <1>3, <1>4, <1>5 DEF RunInv

LEMMA PumpRuns ==
  ASSUME RunInv, StopInv', NEW s \in Streams,
         Fill(s) \/ LastChunk(s) \/ SplitRecord(s) \/ SplitRest(s) \/ Drain(s) \/ PumpFails(s)
  PROVE  RunInv'
<1>0. /\ UNCHANGED <<tree, written, stdin, expired, waiter, timedOut, caller, sweep>>
      /\ Reading(s)
      /\ pump'[s].state = "splitting" => Started \/ pump[s].state = "splitting"
      /\ pump'[s].state = "done" => Started /\ WriteEndClosed /\ pipe'[s] = <<>>
      /\ \A r \in Streams \ {s} : pump'[r] = pump[r] /\ pipe'[r] = pipe[r]
  BY PumpStep DEF RunInv
<1>1. ControlTyped' /\ Held' /\ Counted'
  BY <1>0, PumpCounts DEF RunInv, ControlTyped, Held, tree
<1>2. StreamTyped' /\ \A r \in Streams : Captured(r)'
  BY PumpCaptures DEF RunInv
<1>3. Started' = Started /\ WriteEndClosed' = WriteEndClosed
  BY <1>0 DEF Started, WriteEndClosed, AliveProcs, Alive, tree
<1>4. Finished'
  <2>1. ASSUME NEW r \in Streams
        PROVE  /\ pump'[r].state \in {"splitting", "done"} => Started
               /\ pump'[r].state = "done" => WriteEndClosed /\ pipe'[r] = <<>>
    <3>1. CASE r = s
      BY <1>0, <3>1 DEF RunInv, Finished
    <3>2. CASE r # s
      BY <1>0, <3>2 DEF RunInv, Finished
    <3> QED
      BY <3>1, <3>2
  <2> QED
    BY <1>3, <2>1 DEF Finished
<1>5. Joined'
  <2>1. ~PumpsDone
    BY <1>0 DEF PumpsDone
  <2> QED
    BY <1>0, <2>1, JoinedKeeps DEF RunInv
<1> QED
  BY <1>1, <1>2, <1>4, <1>5 DEF RunInv

LEMMA ObserverRuns ==
  ASSUME RunInv, StopInv', Observe \/ ObserverSticks
  PROVE  RunInv'
<1>0. UNCHANGED <<tree, stream, written, expired, waiter, timedOut, caller, sweep>>
  BY DEF Observe, ObserverSticks, ObserverTakes, ObserverFindsNone, ObserverCounts,
         ObserverCalled, ObserverGoesOn, ObserverEnds, Observing
<1>1. UNCHANGED <<command, proc, holds, hung, pipe, written, pump, capture, lineCut, stdin>>
  BY <1>0 DEF tree, stream
<1>2. Counted'
  BY ObserverCounted DEF RunInv
<1>3. StreamTyped' /\ \A s \in Streams : Captured(s)'
  BY <1>1, CapturesKeep DEF RunInv
<1>4. ControlTyped' /\ Held'
  BY <1>0, <1>1 DEF RunInv, ControlTyped, Held
<1>5. Finished' /\ Joined'
  BY <1>0, <1>1 DEF RunInv, Finished, Joined, PumpsDone, Reading, Started, WriteEndClosed,
                    AliveProcs, Alive
<1> QED
  BY <1>2, <1>3, <1>4, <1>5 DEF RunInv

LEMMA StdinRuns ==
  ASSUME RunInv, StopInv', StdinDone
  PROVE  RunInv'
<1>0. /\ UNCHANGED <<tree, written, pipe, pump, capture, lineCut, watch, expired, waiter,
                     timedOut, caller, sweep>>
      /\ stdin' = "done"
  BY DEF StdinDone
<1>1. UNCHANGED <<command, proc, holds, hung, queue, queued, observer>>
  BY <1>0 DEF tree, watch
<1>2. Counted' /\ StreamTyped' /\ \A s \in Streams : Captured(s)'
  BY <1>0, <1>1, CapturesKeep, WatchStays DEF RunInv
<1>3. ControlTyped' /\ Held'
  BY <1>0, <1>1 DEF RunInv, ControlTyped, Held
<1>4. Finished' /\ Joined'
  BY <1>0, <1>1 DEF RunInv, Finished, Joined, PumpsDone, Reading, Started, WriteEndClosed,
                    AliveProcs, Alive
<1> QED
  BY <1>2, <1>3, <1>4 DEF RunInv

LEMMA KillLeaves ==
  ASSUME Shaped, NEW victims, Kill(victims), holds' = holds
  PROVE  Leaving
<1>1. \A p \in Procs : Dead(p) \in {"zombie", "gone"}
  BY DEF Dead
<1> QED
  BY <1>1 DEF Kill, Shaped, Leaving

LEMMA ReapLeaves ==
  ASSUME Shaped, proc' = Reaped(proc), holds' = holds
  PROVE  Leaving
  BY DEF Shaped, Reaped, Leaving

LEMMA SweepRuns ==
  ASSUME RunInv, StopInv', NEW a \in {"waiter", "caller"}, Sweep(a)
  PROVE  RunInv'
<1>0. /\ UNCHANGED <<command, holds, hung, stream, written, watch, expired, waiter, timedOut,
                     caller>>
      /\ Shaped /\ Started' = Started
  BY DEF Sweep, Started, RunInv, StopInv
<1>1. Leaving
  <2>1. CASE SweepFinds(a)
    BY <1>0, <2>1 DEF SweepFinds, Leaving
  <2>2. CASE SweepKills(a)
    BY <1>0, <2>2, KillLeaves DEF SweepKills
  <2>3. CASE SweepBlind(a)
    BY <1>0, <2>3 DEF SweepBlind, Leaving
  <2> QED
    BY <2>1, <2>2, <2>3 DEF Sweep
<1>2. ControlTyped'
  BY <1>0 DEF RunInv, ControlTyped, stream
<1>3. /\ StreamTyped' /\ Counted' /\ Held' /\ Finished' /\ (\A s \in Streams : Captured(s)')
      /\ PumpsDone => PumpsDone'
  BY <1>0, <1>1, <1>2, QuietStep
<1>4. Joined'
  BY <1>0, <1>3, JoinedKeeps DEF RunInv
<1> QED
  BY <1>2, <1>3, <1>4 DEF RunInv

LEMMA DeadlineRuns ==
  ASSUME RunInv, StopInv', Deadline
  PROVE  RunInv'
<1>0. UNCHANGED <<tree, stream, written, watch, waiter, timedOut, caller, sweep>> /\ expired' = TRUE
  BY DEF Deadline
<1>1. Leaving /\ Started' = Started /\ ControlTyped'
  BY <1>0 DEF Leaving, Started, RunInv, ControlTyped, tree, stream
<1>2. /\ StreamTyped' /\ Counted' /\ Held' /\ Finished' /\ (\A s \in Streams : Captured(s)')
      /\ PumpsDone => PumpsDone'
  BY <1>0, <1>1, QuietStep
<1>3. Joined'
  BY <1>0, <1>2, JoinedKeeps DEF RunInv
<1> QED
  BY <1>1, <1>2, <1>3 DEF RunInv

LEMMA WaiterRuns ==
  ASSUME RunInv, StopInv', Waiter
  PROVE  RunInv'
<1>0. Shaped /\ ControlTyped /\ Joined
  BY DEF RunInv, StopInv
<1>1. /\ UNCHANGED <<command, holds, hung, stream, written, watch, expired, caller, sweep>>
      /\ waiter # "unstarted" /\ waiter' # "unstarted" /\ waiter' \in WaiterStates
  BY DEF Waiter, WaitLeader, JoinPumps, KillGroup, SweepDone, ReapKilled, JoinKilled,
         JoinObserver, WaiterAt, WaiterStates
<1>2. Leaving
  <2>1. UNCHANGED proc \/ proc' = Reaped(proc) \/ Kill(RunGroup)
    BY DEF Waiter, WaitLeader, JoinPumps, KillGroup, SweepDone, ReapKilled, JoinKilled,
           JoinObserver
  <2>2. CASE UNCHANGED proc
    BY <1>1, <2>2 DEF Leaving
  <2>3. CASE proc' = Reaped(proc)
    BY <1>0, <1>1, <2>3, ReapLeaves
  <2>4. CASE Kill(RunGroup)
    BY <1>0, <1>1, <2>4, KillLeaves
  <2> QED
    BY <2>1, <2>2, <2>3, <2>4
<1>3. timedOut' \in BOOLEAN
  BY <1>0 DEF Waiter, WaitLeader, JoinPumps, KillGroup, SweepDone, ReapKilled, JoinKilled,
              JoinObserver, ControlTyped
<1>4. ControlTyped'
  BY <1>0, <1>1, <1>3 DEF ControlTyped, stream
<1>5. Started'
  BY <1>1 DEF Started
<1>6. /\ StreamTyped' /\ Counted' /\ Held' /\ Finished' /\ (\A s \in Streams : Captured(s)')
      /\ PumpsDone => PumpsDone'
  BY <1>1, <1>2, <1>4, <1>5, QuietStep
<1>7. Joined'
  <2>1. CASE JoinPumps
    <3>1. CASE Alive("leader") \/ ~PumpsDone
      BY <2>1, <3>1 DEF JoinPumps, WaiterAt, Joined
    <3>2. CASE ~(Alive("leader") \/ ~PumpsDone)
      BY <1>6, <2>1, <3>2 DEF JoinPumps, WaiterAt, Joined
    <3> QED
      BY <3>1, <3>2
  <2>2. CASE WaitLeader \/ KillGroup \/ SweepDone \/ ReapKilled \/ JoinKilled \/ JoinObserver
    BY <1>0, <1>6, <2>2 DEF WaitLeader, KillGroup, SweepDone, ReapKilled, JoinKilled,
                            JoinObserver, WaiterAt, Joined
  <2> QED
    BY <2>1, <2>2 DEF Waiter
<1> QED
  BY <1>4, <1>6, <1>7 DEF RunInv

LEMMA CallerRuns ==
  ASSUME RunInv, StopInv', Caller \/ Cancel
  PROVE  RunInv'
<1>0. Shaped /\ ControlTyped /\ Joined /\ Held /\ Finished /\ Staged
  BY DEF RunInv, StopInv
<1>1. UNCHANGED <<command, hung, stream, written, watch, expired, timedOut>>
  BY DEF Caller, Cancel, Spawn, SpawnFails, StartWaiter, KillCancelled, Drained, Swept,
         CallerAt, tree
<1>2. caller' \in CallerStates
  BY <1>0 DEF Caller, Cancel, Spawn, SpawnFails, StartWaiter, KillCancelled, Drained, Swept,
              CallerAt, CallerStates
<1>3. CASE Spawn
  <2>1. /\ caller = "spawn" /\ proc' = [proc EXCEPT !["leader"] = "alive"]
        /\ holds' = {"leader"} /\ waiter' = waiter
    BY <1>3 DEF Spawn, CallerAt
  <2>2. ~Started
    BY <1>0, <2>1 DEF Staged, Started
  <2>3. "leader" \in Procs
    BY DEF Procs
  <2>4. ControlTyped' /\ Held'
    BY <1>0, <1>1, <1>2, <2>1, <2>3 DEF ControlTyped, Held, Shaped, stream
  <2>5. UNCHANGED <<pipe, written, pump, capture, lineCut, stdin, queue, queued, observer>>
    BY <1>1 DEF stream, watch
  <2>6. Counted' /\ StreamTyped' /\ \A s \in Streams : Captured(s)'
    BY <2>5, CapturesKeep, WatchStays DEF RunInv
  <2>7. Finished' /\ Joined'
    <3>1. PumpsDone' = PumpsDone
      BY <2>5 DEF PumpsDone, Reading
    <3> QED
      BY <1>0, <1>1, <2>1, <2>2, <2>5, <3>1 DEF Finished, Joined, Started
  <2> QED
    BY <2>4, <2>6, <2>7 DEF RunInv
<1>4. CASE SpawnFails \/ StartWaiter \/ KillCancelled \/ Drained \/ Swept \/ Cancel
  <2>1. Leaving
    <3>1. CASE KillCancelled
      BY <1>0, <3>1, KillLeaves DEF KillCancelled
    <3>2. CASE SpawnFails \/ StartWaiter \/ Drained \/ Swept \/ Cancel
      BY <3>2 DEF SpawnFails, StartWaiter, Drained, Swept, Cancel, Leaving, tree
    <3> QED
      BY <1>4, <3>1, <3>2
  <2>2. /\ waiter' = waiter \/ (waiter = "unstarted" /\ waiter' = "wait")
        /\ holds' = holds
    BY <1>4 DEF SpawnFails, StartWaiter, KillCancelled, Drained, Swept, Cancel, tree
  <2>3. ControlTyped' /\ (Started => Started')
    BY <1>0, <1>1, <1>2, <2>2 DEF ControlTyped, Started, WaiterStates, stream
  <2>4. /\ StreamTyped' /\ Counted' /\ Held' /\ Finished' /\ (\A s \in Streams : Captured(s)')
        /\ PumpsDone => PumpsDone'
    BY <1>1, <2>1, <2>3, QuietStep
  <2>5. Joined'
    BY <1>0, <1>1, <2>2, <2>4 DEF Joined
  <2> QED
    BY <2>3, <2>4, <2>5 DEF RunInv
<1> QED
  BY <1>3, <1>4 DEF Caller

LEMMA RunNext == RunInv /\ [Next]_vars => RunInv'
<1> SUFFICES ASSUME RunInv, [Next]_vars
             PROVE  RunInv'
  OBVIOUS
<1>0. StopInv'
  BY StopNext DEF RunInv
<1>1. CASE UNCHANGED vars
  <2>1. /\ UNCHANGED <<command, proc, holds, hung, pipe, written, pump, capture, lineCut, stdin>>
        /\ UNCHANGED <<queue, queued, observer, expired, waiter, timedOut, caller, sweep>>
    BY <1>1 DEF vars, tree, stream, watch
  <2>2. Counted' /\ StreamTyped' /\ \A s \in Streams : Captured(s)'
    BY <2>1, CapturesKeep, WatchStays DEF RunInv
  <2>3. ControlTyped' /\ Held'
    BY <2>1 DEF RunInv, ControlTyped, Held
  <2>4. Finished' /\ Joined'
    BY <2>1 DEF RunInv, Finished, Joined, PumpsDone, Reading, Started, WriteEndClosed,
                AliveProcs, Alive
  <2> QED
    BY <1>0, <2>2, <2>3, <2>4 DEF RunInv
<1>2. ASSUME NEW p \in Procs, Fork(p) \/ ClosePipes(p) \/ Exit(p) \/ Hang(p)
      PROVE  RunInv'
  BY <1>0, <1>2, ProcessesRun
<1>3. ASSUME NEW s \in Streams, Write(s)
      PROVE  RunInv'
  BY <1>0, <1>3, WriteRuns
<1>4. ASSUME NEW s \in Streams,
             Fill(s) \/ LastChunk(s) \/ SplitRecord(s) \/ SplitRest(s) \/ Drain(s) \/ PumpFails(s)
      PROVE  RunInv'
  BY <1>0, <1>4, PumpRuns
<1>5. ASSUME NEW a \in {"waiter", "caller"}, Sweep(a)
      PROVE  RunInv'
  BY <1>0, <1>5, SweepRuns
<1> QED
  BY <1>0, <1>1, <1>2, <1>3, <1>4, <1>5, StdinRuns, ObserverRuns, DeadlineRuns, WaiterRuns,
     CallerRuns DEF Next

LEMMA RunHolds == Spec => []RunInv
<1>1. Init => RunInv
  BY RunInit
<1>2. RunInv /\ [Next]_vars => RunInv'
  BY RunNext
<1> QED
  BY <1>1, <1>2, PTL DEF Spec

(* The state has its shape, whatever the command does.                     *)
THEOREM RunTyped == Spec => []TypeOK
<1>1. RunInv => TypeOK
  BY DEF RunInv, StopInv, Shaped, ControlTyped, StreamTyped, Counted, WatchTyped, TypeOK,
         PumpThread, Asm, Captures
<1> QED
  BY <1>1, RunHolds, PTL

(* Of a stream that was read to its end the capture of streamcap.py holds  *)
(* the first and the last records, each cut alike however the text fell    *)
(* into chunks, within its budget, and it says so when any are missing;    *)
(* the bytes of the observer's queue are counted right and bounded.        *)
THEOREM CapturesHeadAndTail == Spec => []CaptureIsHeadAndTail
<1>1. RunInv => CaptureIsHeadAndTail
  BY DEF RunInv, Counted, Captured, Delivered, CaptureIsHeadAndTail
<1> QED
  BY <1>1, RunHolds, PTL

(* A run that _wait_streaming returns as in time and whole, neither        *)
(* truncated nor with a record cut nor failed, has every character that    *)
(* the command wrote to its stdout.                                        *)
THEOREM LossIsTold == Spec => []NoSilentLoss
<1>1. RunInv => NoSilentLoss
  <2> SUFFICES ASSUME RunInv, caller = "returned", ~timedOut, ~capture["out"].truncated,
                      ~lineCut, pump["out"].state # "failed"
               PROVE  FlattenSeq(capture["out"].head \o capture["out"].tail) = written["out"]
    BY DEF NoSilentLoss
  <2>1. "out" \in Streams
    BY DEF Streams
  <2>2. waiter = "done"
    BY DEF RunInv, StopInv, Staged, Returning
  <2>3. ~Reading("out")
    BY <2>1, <2>2 DEF RunInv, Joined, PumpsDone
  <2>4. pump["out"].state = "done"
    BY <2>1, <2>3 DEF RunInv, StreamTyped, PumpThread, PumpStates, Reading
  <2> QED
    BY <2>1, <2>4 DEF RunInv, Captured, Delivered, Intact
<1> QED
  BY <1>1, RunHolds, PTL

=============================================================================
