--------------------------- MODULE IdempotencyProofs ---------------------------
(***************************************************************************)
(* Proofs about IdempotencyIndex, for every set of servers, callers, keys  *)
(* and arguments and for every horizon.                                    *)
(***************************************************************************)
EXTENDS IdempotencyIndex, TLAPS

-----------------------------------------------------------------------------
(* Numbers and records                                                     *)

LEMMA Ages == /\ Horizon \in Nat /\ MaxAge = Horizon + 1
              /\ MaxAge \in Nat /\ MaxFileAge \in Nat /\ MaxRunAge \in Nat
  BY IndexBounds DEF Horizon, MaxAge, MaxFileAge, MaxRunAge, IoSweepMult

LEMMA OlderType ==
  ASSUME NEW m \in Nat, NEW a \in 0..m
  PROVE  Older(a, m) \in 0..m
  BY DEF Older

LEMMA LiveType ==
  ASSUME NEW x \in Run, NEW unread
  PROVE  Live(x, unread) \in Run
  BY Ages, 0 \in 0..MaxRunAge DEF Live, Run, RunPhases, NoRecord

LEMMA MarkType ==
  ASSUME NEW x \in Run, NEW b \in BOOLEAN
  PROVE  /\ [x EXCEPT !.tracked = b] \in Run
         /\ [x EXCEPT !.named = b] \in Run
  BY DEF Run

(* A caller past its first step knows its key, and its run once it has one *)
Cursor == \A c \in Callers :
  /\ call[c].pc # "idle" => call[c].key \in Keys /\ call[c].args \in Args
  /\ call[c].pc \in {"meta", "publish"} => call[c].run \in Runs

TInv == TypeOK /\ Cursor

LEMMA TypeInit == Init => TInv
  BY Ages DEF Init, TInv, TypeOK, Cursor, Entry, Forms, NoEntry, Run, RunPhases,
              NoRecord, Call, Steps, Idle, Saying, Quiet, Answers

LEMMA AnswerType ==
  ASSUME TInv, NEW c \in Callers, NEW kind \in Answers, NEW r \in Runs \cup {NoRun},
         Answer(c, kind, r)
  PROVE  /\ said' \in Saying
         /\ call' \in [Callers -> Call]
         /\ lock' \in Callers \cup {NoCaller}
         /\ Cursor'
  <1> USE DEF TInv, TypeOK, Answer
  <1>1. Idle \in Call
    BY Ages DEF Idle, Call, Steps
  <1>2. call' \in [Callers -> Call]
    BY <1>1
  <1>3. Cursor'
    BY DEF Cursor, Idle
  <1> QED BY <1>2, <1>3 DEF Saying

LEMMA GoType ==
  ASSUME TInv, NEW c \in Callers, NEW pc \in Steps \ {"meta", "publish"},
         call[c].pc # "idle", Go(c, pc)
  PROVE  said' \in Saying /\ call' \in [Callers -> Call] /\ Cursor'
  BY DEF TInv, TypeOK, Go, Call, Saying, Quiet, Cursor

LEMMA RemoveType ==
  ASSUME TInv, NEW k \in Keys, Remove(k) \/ RollBack(k)
  PROVE  /\ entry' \in [Keys -> Entry]
         /\ \A q \in Keys : entry'[q].form = "active" => entry'[q].job \in Runs
  <1>1. NoEntry \in Entry /\ NoEntry.form # "active"
    BY Ages DEF NoEntry, Entry, Forms
  <1>2. PICK left \in {NoEntry, entry[k]} : entry' = [entry EXCEPT ![k] = left]
    BY DEF Remove, RollBack
  <1> QED BY <1>1, <1>2 DEF TInv, TypeOK

LEMMA NowhereType ==
  /\ NoEntry \in Entry /\ NoEntry.form = "none"
  /\ Placeholder \in Entry /\ Placeholder.form = "empty"
  /\ NoRecord \in Run /\ Quiet \in Saying /\ Idle \in Call
  <1>1. NoEntry \in Entry /\ NoEntry.form = "none"
    BY Ages DEF NoEntry, Entry, Forms
  <1>2. Placeholder \in Entry /\ Placeholder.form = "empty"
    BY <1>1 DEF Placeholder, Entry, Forms
  <1>3. NoRecord \in Run
    BY Ages DEF NoRecord, Run, RunPhases
  <1>4. Quiet \in Saying
    BY DEF Quiet, Saying
  <1>5. Idle \in Call
    BY Ages DEF Idle, Call, Steps
  <1> QED BY <1>1, <1>2, <1>3, <1>4, <1>5

LEMMA ReservedType ==
  ASSUME NEW a \in Args
  PROVE  /\ Reserved(a) \in Entry
         /\ Reserved(a).form = "reserved" /\ Reserved(a).args = a
         /\ Reserved(a).age = 0 /\ Reserved(a).fileAge = 0
  <1>1. Reserved(a) \in Entry /\ Reserved(a).form = "reserved" /\ Reserved(a).args = a
    BY NowhereType DEF Reserved, Entry, Forms
  <1>2. Reserved(a).age = 0 /\ Reserved(a).fileAge = 0
    BY DEF Reserved, NoEntry
  <1> QED BY <1>1, <1>2

LEMMA PublishedType ==
  ASSUME TInv, NEW c \in Callers, At(c, "publish")
  PROVE  /\ Published(c) \in Entry
         /\ Published(c).form = "active" /\ Published(c).job = call[c].run
         /\ Published(c).args = call[c].args
         /\ Published(c).age = call[c].age /\ Published(c).fileAge = 0
  BY ReservedType, Ages, ZenonT(60)
  DEF TInv, TypeOK, Cursor, At, Published, Reserved, NoEntry, Entry, Forms, Call

(* The steps of a call keep the types *)
LEMMA CallerTypes ==
  ASSUME TInv, NEW c \in Callers, CallerStep(c)
  PROVE  TInv'
  <1> USE DEF TInv, TypeOK
  <1>1. CASE Enter(c)
    BY <1>1, NowhereType, ZenonT(60) DEF Enter, At, Call, Steps, Cursor
  <1>2. CASE LockTimeout(c)
    BY <1>2, AnswerType DEF LockTimeout, Answers
  <1>3. CASE SweepOne(c)
    <2>1. PICK k \in call[c].todo : call' = [call EXCEPT ![c].todo = @ \ {k}]
      BY <1>3 DEF SweepOne
    <2>2. k \in Keys
      BY DEF Call
    <2>3. call' \in [Callers -> Call] /\ Cursor' /\ said' \in Saying
      BY <1>3, <2>1, NowhereType DEF SweepOne, Call, Cursor
    <2>4. /\ entry' \in [Keys -> Entry]
          /\ \A q \in Keys : entry'[q].form = "active" => entry'[q].job \in Runs
      BY <1>3, RemoveType DEF SweepOne, Call
    <2>5. run' \in [Runs -> Run]
      <3>1. ASSUME NEW q \in Keys, Forsake(q) PROVE run' \in [Runs -> Run]
        BY <3>1 DEF Forsake, Run
      <3>2. ASSUME NEW q \in Keys, NEW u, run' = [run EXCEPT ![entry[q].job] = Live(run[entry[q].job], u)]
            PROVE  run' \in [Runs -> Run]
        <4>1. CASE entry[q].job \in Runs
          BY <3>2, <4>1, LiveType
        <4>2. CASE entry[q].job \notin Runs
          BY <3>2, <4>2
        <4> QED BY <4>1, <4>2
      <3> QED BY <1>3, <3>1, <3>2 DEF SweepOne, Call
    <2> QED BY <1>3, <2>3, <2>4, <2>5 DEF SweepOne
  <1>4. CASE SweepDone(c)
    BY <1>4, GoType DEF SweepDone, At, Steps
  <1>5. CASE Create(c)
    <2>1. call[c].key \in Keys
      BY <1>5 DEF Create, At, Cursor
    <2> QED BY <1>5, <2>1, GoType, NowhereType DEF Create, At, Steps
  <1>6. CASE Write(c)
    <2>1. call[c].key \in Keys /\ call[c].args \in Args
      BY <1>6 DEF Write, At, Cursor
    <2>2. CASE Go(c, "rollback") /\ UNCHANGED entry
      BY <1>6, <2>2, GoType DEF Write, At, Steps
    <2>3. CASE ~(Go(c, "rollback") /\ UNCHANGED entry)
      <3>1. call' \in [Callers -> Call] /\ Cursor' /\ said' \in Saying
        BY <1>6, <2>3, NowhereType, Ages DEF Write, At, Call, Steps, Cursor
      <3> QED BY <1>6, <2>1, <2>3, <3>1, ReservedType DEF Write
    <2> QED BY <2>2, <2>3
  <1>7. CASE WriteFailed(c)
    BY <1>7, AnswerType, RemoveType DEF WriteFailed, At, Cursor, Answers
  <1>8. CASE Classify(c)
    <2>1. call[c].key \in Keys
      BY <1>8 DEF Classify, At, Cursor
    <2>2. run' \in [Runs -> Run]
      <3>1. ASSUME NEW u, run' = [run EXCEPT ![entry[call[c].key].job] = Live(run[entry[call[c].key].job], u)]
            PROVE  run' \in [Runs -> Run]
        BY <3>1, LiveType
      <3> QED BY <1>8, <3>1 DEF Classify
    <2>3. entry[call[c].key].job \in Runs \cup {NoRun}
      BY <2>1 DEF Entry
    <2>4. \/ \E kind \in Answers, r \in Runs \cup {NoRun} : Answer(c, kind, r)
          \/ Go(c, "reclaim") /\ UNCHANGED lock
      BY <1>8, <2>3 DEF Classify, Stale, Answers
    <2> QED BY <1>8, <2>2, <2>4, AnswerType, GoType DEF Classify, At, Steps
  <1>9. CASE Reclaim(c)
    <2>1. call[c].key \in Keys
      BY <1>9 DEF Reclaim, At, Cursor
    <2> QED BY <1>9, <2>1, RemoveType, NowhereType, ZenonT(60) DEF Reclaim, At, Call, Steps, Cursor
  <1>10. CASE Spawn(c)
    <2>1. CASE Go(c, "undo") /\ UNCHANGED run
      BY <1>10, <2>1, GoType DEF Spawn, At, Steps
    <2>2. CASE \E r \in {q \in Runs : Fresh(q)},
                     unread \in SUBSET Unreadable, evicted \in Evictions :
                 /\ \A q \in evicted : Live(run[q], q \in unread).phase = "final"
                 /\ run' = [q \in Runs |->
                              IF q = r THEN Spawned(c) ELSE Roomy(q, unread, evicted)]
                 /\ call' = [call EXCEPT ![c].pc = "meta", ![c].run = r]
                 /\ said' = Quiet
      <3>1. call[c].key \in Keys /\ call[c].args \in Args
        BY <1>10 DEF Spawn, At, Cursor
      <3>2. PICK r \in {q \in Runs : Fresh(q)},
                 unread \in SUBSET Unreadable, evicted \in Evictions :
              /\ run' = [q \in Runs |-> IF q = r THEN Spawned(c) ELSE Roomy(q, unread, evicted)]
              /\ call' = [call EXCEPT ![c].pc = "meta", ![c].run = r]
              /\ said' = Quiet
        BY <2>2, ZenonT(30)
      <3>3. Spawned(c) \in Run
        BY <3>1, NowhereType DEF Spawned, Run, RunPhases
      <3>4. run' \in [Runs -> Run]
        BY <3>2, <3>3, NowhereType, LiveType DEF Roomy
      <3>5. call' \in [Callers -> Call] /\ Cursor' /\ said' \in Saying
        BY <3>1, <3>2, NowhereType, ZenonT(60) DEF Call, Steps, Cursor
      <3> QED BY <1>10, <3>4, <3>5 DEF Spawn
    <2>3. \/ Go(c, "undo") /\ UNCHANGED run
          \/ \E r \in {q \in Runs : Fresh(q)},
               unread \in SUBSET Unreadable, evicted \in Evictions :
               /\ \A q \in evicted : Live(run[q], q \in unread).phase = "final"
               /\ run' = [q \in Runs |->
                            IF q = r THEN Spawned(c) ELSE Roomy(q, unread, evicted)]
               /\ call' = [call EXCEPT ![c].pc = "meta", ![c].run = r]
               /\ said' = Quiet
      BY <1>10, Zenon DEF Spawn
    <2> QED BY <2>1, <2>2, <2>3
  <1>11. CASE WriteMeta(c)
    <2>1. /\ call[c].run \in Runs /\ call[c].key \in Keys
          /\ call[c].age \in 0..MaxAge
      BY <1>11 DEF WriteMeta, At, Cursor, Call
    <2>2. run' \in [Runs -> Run]
      <3>1. [run[call[c].run] EXCEPT !.tracked = TRUE] \in Run
        BY <2>1, MarkType
      <3> QED BY <1>11, <2>1, <3>1, NowhereType DEF WriteMeta
    <2>3. call' \in [Callers -> Call] /\ Cursor' /\ said' \in Saying
      <3>0. /\ call[c].pc = "meta"
            /\ [call[c] EXCEPT !.pc = "publish"] \in Call
            /\ [call[c] EXCEPT !.pc = "undo", !.run = NoRun] \in Call
        BY <1>11, ZenonT(60) DEF WriteMeta, At, Call, Steps
      <3>3. said' \in Saying
        BY <1>11, NowhereType DEF WriteMeta, Go
      <3>1. CASE call' = [call EXCEPT ![c].pc = "publish"]
        BY <2>1, <3>0, <3>1, <3>3 DEF Cursor
      <3>2. CASE call' = [call EXCEPT ![c].pc = "undo", ![c].run = NoRun]
        BY <2>1, <3>0, <3>2, <3>3 DEF Cursor
      <3> QED BY <1>11, <3>1, <3>2 DEF WriteMeta, Go
    <2>4. paidAge' \in [Keys -> 0..MaxAge]
      BY <1>11, <2>1 DEF WriteMeta
    <2> QED BY <1>11, <2>2, <2>3, <2>4 DEF WriteMeta
  <1>12. CASE Undo(c)
    BY <1>12, AnswerType, RemoveType DEF Undo, At, Cursor, Answers
  <1>13. CASE Publish(c)
    <2>1. call[c].run \in Runs /\ call[c].key \in Keys
      BY <1>13 DEF Publish, At, Cursor
    <2>2. /\ entry' \in [Keys -> Entry]
          /\ \A q \in Keys : entry'[q].form = "active" => entry'[q].job \in Runs
      BY <1>13, <2>1, PublishedType DEF Publish
    <2>3. run' \in [Runs -> Run]
      <3>1. [run[call[c].run] EXCEPT !.named = TRUE] \in Run
        BY <2>1, MarkType
      <3> QED BY <1>13, <2>1, <3>1 DEF Publish
    <2> QED BY <1>13, <2>1, <2>2, <2>3, AnswerType DEF Publish, Answers
  <1> QED BY <1>1, <1>2, <1>3, <1>4, <1>5, <1>6, <1>7, <1>8, <1>9, <1>10, <1>11,
             <1>12, <1>13 DEF CallerStep

(* Clients, workers, other calls of the store, time and faults as well *)
LEMMA TypeStep == TInv /\ [Next]_vars => TInv'
  <1> SUFFICES ASSUME TInv, [Next]_vars PROVE TInv'
    OBVIOUS
  <1> USE DEF TInv, TypeOK
  <1>1. ASSUME NEW c \in Callers, CallerStep(c) PROVE TInv'
    BY <1>1, CallerTypes
  <1>2. ASSUME NEW c \in Callers, Lose(c) PROVE TInv'
    BY <1>2, NowhereType DEF Lose, Cursor
  <1>3. ASSUME NEW c \in Callers, NEW k \in Keys, NEW a \in Args, Begin(c, k, a)
        PROVE  TInv'
    <2>1. [Idle EXCEPT !.pc = "wait", !.key = k, !.args = a] \in Call
      BY NowhereType DEF Idle, Call, Steps
    <2> QED BY <1>3, <2>1, NowhereType DEF Begin, Cursor, Idle
  <1>4. ASSUME NEW r \in Runs, WorkerEnds(r) PROVE TInv'
    BY <1>4, NowhereType DEF WorkerEnds, Run, RunPhases, Cursor
  <1>5. ASSUME NEW r \in Runs, OtherCall(r) PROVE TInv'
    <2>1. PICK unread \in Unread :
            \/ run' = [run EXCEPT ![r] = Live(run[r], unread)]
            \/ run' = [run EXCEPT ![r].phase = "final", ![r].age = 0]
            \/ run' = [run EXCEPT ![r] = NoRecord]
      BY <1>5 DEF OtherCall
    <2>2. run' \in [Runs -> Run]
      BY <2>1, LiveType, NowhereType, Ages DEF Run, RunPhases
    <2> QED BY <1>5, <2>2, NowhereType DEF OtherCall, Cursor
  <1>6. ASSUME NEW k \in Keys, Deny(k) PROVE TInv'
    BY <1>6, NowhereType DEF Deny, Entry, Cursor
  <1>7. ASSUME NEW k \in Keys, Corrupt(k) PROVE TInv'
    <2>1. /\ [NoEntry EXCEPT !.form = "corrupt", !.denied = entry[k].denied] \in Entry
          /\ [NoEntry EXCEPT !.form = "corrupt", !.denied = entry[k].denied].form = "corrupt"
      BY NowhereType DEF Entry, Forms
    <2> QED BY <1>7, <2>1, NowhereType DEF Corrupt, Cursor
  <1>8. ASSUME NEW s \in Servers, Crash(s) PROVE TInv'
    <2>1. call' \in [Callers -> Call] /\ Cursor' /\ lock' \in Callers \cup {NoCaller}
      BY <1>8, NowhereType DEF Crash, Cursor, Idle
    <2>2. run' \in [Runs -> Run] /\ entry' = entry /\ said' \in Saying
      BY <1>8, NowhereType DEF Crash
    <2>3. paidAge' \in [Keys -> 0..MaxAge]
      <3>1. CASE UNCHANGED paidAge
        BY <3>1
      <3>2. CASE \E c \in Callers : paidAge' = [paidAge EXCEPT ![call[c].key] = call[c].age]
        <4>1. PICK c \in Callers : paidAge' = [paidAge EXCEPT ![call[c].key] = call[c].age]
          BY <3>2
        <4>2. call[c].age \in 0..MaxAge
          BY DEF Call
        <4> QED BY <4>1, <4>2
      <3> QED BY <1>8, <3>1, <3>2 DEF Crash
    <2> QED BY <2>1, <2>2, <2>3
  <1>9. CASE Tick
    <2>1. entry' \in [Keys -> Entry]
          /\ \A q \in Keys : entry'[q].form = "active" => entry'[q].job \in Runs
      <3>1. ASSUME NEW k \in Keys
            PROVE  /\ entry'[k] \in Entry /\ entry'[k].form = entry[k].form
                   /\ entry'[k].job = entry[k].job
        <4>1. /\ Older(entry[k].age, MaxAge) \in 0..MaxAge
              /\ Older(entry[k].fileAge, MaxFileAge) \in 0..MaxFileAge
          BY OlderType, Ages DEF Entry
        <4> QED BY <1>9, <4>1 DEF Tick, Entry
      <3>2. entry' = [k \in Keys |-> entry'[k]]
        BY <1>9 DEF Tick
      <3> QED BY <3>1, <3>2
    <2>2. run' \in [Runs -> Run]
      BY <1>9, OlderType, Ages, ZenonT(60) DEF Tick, Run
    <2>3. call' \in [Callers -> Call] /\ Cursor'
      <3>1. ASSUME NEW c \in Callers
            PROVE  /\ call'[c] \in Call /\ call'[c].pc = call[c].pc
                   /\ call'[c].key = call[c].key /\ call'[c].args = call[c].args
                   /\ call'[c].run = call[c].run
        <4>1. Older(call[c].age, MaxAge) \in 0..MaxAge
          BY OlderType, Ages DEF Call
        <4> QED BY <1>9, <4>1 DEF Tick, Call
      <3>2. call' = [c \in Callers |-> call'[c]]
        BY <1>9 DEF Tick
      <3> QED BY <3>1, <3>2 DEF Cursor
    <2>4. paidAge' \in [Keys -> 0..MaxAge]
      BY <1>9, OlderType, Ages DEF Tick
    <2> QED BY <1>9, <2>1, <2>2, <2>3, <2>4, NowhereType DEF Tick
  <1>10. CASE UNCHANGED vars
    BY <1>10 DEF vars, Cursor
  <1> QED BY <1>1, <1>2, <1>3, <1>4, <1>5, <1>6, <1>7, <1>8, <1>9, <1>10 DEF Next

(* The type invariant of the index, for every instance *)
THEOREM IndexTypeCorrect == Spec => []TypeOK
  <1>1. Spec => []TInv
    BY TypeInit, TypeStep, PTL DEF Spec
  <1>2. TInv => TypeOK
    BY DEF TInv
  <1> QED BY <1>1, <1>2, PTL

-----------------------------------------------------------------------------
(* One payment per horizon.  While a key is paid for, its entry stands     *)
(* guard: it was reserved no earlier than the payment's reservation, so no *)
(* comparison with the horizon lets it go.                                 *)

Guarded(k, age) ==
  /\ entry[k].form # "none"
  /\ entry[k].fileAge <= age
  /\ entry[k].form \in {"reserved", "active"} => entry[k].age <= age

Exclusive == \A c \in Callers : InSection(c) => lock = c

(* A file that disappears leaves the key to its publisher, who rewrites it *)
Rewriting(k) == "lost" \in Events /\ \E c \in Callers : At(c, "publish") /\ call[c].key = k
Protected == \A k \in Keys :
  Within(paidAge[k]) => Guarded(k, paidAge[k]) \/ Rewriting(k)

(* Only a key that is free to be paid for is reclaimed or spawned for *)
Spending == {"reclaim", "write", "rollback", "spawn", "meta", "undo"}
Unpaid == \A c \in Callers :
  call[c].pc \in Spending => ~Within(paidAge[call[c].key])

(* What a spawn will pay for is guarded already, and dated when it is paid *)
Holding == \A c \in Callers :
  call[c].pc \in {"spawn", "meta"} /\ Within(call[c].age) /\ "lost" \notin Events
    => Guarded(call[c].key, call[c].age)
Dated == \A c \in Callers :
  At(c, "publish") => paidAge[call[c].key] = call[c].age

Payments == Protected /\ Unpaid /\ Holding /\ Dated
PInv == TInv /\ Exclusive /\ Payments

(* A lost file and a publisher that fails or dies are two faults; the      *)
(* index survives either.                                                  *)
OneFault == "lost" \in Events => {"publish", "crash"} \cap Events = {}

LEMMA PaidInit == Init => PInv
  <1>1. ~Within(MaxAge)
    BY Ages DEF Within
  <1> QED BY <1>1, TypeInit, Ages
    DEF Init, PInv, Exclusive, Payments, Protected, Unpaid, Holding, Dated, Spending,
        InSection, At, Idle, NoEntry

(* Where a caller can be without anything resting on it *)
Harmless == {"idle", "wait", "sweep", "create", "classify"}

LEMMA Elsewhere ==
  ASSUME TInv, Exclusive, NEW c \in Callers, InSection(c), NEW d \in Callers, d # c
  PROVE  call[d].pc \in {"idle", "wait"}
  BY DEF Exclusive, InSection

LEMMA Quietly ==
  ASSUME PInv, NEW c \in Callers, call' = [call EXCEPT ![c] = call'[c]],
         call'[c].pc \in Harmless, UNCHANGED <<entry, paidAge>>,
         ~At(c, "publish") \/ "lost" \notin Events
  PROVE  Payments'
  <1> USE DEF PInv, TInv, TypeOK
  <1>1. Protected'
    BY DEF Payments, Protected, Guarded, Rewriting, At
  <1>2. Unpaid'
    BY DEF Payments, Unpaid, Harmless, Spending
  <1>3. Holding'
    BY DEF Payments, Holding, Guarded, Harmless
  <1>4. Dated'
    BY DEF Payments, Dated, At, Harmless
  <1> QED BY <1>1, <1>2, <1>3, <1>4 DEF Payments

LEMMA Removing ==
  ASSUME PInv, NEW c \in Callers, InSection(c), ~At(c, "publish"), NEW k \in Keys,
         ~Within(paidAge[k]), NEW left, entry' = [entry EXCEPT ![k] = left],
         call' = [call EXCEPT ![c] = call'[c]], call'[c].pc \in Harmless,
         UNCHANGED paidAge
  PROVE  Payments'
  <1> USE DEF PInv, TInv, TypeOK
  <1>0. \A d \in Callers : d # c => call[d].pc \in {"idle", "wait"}
    BY Elsewhere
  <1>1. Protected'
    BY <1>0 DEF Payments, Protected, Guarded, Rewriting, At
  <1>2. Unpaid'
    BY DEF Payments, Unpaid, Harmless, Spending
  <1>3. Holding'
    BY <1>0 DEF Payments, Holding, Guarded, Harmless
  <1>4. Dated'
    BY DEF Payments, Dated, At, Harmless
  <1> QED BY <1>1, <1>2, <1>3, <1>4 DEF Payments

(* A key that is paid for has an entry no age lets go *)
LEMMA Kept ==
  ASSUME PInv, NEW c \in Callers, InSection(c), ~At(c, "publish"), NEW k \in Keys,
         Within(paidAge[k])
  PROVE  /\ entry[k].form # "none"
         /\ entry[k].fileAge <= Horizon /\ ~IoSwept(k)
         /\ entry[k].form \in {"reserved", "active"} => Within(entry[k].age)
  <1> USE DEF PInv, TInv, TypeOK
  <1>1. ~Rewriting(k)
    BY Elsewhere DEF Rewriting, At
  <1>2. Guarded(k, paidAge[k])
    BY <1>1 DEF Payments, Protected
  <1>3. /\ paidAge[k] \in Nat /\ paidAge[k] <= Horizon
        /\ entry[k].fileAge \in Nat /\ entry[k].age \in Nat
    BY Ages DEF Within, Entry
  <1> QED BY <1>2, <1>3, Ages DEF Guarded, Within, IoSwept, IoSweepMult

(* The index changes hands at its ends only *)
LEMMA ExclusiveStep == TInv /\ Exclusive /\ [Next]_vars => Exclusive'
  <1> SUFFICES ASSUME TInv, Exclusive, [Next]_vars PROVE Exclusive'
    OBVIOUS
  <1> USE DEF TInv, TypeOK
  <1>1. ASSUME NEW c \in Callers, NEW to, call' = [call EXCEPT ![c] = to],
               \/ InSection(c) /\ lock' = lock
               \/ to.pc \in {"idle", "wait"} /\ lock' = lock
               \/ to.pc = "idle" /\ lock' = (IF lock = c THEN NoCaller ELSE lock)
               \/ LockFree(c) /\ lock' = c
        PROVE  Exclusive'
    BY <1>1, IndexActors DEF Exclusive, InSection, LockFree
  <1>2. ASSUME NEW c \in Callers, CallerStep(c) PROVE Exclusive'
    <2>1. CASE Enter(c)
      BY <1>1, <2>1 DEF Enter
    <2>2. ASSUME NEW kind, NEW r, Answer(c, kind, r) PROVE Exclusive'
      BY <1>1, <2>2 DEF Answer, Idle
    <2>3. ASSUME NEW pc, InSection(c), Go(c, pc), UNCHANGED lock PROVE Exclusive'
      BY <1>1, <2>3 DEF Go
    <2>4. CASE SweepOne(c)
      BY <1>1, <2>4 DEF SweepOne, At, InSection
    <2>5. CASE SweepDone(c) \/ Create(c)
      BY <2>3, <2>5 DEF SweepDone, Create, At, InSection
    <2>6. CASE Write(c)
      BY <1>1, <2>3, <2>6 DEF Write, At, InSection
    <2>7. CASE LockTimeout(c) \/ WriteFailed(c) \/ Undo(c) \/ Publish(c)
      BY <2>2, <2>7 DEF LockTimeout, WriteFailed, Undo, Publish
    <2>8. CASE Classify(c)
      <3>1. \/ \E kind, r : Answer(c, kind, r)
            \/ Go(c, "reclaim") /\ UNCHANGED lock
        BY <2>8 DEF Classify, Stale
      <3> QED BY <2>2, <2>3, <2>8, <3>1 DEF Classify, At, InSection
    <2>9. CASE Reclaim(c)
      BY <1>1, <2>9 DEF Reclaim, At, InSection
    <2>10. CASE Spawn(c)
      <3>1. InSection(c) /\ lock' = lock
        BY <2>10 DEF Spawn, At, InSection
      <3>2. \E to : call' = [call EXCEPT ![c] = to]
        BY <2>10 DEF Spawn, Go
      <3> QED BY <1>1, <3>1, <3>2
    <2>11. CASE WriteMeta(c)
      BY <1>1, <2>11 DEF WriteMeta, Go, At, InSection
    <2> QED BY <1>2, <2>1, <2>4, <2>5, <2>6, <2>7, <2>8, <2>9, <2>10, <2>11 DEF CallerStep
  <1>3. ASSUME NEW c \in Callers, NEW k \in Keys, NEW a \in Args, Begin(c, k, a)
        PROVE  Exclusive'
    BY <1>1, <1>3 DEF Begin, Idle
  <1>4. ASSUME UNCHANGED <<call, lock>> PROVE Exclusive'
    BY <1>4 DEF Exclusive, InSection
  <1>5. ASSUME NEW c \in Callers, Lose(c) PROVE Exclusive'
    BY <1>4, <1>5 DEF Lose
  <1>6. ASSUME NEW r \in Runs, WorkerEnds(r) \/ OtherCall(r) PROVE Exclusive'
    BY <1>4, <1>6 DEF WorkerEnds, OtherCall
  <1>7. ASSUME NEW k \in Keys, Deny(k) \/ Corrupt(k) PROVE Exclusive'
    BY <1>4, <1>7 DEF Deny, Corrupt
  <1>8. ASSUME NEW s \in Servers, Crash(s) PROVE Exclusive'
    BY <1>8 DEF Crash, Exclusive, InSection, Idle
  <1>9. CASE Tick
    <2>1. ASSUME NEW c \in Callers PROVE call'[c].pc = call[c].pc
      BY <1>9 DEF Tick, Call
    <2> QED BY <1>9, <2>1 DEF Tick, Exclusive, InSection
  <1>10. CASE UNCHANGED vars
    BY <1>4, <1>10 DEF vars
  <1> QED BY <1>2, <1>3, <1>5, <1>6, <1>7, <1>8, <1>9, <1>10 DEF Next

(* What the sweep may do with a file *)
LEMMA SweepFacts ==
  ASSUME NEW c \in Callers, SweepOne(c)
  PROVE  \E k \in call[c].todo :
            /\ call' = [call EXCEPT ![c].todo = @ \ {k}]
            /\ \/ UNCHANGED entry
               \/ Remove(k) /\ \/ entry[k].fileAge > Horizon
                               \/ IoSwept(k)
                               \/ entry[k].form \in {"reserved", "active"}
                                  /\ ~Within(entry[k].age)
  <1>1. PICK k \in call[c].todo :
          /\ call' = [call EXCEPT ![c].todo = @ \ {k}]
          /\ \/ UNCHANGED entry
             \/ Remove(k) /\ \/ entry[k].fileAge > Horizon
                             \/ IoSwept(k)
                             \/ ("reserved" \in Readings(k) \/ "active" \in Readings(k))
                                /\ ~Within(entry[k].age)
    BY Zenon DEF SweepOne
  <1>2. "reserved" \in Readings(k) \/ "active" \in Readings(k)
          => entry[k].form \in {"reserved", "active"}
    BY Zenon DEF Readings
  <1> QED BY <1>1, <1>2, Zenon

(* The steps of a call up to its reservation *)
LEMMA ReservingSteps ==
  ASSUME PInv, NEW c \in Callers,
         \/ Enter(c) \/ LockTimeout(c) \/ SweepOne(c) \/ SweepDone(c)
         \/ Create(c) \/ Write(c) \/ WriteFailed(c) \/ Classify(c) \/ Reclaim(c)
  PROVE  Payments'
  <1> USE DEF PInv, TInv, TypeOK
  <1>0. ASSUME NEW pc \in Harmless, Go(c, pc)
        PROVE  call' = [call EXCEPT ![c] = call'[c]] /\ call'[c].pc \in Harmless
    BY <1>0 DEF Go, Call
  <1>00. ASSUME NEW kind, NEW r, Answer(c, kind, r)
         PROVE  call' = [call EXCEPT ![c] = call'[c]] /\ call'[c].pc \in Harmless
    BY <1>00 DEF Answer, Idle, Harmless
  <1>1. CASE Enter(c)
    <2>1. call' = [call EXCEPT ![c] = call'[c]] /\ call'[c].pc = "sweep"
      BY <1>1 DEF Enter, Call
    <2> QED BY <1>1, <2>1, Quietly DEF Enter, At, Harmless
  <1>2. CASE LockTimeout(c)
    BY <1>2, <1>00, Quietly DEF LockTimeout, At
  <1>3. CASE SweepOne(c)
    <2>1. PICK k \in call[c].todo :
            /\ call' = [call EXCEPT ![c].todo = @ \ {k}]
            /\ \/ UNCHANGED entry
               \/ Remove(k) /\ \/ entry[k].fileAge > Horizon
                               \/ IoSwept(k)
                               \/ entry[k].form \in {"reserved", "active"}
                                  /\ ~Within(entry[k].age)
      BY <1>3, SweepFacts
    <2>2. k \in Keys /\ InSection(c) /\ ~At(c, "publish") /\ UNCHANGED paidAge
      BY <1>3 DEF SweepOne, Call, At, InSection
    <2>3. call' = [call EXCEPT ![c] = call'[c]] /\ call'[c].pc = "sweep"
      BY <1>3, <2>1 DEF SweepOne, At, Call
    <2>4. CASE UNCHANGED entry
      BY <2>2, <2>3, <2>4, Quietly DEF Harmless
    <2>5. CASE ~UNCHANGED entry
      <3>1. ~Within(paidAge[k])
        <4>1. entry[k].fileAge \in Nat
          BY <2>2 DEF Entry
        <4> QED BY <2>1, <2>2, <2>5, <4>1, Kept, Ages
      <3>2. PICK left : entry' = [entry EXCEPT ![k] = left]
        BY <2>1, <2>5 DEF Remove
      <3> QED BY <2>2, <2>3, <3>1, <3>2, Removing DEF Harmless
    <2> QED BY <2>4, <2>5
  <1>4. CASE SweepDone(c)
    BY <1>4, <1>0, Quietly DEF SweepDone, At, Harmless
  <1>5. CASE Create(c)
    <2> DEFINE k == call[c].key
    <2>1. k \in Keys /\ InSection(c) /\ ~At(c, "publish") /\ UNCHANGED paidAge
      BY <1>5 DEF Create, At, InSection, Cursor
    <2>2. CASE entry[k].form # "none"
      <3>1. Go(c, "classify") /\ UNCHANGED entry
        BY <1>5, <2>2 DEF Create
      <3> QED BY <2>1, <3>1, <1>0, Quietly DEF Harmless
    <2>3. CASE entry[k].form = "none"
      <3>1. ~Within(paidAge[k])
        BY <2>1, <2>3, Kept
      <3>2. entry' = [entry EXCEPT ![k] = Placeholder] /\ call' = [call EXCEPT ![c].pc = "write"]
        BY <1>5, <2>3 DEF Create, Go
      <3>3. \A d \in Callers : d # c => call[d].pc \in {"idle", "wait"}
        BY <2>1, Elsewhere
      <3>4. Protected'
        BY <2>1, <3>1, <3>2, <3>3 DEF Payments, Protected, Guarded, Rewriting, At
      <3>5. Unpaid'
        BY <2>1, <3>1, <3>2 DEF Payments, Unpaid
      <3>6. Holding' /\ Dated'
        BY <2>1, <3>2, <3>3 DEF Payments, Holding, Dated, At
      <3> QED BY <3>4, <3>5, <3>6 DEF Payments
    <2> QED BY <2>2, <2>3
  <1>6. CASE Write(c)
    <2> DEFINE k == call[c].key
    <2>1. /\ k \in Keys /\ call[c].args \in Args /\ InSection(c) /\ ~At(c, "publish")
          /\ call[c].pc = "write" /\ UNCHANGED paidAge
      BY <1>6 DEF Write, At, InSection, Cursor
    <2>2. ~Within(paidAge[k])
      BY <2>1 DEF Payments, Unpaid, Spending
    <2>3. \A d \in Callers : d # c => call[d].pc \in {"idle", "wait"}
      BY <2>1, Elsewhere
    <2>4. CASE /\ entry' = [entry EXCEPT ![k] = Reserved(call[c].args)]
               /\ call' = [call EXCEPT ![c].pc = "spawn", ![c].age = 0]
      <3>1. Guarded(k, 0)'
        BY <2>1, <2>4, ReservedType DEF Guarded
      <3>2. Protected'
        BY <2>1, <2>2, <2>3, <2>4 DEF Payments, Protected, Guarded, Rewriting, At
      <3>3. Unpaid'
        BY <2>1, <2>2, <2>4 DEF Payments, Unpaid
      <3>4. Holding' /\ Dated'
        BY <2>1, <2>3, <2>4, <3>1 DEF Payments, Holding, Dated, At, Call
      <3> QED BY <3>2, <3>3, <3>4 DEF Payments
    <2>5. CASE UNCHANGED entry /\ call' = [call EXCEPT ![c].pc = "rollback"]
      <3>1. Protected'
        BY <2>1, <2>2, <2>3, <2>5 DEF Payments, Protected, Guarded, Rewriting, At
      <3>2. Unpaid'
        BY <2>1, <2>2, <2>5 DEF Payments, Unpaid
      <3>3. Holding' /\ Dated'
        BY <2>1, <2>3, <2>5 DEF Payments, Holding, Dated, At
      <3> QED BY <3>1, <3>2, <3>3 DEF Payments
    <2> QED BY <1>6, <2>4, <2>5 DEF Write, Go
  <1>7. CASE WriteFailed(c)
    <2>1. /\ call[c].key \in Keys /\ InSection(c) /\ ~At(c, "publish")
          /\ call[c].pc = "rollback" /\ UNCHANGED paidAge
      BY <1>7 DEF WriteFailed, At, InSection, Cursor
    <2>2. ~Within(paidAge[call[c].key])
      BY <2>1 DEF Payments, Unpaid, Spending
    <2>3. PICK left : entry' = [entry EXCEPT ![call[c].key] = left]
      BY <1>7 DEF WriteFailed, RollBack
    <2>4. Answer(c, "error", NoRun)
      BY <1>7 DEF WriteFailed
    <2> QED BY <2>1, <2>2, <2>3, <2>4, <1>00, Removing
  <1>8. CASE Classify(c)
    <2> DEFINE k == call[c].key
    <2>1. /\ k \in Keys /\ InSection(c) /\ ~At(c, "publish")
          /\ UNCHANGED <<entry, paidAge>>
      BY <1>8 DEF Classify, At, InSection, Cursor
    <2>2. \/ \E kind, r : Answer(c, kind, r)
          \/ /\ Go(c, "reclaim")
             /\ \/ entry[k].form = "none"
                \/ entry[k].fileAge > Horizon
                \/ entry[k].form \in {"reserved", "active"} /\ ~Within(entry[k].age)
      BY <1>8 DEF Classify, Stale, Readings
    <2>3. CASE \E kind, r : Answer(c, kind, r)
      BY <2>1, <2>3, <1>00, Quietly
    <2>4. CASE /\ Go(c, "reclaim")
               /\ \/ entry[k].form = "none"
                  \/ entry[k].fileAge > Horizon
                  \/ entry[k].form \in {"reserved", "active"} /\ ~Within(entry[k].age)
      <3>1. ~Within(paidAge[k])
        <4>1. entry[k].fileAge \in Nat
          BY <2>1 DEF Entry
        <4> QED BY <2>1, <2>4, <4>1, Kept, Ages
      <3>2. call' = [call EXCEPT ![c].pc = "reclaim"]
        BY <2>4 DEF Go
      <3>3. Protected'
        BY <2>1, <3>2 DEF Payments, Protected, Guarded, Rewriting, At
      <3>4. Unpaid'
        BY <2>1, <3>1, <3>2 DEF Payments, Unpaid
      <3>5. Holding' /\ Dated'
        BY <2>1, <3>2 DEF Payments, Holding, Guarded, Dated, At
      <3> QED BY <3>3, <3>4, <3>5 DEF Payments
    <2> QED BY <2>2, <2>3, <2>4
  <1>9. CASE Reclaim(c)
    <2>1. /\ call[c].key \in Keys /\ InSection(c) /\ ~At(c, "publish")
          /\ call[c].pc = "reclaim" /\ UNCHANGED paidAge
      BY <1>9 DEF Reclaim, At, InSection, Cursor
    <2>2. ~Within(paidAge[call[c].key])
      BY <2>1 DEF Payments, Unpaid, Spending
    <2>3. call' = [call EXCEPT ![c] = call'[c]] /\ call'[c].pc = "create"
      BY <1>9, ZenonT(60) DEF Reclaim, Call
    <2>4. PICK left : entry' = [entry EXCEPT ![call[c].key] = left]
      BY <1>9 DEF Reclaim, Remove
    <2> QED BY <2>1, <2>2, <2>3, <2>4, Removing DEF Harmless
  <1> QED BY <1>1, <1>2, <1>3, <1>4, <1>5, <1>6, <1>7, <1>8, <1>9

(* The steps of a call that won its reservation *)
LEMMA PayingSteps ==
  ASSUME PInv, OneFault, NEW c \in Callers,
         Spawn(c) \/ WriteMeta(c) \/ Undo(c) \/ Publish(c)
  PROVE  Payments'
  <1> USE DEF PInv, TInv, TypeOK
  <1>0. PICK k \in Keys : k = call[c].key /\ InSection(c) /\ call[c].args \in Args
    BY DEF Spawn, WriteMeta, Undo, Publish, At, InSection, Cursor
  <1> USE <1>0
  <1>00. \A d \in Callers : d # c => call[d].pc \in {"idle", "wait"}
    BY <1>0, Elsewhere
  <1>1. ASSUME call[c].pc \in {"spawn", "meta"}, UNCHANGED <<entry, paidAge>>,
               call' = [call EXCEPT ![c] = call'[c]], call'[c].pc \in {"meta", "undo"},
               call'[c].key = k, call'[c].age = call[c].age
        PROVE  Payments'
    <2>1. Protected'
      BY <1>0, <1>00, <1>1 DEF Payments, Protected, Guarded, Rewriting, At
    <2>2. Unpaid'
      BY <1>1 DEF Payments, Unpaid, Spending
    <2>3. Holding'
      BY <1>1 DEF Payments, Holding, Guarded
    <2>4. Dated'
      BY <1>1 DEF Payments, Dated, At
    <2> QED BY <2>1, <2>2, <2>3, <2>4 DEF Payments
  <1>2. CASE Spawn(c)
    <2>1. /\ call[c].pc = "spawn" /\ UNCHANGED <<entry, paidAge>>
          /\ \/ \E r : call' = [call EXCEPT ![c].pc = "meta", ![c].run = r]
             \/ call' = [call EXCEPT ![c].pc = "undo"]
      BY <1>2, Zenon DEF Spawn, Go, At
    <2>2. /\ call' = [call EXCEPT ![c] = call'[c]] /\ call'[c].pc \in {"meta", "undo"}
          /\ call'[c].key = k /\ call'[c].age = call[c].age
      BY <2>1 DEF Call
    <2> QED BY <1>1, <2>1, <2>2
  <1>3. CASE WriteMeta(c)
    <2>1. call[c].pc = "meta" /\ UNCHANGED entry
      BY <1>3 DEF WriteMeta, At
    <2>2. CASE /\ call' = [call EXCEPT ![c].pc = "undo", ![c].run = NoRun]
               /\ UNCHANGED paidAge
      <3>1. /\ call' = [call EXCEPT ![c] = call'[c]] /\ call'[c].pc = "undo"
            /\ call'[c].key = k /\ call'[c].age = call[c].age
        BY <2>2 DEF Call
      <3> QED BY <1>1, <2>1, <2>2, <3>1
    <2>3. CASE /\ call' = [call EXCEPT ![c].pc = "publish"]
               /\ paidAge' = [paidAge EXCEPT ![k] = call[c].age]
      <3>1. /\ call'[c].pc = "publish" /\ call'[c].key = k /\ call'[c].age = call[c].age
            /\ \A d \in Callers : d # c => call'[d] = call[d]
        BY <2>3 DEF Call
      <3>2. /\ paidAge'[k] = call[c].age
            /\ \A q \in Keys : q # k => paidAge'[q] = paidAge[q]
        BY <1>0, <2>3
      <3>3. Protected'
        <4>1. ASSUME Within(call[c].age), "lost" \notin Events PROVE Guarded(k, call[c].age)
          BY <2>1, <4>1 DEF Payments, Holding
        <4>2. ASSUME NEW q \in Keys, q # k, Within(paidAge[q])
              PROVE  Guarded(q, paidAge[q])
          BY <1>00, <2>1, <4>2 DEF Payments, Protected, Rewriting, At
        <4>3. ASSUME "lost" \in Events PROVE Rewriting(k)'
          BY <3>1, <4>3 DEF Rewriting, At
        <4>4. ASSUME NEW q \in Keys, Guarded(q, paidAge'[q]) PROVE Guarded(q, paidAge[q])'
          BY <2>1, <4>4 DEF Guarded
        <4>5. ASSUME NEW q \in Keys, Within(paidAge[q])'
              PROVE  Guarded(q, paidAge[q])' \/ Rewriting(q)'
          <5>1. CASE q = k
            BY <3>2, <4>1, <4>3, <4>4, <4>5, <5>1 DEF Within
          <5>2. CASE q # k
            BY <3>2, <4>2, <4>4, <4>5, <5>2 DEF Within
          <5> QED BY <5>1, <5>2
        <4> QED BY <4>5 DEF Protected
      <3>4. Unpaid'
        BY <1>00, <3>1 DEF Unpaid, Spending
      <3>5. Holding'
        BY <1>00, <3>1 DEF Holding
      <3>6. Dated'
        BY <1>00, <3>1, <3>2 DEF Dated, At
      <3> QED BY <3>3, <3>4, <3>5, <3>6 DEF Payments
    <2> QED BY <1>3, <2>2, <2>3 DEF WriteMeta, Go
  <1>4. CASE Undo(c)
    <2>1. ~At(c, "publish") /\ UNCHANGED paidAge /\ ~Within(paidAge[k])
      BY <1>4 DEF Undo, At, Payments, Unpaid, Spending
    <2>2. PICK left : entry' = [entry EXCEPT ![k] = left]
      BY <1>4 DEF Undo, Remove
    <2>3. call' = [call EXCEPT ![c] = call'[c]] /\ call'[c].pc \in Harmless
      BY <1>4 DEF Undo, Answer, Idle, Harmless
    <2> QED BY <1>0, <2>1, <2>2, <2>3, Removing
  <1>5. CASE Publish(c)
    <2>1. /\ call[c].pc = "publish" /\ UNCHANGED paidAge
          /\ call' = [call EXCEPT ![c] = Idle] /\ call'[c] = Idle
      BY <1>5 DEF Publish, Answer, At
    <2>2. CASE entry' = [entry EXCEPT ![k] = Published(c)]
      <3>1. \A d \in Callers : call'[d].pc \in {"idle", "wait"}
        BY <1>00, <2>1 DEF Idle
      <3>2. entry'[k].form = "active" /\ entry'[k].fileAge = 0 /\ entry'[k].age = call[c].age
        BY <1>0, <2>2 DEF Published, Reserved, NoEntry
      <3>3. paidAge[k] = call[c].age /\ paidAge[k] \in Nat
        BY <1>0, <2>1, Ages DEF Payments, Dated, At
      <3>4. Protected'
        <4>1. Guarded(k, paidAge[k])'
          BY <2>1, <3>2, <3>3 DEF Guarded
        <4>2. ASSUME NEW q \in Keys, q # k, Within(paidAge[q])
              PROVE  Guarded(q, paidAge[q])'
          <5>1. ~Rewriting(q)
            BY <1>00, <4>2 DEF Rewriting, At
          <5>2. Guarded(q, paidAge[q])
            BY <4>2, <5>1 DEF Payments, Protected
          <5> QED BY <2>1, <2>2, <4>2, <5>2 DEF Guarded
        <4> QED BY <2>1, <4>1, <4>2 DEF Protected, Within
      <3> QED BY <3>1, <3>4 DEF Payments, Unpaid, Holding, Dated, Spending, At
    <2>3. CASE "publish" \in Events /\ UNCHANGED entry
      <3>1. "lost" \notin Events
        BY <2>3 DEF OneFault
      <3> QED BY <2>1, <2>3, <3>1, Quietly DEF Idle, Harmless
    <2> QED BY <1>5, <2>2, <2>3 DEF Publish
  <1> QED BY <1>2, <1>3, <1>4, <1>5

LEMMA OlderSteps ==
  ASSUME NEW x \in Nat, NEW max \in Nat
  PROVE  /\ Older(x, max) \in Nat /\ Older(x, max) <= x + 1
         /\ x <= max => x <= Older(x, max)
         /\ x <= MaxAge /\ Within(Older(x, MaxAge)) => Within(x) /\ Older(x, MaxAge) = x + 1
  BY Ages DEF Older, Within

(* Time ages an entry no faster than the payment it stands guard for *)
LEMMA TickPayments == PInv /\ Tick => Payments'
  <1> SUFFICES ASSUME PInv, Tick PROVE Payments'
    OBVIOUS
  <1> USE DEF PInv, TInv, TypeOK
  <1>1. ASSUME NEW c \in Callers
        PROVE  /\ call'[c].pc = call[c].pc /\ call'[c].key = call[c].key
               /\ call[c].pc \in {"spawn", "meta", "publish"}
                    => call'[c].age = Older(call[c].age, MaxAge)
               /\ call[c].age \in Nat /\ call[c].age <= MaxAge
               /\ call[c].pc # "idle" => call[c].key \in Keys
    <2>1. call[c] \in Call /\ Older(call[c].age, MaxAge) \in 0..MaxAge
      BY OlderType, Ages DEF Call
    <2>2. call'[c] = [call[c] EXCEPT
            !.age = IF call[c].pc \in {"spawn", "meta", "publish"}
                    THEN Older(call[c].age, MaxAge) ELSE call[c].age]
      BY DEF Tick
    <2>3. /\ call'[c].pc = call[c].pc /\ call'[c].key = call[c].key
          /\ call[c].pc \in {"spawn", "meta", "publish"}
               => call'[c].age = Older(call[c].age, MaxAge)
      BY <2>1, <2>2 DEF Call
    <2>4. call[c].age \in Nat /\ call[c].age <= MaxAge
      BY <2>1, Ages DEF Call
    <2> QED BY <2>3, <2>4 DEF Cursor
  <1>2. ASSUME NEW k \in Keys
        PROVE  /\ paidAge'[k] = Older(paidAge[k], MaxAge)
               /\ paidAge[k] \in Nat /\ paidAge[k] <= MaxAge
    <2>1. paidAge[k] \in 0..MaxAge
      OBVIOUS
    <2>2. paidAge'[k] = Older(paidAge[k], MaxAge)
      BY Zenon DEF Tick
    <2>3. paidAge[k] \in Nat /\ paidAge[k] <= MaxAge
      BY <2>1, Ages
    <2> QED BY <2>2, <2>3
  <1>3. ASSUME NEW k \in Keys
        PROVE  /\ entry'[k].form = entry[k].form
               /\ entry'[k].fileAge \in Nat /\ entry'[k].fileAge <= entry[k].fileAge + 1
               /\ entry'[k].age \in Nat /\ entry'[k].age <= entry[k].age + 1
               /\ entry[k].fileAge \in Nat /\ entry[k].age \in Nat
    <2>1. entry[k].fileAge \in Nat /\ entry[k].age \in Nat
      BY Ages DEF Entry
    <2>2. /\ entry'[k].form = entry[k].form
          /\ entry'[k].fileAge \in {Older(entry[k].fileAge, MaxFileAge), entry[k].fileAge}
          /\ entry'[k].age \in {Older(entry[k].age, MaxAge), entry[k].age}
      BY DEF Tick, Entry
    <2>3. /\ Older(entry[k].fileAge, MaxFileAge) \in Nat
          /\ Older(entry[k].fileAge, MaxFileAge) <= entry[k].fileAge + 1
          /\ Older(entry[k].age, MaxAge) \in Nat
          /\ Older(entry[k].age, MaxAge) <= entry[k].age + 1
      BY <2>1, OlderSteps, Ages
    <2> QED BY <2>1, <2>2, <2>3
  <1>4. ASSUME NEW k \in Keys, NEW age \in Nat, Guarded(k, age)
        PROVE  Guarded(k, age + 1)'
    BY <1>3, <1>4 DEF Guarded
  <1>5. Protected'
    <2>1. ASSUME NEW k \in Keys, Within(paidAge[k])'
          PROVE  Guarded(k, paidAge[k])' \/ Rewriting(k)'
      <3>1. Within(paidAge[k]) /\ paidAge'[k] = paidAge[k] + 1
        BY <1>2, <2>1, OlderSteps, Ages DEF Within
      <3>2. CASE Guarded(k, paidAge[k])
        <4> PICK age \in Nat : age = paidAge[k]
          BY <1>2
        <4>1. Guarded(k, age + 1)'
          BY <1>4, <3>2
        <4> QED BY <3>1, <4>1 DEF Guarded
      <3>3. CASE Rewriting(k)
        BY <1>1, <3>3 DEF Rewriting, At
      <3> QED BY <3>1, <3>2, <3>3 DEF Payments, Protected
    <2> QED BY <2>1 DEF Protected
  <1>6. Unpaid'
    <2>1. ASSUME NEW c \in Callers, call[c].pc \in Spending
          PROVE  ~Within(paidAge'[call[c].key])
      <3>1. call[c].key \in Keys /\ ~Within(paidAge[call[c].key])
        BY <1>1, <2>1 DEF Payments, Unpaid, Spending
      <3>2. paidAge'[call[c].key] = Older(paidAge[call[c].key], MaxAge)
        BY <1>2, <3>1
      <3> QED BY <1>2, <3>1, <3>2, OlderSteps, Ages
    <2> QED BY <1>1, <2>1 DEF Unpaid, Within
  <1>7. Holding'
    <2>1. ASSUME NEW c \in Callers, call'[c].pc \in {"spawn", "meta"},
                 Within(call[c].age)', "lost" \notin Events
          PROVE  Guarded(call[c].key, call[c].age)'
      <3>1. /\ Within(call[c].age) /\ call'[c].age = call[c].age + 1
            /\ call[c].key \in Keys /\ call'[c].key = call[c].key
        BY <1>1, <2>1, OlderSteps, Ages DEF Within
      <3>2. Guarded(call[c].key, call[c].age)
        BY <1>1, <2>1, <3>1 DEF Payments, Holding
      <3> PICK k \in Keys, age \in Nat : k = call[c].key /\ age = call[c].age
        BY <1>1, <3>1
      <3>3. Guarded(k, age + 1)'
        BY <1>4, <3>2
      <3> QED BY <3>1, <3>3 DEF Guarded
    <2> QED BY <2>1 DEF Holding
  <1>8. Dated'
    BY <1>1, <1>2 DEF Payments, Dated, At
  <1> QED BY <1>5, <1>6, <1>7, <1>8 DEF Payments

(* A crash pays for the run of a caller that dies with it, and frees it *)
LEMMA CrashPayments ==
  ASSUME PInv, OneFault, NEW s \in Servers, Crash(s)
  PROVE  Payments'
  <1> USE DEF PInv, TInv, TypeOK
  <1>1. "lost" \notin Events /\ UNCHANGED entry
    BY DEF Crash, OneFault
  <1>2. ASSUME NEW c \in Callers
        PROVE  call'[c] = call[c] \/ call'[c] = Idle
    BY DEF Crash
  <1>3. ASSUME NEW k \in Keys, Within(paidAge[k]) PROVE Guarded(k, paidAge[k])
    BY <1>1, <1>3 DEF Payments, Protected, Rewriting
  <1>4. CASE UNCHANGED paidAge
    <2>1. Protected'
      BY <1>1, <1>3, <1>4 DEF Protected, Guarded
    <2>2. Unpaid' /\ Holding' /\ Dated'
      BY <1>1, <1>2, <1>4
      DEF Payments, Unpaid, Holding, Dated, Guarded, Spending, At, Idle
    <2> QED BY <2>1, <2>2 DEF Payments
  <1>5. ASSUME NEW c \in Callers, At(c, "meta"), call'[c] = Idle,
               paidAge' = [paidAge EXCEPT ![call[c].key] = call[c].age]
        PROVE  Payments'
    <2>1. call[c].key \in Keys /\ InSection(c)
      BY <1>5 DEF At, InSection, Cursor
    <2>2. \A d \in Callers : call'[d].pc \in {"idle", "wait"}
      BY <1>2, <1>5, <2>1, Elsewhere DEF Idle
    <2>3. Within(call[c].age) => Guarded(call[c].key, call[c].age)
      BY <1>1, <1>5 DEF Payments, Holding, At
    <2>4. Protected'
      BY <1>1, <1>3, <1>5, <2>1, <2>3 DEF Protected, Guarded
    <2> QED BY <2>2, <2>4 DEF Payments, Unpaid, Holding, Dated, Spending, At
  <1> QED BY <1>4, <1>5 DEF Crash

LEMMA PaymentsStep == PInv /\ OneFault /\ [Next]_vars => Payments'
  <1> SUFFICES ASSUME PInv, OneFault, [Next]_vars PROVE Payments'
    OBVIOUS
  <1> USE DEF PInv, TInv, TypeOK
  <1>1. ASSUME NEW c \in Callers, CallerStep(c) PROVE Payments'
    BY <1>1, ReservingSteps, PayingSteps DEF CallerStep
  <1>2. ASSUME NEW c \in Callers, NEW k \in Keys, NEW a \in Args, Begin(c, k, a)
        PROVE  Payments'
    <2>1. call' = [call EXCEPT ![c] = call'[c]] /\ call'[c].pc = "wait"
      BY <1>2 DEF Begin, Idle
    <2> QED BY <1>2, <2>1, Quietly DEF Begin, At, Harmless
  <1>3. ASSUME NEW c \in Callers, Lose(c) PROVE Payments'
    <2>1. PICK k \in Keys : /\ k = call[c].key /\ entry' = [entry EXCEPT ![k] = NoEntry]
                            /\ "lost" \in Events /\ UNCHANGED <<call, paidAge>>
      BY <1>3 DEF Lose, Cursor
    <2>2. At(c, "publish") \/ ~Within(paidAge[k])
      BY <1>3, <2>1 DEF Lose, At, Payments, Unpaid, Spending
    <2>3. Protected'
      BY <2>1, <2>2 DEF Payments, Protected, Guarded, Rewriting, At
    <2> QED BY <2>1, <2>3 DEF Payments, Unpaid, Holding, Dated, At
  <1>4. ASSUME UNCHANGED <<entry, call, paidAge>> PROVE Payments'
    BY <1>4 DEF Payments, Protected, Unpaid, Holding, Dated, Guarded, Rewriting, At
  <1>5. ASSUME NEW r \in Runs, WorkerEnds(r) \/ OtherCall(r) PROVE Payments'
    BY <1>4, <1>5 DEF WorkerEnds, OtherCall
  <1>6. ASSUME NEW k \in Keys, Deny(k) \/ Corrupt(k) PROVE Payments'
    <2>1. UNCHANGED <<call, paidAge>> /\ \A q \in Keys : q # k => entry'[q] = entry[q]
      BY <1>6 DEF Deny, Corrupt
    <2>2. ASSUME NEW age \in Nat, Guarded(k, age) PROVE Guarded(k, age)'
      <3>1. CASE Deny(k)
        BY <2>2, <3>1 DEF Deny, Guarded, Entry
      <3>2. CASE Corrupt(k)
        BY <2>2, <3>2 DEF Corrupt, Guarded, NoEntry
      <3> QED BY <1>6, <3>1, <3>2
    <2>3. ASSUME NEW q \in Keys, NEW age \in Nat, Guarded(q, age) PROVE Guarded(q, age)'
      BY <2>1, <2>2, <2>3 DEF Guarded
    <2>4. Protected'
      <3>1. ASSUME NEW q \in Keys, Within(paidAge[q])
            PROVE  Guarded(q, paidAge[q])' \/ Rewriting(q)'
        <4> PICK age \in Nat : age = paidAge[q]
          BY Ages
        <4>1. Guarded(q, age)' \/ Rewriting(q)'
          BY <2>1, <2>3, <3>1 DEF Payments, Protected, Rewriting, At
        <4> QED BY <2>1, <4>1 DEF Guarded
      <3> QED BY <2>1, <3>1 DEF Protected, Within
    <2>5. Holding'
      <3>1. ASSUME NEW c \in Callers, call[c].pc \in {"spawn", "meta"},
                   Within(call[c].age), "lost" \notin Events
            PROVE  Guarded(call[c].key, call[c].age)'
        <4> PICK q \in Keys, age \in Nat : q = call[c].key /\ age = call[c].age
          BY <3>1, Ages DEF Cursor, Call
        <4>1. Guarded(q, age)'
          BY <2>3, <3>1 DEF Payments, Holding
        <4> QED BY <2>1, <4>1 DEF Guarded
      <3> QED BY <2>1, <3>1 DEF Holding, Within
    <2> QED BY <2>1, <2>4, <2>5 DEF Payments, Unpaid, Dated, At
  <1>7. ASSUME NEW s \in Servers, Crash(s) PROVE Payments'
    BY <1>7, CrashPayments
  <1>8. CASE Tick
    BY <1>8, TickPayments
  <1>9. CASE UNCHANGED vars
    BY <1>4, <1>9 DEF vars
  <1> QED BY <1>1, <1>2, <1>3, <1>5, <1>6, <1>7, <1>8, <1>9 DEF Next

(* A key is paid for at most once within the horizon of its reservation,   *)
(* whatever retries, read errors, corrupted files, failed writes, crashes  *)
(* and clock readings come in between.                                     *)
THEOREM PaidOncePerHorizon == OneFault /\ Spec => OncePerHorizon
  <1> DEFINE Paid == OneFault /\ PInv
  <1>1. OneFault /\ Init => Paid
    BY PaidInit
  <1>2. Paid /\ [Next]_vars => Paid'
    BY TypeStep, ExclusiveStep, PaymentsStep DEF PInv, OneFault
  <1>3. Paid /\ [Next]_vars
          => [\A c \in Callers :
                At(c, "meta") /\ call'[c].pc \notin {"meta", "undo"}
                  => ~Within(paidAge[call[c].key])]_vars
    BY DEF PInv, Payments, Unpaid, Spending, At
  <1> QED BY <1>1, <1>2, <1>3, PTL DEF Spec, OncePerHorizon

-----------------------------------------------------------------------------
(* Failed starts                                                           *)

(* A call has a run in hand from its spawn to its publication only. *)
Emptyhanded == \A c \in Callers :
  call[c].pc \notin {"meta", "publish"} => call[c].run = NoRun

LEMMA Hands ==
  ASSUME TInv, Emptyhanded, NEW c \in Callers, NEW to, call' = [call EXCEPT ![c] = to],
         to.run = NoRun \/ to.pc \in {"meta", "publish"}
  PROVE  Emptyhanded'
  BY DEF TInv, TypeOK, Emptyhanded

LEMMA GoHands ==
  ASSUME TInv, Emptyhanded, NEW c \in Callers, NEW pc, Go(c, pc),
         pc \in {"meta", "publish"} \/ call[c].pc \notin {"meta", "publish"}
  PROVE  Emptyhanded'
  <1> DEFINE to == [call[c] EXCEPT !.pc = pc]
  <1>1. to.run = call[c].run /\ to.pc = pc
    BY DEF TInv, TypeOK, Call
  <1>2. call' = [call EXCEPT ![c] = to]
    BY DEF Go
  <1> HIDE DEF to
  <1> QED BY <1>1, <1>2, Hands DEF Emptyhanded

LEMMA AnswerHands ==
  ASSUME TInv, Emptyhanded, NEW c \in Callers, NEW kind, NEW r, Answer(c, kind, r)
  PROVE  Emptyhanded'
  BY Hands DEF Answer, Idle

LEMMA CallHands ==
  ASSUME TInv, Emptyhanded, NEW c \in Callers, CallerStep(c)
  PROVE  Emptyhanded'
  <1>0. call[c] \in Call
    BY DEF TInv, TypeOK
  <1>1. CASE Enter(c)
    <2> DEFINE to == [call[c] EXCEPT !.pc = "sweep", !.todo = {k \in Keys : entry[k].form # "none"}]
    <2>1. to.run = NoRun
      BY <1>0, <1>1 DEF Enter, At, Emptyhanded, Call
    <2>2. call' = [call EXCEPT ![c] = to]
      BY <1>1 DEF Enter
    <2> HIDE DEF to
    <2> QED BY <2>1, <2>2, Hands
  <1>2. CASE LockTimeout(c) \/ WriteFailed(c) \/ Undo(c) \/ Publish(c)
    BY <1>2, AnswerHands DEF LockTimeout, WriteFailed, Undo, Publish
  <1>3. CASE SweepOne(c)
    <2>1. PICK k \in call[c].todo : call' = [call EXCEPT ![c].todo = @ \ {k}]
      BY <1>3 DEF SweepOne
    <2> DEFINE to == [call[c] EXCEPT !.todo = @ \ {k}]
    <2>2. to.run = NoRun
      BY <1>0, <1>3 DEF SweepOne, At, Emptyhanded, Call
    <2>3. call' = [call EXCEPT ![c] = to]
      BY <2>1
    <2> HIDE DEF to
    <2> QED BY <2>2, <2>3, Hands
  <1>4. CASE SweepDone(c) \/ Create(c)
    BY <1>4, GoHands DEF SweepDone, Create, At
  <1>5. CASE Write(c)
    <2>1. CASE Go(c, "rollback")
      BY <1>5, <2>1, GoHands DEF Write, At
    <2>2. CASE call' = [call EXCEPT ![c].pc = "spawn", ![c].age = 0]
      <3> DEFINE to == [call[c] EXCEPT !.pc = "spawn", !.age = 0]
      <3>1. to.run = NoRun
        BY <1>0, <1>5 DEF Write, At, Emptyhanded, Call
      <3>2. call' = [call EXCEPT ![c] = to]
        BY <2>2
      <3> HIDE DEF to
      <3> QED BY <3>1, <3>2, Hands
    <2> QED BY <1>5, <2>1, <2>2 DEF Write
  <1>6. CASE Classify(c)
    <2>1. (\E kind, r : Answer(c, kind, r)) \/ Go(c, "reclaim")
      BY <1>6 DEF Classify, Stale
    <2> QED BY <1>6, <2>1, AnswerHands, GoHands DEF Classify, At
  <1>7. CASE Reclaim(c)
    <2> DEFINE to == [call[c] EXCEPT !.pc = "create", !.again = TRUE]
    <2>1. to.run = NoRun
      BY <1>0, <1>7 DEF Reclaim, At, Emptyhanded, Call
    <2>2. call' = [call EXCEPT ![c] = to]
      BY <1>7 DEF Reclaim
    <2> HIDE DEF to
    <2> QED BY <2>1, <2>2, Hands
  <1>8. CASE Spawn(c)
    <2>1. CASE Go(c, "undo")
      BY <1>8, <2>1, GoHands DEF Spawn, At
    <2>2. ASSUME NEW r \in Runs, call' = [call EXCEPT ![c].pc = "meta", ![c].run = r]
          PROVE  Emptyhanded'
      <3> DEFINE to == [call[c] EXCEPT !.pc = "meta", !.run = r]
      <3>1. to.pc = "meta"
        BY <1>0 DEF Call
      <3>2. call' = [call EXCEPT ![c] = to]
        BY <2>2
      <3> HIDE DEF to
      <3> QED BY <3>1, <3>2, Hands
    <2>3. Go(c, "undo") \/ \E r \in Runs : call' = [call EXCEPT ![c].pc = "meta", ![c].run = r]
      BY <1>8, Zenon DEF Spawn
    <2> QED BY <2>1, <2>2, <2>3
  <1>9. CASE WriteMeta(c)
    <2>1. CASE Go(c, "publish")
      BY <2>1, GoHands
    <2>2. CASE call' = [call EXCEPT ![c].pc = "undo", ![c].run = NoRun]
      <3> DEFINE to == [call[c] EXCEPT !.pc = "undo", !.run = NoRun]
      <3>1. to.run = NoRun
        BY <1>0 DEF Call
      <3>2. call' = [call EXCEPT ![c] = to]
        BY <2>2
      <3> HIDE DEF to
      <3> QED BY <3>1, <3>2, Hands
    <2> QED BY <1>9, <2>1, <2>2 DEF WriteMeta
  <1> QED BY <1>1, <1>2, <1>3, <1>4, <1>5, <1>6, <1>7, <1>8, <1>9 DEF CallerStep

LEMMA HandsStep == TInv /\ Emptyhanded /\ [Next]_vars => Emptyhanded'
  <1> SUFFICES ASSUME TInv, Emptyhanded, [Next]_vars PROVE Emptyhanded'
    OBVIOUS
  <1>1. ASSUME NEW c \in Callers, CallerStep(c) PROVE Emptyhanded'
    BY <1>1, CallHands
  <1>2. ASSUME NEW c \in Callers, NEW k \in Keys, NEW a \in Args, Begin(c, k, a)
        PROVE  Emptyhanded'
    <2>1. [Idle EXCEPT !.pc = "wait", !.key = k, !.args = a].run = NoRun
      BY DEF Idle
    <2> QED BY <1>2, <2>1, Hands DEF Begin
  <1>3. CASE UNCHANGED call
    BY <1>3 DEF Emptyhanded
  <1>4. ASSUME NEW s \in Servers, Crash(s) PROVE Emptyhanded'
    BY <1>4 DEF Crash, Idle, Emptyhanded
  <1>5. CASE Tick
    <2>1. \A c \in Callers : call'[c].pc = call[c].pc /\ call'[c].run = call[c].run
      BY <1>5 DEF Tick, Call, TInv, TypeOK
    <2> QED BY <2>1 DEF Emptyhanded
  <1> QED BY <1>1, <1>2, <1>3, <1>4, <1>5
      DEF Next, vars, Lose, WorkerEnds, OtherCall, Deny, Corrupt

(* A call fails in its rollback or in its undo. *)
LEMMA ErrorStep ==
  ASSUME TInv, Next, NEW c \in Callers, said'.by = c, said'.kind = "error"
  PROVE  WriteFailed(c) \/ Undo(c)
  <1>0. Quiet.kind # "error"
    BY DEF Quiet
  <1>1. ASSUME NEW d \in Callers, NEW kind, NEW r, Answer(d, kind, r)
        PROVE  d = c /\ kind = "error"
    BY <1>1 DEF Answer
  <1>2. ASSUME NEW d \in Callers, CallerStep(d) PROVE WriteFailed(c) \/ Undo(c)
    <2>1. CASE WriteFailed(d) \/ Undo(d)
      BY <1>1, <2>1 DEF WriteFailed, Undo
    <2>2. CASE Classify(d)
      <3>1. \A kind, r : Answer(d, kind, r) => kind = "error"
        BY <1>1
      <3>2. ~Stale(d)
        BY <1>0, <3>1 DEF Stale, Go
      <3>3. \A a, b, r : a # "error" /\ b # "error" => ~Answer(d, IF SameArgs(d) THEN a ELSE b, r)
        BY <3>1
      <3> QED BY <2>2, <3>1, <3>2, <3>3 DEF Classify
    <2>3. CASE LockTimeout(d) \/ Publish(d)
      BY <1>1, <2>3 DEF LockTimeout, Publish
    <2>4. ASSUME said' = Quiet PROVE FALSE
      BY <1>0, <2>4
    <2> QED BY <1>2, <2>1, <2>2, <2>3, <2>4
        DEF CallerStep, Enter, SweepOne, SweepDone, Create, Write, Reclaim, Spawn, WriteMeta, Go
  <1> QED BY <1>0, <1>2 DEF Next, Lose, Begin, WorkerEnds, OtherCall, Deny, Corrupt, Crash, Tick

(* A start that is reported as failed has paid for nothing and leaves its  *)
(* key free, unless its reservation can neither be written nor taken back, *)
(* whatever else fails, dies or is read wrong in between.                  *)
THEOREM FailedStartsAreForgotten ==
  "strand" \notin Events /\ Spec => FailedStartIsForgotten
  <1> DEFINE Inv == "strand" \notin Events /\ TInv /\ Emptyhanded
  <1>1. "strand" \notin Events /\ Init => Inv
    BY TypeInit DEF Init, Emptyhanded, Idle
  <1>2. Inv /\ [Next]_vars => Inv'
    BY TypeStep, HandsStep
  <1>3. Inv /\ [Next]_vars
          => [\A c \in Callers :
                said'.by = c /\ said'.kind = "error"
                  => /\ call[c].run = NoRun
                     /\ \/ entry'[call[c].key] = NoEntry
                        \/ At(c, "undo") /\ "stuck" \in Events /\ UNCHANGED entry]_vars
    <2> SUFFICES ASSUME Inv, Next, NEW c \in Callers, said'.by = c, said'.kind = "error"
                 PROVE  /\ call[c].run = NoRun
                        /\ \/ entry'[call[c].key] = NoEntry
                           \/ At(c, "undo") /\ "stuck" \in Events /\ UNCHANGED entry
      OBVIOUS
    <2> USE DEF TInv, TypeOK
    <2>1. WriteFailed(c) \/ Undo(c)
      BY ErrorStep
    <2>2. call[c].run = NoRun /\ call[c].key \in Keys
      BY <2>1 DEF Emptyhanded, Cursor, WriteFailed, Undo, At
    <2>3. CASE WriteFailed(c)
      BY <2>2, <2>3 DEF WriteFailed, RollBack
    <2>4. CASE Undo(c)
      <3>1. PICK left \in {NoEntry} \cup (IF "stuck" \in Events THEN {entry[call[c].key]} ELSE {}) :
              entry' = [entry EXCEPT ![call[c].key] = left]
        BY <2>4 DEF Undo, Remove
      <3>2. CASE left = NoEntry
        BY <2>2, <3>1, <3>2
      <3>3. CASE left # NoEntry
        BY <2>2, <2>4, <3>1, <3>3 DEF Undo
      <3> QED BY <3>2, <3>3
    <2> QED BY <2>1, <2>2, <2>3, <2>4
  <1> QED BY <1>1, <1>2, <1>3, PTL DEF Spec, FailedStartIsForgotten

=============================================================================
