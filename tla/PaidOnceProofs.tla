---------------------------- MODULE PaidOnceProofs ----------------------------
(***************************************************************************)
(* IdempotencyIndex implements PaidOnce, and finds the runs it published,  *)
(* for every set of servers, callers, keys and arguments and for every     *)
(* horizon.                                                                *)
(***************************************************************************)
EXTENDS IdempotencyProofs

-----------------------------------------------------------------------------
(* What ties the index, the calls and the runs to each other               *)

(* a caller at rest asks for nothing *)
Resting == \A c \in Callers :
  At(c, "idle") => call[c].key = "none" /\ call[c].args = "none"

(* a caller's own run is there, under its key; it is paid for once tracked *)
Carrying == \A c \in Callers :
  call[c].pc \in {"meta", "publish"} =>
    /\ run[call[c].run].phase # "none"
    /\ run[call[c].run].key = call[c].key
    /\ run[call[c].run].args = call[c].args
    /\ At(c, "publish") => run[call[c].run].tracked
    /\ At(c, "meta") => ~run[call[c].run].tracked

(* no entry names a run before its record is written *)
Unnamed == \A c \in Callers :
  At(c, "meta") => \A k \in Keys : entry[k].job # call[c].run

(* an entry whose run is kept names a run of its own key and arguments *)
Named == \A k \in Keys :
  entry[k].form = "active" /\ OnDisk(run[entry[k].job])
    => run[entry[k].job].key = k /\ run[entry[k].job].args = entry[k].args

RInv == Resting /\ Carrying /\ Unnamed /\ Named

AsBefore == \A c \in Callers : Asked(c)' = Asked(c)
Nowhere == [key |-> "none", args |-> "none"]
Forgets == \A r \in Runs : RecordOf(r)' \in {RecordOf(r), Nowhere}

-----------------------------------------------------------------------------
(* Steps of the promise                                                    *)

LEMMA Forgetting ==
  ASSUME AsBefore, Forgets, said' = Quiet, UNCHANGED paidAge
  PROVE  Promise!Next
  <1>1. Promise!Forget
    BY DEF AsBefore, Forgets, Nowhere, Quiet, Promise!Forget, Promise!MayForget,
           Promise!Silent, Promise!Nothing
  <1> QED BY <1>1 DEF Promise!Next

(* a call that moves on, with nothing paid for before or after *)
LEMMA MovingOn ==
  ASSUME NEW c \in Callers, call \in [Callers -> Call],
         call' = [call EXCEPT ![c] = call'[c]],
         call'[c].key = call[c].key, call'[c].args = call[c].args,
         ~At(c, "publish"), call'[c].pc # "publish"
  PROVE  AsBefore
  BY DEF AsBefore, Asked, At

LEMMA Answering ==
  ASSUME TInv, NEW c \in Callers, NEW kind, NEW r, Answer(c, kind, r)
  PROVE  [d \in Callers |-> Asked(d)]'
           = [[d \in Callers |-> Asked(d)] EXCEPT ![c] = Promise!NoRequest]
  BY DEF Answer, Asked, At, Idle, TInv, TypeOK, Promise!NoRequest

LEMMA Refusing ==
  ASSUME TInv, NEW c \in Callers, call[c].pc \notin {"idle", "publish"},
         NEW kind, kind \notin {"created", "replay", "none"},
         NEW r, Answer(c, kind, r), Forgets, UNCHANGED paidAge
  PROVE  Promise!Next
  <1>1. Promise!Refused(c)
    <2>1. said'.by = c /\ said'.kind = kind
      BY DEF Answer
    <2>2. Asked(c).key \in Keys /\ Asked(c).paid = NoRun
      BY DEF Asked, At, TInv, Cursor
    <2>3. Promise!Idle(c)
      BY Answering DEF Promise!Idle
    <2> QED BY <2>1, <2>2, <2>3
        DEF Forgets, Nowhere, Promise!Refused, Promise!Asking, Promise!MayForget, Promise!Nothing
  <1> QED BY <1>1 DEF Promise!Next

(* A live read keeps a run as it is kept, or finds nothing any more *)
LEMMA LiveKeeps ==
  ASSUME NEW x \in Run, NEW unread
  PROVE  /\ OnDisk(Live(x, unread)) => OnDisk(x)
         /\ OnDisk(Live(x, unread)) => Live(x, unread).key = x.key /\ Live(x, unread).args = x.args
         /\ Live(x, unread) = NoRecord \/ (/\ Live(x, unread).key = x.key
                                           /\ Live(x, unread).args = x.args
                                           /\ Live(x, unread).tracked = x.tracked
                                           /\ Live(x, unread).phase # "none" <=> x.phase # "none")
  BY DEF Live, OnDisk, Run, RunPhases, NoRecord

-----------------------------------------------------------------------------
(* The invariant                                                           *)

LEMMA RestInit == Init => RInv
  BY DEF Init, RInv, Resting, Carrying, Unnamed, Named, At, Idle, NoEntry

(* Whatever a call does, it keeps what it asks for until it is answered,   *)
(* and only its spawn and its record bring it to where it carries a run.   *)
Moves(c) ==
  /\ call' = [call EXCEPT ![c] = call'[c]]
  /\ \/ call'[c] = Idle
     \/ /\ call'[c].pc # "idle"
        /\ call'[c].key = call[c].key /\ call'[c].args = call[c].args
  /\ call'[c].pc = "meta" => Spawn(c)
  /\ call'[c].pc = "publish" => WriteMeta(c)

LEMMA MovesOn ==
  ASSUME TInv, NEW c \in Callers, NEW to, call' = [call EXCEPT ![c] = to],
         to.pc # "idle", to.key = call[c].key, to.args = call[c].args,
         to.pc = "meta" => Spawn(c), to.pc = "publish" => WriteMeta(c)
  PROVE  Moves(c)
  <1>1. call'[c] = to
    BY DEF TInv, TypeOK
  <1> QED BY <1>1 DEF Moves

LEMMA GoMoves ==
  ASSUME TInv, NEW c \in Callers, NEW pc, Go(c, pc), pc # "idle",
         pc = "meta" => Spawn(c), pc = "publish" => WriteMeta(c)
  PROVE  Moves(c)
  <1> DEFINE to == [call[c] EXCEPT !.pc = pc]
  <1>1. to.pc = pc /\ to.key = call[c].key /\ to.args = call[c].args
    BY DEF TInv, TypeOK, Call
  <1>2. call' = [call EXCEPT ![c] = to]
    BY DEF Go
  <1> HIDE DEF to
  <1> QED BY <1>1, <1>2, MovesOn

LEMMA AnswerMoves ==
  ASSUME TInv, NEW c \in Callers, NEW kind, NEW r, Answer(c, kind, r)
  PROVE  Moves(c)
  BY DEF TInv, TypeOK, Answer, Moves, Idle

LEMMA CallMoves ==
  ASSUME TInv, NEW c \in Callers, CallerStep(c)
  PROVE  Moves(c)
  <1>0. /\ call[c] \in Call
        /\ "idle" # "sweep" /\ "idle" # "create" /\ "idle" # "spawn"
    BY DEF TInv, TypeOK
  <1>1. CASE Enter(c)
    <2> DEFINE to == [call[c] EXCEPT !.pc = "sweep", !.todo = {k \in Keys : entry[k].form # "none"}]
    <2>1. to.pc = "sweep" /\ to.key = call[c].key /\ to.args = call[c].args
      BY <1>0 DEF Call
    <2>2. call' = [call EXCEPT ![c] = to]
      BY <1>1 DEF Enter
    <2> HIDE DEF to
    <2> QED BY <2>1, <2>2, MovesOn
  <1>2. CASE LockTimeout(c) \/ WriteFailed(c) \/ Undo(c) \/ Publish(c)
    BY <1>2, AnswerMoves DEF LockTimeout, WriteFailed, Undo, Publish
  <1>3. CASE SweepOne(c)
    <2>1. PICK k \in call[c].todo : call' = [call EXCEPT ![c].todo = @ \ {k}]
      BY <1>3 DEF SweepOne
    <2> DEFINE to == [call[c] EXCEPT !.todo = @ \ {k}]
    <2>2. to.pc = "sweep" /\ to.key = call[c].key /\ to.args = call[c].args
      BY <1>0, <1>3 DEF SweepOne, At, Call
    <2>3. call' = [call EXCEPT ![c] = to]
      BY <2>1
    <2> HIDE DEF to
    <2> QED BY <2>2, <2>3, MovesOn
  <1>4. CASE SweepDone(c) \/ Create(c)
    BY <1>4, GoMoves DEF SweepDone, Create
  <1>5. CASE Write(c)
    <2>1. CASE Go(c, "rollback")
      BY <2>1, GoMoves
    <2>2. CASE call' = [call EXCEPT ![c].pc = "spawn", ![c].age = 0]
      <3> DEFINE to == [call[c] EXCEPT !.pc = "spawn", !.age = 0]
      <3>1. to.pc = "spawn" /\ to.key = call[c].key /\ to.args = call[c].args
        BY <1>0 DEF Call
      <3>2. call' = [call EXCEPT ![c] = to]
        BY <2>2
      <3> HIDE DEF to
      <3> QED BY <3>1, <3>2, MovesOn
    <2> QED BY <1>5, <2>1, <2>2 DEF Write
  <1>6. CASE Classify(c)
    <2>1. (\E kind, r : Answer(c, kind, r)) \/ Go(c, "reclaim")
      BY <1>6 DEF Classify, Stale
    <2> QED BY <2>1, AnswerMoves, GoMoves
  <1>7. CASE Reclaim(c)
    <2> DEFINE to == [call[c] EXCEPT !.pc = "create", !.again = TRUE]
    <2>1. to.pc = "create" /\ to.key = call[c].key /\ to.args = call[c].args
      BY <1>0 DEF Call
    <2>2. call' = [call EXCEPT ![c] = to]
      BY <1>7 DEF Reclaim
    <2> HIDE DEF to
    <2> QED BY <2>1, <2>2, MovesOn
  <1>8. CASE Spawn(c)
    <2>1. CASE Go(c, "undo")
      BY <2>1, GoMoves
    <2>2. ASSUME NEW r \in Runs, call' = [call EXCEPT ![c].pc = "meta", ![c].run = r]
          PROVE  Moves(c)
      <3> DEFINE to == [call[c] EXCEPT !.pc = "meta", !.run = r]
      <3>1. to.pc = "meta" /\ to.key = call[c].key /\ to.args = call[c].args
        BY <1>0 DEF Call
      <3>2. call' = [call EXCEPT ![c] = to]
        BY <2>2
      <3> HIDE DEF to
      <3> QED BY <1>8, <3>1, <3>2, MovesOn
    <2>3. Go(c, "undo") \/ \E r \in Runs : call' = [call EXCEPT ![c].pc = "meta", ![c].run = r]
      BY <1>8, Zenon DEF Spawn
    <2> QED BY <2>1, <2>2, <2>3
  <1>9. CASE WriteMeta(c)
    <2>1. CASE Go(c, "publish")
      BY <1>9, <2>1, GoMoves
    <2>2. CASE call' = [call EXCEPT ![c].pc = "undo", ![c].run = NoRun]
      <3> DEFINE to == [call[c] EXCEPT !.pc = "undo", !.run = NoRun]
      <3>1. to.pc = "undo" /\ to.key = call[c].key /\ to.args = call[c].args
        BY <1>0 DEF Call
      <3>2. call' = [call EXCEPT ![c] = to]
        BY <2>2
      <3> HIDE DEF to
      <3> QED BY <3>1, <3>2, MovesOn
    <2> QED BY <1>9, <2>1, <2>2 DEF WriteMeta
  <1> QED BY <1>1, <1>2, <1>3, <1>4, <1>5, <1>6, <1>7, <1>8, <1>9 DEF CallerStep

LEMMA RestingStep == TInv /\ Resting /\ [Next]_vars => Resting'
  <1> SUFFICES ASSUME TInv, Resting, [Next]_vars PROVE Resting'
    OBVIOUS
  <1> USE DEF TInv, TypeOK, Resting, At
  <1>1. ASSUME NEW c \in Callers, CallerStep(c) PROVE Resting'
    BY <1>1, CallMoves DEF Moves, Idle
  <1>2. ASSUME NEW c \in Callers, NEW k \in Keys, NEW a \in Args, Begin(c, k, a)
        PROVE  Resting'
    BY <1>2 DEF Begin, Idle
  <1>3. CASE UNCHANGED call
    BY <1>3
  <1>4. ASSUME NEW s \in Servers, Crash(s) PROVE Resting'
    BY <1>4 DEF Crash, Idle
  <1>5. CASE Tick
    <2>1. \A c \in Callers : /\ call'[c].pc = call[c].pc
                              /\ call'[c].key = call[c].key /\ call'[c].args = call[c].args
      BY <1>5 DEF Tick, Call
    <2> QED BY <2>1
  <1> QED BY <1>1, <1>2, <1>3, <1>4, <1>5
      DEF Next, vars, Lose, WorkerEnds, OtherCall, Deny, Corrupt

(* While a call holds the index with nothing in hand, nobody carries a run *)
LEMMA Alone ==
  ASSUME TInv, Exclusive, NEW c \in Callers, CallerStep(c), ~LockTimeout(c)
  PROVE  \A d \in Callers : d # c => call[d].pc \in {"idle", "wait"}
  <1>1. CASE Enter(c)
    BY <1>1, IndexActors DEF Enter, LockFree, Exclusive, InSection
  <1>2. CASE ~Enter(c)
    <2>1. InSection(c)
      BY <1>2 DEF CallerStep, SweepOne, SweepDone, Create, Write, WriteFailed, Classify,
                  Reclaim, Spawn, WriteMeta, Undo, Publish, At, InSection
    <2> QED BY <2>1, Elsewhere
  <1> QED BY <1>1, <1>2

(* What a run may become other than a run somebody starts or pays for *)
Kin(y, x) ==
  \/ y.phase = "none"
  \/ /\ x.phase # "none"
     /\ y.key = x.key /\ y.args = x.args /\ y.tracked = x.tracked

LEMMA LiveKin ==
  ASSUME NEW x \in Run, NEW unread
  PROVE  Kin(Live(x, unread), x)
  BY DEF Live, Kin, Run, NoRecord

(* nor names it, or forgets that its entry was given up *)
Fades(y, x) == /\ y.named => x.named
               /\ y.phase # "none" /\ x.forsaken => y.forsaken

LEMMA LiveFades ==
  ASSUME NEW x \in Run, NEW unread
  PROVE  Fades(Live(x, unread), x)
  BY DEF Live, Fades, Run, NoRecord

LEMMA KinForgets ==
  ASSUME \A r \in Runs : Kin(run'[r], run[r])
  PROVE  Forgets
  <1> SUFFICES ASSUME NEW r \in Runs PROVE RecordOf(r)' \in {RecordOf(r), Nowhere}
    BY DEF Forgets
  <1>1. Kin(run'[r], run[r])
    OBVIOUS
  <1> QED BY <1>1 DEF Kin, RecordOf, OnDisk, Nowhere

LEMMA NamedKept ==
  ASSUME TInv, Named,
         \A k \in Keys : entry'[k].form = "active" =>
           /\ entry[k].form = "active"
           /\ entry'[k].job = entry[k].job /\ entry'[k].args = entry[k].args
           /\ Kin(run'[entry[k].job], run[entry[k].job])
  PROVE  Named'
  BY DEF Named, Kin, OnDisk

(* Steps of a call that neither start a run nor pay for one *)
LEMMA CallKin ==
  ASSUME TInv, NEW c \in Callers, CallerStep(c), ~Spawn(c), ~WriteMeta(c)
  PROVE  \A r \in Runs : Kin(run'[r], run[r])
  <1> USE DEF TInv, TypeOK
  <1>1. CASE UNCHANGED run
    BY <1>1 DEF Kin
  <1>2. ASSUME NEW q \in Runs, NEW u, run' = [run EXCEPT ![q] = Live(run[q], u)]
        PROVE  \A r \in Runs : Kin(run'[r], run[r])
    <2>1. Kin(Live(run[q], u), run[q])
      BY LiveKin
    <2> QED BY <1>2, <2>1 DEF Kin
  <1>3. CASE SweepOne(c)
    <2>1. PICK k \in call[c].todo :
            \/ UNCHANGED run
            \/ Forsake(k)
            \/ /\ "active" \in Readings(k)
               /\ \E u \in Unread : run' = [run EXCEPT ![entry[k].job] = Live(run[entry[k].job], u)]
      BY <1>3, Zenon DEF SweepOne
    <2>2. CASE Forsake(k)
      BY <2>2 DEF Forsake, Kin, Run
    <2>3. ASSUME "active" \in Readings(k) PROVE entry[k].job \in Runs
      <3>1. k \in Keys
        BY DEF Call
      <3>2. entry[k].form = "active"
        BY <2>3, Zenon DEF Readings
      <3> QED BY <3>1, <3>2
    <2> QED BY <1>1, <1>2, <2>1, <2>2, <2>3
  <1>4. CASE Classify(c)
    <2>1. PICK k \in Keys : k = call[c].key
      BY <1>4 DEF Classify, At, Cursor
    <2>2. \/ UNCHANGED run
          \/ /\ "active" \in Readings(k)
             /\ \E u \in Unread : run' = [run EXCEPT ![entry[k].job] = Live(run[entry[k].job], u)]
      BY <1>4, <2>1, Zenon DEF Classify
    <2>3. "active" \in Readings(k) => entry[k].form = "active"
      BY Zenon DEF Readings
    <2> QED BY <1>1, <1>2, <2>1, <2>2, <2>3
  <1>5. CASE Publish(c)
    <2>1. \/ UNCHANGED run
          \/ run' = [run EXCEPT ![call[c].run].named = TRUE]
      BY <1>5 DEF Publish
    <2>2. CASE run' = [run EXCEPT ![call[c].run].named = TRUE]
      BY <2>2 DEF Kin, Run
    <2> QED BY <1>1, <2>1, <2>2
  <1> QED BY <1>1, <1>3, <1>4, <1>5 DEF CallerStep, Enter, LockTimeout, SweepDone,
                                       Create, Write, WriteFailed, Reclaim, Undo

(* Only a publish makes an entry name a run *)
SameActive == \A k \in Keys :
  entry'[k].form = "active" => entry[k].form = "active" /\ entry'[k].job = entry[k].job
                                                      /\ entry'[k].args = entry[k].args

LEMMA RemoveActive ==
  ASSUME TInv, NEW k \in Keys, Remove(k) \/ RollBack(k)
  PROVE  SameActive
  <1>1. PICK left \in {NoEntry, entry[k]} : entry' = [entry EXCEPT ![k] = left]
    BY DEF Remove, RollBack
  <1> QED BY <1>1, NowhereType DEF SameActive, TInv, TypeOK

LEMMA CallActive ==
  ASSUME TInv, NEW c \in Callers, CallerStep(c), ~Publish(c)
  PROVE  SameActive
  <1> USE DEF TInv, TypeOK
  <1>1. CASE UNCHANGED entry
    BY <1>1 DEF SameActive
  <1>2. CASE SweepOne(c)
    <2>1. PICK k \in call[c].todo : UNCHANGED entry \/ Remove(k)
      BY <1>2, SweepFacts
    <2> QED BY <1>1, <2>1, RemoveActive DEF Call
  <1>3. CASE Create(c)
    <2>1. UNCHANGED entry \/ entry' = [entry EXCEPT ![call[c].key] = Placeholder]
      BY <1>3 DEF Create
    <2> QED BY <1>1, <2>1, NowhereType DEF SameActive
  <1>4. CASE Write(c)
    <2>1. UNCHANGED entry \/ entry' = [entry EXCEPT ![call[c].key] = Reserved(call[c].args)]
      BY <1>4 DEF Write
    <2>2. Reserved(call[c].args).form = "reserved"
      BY <1>4, ReservedType DEF Write, At, Cursor
    <2> QED BY <1>1, <2>1, <2>2 DEF SameActive
  <1>5. CASE WriteFailed(c) \/ Reclaim(c) \/ Undo(c)
    <2>1. call[c].key \in Keys
      BY <1>5 DEF WriteFailed, Reclaim, Undo, At, Cursor
    <2> QED BY <1>5, <2>1, RemoveActive DEF WriteFailed, Reclaim, Undo
  <1> QED BY <1>1, <1>2, <1>3, <1>4, <1>5 DEF CallerStep, Enter, LockTimeout, SweepDone,
                                              Classify, Spawn, WriteMeta

(* A call that carries nothing afterwards leaves nothing carried but what  *)
(* others carry untouched                                                  *)
LEMMA CarriedAlone ==
  ASSUME TInv, Exclusive, Carrying, Unnamed, NEW c \in Callers, CallerStep(c),
         ~Spawn(c), ~WriteMeta(c)
  PROVE  Carrying' /\ Unnamed'
  <1>1. CASE LockTimeout(c)
    BY <1>1 DEF LockTimeout, Answer, Carrying, Unnamed, At, Idle, TInv, TypeOK
  <1>2. CASE ~LockTimeout(c)
    BY <1>2, Alone, CallMoves DEF Moves, Carrying, Unnamed, At, TInv, TypeOK
  <1> QED BY <1>1, <1>2

(* A spawn takes a run no entry names, and reaps others on its way *)
LEMMA SpawnFacts ==
  ASSUME TInv, NEW c \in Callers, Spawn(c), call'[c].pc = "meta"
  PROVE  \E r \in Runs :
           /\ Fresh(r)
           /\ call'[c].run = r
           /\ run'[r] = Spawned(c)
           /\ \A q \in Runs : q # r => Kin(run'[q], run[q]) /\ Fades(run'[q], run[q])
  <1> USE DEF TInv, TypeOK
  <1>1. PICK r \in {q \in Runs : Fresh(q)}, unread \in SUBSET Unreadable, evicted \in Evictions :
          /\ run' = [q \in Runs |-> IF q = r THEN Spawned(c) ELSE Roomy(q, unread, evicted)]
          /\ call' = [call EXCEPT ![c].pc = "meta", ![c].run = r]
          /\ said' = Quiet
    <2>1. ~Go(c, "undo")
      <3>1. [call[c] EXCEPT !.pc = "undo"].pc = "undo"
        BY DEF Call
      <3>2. Go(c, "undo") => call' = [call EXCEPT ![c] = [call[c] EXCEPT !.pc = "undo"]]
        BY DEF Go
      <3> QED BY <3>1, <3>2
    <2>2. \/ Go(c, "undo")
          \/ \E r \in {q \in Runs : Fresh(q)},
               unread \in SUBSET Unreadable, evicted \in Evictions :
               /\ \A q \in evicted : Live(run[q], q \in unread).phase = "final"
               /\ run' = [q \in Runs |->
                            IF q = r THEN Spawned(c) ELSE Roomy(q, unread, evicted)]
               /\ call' = [call EXCEPT ![c].pc = "meta", ![c].run = r]
               /\ said' = Quiet
      BY Zenon DEF Spawn
    <2> QED BY <2>1, <2>2, ZenonT(30)
  <1>2. ASSUME NEW q \in Runs
        PROVE  /\ Kin(Roomy(q, unread, evicted), run[q])
               /\ Fades(Roomy(q, unread, evicted), run[q])
    <2>1. Kin(Live(run[q], q \in unread), run[q]) /\ Fades(Live(run[q], q \in unread), run[q])
      BY LiveKin, LiveFades
    <2> QED BY <2>1 DEF Roomy, Kin, Fades, NoRecord
  <1>3. call'[c].run = r
    BY <1>1 DEF Call
  <1> QED BY <1>1, <1>2, <1>3

(* A spawn that fails starts nothing *)
LEMMA SpawnMisses ==
  ASSUME TInv, NEW c \in Callers, Spawn(c), call'[c].pc # "meta"
  PROVE  Go(c, "undo") /\ UNCHANGED <<run, entry>>
  <1>1. ASSUME NEW r, call' = [call EXCEPT ![c].pc = "meta", ![c].run = r] PROVE FALSE
    <2> DEFINE to == [call[c] EXCEPT !.pc = "meta", !.run = r]
    <2>1. to.pc = "meta"
      BY DEF TInv, TypeOK, Call
    <2>2. call' = [call EXCEPT ![c] = to]
      BY <1>1
    <2> HIDE DEF to
    <2> QED BY <2>1, <2>2 DEF TInv, TypeOK
  <1>2. UNCHANGED entry
    BY DEF Spawn
  <1>3. \/ \E r \in Runs : call' = [call EXCEPT ![c].pc = "meta", ![c].run = r]
        \/ Go(c, "undo") /\ UNCHANGED run
    BY Zenon DEF Spawn
  <1> QED BY <1>1, <1>2, <1>3

LEMMA SpawnKeeps ==
  ASSUME TInv, Exclusive, RInv, NEW c \in Callers, Spawn(c)
  PROVE  Carrying' /\ Unnamed' /\ Named' /\ Forgets
  <1> USE DEF TInv, TypeOK, RInv
  <1>0. \A d \in Callers : d # c => call'[d] = call[d] /\ call[d].pc \in {"idle", "wait"}
    BY Alone, CallMoves DEF Moves, CallerStep, Spawn, LockTimeout, At
  <1>1. CASE call'[c].pc = "meta"
    <2>1. PICK r \in Runs : /\ Fresh(r) /\ call'[c].run = r /\ run'[r] = Spawned(c)
                           /\ \A q \in Runs : q # r => Kin(run'[q], run[q])
      BY <1>1, SpawnFacts
    <2>2. /\ call'[c].key = call[c].key /\ call'[c].args = call[c].args
      BY <1>1, CallMoves DEF Moves, Idle, CallerStep
    <2>3. /\ Spawned(c).phase = "running" /\ Spawned(c).key = call[c].key
          /\ Spawned(c).args = call[c].args /\ Spawned(c).tracked = FALSE
      BY DEF Spawned, NoRecord
    <2>4. UNCHANGED entry /\ \A k \in Keys : entry[k].job # r
      BY <2>1 DEF Spawn, Fresh
    <2>5. Carrying'
      BY <1>0, <1>1, <2>1, <2>2, <2>3 DEF Carrying, At
    <2>6. Unnamed'
      BY <1>0, <1>1, <2>1, <2>4 DEF Unnamed, At
    <2>7. Named'
      BY <2>1, <2>4, NamedKept
    <2>8. Forgets
      <3>1. RecordOf(r)' = Nowhere
        BY <2>1, <2>3 DEF RecordOf, OnDisk, Nowhere
      <3>2. ASSUME NEW q \in Runs, q # r PROVE RecordOf(q)' \in {RecordOf(q), Nowhere}
        BY <2>1, <3>2 DEF Kin, RecordOf, OnDisk, Nowhere
      <3> QED BY <3>1, <3>2 DEF Forgets
    <2> QED BY <2>5, <2>6, <2>7, <2>8
  <1>2. CASE call'[c].pc # "meta"
    <2>1. Go(c, "undo") /\ UNCHANGED <<run, entry>>
      BY <1>2, SpawnMisses
    <2>2. call'[c].pc = "undo"
      BY <2>1 DEF Go, Call
    <2>3. \A q \in Runs : Kin(run'[q], run[q])
      BY <2>1 DEF Kin
    <2>4. Carrying' /\ Unnamed'
      BY <1>0, <2>2 DEF Carrying, Unnamed, At
    <2> QED BY <2>1, <2>3, <2>4, KinForgets, NamedKept
  <1> QED BY <1>1, <1>2

(* A run is paid for when its record is written *)
LEMMA MetaKeeps ==
  ASSUME TInv, Exclusive, RInv, NEW c \in Callers, WriteMeta(c)
  PROVE  Carrying' /\ Unnamed' /\ Named'
  <1> USE DEF TInv, TypeOK, RInv
  <1>0. /\ \A d \in Callers : d # c => call'[d] = call[d] /\ call[d].pc \in {"idle", "wait"}
        /\ UNCHANGED entry
        /\ call[c].pc = "meta" /\ call[c].run \in Runs
    BY Alone, CallMoves, ZenonT(60) DEF Moves, CallerStep, WriteMeta, LockTimeout, At, Cursor
  <1>1. ASSUME run' = [run EXCEPT ![call[c].run].tracked = TRUE],
               Go(c, "publish")
        PROVE  Carrying' /\ Unnamed' /\ Named'
    <2>1. /\ call'[c].pc = "publish" /\ call'[c].run = call[c].run
          /\ call'[c].key = call[c].key /\ call'[c].args = call[c].args
      BY <1>1 DEF Go, Call
    <2>2. LET x == run[call[c].run] y == run'[call[c].run] IN
            y.phase = x.phase /\ y.key = x.key /\ y.args = x.args /\ y.tracked = TRUE
      BY <1>0, <1>1 DEF Run
    <2>3. Carrying'
      BY <1>0, <2>1, <2>2 DEF Carrying, At
    <2>4. Unnamed'
      BY <1>0, <2>1 DEF Unnamed, At
    <2>5. \A k \in Keys : entry[k].job # call[c].run
      BY <1>0 DEF Unnamed, At
    <2>6. Named'
      BY <1>0, <1>1, <2>5 DEF Named, OnDisk
    <2> QED BY <2>3, <2>4, <2>6
  <1>2. ASSUME run' = [run EXCEPT ![call[c].run] = NoRecord],
               call' = [call EXCEPT ![c].pc = "undo", ![c].run = NoRun]
        PROVE  Carrying' /\ Unnamed' /\ Named'
    <2>1. call'[c].pc = "undo"
      BY <1>2 DEF Call
    <2>2. \A q \in Runs : Kin(run'[q], run[q])
      BY <1>0, <1>2 DEF Kin, NoRecord
    <2> QED BY <1>0, <2>1, <2>2, NamedKept DEF Carrying, Unnamed, At
  <1> QED BY <1>1, <1>2 DEF WriteMeta

LEMMA CallKeeps ==
  ASSUME TInv, Exclusive, RInv, NEW c \in Callers, CallerStep(c)
  PROVE  Carrying' /\ Unnamed' /\ Named'
  <1>1. CASE Spawn(c)
    BY <1>1, SpawnKeeps
  <1>2. CASE WriteMeta(c)
    BY <1>2, MetaKeeps
  <1>3. CASE Publish(c)
    <2>1. PICK r \in Runs, k \in Keys : /\ At(c, "publish") /\ r = call[c].run /\ k = call[c].key
      BY <1>3 DEF Publish, At, TInv, Cursor
    <2>2. run[r].key = k /\ run[r].args = call[c].args
      BY <2>1 DEF RInv, Carrying, At
    <2>3. ~Spawn(c) /\ ~WriteMeta(c)
      BY <2>1 DEF Spawn, WriteMeta, At
    <2>4. Named'
      <3>1. \A q \in Runs : Kin(run'[q], run[q])
        BY <2>3, CallKin DEF CallerStep, Publish
      <3>2. CASE UNCHANGED entry
        BY <3>1, <3>2, NamedKept DEF RInv, TInv, TypeOK
      <3>3. CASE entry' = [entry EXCEPT ![k] = Published(c)]
        <4>1. Published(c).job = r /\ Published(c).args = call[c].args
          BY <2>1, PublishedType
        <4>2. OnDisk(run'[r]) => run'[r].key = k /\ run'[r].args = call[c].args
          BY <2>2, <3>1 DEF Kin, OnDisk
        <4>3. entry'[k].job = r /\ entry'[k].args = call[c].args
          BY <3>3, <4>1 DEF TInv, TypeOK
        <4>4. ASSUME NEW q \in Keys, q # k, entry'[q].form = "active", OnDisk(run'[entry'[q].job])
              PROVE  run'[entry'[q].job].key = q /\ run'[entry'[q].job].args = entry'[q].args
          <5>1. entry'[q] = entry[q] /\ entry[q].job \in Runs
            BY <3>3, <4>4 DEF TInv, TypeOK
          <5> QED BY <3>1, <4>4, <5>1 DEF RInv, Named, Kin, OnDisk
        <4> QED BY <4>2, <4>3, <4>4 DEF Named
      <3> QED BY <1>3, <2>1, <3>2, <3>3 DEF Publish
    <2> QED BY <1>3, <2>3, <2>4, CarriedAlone DEF RInv, CallerStep
  <1>4. CASE ~Spawn(c) /\ ~WriteMeta(c) /\ ~Publish(c)
    <2>1. SameActive /\ \A q \in Runs : Kin(run'[q], run[q])
      BY <1>4, CallActive, CallKin
    <2>2. Named'
      BY <2>1, NamedKept DEF SameActive, RInv, TInv, TypeOK
    <2> QED BY <1>4, <2>2, CarriedAlone DEF RInv
  <1> QED BY <1>1, <1>2, <1>3, <1>4

(* Workers, other calls of the store, the clock and faults leave what a    *)
(* caller carries where it is                                              *)
LEMMA WorkerKin ==
  ASSUME TInv, RInv, NEW r \in Runs, WorkerEnds(r)
  PROVE  /\ \A q \in Runs : Kin(run'[q], run[q])
         /\ \A c \in Callers : call[c].pc \in {"meta", "publish"} =>
              run'[call[c].run].phase # "none" /\ Kin(run'[call[c].run], run[call[c].run])
  <1> USE DEF TInv, TypeOK
  <1>1. CASE run[r].tracked \/ \E c \in Callers : call[c].run = r
    <2> DEFINE x == [run[r] EXCEPT !.phase = "ended"]
    <2>1. run' = [run EXCEPT ![r] = x]
      BY <1>1 DEF WorkerEnds
    <2>2. x.phase = "ended" /\ Kin(x, run[r])
      BY DEF Kin, Run, WorkerEnds
    <2> HIDE DEF x
    <2>3. \A q \in Runs : Kin(run'[q], run[q])
      BY <2>1, <2>2 DEF Kin
    <2>4. \A c \in Callers : call[c].pc \in {"meta", "publish"} =>
              run'[call[c].run].phase # "none"
      BY <2>1, <2>2 DEF Cursor, RInv, Carrying
    <2> QED BY <2>3, <2>4 DEF Cursor
  <1>2. CASE ~(run[r].tracked \/ \E c \in Callers : call[c].run = r)
    <2>1. run' = [run EXCEPT ![r] = NoRecord]
      BY <1>2 DEF WorkerEnds
    <2>2. \A q \in Runs : Kin(run'[q], run[q])
      BY <2>1 DEF Kin, NoRecord
    <2>3. \A c \in Callers : call[c].pc \in {"meta", "publish"} =>
              run'[call[c].run].phase # "none"
      BY <1>2, <2>1 DEF Cursor, RInv, Carrying
    <2> QED BY <2>2, <2>3 DEF Cursor
  <1> QED BY <1>1, <1>2

LEMMA OtherKin ==
  ASSUME TInv, NEW r \in Runs, OtherCall(r)
  PROVE  \A q \in Runs : Kin(run'[q], run[q])
  <1> USE DEF TInv, TypeOK
  <1>1. OnDisk(run[r])
    BY DEF OtherCall
  <1>2. PICK x \in Run :
          /\ run' = [run EXCEPT ![r] = x]
          /\ Kin(x, run[r])
    <2>1. ASSUME NEW u, run' = [run EXCEPT ![r] = Live(run[r], u)]
          PROVE  \E x \in Run : run' = [run EXCEPT ![r] = x] /\ Kin(x, run[r])
      BY <2>1, LiveKin, LiveType
    <2>2. ASSUME run' = [run EXCEPT ![r].phase = "final", ![r].age = 0]
          PROVE  \E x \in Run : run' = [run EXCEPT ![r] = x] /\ Kin(x, run[r])
      <3> DEFINE x == [run[r] EXCEPT !.phase = "final", !.age = 0]
      <3>1. /\ x.phase = "final" /\ x.key = run[r].key
            /\ x.args = run[r].args /\ x.tracked = run[r].tracked
        BY DEF Run
      <3>3. x \in Run
        <4> DEFINE y == [run[r] EXCEPT !.phase = "final"]
        <4>1. y \in Run
          BY DEF Run, RunPhases
        <4>2. x = [y EXCEPT !.age = 0]
          OBVIOUS
        <4> HIDE DEF y
        <4>3. 0 \in 0..MaxRunAge
          BY Ages
        <4> QED BY <4>1, <4>2, <4>3 DEF Run
      <3>4. Kin(x, run[r])
        BY <1>1, <3>1 DEF Kin, OnDisk
      <3>2. run' = [run EXCEPT ![r] = x]
        BY <2>2
      <3> HIDE DEF x
      <3> QED BY <3>2, <3>3, <3>4
    <2>3. ASSUME run' = [run EXCEPT ![r] = NoRecord]
          PROVE  \E x \in Run : run' = [run EXCEPT ![r] = x] /\ Kin(x, run[r])
      <3>1. Kin(NoRecord, run[r])
        BY DEF Kin, NoRecord
      <3> QED BY <2>3, <3>1, NowhereType
    <2>4. \/ \E u \in Unread : run' = [run EXCEPT ![r] = Live(run[r], u)]
          \/ run' = [run EXCEPT ![r].phase = "final", ![r].age = 0]
          \/ run' = [run EXCEPT ![r] = NoRecord]
      BY Zenon DEF OtherCall
    <2> QED BY <2>1, <2>2, <2>3, <2>4
  <1> QED BY <1>2 DEF Kin

LEMMA TickKin ==
  ASSUME TInv, Tick
  PROVE  /\ \A q \in Runs : Kin(run'[q], run[q]) /\ run'[q].phase = run[q].phase
                            /\ run'[q].key = run[q].key /\ run'[q].args = run[q].args
                            /\ run'[q].tracked = run[q].tracked
         /\ SameActive
         /\ \A k \in Keys : entry'[k].job = entry[k].job
         /\ \A c \in Callers : /\ call'[c].pc = call[c].pc /\ call'[c].run = call[c].run
                               /\ call'[c].key = call[c].key /\ call'[c].args = call[c].args
  <1> USE DEF TInv, TypeOK, Tick
  <1>1. \A q \in Runs : /\ run'[q].phase = run[q].phase /\ run'[q].tracked = run[q].tracked
                        /\ run'[q].key = run[q].key /\ run'[q].args = run[q].args
    BY DEF Run
  <1>2. \A k \in Keys : /\ entry'[k].form = entry[k].form /\ entry'[k].job = entry[k].job
                        /\ entry'[k].args = entry[k].args
    BY DEF Entry
  <1>3. \A c \in Callers : /\ call'[c].pc = call[c].pc /\ call'[c].run = call[c].run
                          /\ call'[c].key = call[c].key /\ call'[c].args = call[c].args
    BY DEF Call
  <1> QED BY <1>1, <1>2, <1>3 DEF Kin, SameActive

LEMMA CrashKin ==
  ASSUME TInv, Exclusive, RInv, NEW s \in Servers, Crash(s)
  PROVE  /\ \A q \in Runs : Kin(run'[q], run[q]) /\ RecordOf(q)' = RecordOf(q)
         /\ \A c \in Callers : call'[c] = Idle \/ call'[c] = call[c]
         /\ \A c \in Callers : call'[c].pc \in {"meta", "publish"} => UNCHANGED run
  <1> DEFINE dead == {c \in Callers : Home[c] = s}
             left == {c \in dead : At(c, "meta")}
  <1> USE DEF TInv, TypeOK
  <1>1. /\ call' = [c \in Callers |-> IF c \in dead THEN Idle ELSE call[c]]
        /\ run' = [r \in Runs |-> IF run[r].phase = "ended" /\ \E c \in left : call[c].run = r
                                  THEN NoRecord ELSE run[r]]
    BY DEF Crash
  <1>2. \A c \in left : ~run[call[c].run].tracked
    BY DEF RInv, Carrying, At
  <1>3. \A q \in Runs : Kin(run'[q], run[q])
    BY <1>1 DEF Kin, NoRecord
  <1>4. \A q \in Runs : RecordOf(q)' = RecordOf(q)
    BY <1>1, <1>2 DEF RecordOf, OnDisk, NoRecord
  <1>5. ASSUME NEW c \in Callers, call'[c].pc \in {"meta", "publish"} PROVE UNCHANGED run
    <2>1. c \notin dead /\ InSection(c)
      BY <1>1, <1>5 DEF Idle, InSection
    <2>2. left = {}
      BY <2>1 DEF Exclusive, InSection, At
    <2> QED BY <1>1, <2>2
  <1> QED BY <1>1, <1>3, <1>4, <1>5

LEMMA RInvStep == TInv /\ Exclusive /\ RInv /\ [Next]_vars => RInv'
  <1> SUFFICES ASSUME TInv, Exclusive, RInv, [Next]_vars PROVE RInv'
    OBVIOUS
  <1>0. Resting'
    BY RestingStep DEF RInv
  <1> SUFFICES Carrying' /\ Unnamed' /\ Named'
    BY <1>0 DEF RInv
  <1> USE DEF TInv, TypeOK
  <1>1. ASSUME NEW c \in Callers, CallerStep(c) PROVE Carrying' /\ Unnamed' /\ Named'
    BY <1>1, CallKeeps
  <1>2. ASSUME NEW c \in Callers, NEW k \in Keys, NEW a \in Args, Begin(c, k, a)
        PROVE  Carrying' /\ Unnamed' /\ Named'
    <2>1. /\ UNCHANGED <<entry, run>> /\ call'[c].pc = "wait"
          /\ \A d \in Callers : d # c => call'[d] = call[d]
      BY <1>2 DEF Begin, Idle
    <2>2. Carrying' /\ Unnamed'
      BY <2>1 DEF RInv, Carrying, Unnamed, At
    <2> QED BY <2>1, <2>2 DEF RInv, Named
  <1>3. ASSUME NEW c \in Callers, Lose(c) PROVE Carrying' /\ Unnamed' /\ Named'
    <2>1. /\ UNCHANGED <<run, call>>
          /\ entry' = [entry EXCEPT ![call[c].key] = NoEntry]
      BY <1>3 DEF Lose
    <2>2. NoEntry.form = "none" /\ NoEntry.job = NoRun
      BY DEF NoEntry
    <2>3. \A d \in Callers : At(d, "meta") => call[d].run # NoRun
      BY DEF Cursor, At, Runs, NoRun
    <2>4. Carrying'
      BY <2>1 DEF RInv, Carrying, At
    <2>5. Unnamed'
      BY <2>1, <2>2, <2>3 DEF RInv, Unnamed, At
    <2>6. Named'
      BY <2>1, <2>2 DEF RInv, Named
    <2> QED BY <2>4, <2>5, <2>6
  <1>4. ASSUME NEW r \in Runs, WorkerEnds(r) PROVE Carrying' /\ Unnamed' /\ Named'
    <2>1. UNCHANGED <<entry, call>>
      BY <1>4 DEF WorkerEnds
    <2>2. Named'
      BY <1>4, <2>1, WorkerKin, NamedKept DEF RInv
    <2>3. Unnamed'
      BY <2>1 DEF RInv, Unnamed, At
    <2>4. Carrying'
      <3>1. \A c \in Callers : call[c].pc \in {"meta", "publish"} =>
              run'[call[c].run].phase # "none" /\ Kin(run'[call[c].run], run[call[c].run])
        BY <1>4, WorkerKin
      <3> QED BY <2>1, <3>1 DEF RInv, Carrying, Kin, At
    <2> QED BY <2>2, <2>3, <2>4
  <1>5. ASSUME NEW r \in Runs, OtherCall(r) PROVE Carrying' /\ Unnamed' /\ Named'
    <2>1. UNCHANGED <<entry, call>> /\ \A c \in Callers : ~InSection(c)
      BY <1>5 DEF OtherCall
    <2>2. Named'
      BY <1>5, <2>1, OtherKin, NamedKept DEF RInv
    <2> QED BY <2>1, <2>2 DEF Unnamed, Carrying, InSection, At
  <1>6. ASSUME NEW k \in Keys, Deny(k) \/ Corrupt(k) PROVE Carrying' /\ Unnamed' /\ Named'
    <2>1. UNCHANGED <<run, call>>
      BY <1>6 DEF Deny, Corrupt
    <2>2. \A q \in Keys : /\ entry'[q].form = "active" => entry[q].form = "active"
                                 /\ entry'[q].job = entry[q].job /\ entry'[q].args = entry[q].args
                          /\ entry'[q].job \in {entry[q].job, NoRun}
      <3>1. CASE Deny(k)
        BY <3>1 DEF Deny, Entry
      <3>2. CASE Corrupt(k)
        <4>1. LET x == [NoEntry EXCEPT !.form = "corrupt", !.denied = entry[k].denied]
              IN  x.form = "corrupt" /\ x.job = NoRun
          BY DEF NoEntry
        <4> QED BY <3>2, <4>1 DEF Corrupt
      <3> QED BY <1>6, <3>1, <3>2
    <2>3. Named'
      BY <2>1, <2>2, NamedKept DEF RInv, Kin
    <2>4. \A d \in Callers : At(d, "meta") => call[d].run # NoRun
      BY DEF Cursor, At, Runs, NoRun
    <2>5. Carrying' /\ Unnamed'
      BY <2>1, <2>2, <2>4 DEF RInv, Carrying, Unnamed, At
    <2> QED BY <2>3, <2>5
  <1>7. ASSUME NEW s \in Servers, Crash(s) PROVE Carrying' /\ Unnamed' /\ Named'
    <2>1. UNCHANGED entry
      BY <1>7 DEF Crash
    <2>2. Named'
      BY <1>7, <2>1, CrashKin, NamedKept DEF RInv
    <2>3. Carrying' /\ Unnamed'
      BY <1>7, <2>1, CrashKin DEF RInv, Carrying, Unnamed, At, Idle
    <2> QED BY <2>2, <2>3
  <1>8. CASE Tick
    <2>1. Named'
      BY <1>8, TickKin, NamedKept DEF RInv, SameActive
    <2>2. Unnamed'
      BY <1>8, TickKin DEF RInv, Unnamed, At
    <2>3. Carrying'
      BY <1>8, TickKin DEF RInv, Carrying, At, Cursor
    <2> QED BY <2>1, <2>2, <2>3
  <1>9. CASE UNCHANGED vars
    BY <1>9 DEF vars, RInv, Carrying, Unnamed, Named, At
  <1> QED BY <1>1, <1>2, <1>3, <1>4, <1>5, <1>6, <1>7, <1>8, <1>9 DEF Next

-----------------------------------------------------------------------------
(* Every step is a step of the promise, or none                            *)

LEMMA AsBeforeMoves ==
  ASSUME TInv, NEW c \in Callers, Moves(c), call'[c] # Idle,
         ~At(c, "publish"), call'[c].pc # "publish"
  PROVE  AsBefore
  BY MovingOn DEF Moves, TInv, TypeOK

LEMMA CreatedStep ==
  ASSUME TInv, RInv, NEW c \in Callers, Publish(c)
  PROVE  Promise!Next
  <1>1. /\ At(c, "publish") /\ call[c].run \in Runs
        /\ Answer(c, "created", call[c].run)
    BY DEF Publish, TInv, Cursor, At
  <1>2. \A r \in Runs : RecordOf(r)' = RecordOf(r)
    <2>1. CASE UNCHANGED run
      BY <2>1 DEF RecordOf, OnDisk
    <2>2. CASE run' = [run EXCEPT ![call[c].run].named = TRUE]
      BY <2>2 DEF RecordOf, OnDisk, TInv, TypeOK, Run
    <2> QED BY <2>1, <2>2 DEF Publish
  <1>3. RecordOf(call[c].run) = [key |-> call[c].key, args |-> call[c].args]
    BY <1>1 DEF RecordOf, OnDisk, RInv, Carrying, At
  <1>4. call[c].run # NoRun
    BY <1>1 DEF Runs, NoRun
  <1>5. said' = [by |-> c, kind |-> "created", run |-> call[c].run]
    BY <1>1 DEF Answer
  <1>6. Promise!Created(c)
    <2>1. /\ Asked(c).paid = call[c].run
          /\ Asked(c).key = call[c].key /\ Asked(c).args = call[c].args
      BY <1>1 DEF Asked
    <2>2. Promise!Idle(c)
      BY <1>1, Answering DEF Promise!Idle
    <2>3. UNCHANGED paidAge
      BY DEF Publish
    <2> QED BY <1>1, <1>2, <1>3, <1>4, <1>5, <2>1, <2>2, <2>3
        DEF Promise!Created, Promise!Ordered
  <1> QED BY <1>6 DEF Promise!Next

LEMMA PayStep ==
  ASSUME PInv, Exclusive, RInv, NEW c \in Callers, WriteMeta(c)
  PROVE  Promise!Next
  <1> USE DEF PInv, TInv, TypeOK
  <1>0. /\ At(c, "meta") /\ call[c].run \in Runs /\ call[c].key \in Keys
        /\ call[c].age \in 0..MaxAge /\ call[c] \in Call /\ said' = Quiet
    BY DEF WriteMeta, At, Cursor, Call, Go
  <1>1. CASE /\ run' = [run EXCEPT ![call[c].run].tracked = TRUE]
             /\ Go(c, "publish")
             /\ paidAge' = [paidAge EXCEPT ![call[c].key] = call[c].age]
    <2>1. /\ Asked(c).paid = NoRun /\ Asked(c).key = call[c].key
          /\ Asked(c).args = call[c].args
      BY <1>0 DEF Asked, At
    <2>2. [d \in Callers |-> Asked(d)]'
            = [[d \in Callers |-> Asked(d)] EXCEPT ![c].paid = call[c].run]
      <3>1. \A d \in Callers \ {c} : Asked(d)' = Asked(d)
        BY <1>1 DEF Asked, Go, At
      <3>2. /\ call'[c].pc = "publish" /\ call'[c].run = call[c].run
            /\ call'[c].key = call[c].key /\ call'[c].args = call[c].args
        BY <1>0, <1>1 DEF Go, Call
      <3>3. Asked(c)' = [Asked(c) EXCEPT !.paid = call[c].run]
        BY <2>1, <3>2 DEF Asked, At
      <3> QED BY <3>1, <3>3
    <2>3. RecordOf(call[c].run) = Nowhere
      BY <1>0 DEF RecordOf, OnDisk, Nowhere, RInv, Carrying, At
    <2>4. [r \in Runs |-> RecordOf(r)]'
            = [[r \in Runs |-> RecordOf(r)] EXCEPT
                 ![call[c].run] = [key |-> call[c].key, args |-> call[c].args]]
      <3>1. \A r \in Runs \ {call[c].run} : RecordOf(r)' = RecordOf(r)
        BY <1>1 DEF RecordOf, OnDisk
      <3>2. LET y == run'[call[c].run] x == run[call[c].run] IN
              y.phase = x.phase /\ y.key = x.key /\ y.args = x.args /\ y.tracked = TRUE
        BY <1>0, <1>1 DEF Run
      <3>3. PICK r \in Runs : r = call[c].run
        BY <1>0
      <3>4. /\ run[r].phase # "none" /\ run[r].key = call[c].key /\ run[r].args = call[c].args
        BY <1>0, <3>3 DEF RInv, Carrying, At
      <3>5. RecordOf(r)' = [key |-> call[c].key, args |-> call[c].args]
        BY <3>2, <3>3, <3>4 DEF RecordOf, OnDisk
      <3> QED BY <3>1, <3>3, <3>5
    <2>5. paidAge[call[c].key] > Horizon
      <3>1. ~Within(paidAge[call[c].key])
        BY <1>0 DEF Payments, Unpaid, Spending, At
      <3> QED BY <1>0, <3>1, Ages DEF Within
    <2>6. /\ paidAge'[call[c].key] = call[c].age
          /\ paidAge' = [paidAge EXCEPT ![call[c].key] = paidAge'[call[c].key]]
      BY <1>0, <1>1
    <2>7. Promise!Pay(c)
      BY <1>0, <2>1, <2>2, <2>3, <2>4, <2>5, <2>6
      DEF Promise!Pay, Promise!Silent, Promise!Asking, Promise!Payable, Promise!Dated,
          Promise!Ordered, Promise!Nothing, Nowhere, Quiet
    <2> QED BY <2>7 DEF Promise!Next
  <1>2. CASE /\ run' = [run EXCEPT ![call[c].run] = NoRecord]
             /\ call' = [call EXCEPT ![c].pc = "undo", ![c].run = NoRun]
             /\ UNCHANGED paidAge
    <2>1. Forgets
      <3>1. \A q \in Runs : Kin(run'[q], run[q])
        BY <1>0, <1>2 DEF Kin, NoRecord
      <3> QED BY <3>1, KinForgets
    <2>2. AsBefore
      <3>1. call'[c].pc = "undo"
        BY <1>0, <1>2 DEF Call
      <3>2. Moves(c)
        BY CallMoves DEF CallerStep
      <3> QED BY <1>0, <3>1, <3>2, AsBeforeMoves DEF Idle, At
    <2> QED BY <1>0, <1>2, <2>1, <2>2, Forgetting
  <1> QED BY <1>1, <1>2 DEF WriteMeta

(* how an entry's answer is told: to the owner of its arguments only *)
Tell(c, kind) ==
  Answer(c, IF SameArgs(c) THEN kind ELSE "conflict",
         IF SameArgs(c) /\ kind = "replay" THEN entry[call[c].key].job ELSE NoRun)

LEMMA ClassifyStep ==
  ASSUME TInv, RInv, NEW c \in Callers, Classify(c)
  PROVE  Promise!Next
  <1>0. PICK k \in Keys : /\ k = call[c].key /\ At(c, "classify") /\ UNCHANGED <<entry, paidAge>>
    BY DEF Classify, At, TInv, Cursor
  <1>1. Forgets
    <2>1. ~Spawn(c) /\ ~WriteMeta(c)
      BY <1>0 DEF Spawn, WriteMeta, At
    <2> QED BY <2>1, CallKin, KinForgets DEF CallerStep
  <1>2. CASE Go(c, "reclaim")
    <2>1. call'[c].pc = "reclaim"
      BY <1>2 DEF Go, TInv, TypeOK, Call
    <2>2. AsBefore
      BY <1>0, <2>1, CallMoves, AsBeforeMoves DEF CallerStep, Idle, At
    <2> QED BY <1>0, <1>1, <1>2, <2>2, Forgetting DEF Go
  <1>3. ASSUME NEW kind, NEW r, Answer(c, kind, r), kind \notin {"created", "replay", "none"}
        PROVE  Promise!Next
    BY <1>0, <1>1, <1>3, Refusing DEF At
  <1>4. CASE /\ "active" \in Readings(k)
             /\ OnDisk(run'[entry[k].job])
             /\ SameArgs(c)
             /\ Answer(c, "replay", entry[k].job)
    <2>1. entry[k].form = "active" /\ entry[k].job \in Runs
      <3>1. entry[k].form = "active"
        BY <1>4, Zenon DEF Readings
      <3> QED BY <3>1 DEF TInv, TypeOK
    <2>2. Kin(run'[entry[k].job], run[entry[k].job])
      <3>1. ~Spawn(c) /\ ~WriteMeta(c)
        BY <1>0 DEF Spawn, WriteMeta, At
      <3> QED BY <2>1, <3>1, CallKin DEF CallerStep
    <2>3. RecordOf(entry[k].job)' = [key |-> k, args |-> call[c].args]
      <3>1. OnDisk(run[entry[k].job])
        BY <1>4, <2>2 DEF Kin, OnDisk
      <3>2. /\ run[entry[k].job].key = k
            /\ run[entry[k].job].args = call[c].args
        BY <1>0, <1>4, <2>1, <3>1 DEF RInv, Named, SameArgs
      <3>3. RecordOf(entry[k].job)'
              = IF OnDisk(run'[entry[k].job])
                THEN [key |-> run'[entry[k].job].key, args |-> run'[entry[k].job].args]
                ELSE [key |-> "none", args |-> "none"]
        BY <1>0 DEF RecordOf, OnDisk
      <3> QED BY <1>4, <2>2, <3>2, <3>3 DEF Kin, OnDisk
    <2>4. Promise!Replayed(c)
      <3>1. /\ Asked(c).paid = NoRun /\ Asked(c).key = k /\ Asked(c).args = call[c].args
        BY <1>0 DEF Asked, At
      <3>2. said' = [by |-> c, kind |-> "replay", run |-> entry[k].job]
        BY <1>4 DEF Answer
      <3>3. Promise!Idle(c)
        BY <1>4, Answering DEF Promise!Idle
      <3>4. PICK r \in Runs : r = entry[k].job
        BY <2>1
      <3>5. RecordOf(r)' = [key |-> k, args |-> call[c].args]
        BY <1>0, <2>3, <3>4 DEF RecordOf, OnDisk
      <3> QED BY <1>0, <1>1, <3>1, <3>2, <3>3, <3>4, <3>5
          DEF Forgets, Nowhere, Promise!Replayed, Promise!Asking, Promise!Ordered,
              Promise!MayForget, Promise!Nothing
    <2> QED BY <2>4 DEF Promise!Next
  <1>5. ASSUME NEW kind \in {"in_progress", "unavailable"}, Tell(c, kind)
        PROVE  Promise!Next
    BY <1>3, <1>5 DEF Tell
  <1>6. CASE Stale(c)
    BY <1>2, <1>3, <1>6 DEF Stale
  <1>7. ASSUME NEW u \in Unread, "active" \in Readings(k),
               run' = [run EXCEPT ![entry[k].job] = Live(run[entry[k].job], u)],
               Resolves(Live(run[entry[k].job], u), u),
               Tell(c, "replay")
        PROVE  Promise!Next
    <2>1. entry[k].job \in Runs
      <3>1. entry[k].form = "active"
        BY <1>7, Zenon DEF Readings
      <3> QED BY <3>1 DEF TInv, TypeOK
    <2>2. OnDisk(run'[entry[k].job])
      BY <1>7, <2>1 DEF Resolves, TInv, TypeOK
    <2>3. CASE SameArgs(c)
      BY <1>0, <1>4, <1>7, <2>2, <2>3 DEF Tell
    <2>4. CASE ~SameArgs(c)
      BY <1>3, <1>7, <2>4 DEF Tell
    <2> QED BY <2>3, <2>4
  <1>8. \/ Stale(c)
        \/ Answer(c, "in_progress", NoRun)
        \/ Answer(c, "unavailable", NoRun)
        \/ Answer(c, "io_error", NoRun)
        \/ Tell(c, "in_progress") \/ Tell(c, "unavailable")
        \/ \E u \in Unread :
             /\ "active" \in Readings(k)
             /\ run' = [run EXCEPT ![entry[k].job] = Live(run[entry[k].job], u)]
             /\ Resolves(Live(run[entry[k].job], u), u)
             /\ Tell(c, "replay")
    <2>1. \/ Stale(c)
          \/ Answer(c, "in_progress", NoRun)
          \/ Answer(c, "unavailable", NoRun)
          \/ Answer(c, "io_error", NoRun)
          \/ Tell(c, "in_progress") \/ Tell(c, "unavailable")
          \/ LET q == call[c].key IN
              \E u \in Unread :
               /\ "active" \in Readings(q)
               /\ run' = [run EXCEPT ![entry[q].job] = Live(run[entry[q].job], u)]
               /\ Resolves(Live(run[entry[q].job], u), u)
               /\ Tell(c, "replay")
      BY Zenon DEF Classify, Tell
    <2> QED BY <1>0, <2>1
  <1> QED BY <1>3, <1>5, <1>6, <1>7, <1>8

LEMMA CallPromise ==
  ASSUME PInv, RInv, NEW c \in Callers, CallerStep(c)
  PROVE  Promise!Next
  <1> USE DEF PInv, TInv, TypeOK
  <1>0. ASSUME ~Spawn(c), ~WriteMeta(c) PROVE Forgets
    BY <1>0, CallKin, KinForgets
  <1>1. CASE Publish(c)
    BY <1>1, CreatedStep
  <1>2. CASE WriteMeta(c)
    BY <1>2, PayStep
  <1>3. CASE Classify(c)
    BY <1>3, ClassifyStep
  <1>4. CASE LockTimeout(c) \/ WriteFailed(c) \/ Undo(c)
    <2>1. PICK kind \in {"in_progress", "error"} : Answer(c, kind, NoRun)
      BY <1>4 DEF LockTimeout, WriteFailed, Undo
    <2>2. call[c].pc \in {"wait", "rollback", "undo"} /\ UNCHANGED <<run, paidAge>>
      BY <1>4 DEF LockTimeout, WriteFailed, Undo, At
    <2>3. Forgets
      BY <1>0, <2>2 DEF Spawn, WriteMeta, At
    <2> QED BY <2>1, <2>2, <2>3, Refusing
  <1>5. CASE Spawn(c)
    <2>1. Forgets
      BY <1>5, SpawnKeeps
    <2>2. At(c, "spawn") /\ said' = Quiet /\ UNCHANGED paidAge
      BY <1>5 DEF Spawn, Go
    <2>3. call'[c] # Idle /\ call'[c].pc # "publish"
      <3>1. Moves(c)
        BY CallMoves
      <3>2. call'[c].pc # "publish"
        BY <2>2, <3>1 DEF Moves, WriteMeta, At
      <3>3. call'[c].pc \in {"meta", "undo"}
        <4>1. \/ Go(c, "undo")
              \/ \E r \in Runs : call' = [call EXCEPT ![c].pc = "meta", ![c].run = r]
          BY <1>5, Zenon DEF Spawn
        <4>2. ASSUME NEW r \in Runs, call' = [call EXCEPT ![c].pc = "meta", ![c].run = r]
              PROVE  call'[c].pc = "meta"
          <5> DEFINE to == [call[c] EXCEPT !.pc = "meta", !.run = r]
          <5>1. to.pc = "meta"
            BY DEF Call
          <5>2. call' = [call EXCEPT ![c] = to]
            BY <4>2
          <5> HIDE DEF to
          <5> QED BY <5>1, <5>2
        <4>3. Go(c, "undo") => call'[c].pc = "undo"
          BY DEF Go, Call
        <4> QED BY <4>1, <4>2, <4>3
      <3> QED BY <3>2, <3>3 DEF Idle
    <2> QED BY <2>1, <2>2, <2>3, CallMoves, AsBeforeMoves, Forgetting DEF At
  <1>6. CASE \/ Enter(c) \/ SweepOne(c) \/ SweepDone(c) \/ Create(c) \/ Write(c) \/ Reclaim(c)
    <2>1. /\ call[c].pc \in {"wait", "sweep", "create", "write", "reclaim"}
          /\ said' = Quiet /\ UNCHANGED paidAge
      BY <1>6 DEF Enter, SweepOne, SweepDone, Create, Write, Reclaim, Go, At
    <2>2. ~Spawn(c) /\ ~WriteMeta(c)
      BY <2>1 DEF Spawn, WriteMeta, At
    <2>3. call'[c].pc # "idle"
      <3>1. CASE Enter(c)
        BY <3>1 DEF Enter, Call
      <3>2. CASE SweepOne(c)
        BY <3>2 DEF SweepOne, At, Call
      <3>3. CASE SweepDone(c) \/ Create(c)
        BY <3>3 DEF SweepDone, Create, Go, Call
      <3>4. CASE Write(c)
        BY <3>4 DEF Write, Go, Call
      <3>5. CASE Reclaim(c)
        BY <3>5 DEF Reclaim, Call
      <3> QED BY <1>6, <3>1, <3>2, <3>3, <3>4, <3>5
    <2>4. call'[c] # Idle /\ call'[c].pc # "publish"
      BY <2>2, <2>3, CallMoves DEF Moves, Idle
    <2> QED BY <1>0, <2>1, <2>2, <2>4, CallMoves, AsBeforeMoves, Forgetting DEF At
  <1> QED BY <1>1, <1>2, <1>3, <1>4, <1>5, <1>6 DEF CallerStep

LEMMA PromiseStep == PInv /\ RInv /\ [Next]_vars => [Promise!Next]_(Promise!vars)
  <1> SUFFICES ASSUME PInv, RInv, [Next]_vars
               PROVE  Promise!Next \/ UNCHANGED Promise!vars
    OBVIOUS
  <1> USE DEF PInv, TInv, TypeOK
  <1>1. ASSUME NEW c \in Callers, CallerStep(c) PROVE Promise!Next
    BY <1>1, CallPromise
  <1>2. ASSUME NEW c \in Callers, NEW k \in Keys, NEW a \in Args, Begin(c, k, a)
        PROVE  Promise!Next
    <2>1. Asked(c) = Promise!NoRequest
      BY <1>2 DEF Begin, Asked, At, RInv, Resting, Promise!NoRequest
    <2>2. Asked(c)' = [key |-> k, args |-> a, paid |-> NoRun]
      BY <1>2 DEF Begin, Asked, At, Idle
    <2>3. \A d \in Callers \ {c} : Asked(d)' = Asked(d)
      BY <1>2 DEF Begin, Asked, At
    <2>4. \A r \in Runs : RecordOf(r)' = RecordOf(r)
      BY <1>2 DEF Begin, RecordOf, OnDisk
    <2>5. said'.kind = "none" /\ UNCHANGED paidAge
      BY <1>2 DEF Begin, Quiet
    <2>6. Promise!Ask(c)
      BY <2>1, <2>2, <2>3, <2>4, <2>5 DEF Promise!Ask, Promise!Silent
    <2> QED BY <2>6 DEF Promise!Next
  <1>3. ASSUME UNCHANGED <<call, paidAge>>, Forgets, said' = Quiet PROVE Promise!Next
    <2>1. AsBefore
      BY <1>3 DEF AsBefore, Asked, At
    <2> QED BY <1>3, <2>1, Forgetting
  <1>4. ASSUME NEW c \in Callers, Lose(c) PROVE Promise!Next
    BY <1>3, <1>4, KinForgets DEF Lose, Kin
  <1>5. ASSUME NEW r \in Runs, WorkerEnds(r) PROVE Promise!Next
    BY <1>3, <1>5, WorkerKin, KinForgets DEF WorkerEnds
  <1>6. ASSUME NEW r \in Runs, OtherCall(r) PROVE Promise!Next
    BY <1>3, <1>6, OtherKin, KinForgets DEF OtherCall
  <1>7. ASSUME NEW k \in Keys, Deny(k) \/ Corrupt(k) PROVE Promise!Next
    BY <1>3, <1>7, KinForgets DEF Deny, Corrupt, Kin
  <1>8. ASSUME NEW s \in Servers, Crash(s) PROVE Promise!Next
    <2> DEFINE dead == {c \in Callers : Home[c] = s}
    <2>1. call' = [c \in Callers |-> IF c \in dead THEN Idle ELSE call[c]]
      BY <1>8 DEF Crash
    <2>2. [c \in Callers |-> Asked(c)]'
            = [c \in Callers |-> IF c \in dead THEN Promise!NoRequest
                                ELSE [d \in Callers |-> Asked(d)][c]]
      <3>1. \A c \in dead : Asked(c)' = Promise!NoRequest
        BY <2>1 DEF Asked, At, Idle, Promise!NoRequest
      <3>2. \A c \in Callers \ dead : Asked(c)' = Asked(c)
        BY <2>1 DEF Asked, At
      <3> QED BY <3>1, <3>2
    <2>3. \A r \in Runs : RecordOf(r)' = RecordOf(r)
      BY <1>8, CrashKin
    <2>4. said'.kind = "none"
      BY <1>8 DEF Crash, Quiet
    <2>5. \/ UNCHANGED paidAge
          \/ \E c \in dead : At(c, "meta") /\ paidAge' = [paidAge EXCEPT ![call[c].key] = call[c].age]
      BY <1>8 DEF Crash
    <2>6. ASSUME NEW c \in dead, At(c, "meta"),
                 paidAge' = [paidAge EXCEPT ![call[c].key] = call[c].age]
          PROVE  /\ Asked(c).key \in Keys /\ Asked(c).paid = NoRun
                 /\ paidAge[Asked(c).key] > Horizon
                 /\ paidAge'[Asked(c).key] \in 0..MaxAge
                 /\ paidAge' = [paidAge EXCEPT ![Asked(c).key] = paidAge'[Asked(c).key]]
      <3>1. Asked(c).key = call[c].key /\ Asked(c).paid = NoRun
        BY <2>6 DEF Asked, At
      <3>2. call[c].key \in Keys /\ call[c].age \in 0..MaxAge
        BY <2>6 DEF At, Cursor, Call
      <3>3. ~Within(paidAge[call[c].key])
        BY <2>6 DEF Payments, Unpaid, Spending, At
      <3>4. paidAge[call[c].key] > Horizon
        BY <3>2, <3>3, Ages DEF Within
      <3> QED BY <2>6, <3>1, <3>2, <3>4
    <2> HIDE DEF dead
    <2>7. dead \in SUBSET Callers
      BY DEF dead
    <2>8. Promise!Die(dead)
      <3>1. CASE UNCHANGED paidAge
        BY <2>2, <2>3, <2>4, <3>1 DEF Promise!Die, Promise!Silent
      <3>2. CASE \E c \in dead : At(c, "meta") /\ paidAge' = [paidAge EXCEPT ![call[c].key] = call[c].age]
        <4>1. PICK c \in dead : At(c, "meta") /\ paidAge' = [paidAge EXCEPT ![call[c].key] = call[c].age]
          BY <3>2
        <4>2. c \in Callers
          BY <2>7
        <4> QED BY <2>2, <2>3, <2>4, <2>6, <4>1, <4>2
            DEF Promise!Die, Promise!Silent, Promise!Asking, Promise!Payable, Promise!Dated
      <3> QED BY <2>5, <3>1, <3>2
    <2> QED BY <2>7, <2>8 DEF Promise!Next
  <1>9. CASE Tick
    <2>1. AsBefore
      BY <1>9, TickKin DEF AsBefore, Asked, At
    <2>2. \A r \in Runs : RecordOf(r)' = RecordOf(r)
      BY <1>9, TickKin DEF RecordOf, OnDisk
    <2>3. /\ paidAge' = [k \in Keys |-> IF paidAge[k] < MaxAge THEN paidAge[k] + 1 ELSE MaxAge]
          /\ said'.kind = "none"
      BY <1>9 DEF Tick, Older, Quiet
    <2>4. Promise!Tick
      BY <2>1, <2>2, <2>3 DEF Promise!Tick, Promise!Silent, AsBefore
    <2> QED BY <2>4 DEF Promise!Next
  <1>10. CASE UNCHANGED vars
    BY <1>10 DEF vars, Promise!vars, Asked, RecordOf, OnDisk, At
  <1> QED BY <1>1, <1>2, <1>4, <1>5, <1>6, <1>7, <1>8, <1>9, <1>10 DEF Next

(* The index, its locks and its faults implement the promise of PaidOnce:  *)
(* one payment per key and horizon, the payer's own run as the answer, a   *)
(* replay of the caller's own run, nothing paid by a call that fails.      *)
THEOREM IndexKeepsItsPromise == OneFault /\ Spec => ImplementsPaidOnce
  <1> DEFINE Sound == OneFault /\ PInv /\ RInv
  <1>1. OneFault /\ Init => Sound
    BY PaidInit, RestInit
  <1>2. Sound /\ [Next]_vars => Sound'
    BY TypeStep, ExclusiveStep, PaymentsStep, RInvStep DEF PInv, OneFault
  <1>3. Init => Promise!Init
    BY DEF Init, Asked, RecordOf, OnDisk, At, Idle, NoRecord, Quiet,
           Promise!Init, Promise!NoRequest, Promise!Nothing
  <1>4. Sound /\ [Next]_vars => [Promise!Next]_(Promise!vars)
    BY PromiseStep
  <1> QED BY <1>1, <1>2, <1>3, <1>4, PTL DEF Spec, ImplementsPaidOnce, Promise!Spec

-----------------------------------------------------------------------------
(* What is owed: a published run on disk whose entry no sweep gave up      *)
(* unread.  Its entry names it as long as the entry can be read, and a     *)
(* call that may reserve or replace an entry has nothing owed under its    *)
(* key.                                                                    *)

Owed(r) == run[r].named /\ OnDisk(run[r]) /\ ~run[r].forsaken

Findable == \A r \in Runs : Owed(r) =>
  /\ run[r].key \in Keys
  /\ \/ entry[run[r].key].form = "corrupt"
     \/ entry[run[r].key].form = "active" /\ entry[run[r].key].job = r

Clearing == {"reclaim", "write", "rollback", "spawn", "meta", "undo", "publish"}
Clear == \A c \in Callers : call[c].pc \in Clearing =>
  \A r \in Runs : Owed(r) => run[r].key # call[c].key

(* nobody else publishes the run a call carries *)
Unpublished == \A c \in Callers :
  call[c].pc \in {"meta", "publish"} => ~run[call[c].run].named

FInv == TInv /\ Exclusive /\ RInv /\ Findable /\ Clear /\ Unpublished

(* nothing becomes owed, and nothing owed is left under a key *)
Wanes == \A r \in Runs : Owed(r)' => Owed(r) /\ run'[r].key = run[r].key
Spared(k) == \A r \in Runs : Owed(r)' => run[r].key # k

LEMMA FoundInit == Init => Findable /\ Clear /\ Unpublished
  BY DEF Init, Findable, Clear, Unpublished, Clearing, Owed, Idle, NoRecord

LEMMA Waning ==
  ASSUME \A r \in Runs : Fades(run'[r], run[r]),
         \A r \in Runs : Kin(run'[r], run[r]) \/ ~run[r].named
  PROVE  Wanes
  BY DEF Wanes, Owed, OnDisk, Fades, Kin

LEMMA Found ==
  ASSUME Findable, Wanes,
         \A c \in Callers : call'[c].pc \in Clearing => Spared(call'[c].key),
         \A k \in Keys : \/ Spared(k)
                         \/ entry'[k].form = "corrupt"
                         \/ entry'[k].form = entry[k].form /\ entry'[k].job = entry[k].job
  PROVE  Findable' /\ Clear'
  <1>1. ASSUME NEW r \in Runs, Owed(r)'
        PROVE  /\ run'[r].key \in Keys
               /\ \/ entry'[run'[r].key].form = "corrupt"
                  \/ entry'[run'[r].key].form = "active" /\ entry'[run'[r].key].job = r
    <2>1. Owed(r) /\ run'[r].key = run[r].key
      BY <1>1 DEF Wanes
    <2>2. /\ run[r].key \in Keys
          /\ \/ entry[run[r].key].form = "corrupt"
             \/ entry[run[r].key].form = "active" /\ entry[run[r].key].job = r
      BY <2>1 DEF Findable
    <2>3. ~Spared(run[r].key)
      BY <1>1 DEF Spared
    <2> QED BY <2>1, <2>2, <2>3
  <1>2. ASSUME NEW d \in Callers, call'[d].pc \in Clearing, NEW r \in Runs, Owed(r)'
        PROVE  run'[r].key # call'[d].key
    BY <1>2 DEF Wanes, Spared
  <1> QED BY <1>1, <1>2 DEF Findable, Clear

(* No step but a publication names a run *)
LEMMA CallFades ==
  ASSUME TInv, NEW c \in Callers, CallerStep(c), ~Spawn(c), ~Publish(c)
  PROVE  \A r \in Runs : Fades(run'[r], run[r])
  <1> USE DEF TInv, TypeOK
  <1>1. CASE UNCHANGED run
    BY <1>1 DEF Fades
  <1>2. ASSUME NEW q \in Runs, NEW u, run' = [run EXCEPT ![q] = Live(run[q], u)]
        PROVE  \A r \in Runs : Fades(run'[r], run[r])
    <2>1. Fades(Live(run[q], u), run[q])
      BY LiveFades
    <2> QED BY <1>2, <2>1 DEF Fades
  <1>3. CASE SweepOne(c)
    <2>1. PICK k \in call[c].todo :
            \/ UNCHANGED run
            \/ Forsake(k)
            \/ /\ "active" \in Readings(k)
               /\ \E u \in Unread : run' = [run EXCEPT ![entry[k].job] = Live(run[entry[k].job], u)]
      BY <1>3, Zenon DEF SweepOne
    <2>2. CASE Forsake(k)
      BY <2>2 DEF Forsake, Fades, Run
    <2>3. ASSUME "active" \in Readings(k) PROVE entry[k].job \in Runs
      <3>1. k \in Keys
        BY DEF Call
      <3>2. entry[k].form = "active"
        BY <2>3, Zenon DEF Readings
      <3> QED BY <3>1, <3>2
    <2> QED BY <1>1, <1>2, <2>1, <2>2, <2>3
  <1>4. CASE Classify(c)
    <2>1. PICK k \in Keys : k = call[c].key
      BY <1>4 DEF Classify, At, Cursor
    <2>2. \/ UNCHANGED run
          \/ /\ "active" \in Readings(k)
             /\ \E u \in Unread : run' = [run EXCEPT ![entry[k].job] = Live(run[entry[k].job], u)]
      BY <1>4, <2>1, Zenon DEF Classify
    <2>3. "active" \in Readings(k) => entry[k].form = "active"
      BY Zenon DEF Readings
    <2> QED BY <1>1, <1>2, <2>1, <2>2, <2>3
  <1>5. CASE WriteMeta(c)
    <2>1. call[c].run \in Runs
      BY <1>5 DEF WriteMeta, At, Cursor
    <2>2. \/ run' = [run EXCEPT ![call[c].run].tracked = TRUE]
          \/ run' = [run EXCEPT ![call[c].run] = NoRecord]
      BY <1>5 DEF WriteMeta
    <2>3. CASE run' = [run EXCEPT ![call[c].run].tracked = TRUE]
      BY <2>1, <2>3 DEF Fades, Run
    <2>4. CASE run' = [run EXCEPT ![call[c].run] = NoRecord]
      BY <2>1, <2>4 DEF Fades, NoRecord
    <2> QED BY <2>2, <2>3, <2>4
  <1> QED BY <1>1, <1>3, <1>4, <1>5 DEF CallerStep, Enter, LockTimeout, SweepDone,
                                       Create, Write, WriteFailed, Reclaim, Undo

LEMMA OutsideFades ==
  ASSUME TInv,
         \/ \E r \in Runs : WorkerEnds(r) \/ OtherCall(r)
         \/ \E s \in Servers : Crash(s)
         \/ Tick
  PROVE  \A r \in Runs : Fades(run'[r], run[r])
  <1> USE DEF TInv, TypeOK
  <1>1. ASSUME NEW r \in Runs, WorkerEnds(r) PROVE \A q \in Runs : Fades(run'[q], run[q])
    <2>1. CASE run' = [run EXCEPT ![r] = [@ EXCEPT !.phase = "ended"]]
      BY <2>1 DEF Fades, Run
    <2>2. CASE run' = [run EXCEPT ![r] = NoRecord]
      BY <2>2 DEF Fades, NoRecord
    <2> QED BY <1>1, <2>1, <2>2 DEF WorkerEnds
  <1>2. ASSUME NEW r \in Runs, OtherCall(r) PROVE \A q \in Runs : Fades(run'[q], run[q])
    <2>1. ASSUME NEW u, run' = [run EXCEPT ![r] = Live(run[r], u)]
          PROVE  \A q \in Runs : Fades(run'[q], run[q])
      <3>1. Fades(Live(run[r], u), run[r])
        BY LiveFades
      <3> QED BY <2>1, <3>1 DEF Fades
    <2>2. CASE run' = [run EXCEPT ![r].phase = "final", ![r].age = 0]
      <3> DEFINE x == [run[r] EXCEPT !.phase = "final", !.age = 0]
      <3>1. x.named = run[r].named /\ x.forsaken = run[r].forsaken
        BY DEF Run
      <3>2. run' = [run EXCEPT ![r] = x]
        BY <2>2
      <3> HIDE DEF x
      <3> QED BY <3>1, <3>2 DEF Fades
    <2>3. CASE run' = [run EXCEPT ![r] = NoRecord]
      BY <2>3 DEF Fades, NoRecord
    <2>4. \/ \E u \in Unread : run' = [run EXCEPT ![r] = Live(run[r], u)]
          \/ run' = [run EXCEPT ![r].phase = "final", ![r].age = 0]
          \/ run' = [run EXCEPT ![r] = NoRecord]
      BY <1>2, Zenon DEF OtherCall
    <2> QED BY <2>1, <2>2, <2>3, <2>4
  <1>3. ASSUME NEW s \in Servers, Crash(s) PROVE \A q \in Runs : Fades(run'[q], run[q])
    <2>1. \A q \in Runs : run'[q] \in {run[q], NoRecord}
      BY <1>3 DEF Crash
    <2> QED BY <2>1 DEF Fades, NoRecord
  <1>4. CASE Tick
    <2>1. \A q \in Runs : run'[q].named = run[q].named /\ run'[q].forsaken = run[q].forsaken
      BY <1>4 DEF Tick, Run
    <2> QED BY <2>1 DEF Fades
  <1> QED BY <1>1, <1>2, <1>3, <1>4

(* What a sweep removes names nothing owed, or gives it up *)
LEMMA SweepSpares ==
  ASSUME TInv, RInv, Findable, NEW c \in Callers, SweepOne(c)
  PROVE  \E k \in call[c].todo :
           /\ call' = [call EXCEPT ![c].todo = @ \ {k}]
           /\ \/ UNCHANGED entry
              \/ Remove(k) /\ Spared(k)
  <1> USE DEF TInv, TypeOK
  <1>1. Wanes
    BY CallFades, CallKin, Waning DEF CallerStep, SweepOne, Spawn, WriteMeta, Publish, At
  <1>2. PICK k \in call[c].todo :
          /\ call' = [call EXCEPT ![c].todo = @ \ {k}]
          /\ \/ UNCHANGED entry
             \/ Remove(k) /\ Forsake(k)
             \/ "reserved" \in Readings(k) /\ Remove(k)
             \/ /\ "active" \in Readings(k) /\ Remove(k)
                /\ \E u \in Unread : LET x == Live(run[entry[k].job], u) IN
                     run' = [run EXCEPT ![entry[k].job] = x] /\ ~Resolves(x, u)
    BY Zenon DEF SweepOne
  <1>3. k \in Keys
    BY DEF Call
  <1>4. /\ "reserved" \in Readings(k) => entry[k].form = "reserved"
        /\ "active" \in Readings(k) => entry[k].form = "active"
    BY Zenon DEF Readings
  <1>5. ASSUME Forsake(k) PROVE Spared(k)
    <2> SUFFICES ASSUME NEW r \in Runs, Owed(r)' PROVE run[r].key # k
      BY DEF Spared
    <2>1. Owed(r) /\ ~run'[r].forsaken
      BY <1>1 DEF Wanes, Owed
    <2>2. run'[r].forsaken = (run[r].forsaken \/ (run[r].named /\ run[r].key = k))
      BY <1>5 DEF Forsake, Run
    <2> QED BY <2>1, <2>2 DEF Owed
  <1>6. ASSUME "reserved" \in Readings(k) PROVE Spared(k)
    BY <1>1, <1>4, <1>6 DEF Spared, Wanes, Findable
  <1>7. ASSUME "active" \in Readings(k), NEW u,
               run' = [run EXCEPT ![entry[k].job] = Live(run[entry[k].job], u)],
               ~Resolves(Live(run[entry[k].job], u), u)
        PROVE  Spared(k)
    <2> SUFFICES ASSUME NEW r \in Runs, Owed(r)', run[r].key = k PROVE FALSE
      BY DEF Spared
    <2>1. r = entry[k].job
      BY <1>1, <1>4, <1>7 DEF Wanes, Findable
    <2>2. run'[r] = Live(run[r], u)
      BY <1>7, <2>1
    <2>3. ~OnDisk(run'[r])
      BY <1>7, <2>1, <2>2 DEF Resolves
    <2> QED BY <2>3 DEF Owed
  <1> QED BY <1>2, <1>5, <1>6, <1>7

(* What a reservation takes back names nothing owed *)
LEMMA StaleSpares ==
  ASSUME TInv, RInv, Findable, NEW c \in Callers, Classify(c), call'[c].pc = "reclaim"
  PROVE  Spared(call[c].key)
  <1> USE DEF TInv, TypeOK
  <1>1. Wanes
    BY CallFades, CallKin, Waning DEF CallerStep, Classify, Spawn, WriteMeta, Publish, At
  <1>2. PICK k \in Keys : k = call[c].key
    BY DEF Classify, At, Cursor
  <1>3. \A kind, r : ~Answer(c, kind, r)
    BY DEF Answer, Idle
  <1>4. \/ \E form \in {"none", "empty", "reserved"} : form \in Readings(k)
        \/ /\ "active" \in Readings(k)
           /\ \E u \in Unread : LET x == Live(run[entry[k].job], u) IN
                run' = [run EXCEPT ![entry[k].job] = x] /\ ~Resolves(x, u)
    BY <1>2, <1>3, Zenon DEF Classify
  <1>5. \A form \in {"none", "empty", "reserved", "active"} :
          form \in Readings(k) => entry[k].form = form
    BY Zenon DEF Readings
  <1>6. ASSUME NEW form \in {"none", "empty", "reserved"}, form \in Readings(k) PROVE Spared(k)
    BY <1>1, <1>5, <1>6 DEF Spared, Wanes, Findable
  <1>7. ASSUME "active" \in Readings(k), NEW u,
               run' = [run EXCEPT ![entry[k].job] = Live(run[entry[k].job], u)],
               ~Resolves(Live(run[entry[k].job], u), u)
        PROVE  Spared(k)
    <2> SUFFICES ASSUME NEW r \in Runs, Owed(r)', run[r].key = k PROVE FALSE
      BY DEF Spared
    <2>1. r = entry[k].job
      BY <1>1, <1>5, <1>7 DEF Wanes, Findable
    <2>2. run'[r] = Live(run[r], u)
      BY <1>7, <2>1
    <2>3. ~OnDisk(run'[r])
      BY <1>7, <2>1, <2>2 DEF Resolves
    <2> QED BY <2>3 DEF Owed
  <1> QED BY <1>2, <1>4, <1>6, <1>7

LEMMA RemoveForm ==
  ASSUME TInv, NEW k \in Keys, Remove(k) \/ RollBack(k)
  PROVE  \A q \in Keys : q # k => entry'[q] = entry[q]
  BY DEF Remove, RollBack, TInv, TypeOK

(* A call whose key has nothing owed may put anything in its entry *)
LEMMA CallFound ==
  ASSUME TInv, Exclusive, Findable, Wanes, NEW c \in Callers, CallerStep(c), ~LockTimeout(c),
         call'[c].pc \in Clearing => Spared(call[c].key),
         \/ UNCHANGED entry
         \/ \E k \in Keys : Spared(k) /\ \A q \in Keys : q # k => entry'[q] = entry[q]
  PROVE  Findable' /\ Clear'
  <1>1. \A d \in Callers : d # c => call'[d] = call[d] /\ call[d].pc \in {"idle", "wait"}
    BY Alone, CallMoves DEF Moves, TInv, TypeOK
  <1>2. call'[c].pc \in Clearing => call'[c].key = call[c].key
    BY CallMoves DEF Moves, Clearing, Idle
  <1>3. \A d \in Callers : call'[d].pc \in Clearing => Spared(call'[d].key)
    BY <1>1, <1>2 DEF Clearing
  <1> QED BY <1>3, Found

LEMMA CallFinds ==
  ASSUME FInv, NEW c \in Callers, CallerStep(c)
  PROVE  Findable' /\ Clear' /\ Unpublished'
  <1> USE DEF FInv, TInv, TypeOK
  <1>0. call[c] \in Call /\ call' = [call EXCEPT ![c] = call'[c]]
    BY CallMoves DEF Moves
  <1>1. CASE LockTimeout(c)
    <2>1. UNCHANGED <<entry, run>> /\ call'[c].pc = "idle"
      BY <1>1, <1>0 DEF LockTimeout, Answer, Idle
    <2> QED BY <1>0, <2>1 DEF Findable, Clear, Unpublished, Owed, Clearing
  <1>2. ASSUME ~LockTimeout(c) PROVE \A d \in Callers : d # c => call'[d] = call[d] /\ call[d].pc \in {"idle", "wait"}
    BY <1>0, <1>2, Alone
  <1>3. ASSUME ~LockTimeout(c), ~Spawn(c), ~WriteMeta(c) PROVE Unpublished'
    <2>1. call'[c].pc \notin {"meta", "publish"}
      BY <1>3, CallMoves DEF Moves, Idle
    <2> QED BY <1>2, <1>3, <2>1 DEF Unpublished
  <1>4. ASSUME ~Spawn(c), ~WriteMeta(c), ~Publish(c) PROVE Wanes
    BY <1>4, CallFades, CallKin, Waning
  <1>5. ASSUME NEW pc \in Clearing, At(c, pc), Wanes PROVE Spared(call[c].key)
    BY <1>5 DEF At, Spared, Wanes, Clear
  <1>6. CASE Enter(c) \/ SweepDone(c)
    <2>1. UNCHANGED entry /\ call'[c].pc \in {"sweep", "create"}
      <3>1. [call[c] EXCEPT !.pc = "create"].pc = "create"
        BY <1>0 DEF Call
      <3>2. [call[c] EXCEPT !.pc = "sweep", !.todo = {k \in Keys : entry[k].form # "none"}].pc = "sweep"
        BY <1>0 DEF Call
      <3> QED BY <1>6, <3>1, <3>2 DEF Enter, SweepDone, Go
    <2>2. ~Spawn(c) /\ ~WriteMeta(c) /\ ~Publish(c) /\ ~LockTimeout(c)
      BY <1>6, <2>1, <1>0 DEF Enter, SweepDone, Spawn, WriteMeta, Publish, LockTimeout, At, Answer, Idle
    <2> QED BY <1>3, <1>4, <2>1, <2>2, CallFound DEF Clearing
  <1>7. CASE SweepOne(c)
    <2>1. ~Spawn(c) /\ ~WriteMeta(c) /\ ~Publish(c) /\ ~LockTimeout(c)
      BY <1>7 DEF SweepOne, Spawn, WriteMeta, Publish, LockTimeout, At
    <2>2. PICK k \in call[c].todo : /\ call' = [call EXCEPT ![c].todo = @ \ {k}]
                                    /\ UNCHANGED entry \/ (Remove(k) /\ Spared(k))
      BY <1>7, SweepSpares
    <2>3. k \in Keys /\ call'[c].pc = "sweep"
      BY <1>0, <1>7, <2>2 DEF SweepOne, At, Call
    <2>4. UNCHANGED entry \/ (Spared(k) /\ \A q \in Keys : q # k => entry'[q] = entry[q])
      BY <2>2, <2>3, RemoveForm
    <2> QED BY <1>3, <1>4, <2>1, <2>3, <2>4, CallFound DEF Clearing
  <1>8. CASE Create(c)
    <2>1. ~Spawn(c) /\ ~WriteMeta(c) /\ ~Publish(c) /\ ~LockTimeout(c)
      BY <1>8 DEF Create, Spawn, WriteMeta, Publish, LockTimeout, At
    <2>2. call[c].key \in Keys
      BY <1>8 DEF Create, At, Cursor
    <2>3. CASE Go(c, "classify") /\ UNCHANGED entry
      <3>1. call'[c].pc = "classify"
        BY <1>0, <2>3 DEF Go
      <3> QED BY <1>3, <1>4, <2>1, <2>3, <3>1, CallFound DEF Clearing
    <2>4. CASE entry[call[c].key].form = "none" /\ entry' = [entry EXCEPT ![call[c].key] = Placeholder]
      <3>1. Spared(call[c].key)
        BY <1>4, <2>1, <2>4 DEF Spared, Wanes, Findable
      <3>2. \A q \in Keys : q # call[c].key => entry'[q] = entry[q]
        BY <2>4
      <3> QED BY <1>3, <1>4, <2>1, <2>2, <3>1, <3>2, CallFound
    <2> QED BY <1>8, <2>3, <2>4 DEF Create
  <1>9. CASE Write(c) \/ WriteFailed(c) \/ Reclaim(c) \/ Undo(c)
    <2>1. ~Spawn(c) /\ ~WriteMeta(c) /\ ~Publish(c) /\ ~LockTimeout(c)
      BY <1>9 DEF Write, WriteFailed, Reclaim, Undo, Spawn, WriteMeta, Publish, LockTimeout, At
    <2>2. call[c].key \in Keys /\ Spared(call[c].key)
      BY <1>4, <1>5, <1>9, <2>1 DEF Write, WriteFailed, Reclaim, Undo, At, Cursor, Clearing
    <2>3. \A q \in Keys : q # call[c].key => entry'[q] = entry[q]
      BY <1>9, <2>2, RemoveForm DEF Write, WriteFailed, Reclaim, Undo
    <2> QED BY <1>3, <1>4, <2>1, <2>2, <2>3, CallFound
  <1>10. CASE Classify(c)
    <2>1. ~Spawn(c) /\ ~WriteMeta(c) /\ ~Publish(c) /\ ~LockTimeout(c)
      BY <1>10 DEF Classify, Spawn, WriteMeta, Publish, LockTimeout, At
    <2>2. UNCHANGED entry
      BY <1>10 DEF Classify
    <2>3. call'[c].pc \in {"idle", "reclaim"}
      <3>1. (\E kind, r : Answer(c, kind, r)) \/ Go(c, "reclaim")
        BY <1>10 DEF Classify, Stale
      <3>2. [call[c] EXCEPT !.pc = "reclaim"].pc = "reclaim"
        BY <1>0 DEF Call
      <3>3. ASSUME NEW kind, NEW r, Answer(c, kind, r) PROVE call'[c].pc = "idle"
        BY <3>3 DEF Answer, Idle
      <3>4. ASSUME Go(c, "reclaim") PROVE call'[c].pc = "reclaim"
        BY <3>2, <3>4 DEF Go
      <3> QED BY <3>1, <3>3, <3>4
    <2>4. call'[c].pc = "reclaim" => Spared(call[c].key)
      BY <1>10, StaleSpares
    <2> QED BY <1>3, <1>4, <2>1, <2>2, <2>3, <2>4, CallFound DEF Clearing
  <1>11. CASE Spawn(c)
    <2>1. ~WriteMeta(c) /\ ~Publish(c) /\ ~LockTimeout(c) /\ call[c].pc = "spawn" /\ UNCHANGED entry
      BY <1>11 DEF Spawn, WriteMeta, Publish, LockTimeout, At
    <2>2. CASE call'[c].pc = "meta"
      <3>1. PICK r \in Runs : /\ call'[c].run = r /\ run'[r] = Spawned(c)
                              /\ \A q \in Runs : q # r => Kin(run'[q], run[q]) /\ Fades(run'[q], run[q])
        BY <1>11, <2>2, SpawnFacts
      <3>2. ~Spawned(c).named
        BY DEF Spawned, NoRecord
      <3>3. Wanes
        BY <3>1, <3>2 DEF Wanes, Owed, OnDisk, Fades, Kin
      <3>4. Spared(call[c].key)
        BY <1>5, <2>1, <3>3 DEF Clearing, At
      <3>5. Findable' /\ Clear'
        BY <2>1, <3>3, <3>4, CallFound
      <3>6. Unpublished'
        BY <1>2, <2>1, <2>2, <3>1, <3>2 DEF Unpublished
      <3> QED BY <3>5, <3>6
    <2>3. CASE call'[c].pc # "meta"
      <3>1. UNCHANGED run
        BY <1>11, <2>3, SpawnMisses
      <3>2. Wanes
        BY <3>1 DEF Wanes, Owed
      <3>3. Spared(call[c].key)
        BY <1>5, <2>1, <3>2 DEF Clearing, At
      <3>4. Findable' /\ Clear'
        BY <2>1, <3>2, <3>3, CallFound
      <3>5. call'[c].pc # "publish"
        BY <2>1, CallMoves DEF Moves
      <3>6. Unpublished'
        BY <1>2, <2>1, <2>3, <3>1, <3>5 DEF Unpublished
      <3> QED BY <3>4, <3>6
    <2> QED BY <2>2, <2>3
  <1>12. CASE WriteMeta(c)
    <2>1. /\ ~Spawn(c) /\ ~Publish(c) /\ ~LockTimeout(c) /\ UNCHANGED entry
          /\ call[c].pc = "meta" /\ call[c].run \in Runs
      BY <1>12 DEF WriteMeta, Spawn, Publish, LockTimeout, At, Cursor
    <2>2. \A r \in Runs : Fades(run'[r], run[r])
      BY <2>1, CallFades
    <2>3. \A r \in Runs : Kin(run'[r], run[r]) \/ ~run[r].named
      <3>1. \A r \in Runs : r # call[c].run => run'[r] = run[r]
        BY <1>12 DEF WriteMeta
      <3>2. ~run[call[c].run].named
        BY <2>1 DEF Unpublished
      <3> QED BY <3>1, <3>2 DEF Kin
    <2>4. Wanes
      BY <2>2, <2>3, Waning
    <2>5. Spared(call[c].key)
      BY <1>5, <2>1, <2>4 DEF Clearing, At
    <2>6. Findable' /\ Clear'
      BY <2>1, <2>4, <2>5, CallFound
    <2>7. call'[c].pc \in {"meta", "publish"} => call'[c].run = call[c].run
      BY <1>0, <1>12 DEF WriteMeta, Go, Call
    <2>8. Unpublished'
      BY <1>2, <2>1, <2>2, <2>7 DEF Unpublished, Fades
    <2> QED BY <2>6, <2>8
  <1>13. CASE Publish(c)
    <2>1. /\ ~Spawn(c) /\ ~WriteMeta(c) /\ ~LockTimeout(c) /\ call[c].pc = "publish"
          /\ call[c].run \in Runs /\ call[c].key \in Keys
      BY <1>13 DEF WriteMeta, Spawn, Publish, LockTimeout, At, Cursor
    <2>2. call'[c].pc = "idle"
      BY <1>0, <1>13 DEF Publish, Answer, Idle
    <2>3. CASE UNCHANGED <<entry, run>>
      <3>1. Wanes
        BY <2>3 DEF Wanes, Owed
      <3> QED BY <1>3, <2>1, <2>2, <2>3, <3>1, CallFound DEF Clearing
    <2>4. CASE /\ entry' = [entry EXCEPT ![call[c].key] = Published(c)]
               /\ run' = [run EXCEPT ![call[c].run].named = TRUE]
      <3> DEFINE x == call[c].run
      <3>1. run[x].key = call[c].key
        BY <2>1 DEF RInv, Carrying
      <3>2. run'[x].key = call[c].key /\ \A q \in Runs : q # x => run'[q] = run[q]
        BY <2>1, <2>4, <3>1 DEF Run
      <3>3. entry'[call[c].key].form = "active" /\ entry'[call[c].key].job = x
        BY <2>1, <2>4, PublishedType DEF At
      <3>4. \A q \in Runs : q # x /\ Owed(q)' => Owed(q) /\ run[q].key # call[c].key
        BY <2>1, <3>2 DEF Owed, Clear, Clearing
      <3>5. Findable'
        BY <2>1, <2>4, <3>2, <3>3, <3>4 DEF Findable
      <3>6. Clear'
        BY <1>2, <2>1, <2>2 DEF Clear, Clearing
      <3> QED BY <1>3, <2>1, <3>5, <3>6
    <2> QED BY <1>13, <2>3, <2>4 DEF Publish
  <1> QED BY <1>1, <1>6, <1>7, <1>8, <1>9, <1>10, <1>11, <1>12, <1>13 DEF CallerStep

(* Everything else leaves the entries what they name, or corrupts them *)
LEMMA OutsideFinds ==
  ASSUME FInv, Wanes,
         \A c \in Callers : \/ call'[c].pc \notin Clearing
                            \/ call'[c].pc = call[c].pc /\ call'[c].key = call[c].key,
         \A k \in Keys : \/ Spared(k)
                         \/ entry'[k].form = "corrupt"
                         \/ entry'[k].form = entry[k].form /\ entry'[k].job = entry[k].job
  PROVE  Findable' /\ Clear'
  <1>1. \A c \in Callers : call'[c].pc \in Clearing => Spared(call'[c].key)
    BY DEF FInv, Clear, Wanes, Spared
  <1> QED BY <1>1, Found DEF FInv

LEMMA FoundStep == FInv /\ [Next]_vars => FInv'
  <1> SUFFICES ASSUME FInv, [Next]_vars PROVE Findable' /\ Clear' /\ Unpublished'
    BY TypeStep, ExclusiveStep, RInvStep DEF FInv
  <1> USE DEF TInv, TypeOK
  <1>0. TInv /\ RInv /\ Exclusive /\ Findable /\ Clear /\ Unpublished
    BY DEF FInv
  <1>1. ASSUME NEW c \in Callers, CallerStep(c) PROVE Findable' /\ Clear' /\ Unpublished'
    BY <1>1, CallFinds
  <1>2. ASSUME UNCHANGED run PROVE Wanes
    BY <1>2 DEF Wanes, Owed
  <1>3. ASSUME NEW c \in Callers, NEW k \in Keys, NEW a \in Args, Begin(c, k, a)
        PROVE  Findable' /\ Clear' /\ Unpublished'
    <2>1. /\ UNCHANGED <<entry, run>> /\ call'[c].pc = "wait"
          /\ \A d \in Callers : d # c => call'[d] = call[d]
      BY <1>0, <1>3 DEF Begin, Idle
    <2>2. Findable' /\ Clear'
      BY <1>2, <2>1, OutsideFinds DEF Clearing
    <2>3. Unpublished'
      BY <1>0, <2>1 DEF Unpublished
    <2> QED BY <2>2, <2>3
  <1>4. ASSUME NEW c \in Callers, Lose(c) PROVE Findable' /\ Clear' /\ Unpublished'
    <2>1. /\ UNCHANGED <<run, call>>
          /\ entry' = [entry EXCEPT ![call[c].key] = NoEntry]
          /\ call[c].pc \in Clearing
      BY <1>4 DEF Lose, Clearing
    <2>2. Spared(call[c].key)
      BY <1>0, <2>1 DEF Clear, Spared, Owed
    <2>3. \A k \in Keys : k # call[c].key => entry'[k] = entry[k]
      BY <1>0, <2>1
    <2>4. Findable' /\ Clear'
      BY <1>2, <2>1, <2>2, <2>3, OutsideFinds
    <2>5. Unpublished'
      BY <1>0, <2>1 DEF Unpublished
    <2> QED BY <2>4, <2>5
  <1>5. ASSUME NEW k \in Keys, Deny(k) \/ Corrupt(k) PROVE Findable' /\ Clear' /\ Unpublished'
    <2>1. UNCHANGED <<run, call>>
      BY <1>5 DEF Deny, Corrupt
    <2>2. \A q \in Keys : \/ entry'[q].form = "corrupt"
                          \/ entry'[q].form = entry[q].form /\ entry'[q].job = entry[q].job
      <3>1. CASE Deny(k)
        BY <1>0, <3>1 DEF Deny, Entry
      <3>2. CASE Corrupt(k)
        <4>1. [NoEntry EXCEPT !.form = "corrupt", !.denied = entry[k].denied].form = "corrupt"
          BY DEF NoEntry
        <4> QED BY <1>0, <3>2, <4>1 DEF Corrupt
      <3> QED BY <1>5, <3>1, <3>2
    <2>3. Findable' /\ Clear'
      BY <1>2, <2>1, <2>2, OutsideFinds
    <2>4. Unpublished'
      BY <1>0, <2>1 DEF Unpublished
    <2> QED BY <2>3, <2>4
  <1>6. ASSUME NEW r \in Runs, WorkerEnds(r) \/ OtherCall(r)
        PROVE  Findable' /\ Clear' /\ Unpublished'
    <2>1. UNCHANGED <<entry, call>>
      BY <1>6 DEF WorkerEnds, OtherCall
    <2>2. \A q \in Runs : Kin(run'[q], run[q])
      BY <1>0, <1>6, WorkerKin, OtherKin
    <2>3. \A q \in Runs : Fades(run'[q], run[q])
      BY <1>0, <1>6, OutsideFades
    <2>4. Findable' /\ Clear'
      BY <2>1, <2>2, <2>3, Waning, OutsideFinds
    <2>5. Unpublished'
      BY <1>0, <2>1, <2>3 DEF Unpublished, Fades, Cursor
    <2> QED BY <2>4, <2>5
  <1>7. ASSUME NEW s \in Servers, Crash(s) PROVE Findable' /\ Clear' /\ Unpublished'
    <2>1. UNCHANGED entry
      BY <1>7 DEF Crash
    <2>2. /\ \A q \in Runs : Kin(run'[q], run[q])
          /\ \A c \in Callers : call'[c] = Idle \/ call'[c] = call[c]
      BY <1>0, <1>7, CrashKin
    <2>3. \A q \in Runs : Fades(run'[q], run[q])
      BY <1>0, <1>7, OutsideFades
    <2>4. Idle.pc = "idle"
      BY DEF Idle
    <2>5. Findable' /\ Clear'
      BY <2>1, <2>2, <2>3, <2>4, Waning, OutsideFinds DEF Clearing
    <2>6. Unpublished'
      BY <1>0, <2>2, <2>3, <2>4 DEF Unpublished, Fades, Cursor
    <2> QED BY <2>5, <2>6
  <1>8. CASE Tick
    <2>1. \A q \in Runs : Kin(run'[q], run[q]) /\ Fades(run'[q], run[q])
      BY <1>0, <1>8, TickKin, OutsideFades
    <2>2. /\ \A k \in Keys : entry'[k].form = entry[k].form /\ entry'[k].job = entry[k].job
          /\ \A c \in Callers : /\ call'[c].pc = call[c].pc /\ call'[c].run = call[c].run
                                /\ call'[c].key = call[c].key
      <3>1. \A k \in Keys : entry'[k].form = entry[k].form
        BY <1>0, <1>8 DEF Tick, Entry
      <3> QED BY <1>0, <1>8, <3>1, TickKin
    <2>3. Findable' /\ Clear'
      BY <2>1, <2>2, Waning, OutsideFinds
    <2>4. Unpublished'
      BY <1>0, <2>1, <2>2 DEF Unpublished, Fades, Cursor
    <2> QED BY <2>3, <2>4
  <1>9. CASE UNCHANGED vars
    <2>1. UNCHANGED <<entry, run, call>>
      BY <1>9 DEF vars
    <2> QED BY <1>0, <2>1 DEF Findable, Clear, Unpublished, Owed
  <1> QED BY <1>1, <1>3, <1>4, <1>5, <1>6, <1>7, <1>8, <1>9 DEF Next

(* No run is spawned for a key while a run that was published under it is  *)
(* on disk, however old, unless a sweep gave its entry up unread: whatever *)
(* is lost, unreadable, stuck or crashes in between.                       *)
THEOREM PaidRunsAreFound == Spec => PaidRunIsFound
  <1>1. Init => FInv
    BY TypeInit, PaidInit, RestInit, FoundInit DEF FInv, PInv
  <1>2. FInv /\ [Next]_vars
          => [\A c \in Callers :
                At(c, "spawn") /\ call'[c].pc = "meta"
                  => \A r \in Runs : run[r].key = call[c].key /\ run[r].named /\ OnDisk(run[r])
                                       => run[r].forsaken]_vars
    BY DEF FInv, Clear, Clearing, Owed, At
  <1> QED BY <1>1, <1>2, FoundStep, PTL DEF Spec, PaidRunIsFound

=============================================================================
