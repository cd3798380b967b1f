--------------------------- MODULE IdempotencyIndex ---------------------------
(***************************************************************************)
(* Keyed starts: src/src/amicus/jobs/idempotency.py and the critical       *)
(* section JobStore.start_idempotent builds around it.  A client names a   *)
(* paid run with an idempotency key; a retry under the same key is to find *)
(* the run that was paid for instead of paying for another.                *)
(*                                                                         *)
(* The index is one file per key in the workspace.  A keyed start sweeps   *)
(* the index, reserves its key by an exclusive create, spawns a worker and *)
(* publishes the job's id in the file, all under one lock that servers     *)
(* share.  The job store is here what the index sees of it: whether a run  *)
(* is on disk.  JobStore models the store itself.                          *)
(***************************************************************************)
EXTENDS Naturals, FiniteSets

CONSTANTS
  Servers,      \* server processes that share the state root
  Callers,      \* keyed starts in flight at a time
  NoCaller,     \* nobody holds the index
  Home,         \* the server each caller runs in
  Keys,         \* idempotency keys, of one tool
  Args,         \* hashes of the effective arguments
  MaxRuns,      \* how many runs the store holds at a time
  MaxSeconds,   \* JobStore.max_seconds, in ticks of the clock
  Grace,        \* JobStore.terminate_grace_seconds
  Ttl,          \* JobStore.ttl_seconds
  Events        \* what may go wrong, out of EventKinds

Runs == 1..MaxRuns
NoRun == 0

(* "write": the reservation cannot be written; "strand": nor taken back;   *)
(* "stuck": an unlink fails; "popen", "meta": the worker, or its record,   *)
(* cannot be made; "publish": the id cannot be published; "blip": a read   *)
(* of an entry fails once; "denied": all of them from now on; "garbage":   *)
(* an entry is no record any more; "lost": an entry's file disappears;     *)
(* "unread": a result exists but cannot be read; "evict": the cap removes  *)
(* a terminal record; "busy": an unkeyed call holds the record lock;       *)
(* "crash": a server dies.                                                 *)
EventKinds == {"write", "strand", "stuck", "popen", "meta", "publish", "blip",
               "denied", "garbage", "lost", "unread", "evict", "busy", "crash"}

ASSUME IndexBounds == /\ MaxRuns \in Nat \ {0}
                      /\ MaxSeconds \in Nat
                      /\ Grace \in Nat
                      /\ Ttl \in Nat
ASSUME IndexActors == /\ Home \in [Callers -> Servers]
                      /\ NoCaller \notin Callers
                      /\ Events \subseteq EventKinds

VARIABLES
  entry,      \* the index: one file per key
  run,        \* the runs the store holds
  lock,       \* the caller that holds the index
  call,       \* where each caller is
  said,       \* the answer the last step gave, if it gave one
  paidAge     \* history: time since the reservation of each key's last paid run

vars == <<entry, run, lock, call, said, paidAge>>

-----------------------------------------------------------------------------
(* Time.  An age counts up to the first value that no comparison tells     *)
(* from a later one.                                                       *)

IoSweepMult == 3     \* _IO_ERROR_SWEEP_MULT

(* _idem_index: a run's whole life and the time its record is kept *)
Horizon == MaxSeconds + Grace + Ttl

MaxAge == Horizon + 1
MaxFileAge == Horizon * IoSweepMult + 1
MaxRunAge == MaxSeconds + Ttl + 1

Older(age, max) == IF age < max THEN age + 1 ELSE max

-----------------------------------------------------------------------------
(* Entries.  age is the time since reserved_epoch, fileAge since st_mtime; *)
(* a file that cannot be opened is denied whatever it holds.               *)

Forms == {"none", "empty", "corrupt", "reserved", "active"}

Entry == [form : Forms,
          args : Args \cup {"none"},
          job : Runs \cup {NoRun},
          age : 0..MaxAge,
          fileAge : 0..MaxFileAge,
          denied : BOOLEAN]

NoEntry == [form |-> "none", args |-> "none", job |-> NoRun,
            age |-> 0, fileAge |-> 0, denied |-> FALSE]

Placeholder == [NoEntry EXCEPT !.form = "empty"]

(* _read: a file that is not there is missing, whoever may read it *)
Readings(k) ==
  IF entry[k].form # "none" /\ entry[k].denied THEN {"io_error"}
  ELSE {entry[k].form}
       \cup (IF entry[k].form # "none" /\ "blip" \in Events THEN {"io_error"} ELSE {})

Within(age) == age <= Horizon

(* remove, which suppresses the error of an unlink that fails *)
Remove(k) ==
  \E left \in {NoEntry} \cup (IF "stuck" \in Events THEN {entry[k]} ELSE {}) :
    entry' = [entry EXCEPT ![k] = left]

-----------------------------------------------------------------------------
(* Runs, as the index sees the store.  A run is untracked until its record *)
(* is written; it has ended once its worker is gone, and is final once a   *)
(* read of the store has seen that, which starts its retention clock.      *)

RunPhases == {"none", "running", "ended", "final"}

Run == [phase : RunPhases,
        tracked : BOOLEAN,
        key : Keys \cup {"none"},
        args : Args \cup {"none"},
        age : 0..MaxRunAge,      \* since the start, or since it is final
        named : BOOLEAN,         \* history: its id was published
        forsaken : BOOLEAN]      \* history: its entry was swept unread

NoRecord == [phase |-> "none", tracked |-> FALSE, key |-> "none", args |-> "none",
             age |-> 0, named |-> FALSE, forsaken |-> FALSE]

OnDisk(x) == x.phase # "none" /\ x.tracked

(* _read_live_job on a run, whose result may be unreadable *)
Live(x, unread) ==
  CASE x.phase = "running" /\ x.age > MaxSeconds -> [x EXCEPT !.phase = "final", !.age = 0]
    [] x.phase = "ended" /\ ~unread              -> [x EXCEPT !.phase = "final", !.age = 0]
    [] x.phase = "ended" /\ unread               ->
         IF x.age > MaxSeconds + Ttl THEN NoRecord ELSE x
    [] x.phase = "final" /\ x.age > Ttl          -> NoRecord
    [] OTHER                                     -> x

Unread == IF "unread" \in Events THEN BOOLEAN ELSE {FALSE}

(* mutant: a result that cannot be read is taken for no record at all *)
ResolvesIfReadable(x, unread) == OnDisk(x) /\ ~(unread /\ x.phase = "ended")

(* _resolve_job_facts, on what the live read left: a record is there, even *)
(* if its result could not be read                                         *)
Resolves(x, unread) == OnDisk(x)

Fresh(r) ==
  /\ run[r].phase = "none"
  /\ \A k \in Keys : entry[k].job # r
  /\ \A c \in Callers : call[c].run # r

-----------------------------------------------------------------------------
(* Callers.  Every step between "sweep" and the answer holds the index and *)
(* the record lock; a call that fails tidies up in "rollback" or "undo".   *)

Steps == {"idle", "wait", "sweep", "create", "write", "rollback", "classify",
          "reclaim", "spawn", "meta", "undo", "publish"}

Answers == {"created", "replay", "conflict", "unavailable", "in_progress",
            "io_error", "error"}

Call == [pc : Steps,
         key : Keys \cup {"none"},
         args : Args \cup {"none"},
         todo : SUBSET Keys,           \* files the sweep has not reached
         again : BOOLEAN,              \* the second attempt of reserve
         run : Runs \cup {NoRun},      \* the run this call spawned
         age : 0..MaxAge]              \* of the reservation this call holds

Idle == [pc |-> "idle", key |-> "none", args |-> "none", todo |-> {},
         again |-> FALSE, run |-> NoRun, age |-> 0]

Saying == [by : Callers \cup {NoCaller}, kind : Answers \cup {"none"},
           run : Runs \cup {NoRun}]
Quiet == [by |-> NoCaller, kind |-> "none", run |-> NoRun]

Init ==
  /\ entry = [k \in Keys |-> NoEntry]
  /\ run = [r \in Runs |-> NoRecord]
  /\ lock = NoCaller
  /\ call = [c \in Callers |-> Idle]
  /\ said = Quiet
  /\ paidAge = [k \in Keys |-> MaxAge]

At(c, pc) == call[c].pc = pc
Go(c, pc) == call' = [call EXCEPT ![c].pc = pc] /\ said' = Quiet

Answer(c, kind, r) ==
  /\ said' = [by |-> c, kind |-> kind, run |-> r]
  /\ call' = [call EXCEPT ![c] = Idle]
  /\ lock' = IF lock = c THEN NoCaller ELSE lock

InSection(c) == call[c].pc \notin {"idle", "wait"}

(* mutant: the index is only locked among the threads of one server *)
LockFreeHere(c) == lock \notin {d \in Callers : Home[d] = Home[c]}

(* _LOCK among the threads of one server, .idem/.lock among the servers *)
LockFree(c) == lock = NoCaller

-----------------------------------------------------------------------------
(* start_idempotent: the locks are waited for until a deadline.            *)

Begin(c, k, a) ==
  /\ At(c, "idle")
  /\ call' = [call EXCEPT ![c] = [Idle EXCEPT !.pc = "wait", !.key = k, !.args = a]]
  /\ said' = Quiet
  /\ UNCHANGED <<entry, run, lock, paidAge>>

Enter(c) ==
  /\ At(c, "wait")
  /\ LockFree(c)
  /\ lock' = c
  /\ call' = [call EXCEPT ![c].pc = "sweep",
                          ![c].todo = {k \in Keys : entry[k].form # "none"}]
  /\ said' = Quiet
  /\ UNCHANGED <<entry, run, paidAge>>

LockTimeout(c) ==
  /\ At(c, "wait")
  /\ ~LockFree(c) \/ "busy" \in Events
  /\ Answer(c, "in_progress", NoRun)
  /\ UNCHANGED <<entry, run, paidAge>>

(* mutant: an entry that cannot be read is never reclaimed, as before #202 *)
IoSweptNever(k) == FALSE

(* an unreadable entry is given a multiple of the horizon to clear *)
IoSwept(k) == entry[k].fileAge > Horizon * IoSweepMult

(* what the sweep gave up without knowing what it named *)
Forsake(k) == run' = [r \in Runs |->
  [run[r] EXCEPT !.forsaken = @ \/ (run[r].named /\ run[r].key = k)]]

(* sweep, one file: an entry that names a live run stays whatever its age *)
SweepOne(c) ==
  /\ At(c, "sweep")
  /\ said' = Quiet
  /\ UNCHANGED <<lock, paidAge>>
  /\ \E k \in call[c].todo :
       /\ call' = [call EXCEPT ![c].todo = @ \ {k}]
       /\ \/ /\ \/ "none" \in Readings(k)
                \/ entry[k].form \in Readings(k) \cap {"empty", "corrupt"}
                   /\ entry[k].fileAge <= Horizon
                \/ "io_error" \in Readings(k) /\ ~IoSwept(k)
                \/ "reserved" \in Readings(k) /\ Within(entry[k].age)
             /\ UNCHANGED <<entry, run>>
          \/ /\ \/ entry[k].form \in Readings(k) \cap {"empty", "corrupt"}
                   /\ entry[k].fileAge > Horizon
                \/ "io_error" \in Readings(k) /\ IoSwept(k)
             /\ Remove(k)
             /\ Forsake(k)
          \/ /\ "reserved" \in Readings(k) /\ ~Within(entry[k].age)
             /\ Remove(k)
             /\ UNCHANGED run
          \/ /\ "active" \in Readings(k)
             /\ \E unread \in Unread :
                  LET x == Live(run[entry[k].job], unread) IN
                    /\ run' = [run EXCEPT ![entry[k].job] = x]
                    /\ IF Resolves(x, unread) \/ Within(entry[k].age)
                       THEN UNCHANGED entry
                       ELSE Remove(k)

SweepDone(c) ==
  /\ At(c, "sweep")
  /\ call[c].todo = {}
  /\ Go(c, "create")
  /\ UNCHANGED <<entry, run, lock, paidAge>>

-----------------------------------------------------------------------------
(* reserve: an exclusive create, else what the existing entry says.        *)

Create(c) ==
  /\ At(c, "create")
  /\ \/ /\ entry[call[c].key].form = "none"
        /\ entry' = [entry EXCEPT ![call[c].key] = Placeholder]
        /\ Go(c, "write")
     \/ /\ entry[call[c].key].form # "none"
        /\ Go(c, "classify")
        /\ UNCHANGED entry
  /\ UNCHANGED <<run, lock, paidAge>>

(* _atomic_write: the new file replaces whatever has the name by then *)
Reserved(a) == [NoEntry EXCEPT !.form = "reserved", !.args = a]

Write(c) ==
  /\ At(c, "write")
  /\ \/ /\ entry' = [entry EXCEPT ![call[c].key] = Reserved(call[c].args)]
        /\ call' = [call EXCEPT ![c].pc = "spawn", ![c].age = 0]
        /\ said' = Quiet
     \/ /\ "write" \in Events
        /\ Go(c, "rollback")
        /\ UNCHANGED entry
  /\ UNCHANGED <<run, lock, paidAge>>

(* mutant: a failed first write leaves the placeholder, as before #200 *)
KeepPlaceholder(k) == UNCHANGED entry

RollBack(k) ==
  \E left \in {NoEntry} \cup (IF "strand" \in Events THEN {entry[k]} ELSE {}) :
    entry' = [entry EXCEPT ![k] = left]

WriteFailed(c) ==
  /\ At(c, "rollback")
  /\ RollBack(call[c].key)
  /\ Answer(c, "error", NoRun)
  /\ UNCHANGED <<run, paidAge>>

(* mutant: whoever names the key gets its run *)
AnyArgs(c) == TRUE

SameArgs(c) == entry[call[c].key].args = call[c].args

(* a stale entry is removed and the create tried again, once *)
Stale(c) ==
  IF call[c].again THEN Answer(c, "in_progress", NoRun)
  ELSE Go(c, "reclaim") /\ UNCHANGED lock

Classify(c) ==
  LET k == call[c].key
      Tell(kind) == Answer(c, IF SameArgs(c) THEN kind ELSE "conflict",
                           IF SameArgs(c) /\ kind = "replay" THEN entry[k].job ELSE NoRun)
  IN
  /\ At(c, "classify")
  /\ UNCHANGED <<entry, paidAge>>
  /\ \/ /\ \/ "none" \in Readings(k)
           \/ "empty" \in Readings(k) /\ entry[k].fileAge > Horizon
           \/ "reserved" \in Readings(k) /\ ~Within(entry[k].age)
        /\ Stale(c)
        /\ UNCHANGED run
     \/ /\ "empty" \in Readings(k) /\ entry[k].fileAge <= Horizon
        /\ Answer(c, "in_progress", NoRun)
        /\ UNCHANGED run
     \/ /\ "corrupt" \in Readings(k)
        /\ Answer(c, "unavailable", NoRun)
        /\ UNCHANGED run
     \/ /\ "io_error" \in Readings(k)
        /\ Answer(c, "io_error", NoRun)
        /\ UNCHANGED run
     \/ /\ "reserved" \in Readings(k) /\ Within(entry[k].age)
        /\ Tell("in_progress")
        /\ UNCHANGED run
     \/ /\ "active" \in Readings(k)
        /\ \E unread \in Unread :
             LET x == Live(run[entry[k].job], unread) IN
               /\ run' = [run EXCEPT ![entry[k].job] = x]
               /\ \/ Resolves(x, unread) /\ Tell("replay")
                  \/ ~Resolves(x, unread) /\ ~Within(entry[k].age) /\ Stale(c)
                  \/ ~Resolves(x, unread) /\ Within(entry[k].age) /\ Tell("unavailable")

Reclaim(c) ==
  /\ At(c, "reclaim")
  /\ Remove(call[c].key)
  /\ call' = [call EXCEPT ![c].pc = "create", ![c].again = TRUE]
  /\ said' = Quiet
  /\ UNCHANGED <<run, lock, paidAge>>

-----------------------------------------------------------------------------
(* The winner spawns its run and publishes it.                             *)

Spawned(c) == [NoRecord EXCEPT !.phase = "running",
                               !.key = call[c].key, !.args = call[c].args]

(* _make_room first reads every record; evicted is what the cap deletes *)
Roomy(q, unread, evicted) ==
  LET x == IF run[q].tracked THEN Live(run[q], q \in unread) ELSE run[q]
  IN  IF q \in evicted THEN NoRecord ELSE x

Unreadable == {q \in Runs : "unread" \in Events /\ run[q].phase = "ended"}
Evictions == {{}} \cup {{q} : q \in {p \in Runs : "evict" \in Events /\ OnDisk(run[p])}}

(* start, up to the worker: the store is reaped, and the cap may evict *)
Spawn(c) ==
  /\ At(c, "spawn")
  /\ \/ \E r \in {q \in Runs : Fresh(q)},
           unread \in SUBSET Unreadable, evicted \in Evictions :
          /\ \A q \in evicted : Live(run[q], q \in unread).phase = "final"
          /\ run' = [q \in Runs |->
                       IF q = r THEN Spawned(c) ELSE Roomy(q, unread, evicted)]
          /\ call' = [call EXCEPT ![c].pc = "meta", ![c].run = r]
          /\ said' = Quiet
     \/ /\ "popen" \in Events \/ \A q \in Runs : ~Fresh(q)
        /\ Go(c, "undo")
        /\ UNCHANGED run
  /\ UNCHANGED <<entry, lock, paidAge>>

(* the record is written, or the worker is stopped and nothing is left: a  *)
(* run is paid for from here on                                            *)
WriteMeta(c) ==
  /\ At(c, "meta")
  /\ \/ /\ run' = [run EXCEPT ![call[c].run].tracked = TRUE]
        /\ Go(c, "publish")
        /\ paidAge' = [paidAge EXCEPT ![call[c].key] = call[c].age]
     \/ /\ "meta" \in Events
        /\ run' = [run EXCEPT ![call[c].run] = NoRecord]
        /\ call' = [call EXCEPT ![c].pc = "undo", ![c].run = NoRun]
        /\ said' = Quiet
        /\ UNCHANGED paidAge
  /\ UNCHANGED <<entry, lock>>

Undo(c) ==
  /\ At(c, "undo")
  /\ Remove(call[c].key)
  /\ Answer(c, "error", NoRun)
  /\ UNCHANGED <<run, paidAge>>

(* mutant: the record on disk is read, changed and written, as before #200 *)
PublishOver(c) ==
  IF entry[call[c].key].form = "reserved"
  THEN [entry[call[c].key] EXCEPT !.form = "active", !.job = call[c].run, !.fileAge = 0]
  ELSE entry[call[c].key]

(* publish writes the record this call reserved, whatever became of it *)
Published(c) ==
  [Reserved(call[c].args) EXCEPT !.form = "active", !.job = call[c].run, !.age = call[c].age]

(* a publish that fails still hands back the run, which is paid for *)
Publish(c) ==
  /\ At(c, "publish")
  /\ \/ /\ entry' = [entry EXCEPT ![call[c].key] = Published(c)]
        /\ run' = [run EXCEPT ![call[c].run].named = TRUE]
     \/ /\ "publish" \in Events
        /\ UNCHANGED <<entry, run>>
  /\ Answer(c, "created", call[c].run)
  /\ UNCHANGED paidAge

-----------------------------------------------------------------------------
(* Around the keyed starts: the workers, the other calls of the store,     *)
(* which wait for the record lock, the clock and the faults.               *)

WorkerEnds(r) ==
  /\ run[r].phase = "running"
  /\ run' = [run EXCEPT ![r] = IF run[r].tracked \/ \E c \in Callers : call[c].run = r
                               THEN [@ EXCEPT !.phase = "ended"] ELSE NoRecord]
  /\ said' = Quiet
  /\ UNCHANGED <<entry, lock, call, paidAge>>

(* status and list read the store; a cancel ends a run; a consume, or the  *)
(* cap of another start, deletes a final one.                              *)
OtherCall(r) ==
  /\ \A c \in Callers : ~InSection(c)
  /\ OnDisk(run[r])
  /\ \E unread \in Unread :
       LET x == Live(run[r], unread) IN
         \/ run' = [run EXCEPT ![r] = x]
         \/ x.phase = "running" /\ run' = [run EXCEPT ![r].phase = "final", ![r].age = 0]
         \/ x.phase = "final" /\ run' = [run EXCEPT ![r] = NoRecord]
  /\ said' = Quiet
  /\ UNCHANGED <<entry, lock, call, paidAge>>

Tick ==
  /\ entry' = [k \in Keys |->
       [entry[k] EXCEPT
          !.age = IF entry[k].form \in {"reserved", "active"} THEN Older(@, MaxAge) ELSE @,
          !.fileAge = IF entry[k].form # "none" THEN Older(@, MaxFileAge) ELSE @]]
  /\ run' = [r \in Runs |-> [run[r] EXCEPT
       !.age = IF run[r].phase # "none" THEN Older(@, MaxRunAge) ELSE @]]
  /\ call' = [c \in Callers |-> [call[c] EXCEPT
       !.age = IF call[c].pc \in {"spawn", "meta", "publish"} THEN Older(@, MaxAge) ELSE @]]
  /\ paidAge' = [k \in Keys |-> Older(paidAge[k], MaxAge)]
  /\ said' = Quiet
  /\ UNCHANGED lock

Deny(k) ==
  /\ "denied" \in Events
  /\ entry[k].form # "none"
  /\ entry' = [entry EXCEPT ![k].denied = TRUE]
  /\ said' = Quiet
  /\ UNCHANGED <<run, lock, call, paidAge>>

Corrupt(k) ==
  /\ "garbage" \in Events
  /\ entry[k].form \in {"reserved", "active"}
  /\ entry' = [entry EXCEPT ![k] = [NoEntry EXCEPT !.form = "corrupt", !.denied = entry[k].denied]]
  /\ said' = Quiet
  /\ UNCHANGED <<run, lock, call, paidAge>>

(* between the reservation and its publication (#200) *)
Lose(c) ==
  /\ "lost" \in Events
  /\ call[c].pc \in {"spawn", "meta", "publish"}
  /\ entry' = [entry EXCEPT ![call[c].key] = NoEntry]
  /\ said' = Quiet
  /\ UNCHANGED <<run, lock, call, paidAge>>

(* the kernel drops a dead server's locks; its workers run on, and one     *)
(* whose record was not written yet is paid for all the same               *)
Crash(s) ==
  LET dead == {c \in Callers : Home[c] = s}
      left == {c \in dead : At(c, "meta")}
  IN
  /\ "crash" \in Events
  /\ call' = [c \in Callers |-> IF c \in dead THEN Idle ELSE call[c]]
  /\ lock' = IF lock \in dead THEN NoCaller ELSE lock
  /\ run' = [r \in Runs |-> IF run[r].phase = "ended" /\ \E c \in left : call[c].run = r
                            THEN NoRecord ELSE run[r]]
  /\ \/ left = {} /\ UNCHANGED paidAge
     \/ \E c \in left : paidAge' = [paidAge EXCEPT ![call[c].key] = call[c].age]
  /\ said' = Quiet
  /\ UNCHANGED entry

CallerStep(c) ==
  \/ Enter(c) \/ LockTimeout(c)
  \/ SweepOne(c) \/ SweepDone(c)
  \/ Create(c) \/ Write(c) \/ WriteFailed(c) \/ Classify(c) \/ Reclaim(c)
  \/ Spawn(c) \/ WriteMeta(c) \/ Undo(c) \/ Publish(c)

Next ==
  \/ \E c \in Callers : CallerStep(c) \/ Lose(c) \/ \E k \in Keys, a \in Args : Begin(c, k, a)
  \/ \E r \in Runs : WorkerEnds(r) \/ OtherCall(r)
  \/ \E k \in Keys : Deny(k) \/ Corrupt(k)
  \/ \E s \in Servers : Crash(s)
  \/ Tick

Spec == Init /\ [][Next]_vars

(* A call that runs goes on, a client asks again for every key, time passes *)
Fairness ==
  /\ \A c \in Callers : WF_vars(CallerStep(c))
  /\ \A k \in Keys : WF_vars(\E c \in Callers, a \in Args : Begin(c, k, a))
  /\ WF_vars(Tick)

FairSpec == Spec /\ Fairness

-----------------------------------------------------------------------------
TypeOK ==
  /\ entry \in [Keys -> Entry]
  /\ \A k \in Keys : entry[k].form = "active" => entry[k].job \in Runs
  /\ run \in [Runs -> Run]
  /\ lock \in Callers \cup {NoCaller}
  /\ call \in [Callers -> Call]
  /\ said \in Saying
  /\ paidAge \in [Keys -> 0..MaxAge]

(* A key is paid for at most once within the horizon of its reservation,   *)
(* whoever asks, retries, fails or dies in between.                        *)
OncePerHorizon ==
  [][\A c \in Callers :
       At(c, "meta") /\ call'[c].pc \notin {"meta", "undo"}
         => ~Within(paidAge[call[c].key])]_vars

(* No run is spawned for a key while a run that was published under it is  *)
(* on disk, however old, unless the entry could not be read.               *)
PaidRunIsFound ==
  [][\A c \in Callers :
       At(c, "spawn") /\ call'[c].pc = "meta"
         => \A r \in Runs : run[r].key = call[c].key /\ run[r].named /\ OnDisk(run[r])
                              => run[r].forsaken]_vars

(* A start that is reported as failed has paid for nothing and leaves its  *)
(* key free: the retry is a first call, not a wait for the horizon.  Only  *)
(* a reservation whose file could not be unlinked stays.                   *)
FailedStartIsForgotten ==
  [][\A c \in Callers :
       said'.by = c /\ said'.kind = "error"
         => /\ call[c].run = NoRun
            /\ \/ entry'[call[c].key] = NoEntry
               \/ At(c, "undo") /\ "stuck" \in Events /\ UNCHANGED entry]_vars

(* A momentary read error never deletes a replayable record (#202): the    *)
(* entry of a run that ended, whose result nobody has read, is kept while  *)
(* its file can be opened.                                                 *)
BlipKeepsReplay ==
  [][\A r \in Runs :
       OnDisk(run[r]) /\ run[r].phase = "ended" /\ run'[r].forsaken
         => run[r].forsaken \/ entry[run[r].key].denied]_vars

(* What the clients see of the index: who asks for what and has paid for   *)
(* which run, which runs are kept, and the answers.                        *)
Asked(c) ==
  [key |-> call[c].key, args |-> call[c].args,
   paid |-> IF At(c, "publish") THEN call[c].run ELSE NoRun]
RecordOf(r) ==
  IF OnDisk(run[r]) THEN [key |-> run[r].key, args |-> run[r].args]
  ELSE [key |-> "none", args |-> "none"]

Promise == INSTANCE PaidOnce WITH
  request <- [c \in Callers |-> Asked(c)],
  record <- [r \in Runs |-> RecordOf(r)],
  age <- paidAge,
  reply <- said

(* The index, its locks and its faults implement the promise of PaidOnce:  *)
(* one payment per key and horizon, the payer's own run as the answer, a   *)
(* replay of the caller's own run, nothing paid by a call that fails.      *)
ImplementsPaidOnce == Promise!Spec

(* No key is wedged: as long as clients ask, each key comes back to where  *)
(* its next call starts or replays a run.                                  *)
Answerable(k) ==
  \/ entry[k].form = "none"
  \/ entry[k].form = "active" /\ ~entry[k].denied /\ OnDisk(run[entry[k].job])
KeyComesBack == \A k \in Keys : []<>Answerable(k)

=============================================================================
