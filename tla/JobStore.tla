------------------------------ MODULE JobStore ------------------------------
(***************************************************************************)
(* The job store of src/src/amicus/jobs/store.py: server processes that    *)
(* share one state root start detached workers, read, cancel, consume and  *)
(* evict their records on disk.  There is no daemon and no memory: every   *)
(* call derives a job's state from the files a worker left, from the       *)
(* worker's advisory lock and, for its own children, from the process id.  *)
(*                                                                         *)
(* A call is a few sections.  A section holds the workspace record lock,   *)
(* so the sections of different calls never interleave; a worker takes no  *)
(* such lock and may act between any two steps of a section.  One job of   *)
(* one workspace is a number: jobs are started in increasing order.        *)
(***************************************************************************)
EXTENDS Naturals, FiniteSets

CONSTANTS
  Servers,    \* server processes that share the state root
  Threads,    \* calls in flight at a time
  NoThread,   \* nobody holds the record lock
  NoServer,   \* the parent of a worker whose server is gone
  Home,       \* the server each call runs in
  MaxJobs,    \* how many jobs are ever started (bounds the model)
  MaxCount,   \* JobStore.max_count
  Results,    \* what a worker may leave: "valid" reads back as this release's
              \* result, "foreign" was written under another result format
  UsesTree,   \* jobs of the propose tier, whose worker makes a worktree
  Calls,      \* the calls clients make
  Events      \* what else may happen, out of EventKinds

Jobs == 1..MaxJobs
NoJob == 0

CallKinds == {"start", "status", "fetch", "consume", "cancel", "list"}

(* "kept", "lost", "hidden": a delete that fails before, between and after *)
(* its restores; "publish", "popen": a start whose record write or spawn   *)
(* fails; "tree": a worktree that survives its removal; "unlocked": a      *)
(* worker that cannot take its lock; "eio": result.json cannot be opened   *)
(* for a while; "reuse", "childreuse": the pid of a dead worker goes to    *)
(* another process, after its server died or after its server reaped it;   *)
(* "crash": a server dies; "oom": a worker dies unasked; "deadline", "ttl":*)
(* time passes.                                                            *)
EventKinds == {"kept", "lost", "hidden", "publish", "popen", "tree",
               "unlocked", "eio", "reuse", "childreuse", "crash", "oom",
               "deadline", "ttl"}

ASSUME SpaceAssumption == /\ MaxJobs \in Nat \ {0}
                          /\ MaxCount \in Nat \ {0}
ASSUME ActorsAssumption == /\ Home \in [Threads -> Servers]
                           /\ NoThread \notin Threads
                           /\ NoServer \notin Servers
ASSUME InputsAssumption == /\ Results \subseteq {"valid", "foreign"}
                           /\ UsesTree \subseteq Jobs
                           /\ Calls \subseteq CallKinds
                           /\ Events \subseteq EventKinds

VARIABLES
  disk,       \* what each job's directory holds
  worker,     \* each job's worker process
  eio,        \* jobs whose result.json exists but cannot be opened
  recLock,    \* the call that holds the record lock
  th,         \* where each call is
  \* history, read by the properties only
  told,       \* the state of each job last reported to a client
  doubted,    \* jobs reported failed by another server while they ran
  returned,   \* jobs whose stored result was handed back
  hurt        \* unrelated processes signalled: by the job's own server,
              \* which had the pid for its child, or by another one

store == <<disk, worker>>
history == <<told, doubted, returned, hurt>>
vars == <<disk, worker, eio, recLock, th, history>>

-----------------------------------------------------------------------------
(* Disk: a directory without meta.json is not a record (_make_room).  A    *)
(* clock is "unset", "recent", or "old" once the TTL has passed since; the *)
(* deadline is "unset" until it passes.                                    *)

Clock == {"unset", "recent", "old"}
Stamps == {"none", "done", "cancelled", "timeout"}
Terminal == {"done", "failed", "cancelled", "timeout"}
Readings == Terminal \cup {"none", "running", "unreadable"}

Places == {"none", "bare", "record"}

Dir == [at : Places,
        stamp : Stamps,                  \* terminal_status
        completed : Clock,               \* completed_epoch
        deadline : Clock,                \* deadline_epoch
        delivered : BOOLEAN,             \* delivered_epoch
        warned : BOOLEAN,                \* cleanup_warnings
        result : Results \cup {"none"},  \* result.json
        lockFile : BOOLEAN,              \* worker.lock exists
        manifest : BOOLEAN]              \* cleanup.json names the worktree

Absent == [at |-> "none", stamp |-> "none", completed |-> "unset",
           deadline |-> "unset", delivered |-> FALSE, warned |-> FALSE,
           result |-> "none", lockFile |-> FALSE, manifest |-> FALSE]

(* Worker processes: "boot" until it opens its lock file, "opening" until  *)
(* it has taken the lock or given up, "wrote" once result.json is there.   *)
(* A "stranger" is another process under the worker's old pid.             *)

Phases == {"none", "boot", "opening", "working", "wrote",
           "zombie", "gone", "stranger"}
Trees == {"none", "made", "declared", "removed"}

Proc == [phase : Phases,
         lock : BOOLEAN,
         parent : Servers \cup {NoServer},
         tree : Trees]

Unborn == [phase |-> "none", lock |-> FALSE, parent |-> NoServer, tree |-> "none"]

Alive(j) == worker[j].phase \in {"boot", "opening", "working", "wrote"}

Busy(j) == Alive(j) /\ worker[j].phase # "wrote"

Exited(w) == [w EXCEPT !.phase = IF w.parent = NoServer THEN "gone" ELSE "zombie",
                       !.lock = FALSE]

(* _worker_lock_held is True: a probe opens the file by its path *)
Held(j) == disk[j].lockFile /\ worker[j].lock

(* _owned: this very process started the job *)
Owned(t, j) == worker[j].parent = Home[t]

(* _pid_alive, kill(pid, 0): a zombie and a stranger both answer *)
PidAlive(j) == worker[j].phase \notin {"none", "gone"}

(* _is_running, for our own child: an exited child is reaped by the probe  *)
(* itself; once it is reaped only kill(pid, 0) is left.                    *)
IsRunning(j) == Alive(j) \/ worker[j].phase = "stranger"
Reaped(t, j) == IF Owned(t, j) /\ worker[j].phase = "zombie"
                THEN [worker EXCEPT ![j].phase = "gone"]
                ELSE worker

(* mutant: a pid is trusted whoever started the job *)
PidRunning(t, j) == Held(j) \/ PidAlive(j)

JobRunning(t, j) == Held(j) \/ (Owned(t, j) /\ IsRunning(j))

(* mutant: not seen running is taken for gone, as before #126 *)
NotSeenRunning(t, j) == ~JobRunning(t, j)

WorkerGone(t, j) == IF Owned(t, j)
                    THEN ~IsRunning(j)
                    ELSE disk[j].lockFile /\ ~worker[j].lock /\ ~PidAlive(j)

Expired(j) == disk[j].completed = "old"
PastRetention(j) == \/ disk[j].completed = "old"
                    \/ disk[j].completed = "unset" /\ disk[j].deadline = "old"

(* mutant: the deadline only counts once the TTL has passed as well *)
OverdueLate(j) == disk[j].deadline = "old"

Overdue(j) == disk[j].deadline # "unset"

Stamped(j) == disk[j].stamp # "none"

(* mutant: a read error reads as no result, as before #280 *)
EnvelopeOrNothing(j) == IF j \in eio THEN "none" ELSE disk[j].result

(* _read_envelope: what result.json says, if it is there and can be opened *)
Envelope(j) == IF disk[j].result # "none" /\ j \in eio
               THEN "unreadable" ELSE disk[j].result

Unreadable(j) == Envelope(j) = "unreadable"

-----------------------------------------------------------------------------
(* Writes.  MarkDone keeps a completion clock that is already running.     *)

MarkDone(d) == [d EXCEPT !.stamp = "done",
                         !.completed = IF @ = "unset" THEN "recent" ELSE @]

StampFailed(d) == [d EXCEPT !.completed = IF @ = "unset" THEN "recent" ELSE @]

(* _cleanup_external_paths: a declared worktree goes, or survives *)
CleanupResults(j) ==
  IF disk[j].manifest /\ worker[j].tree = "declared"
  THEN {"removed"} \cup (IF "tree" \in Events THEN {"declared"} ELSE {})
  ELSE {worker[j].tree}

(* mutant: what could not be removed is not recorded *)
FinalizeQuietly(j, status) ==
  \E left \in CleanupResults(j) :
    /\ disk' = [disk EXCEPT ![j].stamp = status, ![j].completed = "recent"]
    /\ worker' = [worker EXCEPT ![j].tree = left]

FinalizeCleanup(j, status) ==
  \E left \in CleanupResults(j) :
    /\ disk' = [disk EXCEPT
                  ![j].stamp = status,
                  ![j].completed = "recent",
                  ![j].warned = @ \/ (disk[j].manifest /\ left = "declared")]
    /\ worker' = [worker EXCEPT ![j].tree = left]

(* _rmtree.  Everything but result.json and meta.json goes first; a result *)
(* that cannot be read cannot be restored, so it ends the delete there.    *)
(* Otherwise the directory goes, or the delete fails and restores meta.json*)
(* first: "lost" is a marker back without its result, "hidden" neither.    *)
Stripped(d) == [d EXCEPT !.lockFile = FALSE, !.manifest = FALSE]

(* mutant: only the marker is put back, as before #124 *)
RmtreeMarkerOnly(j) ==
  {Absent} \cup (IF "kept" \in Events
                THEN {[Stripped(disk[j]) EXCEPT !.result = "none"]} ELSE {})

Rmtree(j) ==
  LET d == disk[j] IN
    IF Unreadable(j)
    THEN {Stripped(d)} \cup (IF "kept" \in Events THEN {d} ELSE {})
    ELSE {Absent}
         \cup (IF "kept" \in Events THEN {d, Stripped(d)} ELSE {})
         \cup (IF "lost" \in Events THEN {[Stripped(d) EXCEPT !.result = "none"]}
               ELSE {})
         \cup (IF "hidden" \in Events
               THEN {[Absent EXCEPT !.at = "bare"]} ELSE {})

-----------------------------------------------------------------------------
(* Calls.  pc is the next step; sec is the section it is part of: the      *)
(* reaping pass, the pass that collects the records, the first read of one *)
(* record, mark_delivered, discard and discard's second read.              *)

Steps == {"idle", "enter", "probe", "read", "overrun", "overread", "settled",
          "next", "proof", "evict", "spawn", "publish", "abort", "drop",
          "signal", "grace", "finish"}
Sections == {"none", "reap", "collect", "look", "mark", "discard", "recheck"}

Thread == [pc : Steps,
           call : Calls \cup {"none"},
           sec : Sections,
           cur : Jobs \cup {NoJob},      \* the record being read
           st : Readings,                \* what the read found
           want : Terminal \cup {"none"},\* the state a discard is to find
           todo : SUBSET Jobs,           \* directories the pass has not reached
           seen : [Jobs -> Readings]]    \* what the pass collected

Unseen == [j \in Jobs |-> "none"]
Idle == [pc |-> "idle", call |-> "none", sec |-> "none", cur |-> NoJob,
         st |-> "none", want |-> "none", todo |-> {}, seen |-> Unseen]

Init ==
  /\ disk = [j \in Jobs |-> Absent]
  /\ worker = [j \in Jobs |-> Unborn]
  /\ eio = {}
  /\ recLock = NoThread
  /\ th = [t \in Threads |-> Idle]
  /\ told = [j \in Jobs |-> "none"]
  /\ doubted = {}
  /\ returned = {}
  /\ hurt = {}

(* mutant: the lock is per process, as before #237 *)
LockFreeHere(t) == recLock \notin {u \in Threads : Home[u] = Home[t]}

(* _LOCK among the calls of one server, the flock among servers *)
LockFree(t) == recLock = NoThread

Records == {j \in Jobs : disk[j].at = "record"}
Unstarted == {j \in Jobs : worker[j].phase = "none"}

Move(t, r) == th' = [th EXCEPT ![t] = r]
Go(t, pc) == th' = [th EXCEPT ![t].pc = pc]
Settle(t, st) == th' = [th EXCEPT ![t].pc = "settled", ![t].st = st]
Return(t) == Move(t, Idle) /\ recLock' = NoThread
Report(j, st) == told' = [told EXCEPT ![j] = st]
Signalled(t, j) ==
  hurt' = IF worker[j].phase # "stranger" THEN hurt
          ELSE hurt \cup {IF Owned(t, j) THEN "own" ELSE "other"}

(* mutant: a worker that outstays the grace is left alone *)
NotKilled(t, j) == worker

(* SIGKILL to the process group, then waitpid: our own child is reaped *)
Killed(t, j) ==
  LET w == Exited(worker[j]) IN
    IF Alive(j)
    THEN [worker EXCEPT ![j] = IF Owned(t, j) THEN [w EXCEPT !.phase = "gone"] ELSE w]
    ELSE worker

-----------------------------------------------------------------------------
(* A client's call waits for the record lock and takes it.  start and list *)
(* pass over every record; the others read one.                            *)

Begin(t, call, j) ==
  /\ th[t].pc = "idle"
  /\ call \in {"start", "list"} <=> j = NoJob
  /\ call = "start" =>
       Cardinality({u \in Threads : th[u].call = "start"}) < Cardinality(Unstarted)
  /\ j # NoJob => worker[j].phase # "none"
  /\ Move(t, [Idle EXCEPT !.pc = "enter", !.call = call, !.cur = j,
                          !.sec = IF j = NoJob THEN "reap" ELSE "look"])
  /\ UNCHANGED <<store, eio, recLock, history>>

(* Release the lock: a consume goes on from mark_delivered to discard *)
SectionDone(t) ==
  /\ recLock' = NoThread
  /\ Move(t, IF th[t].sec = "mark" /\ th[t].call = "consume"
             THEN [th[t] EXCEPT !.pc = "enter", !.sec = "discard",
                                !.want = "done", !.st = "none"]
             ELSE Idle)

Enter(t) ==
  /\ th[t].pc = "enter"
  /\ LockFree(t)
  /\ UNCHANGED <<store, eio, history>>
  /\ \/ /\ th[t].sec = "reap"
        /\ recLock' = t
        /\ Move(t, [th[t] EXCEPT !.pc = "next", !.todo = Records])
     \/ /\ th[t].sec # "reap"
        /\ th[t].cur \in Records
        /\ recLock' = t
        /\ Go(t, "probe")
     \/ /\ th[t].sec # "reap"
        /\ th[t].cur \notin Records
        /\ SectionDone(t)

NextRecord(t) ==
  /\ th[t].pc = "next"
  /\ UNCHANGED <<store, eio, doubted, returned, hurt>>
  /\ \/ /\ \E j \in th[t].todo :
             Move(t, [th[t] EXCEPT !.pc = "probe", !.cur = j, !.todo = @ \ {j}])
        /\ UNCHANGED <<recLock, told>>
     \/ /\ th[t].todo = {} /\ th[t].sec = "reap"
        /\ Move(t, [th[t] EXCEPT !.sec = "collect", !.todo = Records])
        /\ UNCHANGED <<recLock, told>>
     \/ /\ th[t].todo = {} /\ th[t].sec = "collect" /\ th[t].call = "list"
        /\ told' = [j \in Jobs |-> IF th[t].seen[j] = "none" THEN told[j]
                                   ELSE th[t].seen[j]]
        /\ Return(t)
     \/ /\ th[t].todo = {} /\ th[t].sec = "collect" /\ th[t].call = "start"
        /\ Go(t, "evict")
        /\ UNCHANGED <<recLock, told>>

-----------------------------------------------------------------------------
(* _status_of, in two steps: the liveness probe, then the result file.     *)

Probe(t) ==
  /\ th[t].pc = "probe"
  /\ UNCHANGED <<disk, eio, recLock, told, doubted, returned>>
  /\ LET j == th[t].cur IN
     \/ /\ Stamped(j)
        /\ Settle(t, disk[j].stamp)
        /\ UNCHANGED <<worker, hurt>>
     \/ /\ ~Stamped(j) /\ ~JobRunning(t, j)
        /\ worker' = Reaped(t, j)
        /\ Go(t, "read")
        /\ UNCHANGED hurt
     \/ /\ ~Stamped(j) /\ JobRunning(t, j) /\ ~Overdue(j)
        /\ Settle(t, "running")
        /\ UNCHANGED <<worker, hurt>>
     \/ /\ ~Stamped(j) /\ JobRunning(t, j) /\ Overdue(j)
        /\ Signalled(t, j)
        /\ Go(t, "overrun")
        /\ UNCHANGED worker

(* A stopped worker's result comes first; without one the job failed, or,  *)
(* when this very read stopped it, timed out.                              *)
Read(t) ==
  /\ th[t].pc \in {"read", "overread"}
  /\ UNCHANGED <<eio, recLock, told, returned, hurt>>
  /\ LET j == th[t].cur IN
     \/ /\ Unreadable(j)
        /\ Settle(t, "unreadable")
        /\ UNCHANGED <<store, doubted>>
     \/ /\ Envelope(j) \in Results
        /\ disk' = [disk EXCEPT ![j] = MarkDone(disk[j])]
        /\ Settle(t, "done")
        /\ UNCHANGED <<worker, doubted>>
     \/ /\ Envelope(j) = "none" /\ th[t].pc = "overread"
        /\ FinalizeCleanup(j, "timeout")
        /\ Settle(t, "timeout")
        /\ UNCHANGED doubted
     \/ /\ Envelope(j) = "none" /\ th[t].pc = "read"
        /\ disk' = [disk EXCEPT ![j] = StampFailed(disk[j])]
        /\ Settle(t, "failed")
        /\ doubted' = IF Alive(j) THEN doubted \cup {j} ELSE doubted
        /\ UNCHANGED worker

(* The grace wait of _terminate_pid_tree, for an overrun, a cancel and a   *)
(* start that could not be recorded: the worker is seen to be gone, or it  *)
(* outstays the grace and is killed.                                       *)
GraceEnds(t) ==
  /\ th[t].pc \in {"overrun", "grace", "abort"}
  /\ LET j == th[t].cur
         live == IF th[t].pc = "abort" THEN IsRunning(j) ELSE JobRunning(t, j)
     IN \/ /\ ~live
           /\ worker' = Reaped(t, j)
           /\ UNCHANGED hurt
        \/ /\ live
           /\ worker' = Killed(t, j)
           /\ Signalled(t, j)
  /\ Go(t, CASE th[t].pc = "overrun" -> "overread"
              [] th[t].pc = "grace" -> "finish"
              [] th[t].pc = "abort" -> "drop")
  /\ UNCHANGED <<disk, eio, recLock, told, doubted, returned>>

-----------------------------------------------------------------------------
(* What a section does with the state it read.                             *)

Removable(t) ==
  LET j == th[t].cur IN
    \/ th[t].st = "unreadable" /\ PastRetention(j)
    \/ th[t].st \in Terminal /\ Expired(j)

Found(t, sec, states) ==
  th[t].pc = "settled" /\ th[t].sec = sec /\ th[t].st \in states

Passed(t) == Move(t, [th[t] EXCEPT !.pc = "next", !.cur = NoJob, !.st = "none"])

(* _read_or_expire and _reap_workspace: past its retention a record goes *)
DropExpired(t) ==
  /\ th[t].pc = "settled"
  /\ th[t].sec \in {"reap", "look", "mark", "discard"}
  /\ Removable(t)
  /\ \E d \in Rmtree(th[t].cur) : disk' = [disk EXCEPT ![th[t].cur] = d]
  /\ IF th[t].sec = "reap" THEN Passed(t) /\ UNCHANGED recLock ELSE SectionDone(t)
  /\ UNCHANGED <<worker, eio, history>>

KeepReaped(t) ==
  /\ Found(t, "reap", Readings)
  /\ ~Removable(t)
  /\ Passed(t)
  /\ UNCHANGED <<store, eio, recLock, history>>

(* Only the cap counts a record it cannot read; a listing is refused *)
Collect(t) ==
  /\ Found(t, "collect", Readings)
  /\ IF th[t].st = "unreadable" /\ th[t].call = "list"
     THEN Return(t)
     ELSE /\ Move(t, [th[t] EXCEPT !.pc = "next", !.cur = NoJob, !.st = "none",
                                   !.seen[th[t].cur] = th[t].st])
          /\ UNCHANGED recLock
  /\ UNCHANGED <<store, eio, history>>

(* ResultUnreadable leaves the section, and the record as it was *)
Unserved(t) ==
  /\ th[t].pc = "settled"
  /\ th[t].sec \in {"look", "mark", "discard", "recheck"}
  /\ th[t].st = "unreadable"
  /\ th[t].sec # "recheck" => ~Removable(t)
  /\ SectionDone(t)
  /\ UNCHANGED <<store, eio, history>>

LookStatus(t) ==
  /\ Found(t, "look", Terminal \cup {"running"})
  /\ ~Removable(t)
  /\ th[t].call \in {"status", "cancel"}
  /\ Report(th[t].cur, th[t].st)
  /\ IF th[t].call = "cancel" /\ th[t].st = "running"
     THEN Go(t, "signal") /\ recLock' = NoThread
     ELSE Return(t)
  /\ UNCHANGED <<store, eio, doubted, returned, hurt>>

(* result_payload, then read_result: a result that validates is delivered  *)
(* and marked; a consume of a job that ended without one discards it.      *)
LookResult(t) ==
  LET j == th[t].cur
      st == th[t].st
      Enters(sec, want) == /\ Move(t, [th[t] EXCEPT !.pc = "enter", !.sec = sec,
                                                   !.want = want, !.st = "none"])
                           /\ recLock' = NoThread
  IN
  /\ Found(t, "look", Terminal \cup {"running"})
  /\ ~Removable(t)
  /\ th[t].call \in {"fetch", "consume"}
  /\ \/ /\ st = "done" /\ Unreadable(j)
        /\ Return(t)
        /\ UNCHANGED <<told, returned>>
     \/ /\ st = "done" /\ Envelope(j) = "valid"
        /\ Enters("mark", "none")
        /\ returned' = returned \cup {j}
        /\ Report(j, st)
     \/ /\ st = "done" /\ Envelope(j) \in {"foreign", "none"}
        /\ Return(t)
        /\ Report(j, st)
        /\ UNCHANGED returned
     \/ /\ st \in Terminal \ {"done"} /\ th[t].call = "consume"
        /\ Enters("discard", st)
        /\ Report(j, st)
        /\ UNCHANGED returned
     \/ /\ st = "running" \/ (st # "done" /\ th[t].call = "fetch")
        /\ Return(t)
        /\ Report(j, st)
        /\ UNCHANGED returned
  /\ UNCHANGED <<store, eio, doubted, hurt>>

MarkDelivered(t) ==
  /\ Found(t, "mark", Terminal \cup {"running"})
  /\ ~Removable(t)
  /\ disk' = [disk EXCEPT ![th[t].cur].delivered = @ \/ th[t].st = "done"]
  /\ SectionDone(t)
  /\ UNCHANGED <<worker, eio, history>>

(* discard, a compare-and-delete: failed is derived, so it must be final *)
Discard(t) ==
  /\ Found(t, "discard", Terminal \cup {"running"})
  /\ ~Removable(t)
  /\ \/ /\ th[t].st # th[t].want
        /\ Return(t)
        /\ UNCHANGED disk
     \/ /\ th[t].st = th[t].want /\ th[t].st = "failed"
        /\ Go(t, "proof")
        /\ UNCHANGED <<disk, recLock>>
     \/ /\ th[t].st = th[t].want /\ th[t].st # "failed"
        /\ \E d \in Rmtree(th[t].cur) : disk' = [disk EXCEPT ![th[t].cur] = d]
        /\ Return(t)
  /\ UNCHANGED <<worker, eio, history>>

ProveGone(t) ==
  /\ th[t].pc = "proof"
  /\ worker' = Reaped(t, th[t].cur)
  /\ IF WorkerGone(t, th[t].cur)
     THEN /\ Move(t, [th[t] EXCEPT !.pc = "probe", !.sec = "recheck", !.st = "none"])
          /\ UNCHANGED recLock
     ELSE Return(t)
  /\ UNCHANGED <<disk, eio, history>>

DiscardFailed(t) ==
  /\ Found(t, "recheck", Terminal \cup {"running"})
  /\ \/ /\ th[t].st = "failed"
        /\ \E d \in Rmtree(th[t].cur) : disk' = [disk EXCEPT ![th[t].cur] = d]
     \/ /\ th[t].st # "failed"
        /\ UNCHANGED disk
  /\ Return(t)
  /\ UNCHANGED <<worker, eio, history>>

-----------------------------------------------------------------------------
(* cancel, after its first read found the job running: the worker is       *)
(* stopped with the lock released, then the record is read afresh.         *)

Signal(t) ==
  /\ th[t].pc = "signal"
  /\ LET j == th[t].cur IN
     \/ /\ ~JobRunning(t, j)
        /\ worker' = Reaped(t, j)
        /\ Go(t, "finish")
        /\ UNCHANGED hurt
     \/ /\ JobRunning(t, j)
        /\ Signalled(t, j)
        /\ Go(t, "grace")
        /\ UNCHANGED worker
  /\ UNCHANGED <<disk, eio, recLock, told, doubted, returned>>

FinishCancel(t) ==
  /\ th[t].pc = "finish"
  /\ LockFree(t)
  /\ LET j == th[t].cur IN
     \/ /\ j \notin Records \/ (~Stamped(j) /\ Unreadable(j))
        /\ UNCHANGED <<store, told>>
     \/ /\ j \in Records /\ Stamped(j)
        /\ Report(j, disk[j].stamp)
        /\ UNCHANGED store
     \/ /\ j \in Records /\ ~Stamped(j) /\ Envelope(j) \in Results
        /\ disk' = [disk EXCEPT ![j] = MarkDone(disk[j])]
        /\ Report(j, "done")
        /\ UNCHANGED worker
     \/ /\ j \in Records /\ ~Stamped(j) /\ Envelope(j) = "none"
        /\ FinalizeCleanup(j, "cancelled")
        /\ Report(j, "cancelled")
  /\ Return(t)
  /\ UNCHANGED <<eio, doubted, returned, hurt>>

-----------------------------------------------------------------------------
(* start: make room or refuse, spawn, write the record.                    *)

(* mutant: any terminal record may go, as before #244 *)
EvictableOnceTerminal(j, st) == st \in Terminal

(* _evictable, on the state the pass collected *)
Evictable(j, st) == st \in Terminal /\ (st = "done" => disk[j].delivered)

IsOldest(j, S) == j \in S /\ \A k \in S : j <= k

Room(held) == Cardinality(held) < MaxCount

(* _make_room: oldest first; only a verified delete makes room *)
Evict(t) ==
  LET held == {j \in Jobs : th[t].seen[j] # "none"}
      left == {j \in held : j > th[t].cur /\ Evictable(j, th[t].seen[j])}
  IN
  /\ th[t].pc = "evict"
  /\ \/ /\ Room(held)
        /\ Move(t, [th[t] EXCEPT !.pc = "spawn", !.cur = NoJob, !.seen = Unseen])
        /\ UNCHANGED <<disk, recLock>>
     \/ /\ ~Room(held) /\ left = {}   \* JobCapReached
        /\ Return(t)
        /\ UNCHANGED disk
     \/ /\ ~Room(held)
        /\ \E j \in left : \E d \in Rmtree(j) :
             /\ IsOldest(j, left)
             /\ disk' = [disk EXCEPT ![j] = d]
             /\ Move(t, [th[t] EXCEPT !.cur = j,
                        !.seen[j] = IF d.at = "none" THEN "none" ELSE @])
        /\ UNCHANGED recLock
  /\ UNCHANGED <<worker, eio, history>>

Spawn(t) ==
  /\ th[t].pc = "spawn"
  /\ \/ /\ \E j \in Unstarted :
             /\ IsOldest(j, Unstarted)
             /\ disk' = [disk EXCEPT ![j].at = "bare"]
             /\ worker' = [worker EXCEPT ![j].phase = "boot", ![j].parent = Home[t]]
             /\ Move(t, [th[t] EXCEPT !.pc = "publish", !.cur = j])
        /\ UNCHANGED recLock
     \/ /\ "popen" \in Events
        /\ Return(t)
        /\ UNCHANGED store
  /\ UNCHANGED <<eio, history>>

Publish(t) ==
  /\ th[t].pc = "publish"
  /\ \/ /\ disk' = [disk EXCEPT ![th[t].cur].at = "record"]
        /\ Return(t)
     \/ /\ "publish" \in Events
        /\ Go(t, "abort")
        /\ UNCHANGED <<disk, recLock>>
  /\ UNCHANGED <<worker, eio, history>>

(* Nobody must be left paying: the worker is stopped, its worktree removed *)
DropUnrecorded(t) ==
  /\ th[t].pc = "drop"
  /\ LET j == th[t].cur IN
     /\ \E left \in CleanupResults(j) : worker' = [worker EXCEPT ![j].tree = left]
     /\ \E d \in {Absent} \cup (IF "hidden" \in Events
                               THEN {[Absent EXCEPT !.at = "bare"]} ELSE {}) :
          disk' = [disk EXCEPT ![j] = d]
  /\ Return(t)
  /\ UNCHANGED <<eio, history>>

CallStep(t) ==
  \/ Enter(t) \/ NextRecord(t) \/ Probe(t) \/ Read(t) \/ GraceEnds(t)
  \/ DropExpired(t) \/ KeepReaped(t) \/ Collect(t) \/ Unserved(t)
  \/ LookStatus(t) \/ LookResult(t) \/ MarkDelivered(t)
  \/ Discard(t) \/ ProveGone(t) \/ DiscardFailed(t)
  \/ Signal(t) \/ FinishCancel(t)
  \/ Evict(t) \/ Spawn(t) \/ Publish(t) \/ DropUnrecorded(t)

-----------------------------------------------------------------------------
(* The worker (_worker.py).  It takes no lock but its own.                 *)

Phase(j, from, to) == /\ worker[j].phase = from
                      /\ worker' = [worker EXCEPT ![j].phase = to]

OpenLockFile(j) ==
  /\ disk[j].at # "none"
  /\ Phase(j, "boot", "opening")
  /\ disk' = [disk EXCEPT ![j].lockFile = TRUE]
  /\ UNCHANGED <<eio, recLock, th, history>>

TakeLock(j) ==
  /\ worker[j].phase = "opening"
  /\ worker' = [worker EXCEPT ![j].phase = "working", ![j].lock = TRUE]
  /\ UNCHANGED <<disk, eio, recLock, th, history>>

(* The open fails, or probes collide with it for as long as it tries *)
RunUnlocked(j) ==
  /\ "unlocked" \in Events
  /\ disk[j].at # "none"
  /\ Phase(j, "boot", "working") \/ Phase(j, "opening", "working")
  /\ UNCHANGED <<disk, eio, recLock, th, history>>

MakeTree(j) ==
  /\ j \in UsesTree
  /\ worker[j].phase = "working" /\ worker[j].tree = "none"
  /\ worker' = [worker EXCEPT ![j].tree = "made"]
  /\ UNCHANGED <<disk, eio, recLock, th, history>>

DeclareTree(j) ==
  /\ worker[j].phase = "working" /\ worker[j].tree = "made"
  /\ disk[j].at # "none"
  /\ worker' = [worker EXCEPT ![j].tree = "declared"]
  /\ disk' = [disk EXCEPT ![j].manifest = TRUE]
  /\ UNCHANGED <<eio, recLock, th, history>>

RemoveTree(j) ==
  /\ worker[j].phase = "working" /\ worker[j].tree \in {"made", "declared"}
  /\ worker' = [worker EXCEPT ![j].tree = "removed"]
  /\ UNCHANGED <<disk, eio, recLock, th, history>>

WriteResult(j) ==
  /\ worker[j].tree \in {"none", "removed"}
  /\ disk[j].at # "none"
  /\ Phase(j, "working", "wrote")
  /\ \E r \in Results : disk' = [disk EXCEPT ![j].result = r]
  /\ UNCHANGED <<eio, recLock, th, history>>

(* It exits when it is done, when its directory is gone, when it was asked *)
(* to (SIGTERM cancels the run) and, unasked, when it crashes.             *)
Asked(j) == \E t \in Threads : /\ th[t].cur = j
                              /\ th[t].pc \in {"overrun", "grace", "abort"}

WorkerExits(j) ==
  /\ Alive(j)
  /\ \/ worker[j].phase = "wrote"
     \/ worker[j].phase \in {"boot", "working"} /\ disk[j].at = "none"
     \/ Asked(j)
     \/ "oom" \in Events
  /\ worker' = [worker EXCEPT ![j] = Exited(worker[j])]
  /\ UNCHANGED <<disk, eio, recLock, th, history>>

-----------------------------------------------------------------------------
(* The world around.                                                       *)

(* subprocess reaps exited children whenever its server spawns anything *)
PopenReaps(j) ==
  /\ Phase(j, "zombie", "gone")
  /\ UNCHANGED <<disk, eio, recLock, th, history>>

PidReused(j) ==
  /\ IF worker[j].parent = NoServer THEN "reuse" \in Events ELSE "childreuse" \in Events
  /\ Phase(j, "gone", "stranger")
  /\ UNCHANGED <<disk, eio, recLock, th, history>>

StrangerExits(j) ==
  /\ Phase(j, "stranger", "gone")
  /\ UNCHANGED <<disk, eio, recLock, th, history>>

(* Clocks that no rule reads any more are left alone *)
DeadlinePasses(j) ==
  /\ "deadline" \in Events
  /\ disk[j].at # "none" /\ disk[j].stamp = "none"
  /\ disk[j].deadline = "unset"
  /\ disk' = [disk EXCEPT ![j].deadline = "recent"]
  /\ UNCHANGED <<worker, eio, recLock, th, history>>

TtlPasses(j) ==
  /\ "ttl" \in Events
  /\ \/ /\ disk[j].completed = "recent"
        /\ disk' = [disk EXCEPT ![j].completed = "old"]
     \/ /\ disk[j].completed = "unset" /\ disk[j].deadline = "recent"
        /\ disk' = [disk EXCEPT ![j].deadline = "old"]
  /\ UNCHANGED <<worker, eio, recLock, th, history>>

ReadErrorStarts(j) ==
  /\ "eio" \in Events
  /\ disk[j].result # "none" /\ j \notin eio
  /\ eio' = eio \cup {j}
  /\ UNCHANGED <<store, recLock, th, history>>

ReadErrorEnds(j) ==
  /\ j \in eio
  /\ eio' = eio \ {j}
  /\ UNCHANGED <<store, recLock, th, history>>

(* A server dies with its calls; its flock is released and its workers, in *)
(* sessions of their own, live on.  It comes back under the same name with *)
(* another owner token, so none of them is its child.                      *)
Orphaned(w, s) ==
  IF w.parent # s THEN w
  ELSE [w EXCEPT !.parent = NoServer,
                 !.phase = IF @ = "zombie" THEN "gone" ELSE @]

Crash(s) ==
  /\ "crash" \in Events
  /\ th' = [t \in Threads |-> IF Home[t] = s THEN Idle ELSE th[t]]
  /\ recLock' = IF recLock \in {t \in Threads : Home[t] = s}
                THEN NoThread ELSE recLock
  /\ worker' = [j \in Jobs |-> Orphaned(worker[j], s)]
  /\ UNCHANGED <<disk, eio, history>>

WorkerStep(j) ==
  \/ OpenLockFile(j) \/ TakeLock(j) \/ RunUnlocked(j)
  \/ MakeTree(j) \/ DeclareTree(j) \/ RemoveTree(j)
  \/ WriteResult(j) \/ WorkerExits(j)

WorldStep(j) ==
  \/ PopenReaps(j) \/ PidReused(j) \/ StrangerExits(j)
  \/ DeadlinePasses(j) \/ TtlPasses(j)
  \/ ReadErrorStarts(j) \/ ReadErrorEnds(j)

Next ==
  \/ \E t \in Threads : CallStep(t)
  \/ \E t \in Threads, call \in Calls, j \in Jobs \cup {NoJob} : Begin(t, call, j)
  \/ \E j \in Jobs : WorkerStep(j) \/ WorldStep(j)
  \/ \E s \in Servers : Crash(s)

Spec == Init /\ [][Next]_vars

(* A call that runs is not starved: the kernel grants a waited-for flock.  *)
(* Somebody polls: without a daemon nothing happens unless a client calls. *)
CallsRun == \A t \in Threads : SF_vars(CallStep(t))
Polled == \A j \in Jobs : SF_vars(\E t \in Threads : Begin(t, "status", j))

FairSpec == Spec /\ CallsRun /\ Polled

-----------------------------------------------------------------------------
TypeOK ==
  /\ disk \in [Jobs -> Dir]
  /\ worker \in [Jobs -> Proc]
  /\ eio \subseteq Jobs
  /\ recLock \in Threads \cup {NoThread}
  /\ th \in [Threads -> Thread]
  /\ told \in [Jobs -> Terminal \cup {"none", "running", "unreadable"}]
  /\ doubted \subseteq Jobs
  /\ returned \subseteq Jobs
  /\ hurt \subseteq {"own", "other"}
-----------------------------------------------------------------------------
(* What the store promises.                                                *)

(* A state a client was told is never taken back: done, cancelled and      *)
(* timeout stand for as long as the job is served, whatever read errors,   *)
(* crashes and other calls come in between (#280).  failed may only turn   *)
(* into cancelled, when a cancel was already stopping the worker, unless   *)
(* another server reported it while the worker ran.                        *)
OutcomesStand ==
  [][\A j \in Jobs :
       /\ told[j] \in {"done", "cancelled", "timeout"} => told'[j] = told[j]
       /\ told[j] = "failed" /\ j \notin doubted
            => told'[j] \in {"failed", "cancelled"}]_vars

(* terminal_status is written once: a cancel that stopped the worker with  *)
(* the lock released never overwrites what another call stamped meanwhile. *)
StampIsForever ==
  [][\A j \in Jobs : disk[j].stamp # "none" =>
       disk'[j].stamp = disk[j].stamp \/ disk'[j].at # "record"]_vars

(* cancelled and timeout are stamped on stopped workers only, and never    *)
(* hide a result: the result comes first, whoever is stopping the worker.  *)
StoppedMeansStopped ==
  \A j \in Jobs : disk[j].stamp \in {"cancelled", "timeout"}
                   => ~Alive(j) /\ disk[j].result = "none"

(* A done record has its result, after any delete that failed (#124),      *)
(* short of a restore that failed as well.                                 *)
DoneKeepsItsResult ==
  {"lost", "hidden"} \cap Events = {} =>
    \A j \in Records : disk[j].stamp = "done" => disk[j].result # "none"

(* A consume of a failed job deletes it only when no result can appear any *)
(* more: its worker is gone and left none (#126).                          *)
ConsumedFailureIsFinal ==
  \A t \in Threads :
    th[t].pc = "settled" /\ th[t].sec = "recheck" /\ th[t].st = "failed"
      => ~Alive(th[t].cur) /\ disk[th[t].cur].result = "none"

(* The result of a recorded job stays until it was handed back or expires: *)
(* no eviction, consume or cancel deletes it (#244), however its worker    *)
(* and its server ended.                                                   *)
UnreturnedResultKept ==
  [][\A j \in Records :
       disk[j].result # "none" /\ disk'[j].result = "none"
         => j \in returned \cup doubted \/ PastRetention(j)]_vars

(* Server processes that share the root never overshoot the cap (#237) *)
CapHolds == Cardinality(Records) <= MaxCount

(* No worker spends untracked: while one runs, its record is there or its  *)
(* start has not returned, when no server crashes in between.              *)
RunningIsTracked ==
  "crash" \notin Events =>
    \A j \in Jobs \ doubted :
      Busy(j) => \/ j \in Records
                 \/ \E t \in Threads : /\ th[t].cur = j
                                       /\ th[t].pc \in {"publish", "abort", "drop"}

(* After a restart a pid is not trusted: a server that did not start a job *)
(* never signals the process that has its worker's pid now.                *)
UnownedPidUntouched == "other" \notin hurt

(* A cancelled or timed out job has no worktree left, or says so, short of *)
(* a delete that failed after it had taken the manifest.                   *)
LeftTreeIsReported ==
  {"kept", "lost"} \cap Events = {} =>
    \A j \in Records :
      disk[j].stamp \in {"cancelled", "timeout"} /\ worker[j].tree = "declared"
        => disk[j].warned

(* A job past its deadline ends, if anybody polls it: there is no daemon   *)
OverdueJobsEnd ==
  \A j \in Jobs : (j \in Records /\ disk[j].deadline # "unset")
                     ~> (j \notin Records \/ disk[j].completed # "unset")

-----------------------------------------------------------------------------
(* What the repository says of the store, and the code does not do.        *)

(* store.py:1031 and ADR 0038: the cap never removes a running job *)
RunningNeverEvicted ==
  [][\A j \in Records : Busy(j) /\ (\E t \in Threads : th[t].pc = "evict")
                          => disk'[j].at = "record"]_vars

(* store.py:996-998: a result that never reads back again cannot outlive   *)
(* the retention bound; a read past it that no delete fault disturbs       *)
(* removes the record.                                                     *)
UnreadableObeysRetention ==
  [][\A t \in Threads :
       DropExpired(t) /\ "kept" \notin Events => disk'[th[t].cur].at = "none"]_vars
=============================================================================
