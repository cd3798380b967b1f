------------------------------- MODULE TaskMap -------------------------------
(***************************************************************************)
(* src/src/amicus/jobs/taskmap.py: the map from task ids to job ids that   *)
(* the servers of a state directory share.  A record is a thread that      *)
(* takes the file lock, reads the map, and writes it back with its entry,  *)
(* pruned to its newest entries.  A request is its own task.               *)
(***************************************************************************)
EXTENDS Naturals, Sequences, SequencesExt

CONSTANTS
  Requests,     \* the requests, and their task ids
  MaxEntries    \* MAX_ENTRIES

ASSUME TaskMapAssumption == MaxEntries \in Nat \ {0}

VARIABLES
  taskMap,    \* the file: a sequence of entries, oldest first
  mapLock,    \* the requests whose thread holds the lock file's flock
  writer,     \* [Requests -> a thread in TaskJobMap.record]
  recorded    \* every entry written, in the order of writing, a history

mapVars == <<taskMap, mapLock, writer, recorded>>

WriterStates == {"idle", "queued", "locked", "read", "done", "failed", "dropped"}
NoWriter == [at |-> "idle", job |-> 0, data |-> <<>>]

Entry(task, job) == [task |-> task, job |-> job]

(* data[task_id] = job_id: a known task keeps its place.                   *)
With(data, task, job) ==
  IF \E i \in DOMAIN data : data[i].task = task
  THEN [i \in DOMAIN data |-> IF data[i].task = task THEN Entry(task, job) ELSE data[i]]
  ELSE Append(data, Entry(task, job))

(* Past the bound the oldest entries go.                                   *)
Pruned(data) ==
  IF Len(data) > MaxEntries
  THEN SubSeq(data, Len(data) - MaxEntries + 1, Len(data)) ELSE data

MapInit ==
  /\ taskMap = <<>> /\ mapLock = {}
  /\ writer = [r \in Requests |-> NoWriter]
  /\ recorded = <<>>

-----------------------------------------------------------------------------
(* mutant: the lock is not asked for *)
WriterLocksAtOnce(r) ==
  /\ writer[r].at = "queued"
  /\ mapLock' = mapLock \cup {r}
  /\ writer' = [writer EXCEPT ![r].at = "locked"]
  /\ UNCHANGED <<taskMap, recorded>>

WriterLocks(r) ==
  /\ writer[r].at = "queued" /\ mapLock = {}
  /\ mapLock' = {r}
  /\ writer' = [writer EXCEPT ![r].at = "locked"]
  /\ UNCHANGED <<taskMap, recorded>>

(* Two seconds of waiting for another's lock raise OSError.                *)
WriterGivesUp(r) ==
  /\ writer[r].at = "queued" /\ mapLock # {}
  /\ writer' = [writer EXCEPT ![r].at = "failed"]
  /\ UNCHANGED <<taskMap, mapLock, recorded>>

WriterReads(r) ==
  /\ writer[r].at = "locked"
  /\ writer' = [writer EXCEPT ![r].at = "read", ![r].data = taskMap]
  /\ UNCHANGED <<taskMap, mapLock, recorded>>

WriterWrites(r) ==
  /\ writer[r].at = "read"
  /\ taskMap' = Pruned(With(writer[r].data, r, writer[r].job))
  /\ recorded' = Append(recorded, Entry(r, writer[r].job))
  /\ mapLock' = mapLock \ {r}
  /\ writer' = [writer EXCEPT ![r].at = "done", ![r].data = <<>>]

Writer(r) == WriterLocks(r) \/ WriterGivesUp(r) \/ WriterReads(r) \/ WriterWrites(r)

-----------------------------------------------------------------------------
MapTypeOK ==
  /\ taskMap \in Seq([task : Requests, job : Nat])
  /\ mapLock \subseteq Requests
  /\ writer \in [Requests -> [at : WriterStates, job : Nat,
                              data : Seq([task : Requests, job : Nat])]]
  /\ recorded \in Seq([task : Requests, job : Nat])

(* Concurrent records never clobber each other: the map holds exactly the  *)
(* newest entries that were recorded, in the order they were recorded.     *)
TaskMapKeepsNewest ==
  /\ IsSuffix(taskMap, recorded)
  /\ Len(taskMap) = IF Len(recorded) > MaxEntries THEN MaxEntries ELSE Len(recorded)
=============================================================================
