--------------------------- MODULE ProcessRuntime ---------------------------
(***************************************************************************)
(* One backend command under src/src/amicus/sdk/core/runtime.py: run_async *)
(* spawns it in a process group of its own, a worker thread drains it in   *)
(* _wait_streaming with three pumps and an observer, and on a deadline or  *)
(* a cancellation the group is killed and what left it is swept.           *)
(*                                                                         *)
(* The command is a tree of four processes: the leader; an heir in its     *)
(* group; a stray in a group of its own, whose command line names the      *)
(* worktree; and the stray's child, which does not.  Each may hold the     *)
(* output pipes and write to them.  Signals reach a group at once; the     *)
(* reuse of a process id is outside the model.                             *)
(***************************************************************************)
EXTENDS StreamCapture

CONSTANTS
  Char,         \* what a record is made of, besides Sep
  Commands,     \* the commands there are: see Command
  Cap,          \* [Streams -> Nat]: the byte budgets of the captures
  PipeSize,     \* what the kernel buffers of a stream
  ChunkSize,    \* streamcap's chunk_size
  QueueItems,   \* line_queue's maxsize
  QueueBytes    \* _OBSERVER_QUEUE_BYTES

(* "popen": the spawn fails; "fail": a pump raises; "hang": a process      *)
(* never exits by itself; "slow": the observer's callback never returns;   *)
(* "cancel": the request is cancelled; "blind": a ps of a sweep does not   *)
(* run, times out or fails, which reads as no process found.               *)
EventKinds == {"popen", "fail", "hang", "slow", "cancel", "blind"}

Streams == {"out", "err"}
Procs == {"leader", "heir", "stray", "grand"}

(* Whether a command is given a prompt on stdin, whether its backend gives *)
(* an orphan_marker to sweep by (kimi, for a worktree whose path is long   *)
(* enough; claude and codex give none), which processes it may start       *)
(* besides its leader, how much they write to a stream, and what may       *)
(* happen besides.                                                         *)
Command == [prompt : BOOLEAN, marker : BOOLEAN, procs : SUBSET Procs,
            text : [Streams -> Nat], events : SUBSET EventKinds]

ASSUME RuntimeAssumption ==
  /\ Sep \notin Char /\ Ellipsis \notin Char /\ Sep # Ellipsis
  /\ Commands \subseteq Command
  /\ Cap \in [Streams -> Nat] /\ \A s \in Streams : Cap[s] >= MarkerBytes
  /\ {PipeSize, ChunkSize} \subseteq Nat \ {0}
  /\ {QueueItems, QueueBytes} \subseteq Nat

Text == Seq(Char \cup {Sep, Ellipsis})

RunGroup == {"leader", "heir"}
StrayGroup == {"stray", "grand"}
Marked == {"stray"}
Parents(p) == CASE p = "heir" -> {"leader"}
                [] p = "stray" -> RunGroup
                [] p = "grand" -> {"stray"}
                [] OTHER -> {}
GroupOf(p) == IF p \in RunGroup THEN RunGroup ELSE StrayGroup

VARIABLES
  command,   \* the one that is run
  proc,      \* [Procs -> ProcStates]
  holds,     \* the processes that hold the ends of the pipes
  hung,      \* the processes that will not exit by themselves
  pipe,      \* [Streams -> Text]: written and not yet read
  written,   \* [Streams -> Text]: all that was written, a history
  pump,      \* [Streams -> a pump thread]
  capture,   \* [Streams -> a BoundedCapture]
  lineCut,   \* stdout_line_cut
  stdin,     \* the thread that feeds the prompt: "writing" or "done"
  queue,     \* line_queue
  queued,    \* _queued_bytes
  observer,  \* the observer thread: where it is and the record it holds
  expired,   \* the deadline has passed
  waiter,    \* the worker thread in _wait_streaming
  timedOut,  \* its verdict
  caller,    \* the task in run_async
  sweep      \* [{"waiter", "caller"} -> where its sweep_orphans is]

tree == <<command, proc, holds, hung>>
stream == <<pipe, pump, capture, lineCut, stdin>>
watch == <<queue, queued, observer>>
vars == <<tree, stream, written, watch, expired, waiter, timedOut, caller, sweep>>

ProcStates == {"unborn", "alive", "zombie", "gone"}
PumpStates == {"filling", "splitting", "done", "failed"}
ObserverStates == {"polling", "idle", "counting", "calling", "stuck", "done"}
WaiterStates == {"unstarted", "wait", "join", "kill", "sweep", "reap", "drain",
                 "observe", "done"}
CallerStates == {"spawn", "await", "kill", "sweepCancelled", "sweepReturned",
                 "cancelled", "missing", "returned"}
SweepStates == {"idle", "grace", "done", "blind"}

Ended == {"cancelled", "missing", "returned"}

Alive(p) == proc[p] = "alive"
AliveProcs == {p \in Procs : Alive(p)}

(* Nobody can write to the pipes any more.                                 *)
WriteEndClosed == holds \cap AliveProcs = {}

Reading(s) == pump[s].state \in {"filling", "splitting"}
PumpsDone == stdin = "done" /\ \A s \in Streams : ~Reading(s)

Init ==
  /\ command \in Commands
  /\ proc = [p \in Procs |-> "unborn"]
  /\ holds = {} /\ hung = {}
  /\ pipe = [s \in Streams |-> <<>>] /\ written = [s \in Streams |-> <<>>]
  /\ pump = [s \in Streams |-> [state |-> "filling", chunk |-> <<>>, asm |-> NoRecord]]
  /\ capture = [s \in Streams |-> Empty]
  /\ lineCut = FALSE
  /\ stdin = IF command.prompt THEN "writing" ELSE "done"
  /\ queue = <<>> /\ queued = 0
  /\ observer = [state |-> "polling", item |-> <<>>]
  /\ expired = FALSE
  /\ waiter = "unstarted" /\ timedOut = FALSE
  /\ caller = "spawn"
  /\ sweep = [a \in {"waiter", "caller"} |-> "idle"]

-----------------------------------------------------------------------------
(* The processes.  A child inherits its parent's pipes.                    *)
Fork(p) ==
  /\ proc[p] = "unborn" /\ p \in command.procs
  /\ \E parent \in Parents(p) \cap AliveProcs :
       holds' = IF parent \in holds THEN holds \cup {p} ELSE holds
  /\ proc' = [proc EXCEPT ![p] = "alive"]
  /\ UNCHANGED <<command, hung, stream, written, watch, expired, waiter, timedOut, caller, sweep>>

ClosePipes(p) ==
  /\ Alive(p) /\ p \in holds
  /\ holds' = holds \ {p}
  /\ UNCHANGED <<command, proc, hung, stream, written, watch, expired, waiter, timedOut, caller,
                 sweep>>

(* The leader stays a zombie until the waiter reaps it; init reaps others. *)
Dead(p) == IF p = "leader" THEN "zombie" ELSE "gone"

(* A hung process does not exit, and one with something left to write does *)
(* so only by crashing.                                                    *)
Exit(p) ==
  /\ Alive(p) /\ p \notin hung
  /\ proc' = [proc EXCEPT ![p] = Dead(p)]
  /\ UNCHANGED <<command, holds, hung, stream, written, watch, expired, waiter, timedOut, caller,
                 sweep>>

Hang(p) ==
  /\ "hang" \in command.events /\ Alive(p) /\ p \notin hung
  /\ hung' = hung \cup {p}
  /\ UNCHANGED <<command, proc, holds, stream, written, watch, expired, waiter, timedOut, caller,
                 sweep>>

Write(s) ==
  /\ ~WriteEndClosed
  /\ Len(written[s]) < command.text[s] /\ Len(pipe[s]) < PipeSize
  /\ \E c \in Char \cup {Sep} :
       /\ pipe' = [pipe EXCEPT ![s] = Append(@, c)]
       /\ written' = [written EXCEPT ![s] = Append(@, c)]
  /\ UNCHANGED <<tree, pump, capture, lineCut, stdin, watch, expired, waiter, timedOut,
                 caller, sweep>>

(* SIGKILL to every process in a set.                                      *)
Kill(victims) ==
  proc' = [p \in Procs |-> IF p \in victims /\ Alive(p) THEN Dead(p) ELSE proc[p]]

-----------------------------------------------------------------------------
(* The pumps.  A read takes what the pipe has and waits for a whole chunk  *)
(* or for the end of the stream.                                           *)
Started == waiter # "unstarted"

(* mutant: stderr is read after stdout *)
FillInTurn(s) ==
  LET p == pump[s]
      k == Min({Len(pipe[s]), ChunkSize - Len(p.chunk)})
      chunk == p.chunk \o SubSeq(pipe[s], 1, k)
  IN  /\ Started /\ p.state = "filling" /\ k > 0
      /\ s = "err" => ~Reading("out")
      /\ pump' = [pump EXCEPT ![s].chunk = chunk,
                              ![s].state = IF Len(chunk) = ChunkSize THEN "splitting" ELSE @]
      /\ pipe' = [pipe EXCEPT ![s] = SubSeq(@, k + 1, Len(@))]
      /\ UNCHANGED <<tree, written, capture, lineCut, stdin, watch, expired, waiter,
                     timedOut, caller, sweep>>

Fill(s) ==
  LET p == pump[s]
      k == Min({Len(pipe[s]), ChunkSize - Len(p.chunk)})
      chunk == p.chunk \o SubSeq(pipe[s], 1, k)
  IN  /\ Started /\ p.state = "filling" /\ k > 0
      /\ pump' = [pump EXCEPT ![s].chunk = chunk,
                              ![s].state = IF Len(chunk) = ChunkSize THEN "splitting" ELSE @]
      /\ pipe' = [pipe EXCEPT ![s] = SubSeq(@, k + 1, Len(@))]
      /\ UNCHANGED <<tree, written, capture, lineCut, stdin, watch, expired, waiter,
                     timedOut, caller, sweep>>

LastChunk(s) ==
  /\ Started /\ pump[s].state = "filling"
  /\ WriteEndClosed /\ pipe[s] = <<>> /\ pump[s].chunk # <<>>
  /\ pump' = [pump EXCEPT ![s].state = "splitting"]
  /\ UNCHANGED <<tree, written, pipe, capture, lineCut, stdin, watch, expired, waiter,
                 timedOut, caller, sweep>>

(* The queue of the observer takes a record only within both its bounds.   *)
Offer(record) ==
  IF queued + Len(record) <= QueueBytes /\ Len(queue) < QueueItems
  THEN queue' = Append(queue, record) /\ queued' = queued + Len(record)
  ELSE UNCHANGED <<queue, queued>>

(* mutant: a record that was cut leaves no trace, as before #198 *)
DeliverUnmarked(s, record) ==
  /\ capture' = [capture EXCEPT ![s] = Add(@, record, Cap[s])]
  /\ IF s = "out" THEN Offer(record) ELSE UNCHANGED <<queue, queued>>
  /\ UNCHANGED lineCut

Deliver(s, record) ==
  /\ capture' = [capture EXCEPT ![s] = Add(@, record, Cap[s])]
  /\ IF s = "out"
     THEN lineCut' = (lineCut \/ IsLossMarker(record)) /\ Offer(record)
     ELSE UNCHANGED <<lineCut, queue, queued>>

(* One turn of the assembler: up to the next separator of the chunk, or    *)
(* the rest of it.                                                         *)
SplitRecord(s) ==
  LET p == pump[s]
      i == Min(SepAt(p.chunk))
  IN  /\ p.state = "splitting" /\ SepAt(p.chunk) # {}
      /\ Deliver(s, Completed(p.asm, p.chunk, i, Cap[s]))
      /\ pump' = [pump EXCEPT ![s].chunk = SubSeq(@, i + 1, Len(@)), ![s].asm = NoRecord]
      /\ UNCHANGED <<tree, written, pipe, stdin, observer, expired, waiter, timedOut,
                     caller, sweep>>

SplitRest(s) ==
  LET p == pump[s]
  IN  /\ p.state = "splitting" /\ SepAt(p.chunk) = {}
      /\ pump' = [pump EXCEPT ![s] = [state |-> "filling", chunk |-> <<>>,
                                      asm |-> Absorb(p.asm, p.chunk, Cap[s])]]
      /\ UNCHANGED <<tree, written, pipe, capture, lineCut, stdin, watch, expired, waiter,
                     timedOut, caller, sweep>>

(* The end of the stream: what is pending is the last record.              *)
Drain(s) ==
  LET p == pump[s]
  IN  /\ Started /\ p.state = "filling"
      /\ WriteEndClosed /\ pipe[s] = <<>> /\ p.chunk = <<>>
      /\ IF p.asm.pending # <<>> THEN Deliver(s, p.asm.pending)
         ELSE UNCHANGED <<capture, lineCut, queue, queued>>
      /\ pump' = [pump EXCEPT ![s].state = "done", ![s].asm = NoRecord]
      /\ UNCHANGED <<tree, written, pipe, stdin, observer, expired, waiter, timedOut,
                     caller, sweep>>

(* An exception ends a pump; it is recorded, and the pipe is read no more. *)
PumpFails(s) ==
  /\ "fail" \in command.events /\ Started /\ Reading(s)
  /\ pump' = [pump EXCEPT ![s] = [state |-> "failed", chunk |-> <<>>, asm |-> NoRecord]]
  /\ UNCHANGED <<tree, written, pipe, capture, lineCut, stdin, watch, expired, waiter,
                 timedOut, caller, sweep>>

(* The prompt is read, or nobody is left to read it.                       *)
StdinDone ==
  /\ Started /\ stdin = "writing"
  /\ stdin' = "done"
  /\ UNCHANGED <<tree, written, pipe, pump, capture, lineCut, watch, expired, waiter,
                 timedOut, caller, sweep>>

-----------------------------------------------------------------------------
(* The observer: a get that may find nothing, then a look at the event;    *)
(* the bytes are given back after the record was taken.  Polls of a queue  *)
(* that stays empty change nothing and are left out.                       *)
Observing(from, to) ==
  /\ Started /\ observer.state = from
  /\ observer' = [observer EXCEPT !.state = to]
  /\ UNCHANGED <<tree, stream, written, queue, queued, expired, waiter, timedOut, caller,
                 sweep>>

ObserverTakes ==
  /\ Started /\ observer.state = "polling" /\ queue # <<>>
  /\ observer' = [state |-> "counting", item |-> Head(queue)]
  /\ queue' = Tail(queue)
  /\ UNCHANGED <<tree, stream, written, queued, expired, waiter, timedOut, caller, sweep>>

ObserverFindsNone == queue = <<>> /\ Observing("polling", "idle")

ObserverCounts ==
  /\ observer.state = "counting"
  /\ queued' = queued - Len(observer.item)
  /\ observer' = [state |-> "calling", item |-> <<>>]
  /\ UNCHANGED <<tree, stream, written, queue, expired, waiter, timedOut, caller, sweep>>

ObserverCalled == Observing("calling", "polling")
ObserverSticks == "slow" \in command.events /\ Observing("calling", "stuck")
ObserverGoesOn == Reading("out") /\ queue # <<>> /\ Observing("idle", "polling")
ObserverEnds == ~Reading("out") /\ Observing("idle", "done")

Observe ==
  ObserverTakes \/ ObserverFindsNone \/ ObserverCounts \/ ObserverCalled
    \/ ObserverGoesOn \/ ObserverEnds

-----------------------------------------------------------------------------
(* sweep_orphans, called only with a marker.  The groups are looked up     *)
(* again before SIGKILL, and in the grace between a process may obey       *)
(* SIGTERM (Exit) or not.  A ps that fails finds nobody: at the first      *)
(* lookup nothing is signalled, at the last nothing is killed.             *)
MarkedAlive == Marked \cap AliveProcs
MarkedGroups == UNION {GroupOf(p) : p \in MarkedAlive}

SweepFinds(a) ==
  /\ sweep[a] = "idle"
  /\ sweep' = [sweep EXCEPT ![a] = IF MarkedAlive = {} THEN "done" ELSE "grace"]
  /\ UNCHANGED proc

SweepKills(a) ==
  /\ sweep[a] = "grace"
  /\ Kill(MarkedGroups)
  /\ sweep' = [sweep EXCEPT ![a] = "done"]

SweepBlind(a) ==
  /\ "blind" \in command.events
  /\ sweep[a] \in {"idle", "grace"}
  /\ sweep' = [sweep EXCEPT ![a] = "blind"]
  /\ UNCHANGED proc

Sweep(a) ==
  /\ command.marker
  /\ IF a = "waiter" THEN waiter = "sweep" ELSE caller \in {"sweepCancelled", "sweepReturned"}
  /\ SweepFinds(a) \/ SweepKills(a) \/ SweepBlind(a)
  /\ UNCHANGED <<command, holds, hung, stream, written, watch, expired, waiter, timedOut, caller>>

SweepOver(a) == ~command.marker \/ sweep[a] \in {"done", "blind"}

-----------------------------------------------------------------------------
(* _wait_streaming: the worker thread.                                     *)
WaiterAt(from, to) ==
  /\ waiter = from /\ waiter' = to
  /\ UNCHANGED <<command, holds, hung, stream, written, watch, expired, caller, sweep>>

Deadline ==
  /\ Started /\ ~expired
  /\ expired' = TRUE
  /\ UNCHANGED <<tree, stream, written, watch, waiter, timedOut, caller, sweep>>

Reaped(p) == [p EXCEPT !["leader"] = IF @ = "zombie" THEN "gone" ELSE @]

(* The leader is waited for until the deadline, and reaped if it exits.    *)
WaitLeader ==
  /\ WaiterAt("wait", "join")
  /\ ~Alive("leader") \/ expired
  /\ proc' = Reaped(proc)
  /\ UNCHANGED timedOut

(* Then the pumps, with what is left of the budget.                        *)
JoinPumps ==
  /\ WaiterAt("join", IF Alive("leader") \/ ~PumpsDone THEN "kill" ELSE "observe")
  /\ PumpsDone \/ expired
  /\ timedOut' = (Alive("leader") \/ ~PumpsDone)
  /\ proc' = Reaped(proc)

(* mutant: nothing is killed once the leader has exited *)
KillIfLeaderRuns ==
  /\ WaiterAt("kill", "sweep")
  /\ IF Alive("leader") THEN Kill(RunGroup) ELSE UNCHANGED proc
  /\ UNCHANGED timedOut

KillGroup ==
  /\ WaiterAt("kill", "sweep")
  /\ Kill(RunGroup)
  /\ UNCHANGED timedOut

SweepDone ==
  /\ WaiterAt("sweep", "reap")
  /\ SweepOver("waiter")
  /\ UNCHANGED <<proc, timedOut>>

ReapKilled ==
  /\ WaiterAt("reap", "drain")
  /\ proc' = Reaped(proc)
  /\ UNCHANGED timedOut

(* The second joins give up after their five seconds.                      *)
JoinKilled == WaiterAt("drain", "observe") /\ UNCHANGED <<proc, timedOut>>

(* mutant: the observer is waited for without a bound *)
JoinObserverForEver ==
  /\ WaiterAt("observe", "done")
  /\ observer.state = "done"
  /\ UNCHANGED <<proc, timedOut>>

JoinObserver ==
  /\ WaiterAt("observe", "done")
  /\ observer.state = "done" \/ expired
  /\ UNCHANGED <<proc, timedOut>>

Waiter ==
  WaitLeader \/ JoinPumps \/ KillGroup \/ SweepDone \/ ReapKilled \/ JoinKilled
    \/ JoinObserver

-----------------------------------------------------------------------------
(* run_async: the task.                                                    *)
CallerAt(from, to) ==
  /\ caller = from /\ caller' = to
  /\ UNCHANGED <<stream, written, watch, expired, timedOut>>

Spawn ==
  /\ CallerAt("spawn", "await")
  /\ proc' = [proc EXCEPT !["leader"] = "alive"]
  /\ holds' = {"leader"}
  /\ UNCHANGED <<command, hung, waiter, sweep>>

SpawnFails ==
  /\ "popen" \in command.events
  /\ CallerAt("spawn", "missing")
  /\ UNCHANGED <<tree, waiter, sweep>>

StartWaiter ==
  /\ CallerAt("await", "await")
  /\ waiter = "unstarted" /\ waiter' = "wait"
  /\ UNCHANGED <<tree, sweep>>

(* The thread is abandoned; one that was not started never is.             *)
Cancel ==
  /\ "cancel" \in command.events
  /\ CallerAt("await", "kill")
  /\ UNCHANGED <<tree, waiter, sweep>>

KillCancelled ==
  /\ CallerAt("kill", "sweepCancelled")
  /\ Kill(RunGroup)
  /\ UNCHANGED <<command, holds, hung, waiter, sweep>>

Drained ==
  /\ CallerAt("await", "sweepReturned")
  /\ waiter = "done"
  /\ UNCHANGED <<tree, waiter, sweep>>

Swept ==
  /\ \/ CallerAt("sweepCancelled", "cancelled")
     \/ CallerAt("sweepReturned", "returned")
  /\ SweepOver("caller")
  /\ UNCHANGED <<tree, waiter, sweep>>

Caller ==
  Spawn \/ SpawnFails \/ StartWaiter \/ KillCancelled \/ Drained \/ Swept

-----------------------------------------------------------------------------
Next ==
  \/ \E p \in Procs : Fork(p) \/ ClosePipes(p) \/ Exit(p) \/ Hang(p)
  \/ \E s \in Streams : Write(s)
  \/ \E s \in Streams :
       Fill(s) \/ LastChunk(s) \/ SplitRecord(s) \/ SplitRest(s) \/ Drain(s) \/ PumpFails(s)
  \/ StdinDone
  \/ Observe \/ ObserverSticks
  \/ \E a \in {"waiter", "caller"} : Sweep(a)
  \/ Deadline
  \/ Waiter
  \/ Caller \/ Cancel

Spec == Init /\ [][Next]_vars

(* Fair are the threads, and a command that goes on writing and exits when *)
(* it has written everything; no process is fair that crashes, forks or    *)
(* closes a pipe, nor is the clock.                                        *)
FinishedExit(p) ==
  /\ p \in holds => \A s \in Streams : Len(written[s]) = command.text[s]
  /\ Exit(p)

Pump(s) == Fill(s) \/ LastChunk(s) \/ SplitRecord(s) \/ SplitRest(s) \/ Drain(s)

Progress ==
  \/ Observe \/ Waiter \/ Caller \/ StdinDone
  \/ \E s \in Streams : Pump(s) \/ Write(s)
  \/ \E a \in {"waiter", "caller"} : Sweep(a)
  \/ \E p \in Procs : FinishedExit(p)

(* None of these steps can be taken for ever, so that fairness of all of   *)
(* them together is fairness of each.                                      *)
FairSpec == Spec /\ WF_vars(Progress)

-----------------------------------------------------------------------------
TypeOK ==
  /\ command \in Commands
  /\ proc \in [Procs -> ProcStates] /\ holds \subseteq Procs /\ hung \subseteq Procs
  /\ pipe \in [Streams -> Text] /\ written \in [Streams -> Text]
  /\ pump \in [Streams -> [state : PumpStates, chunk : Text,
                           asm : [pending : Text, over : BOOLEAN]]]
  /\ capture \in [Streams -> [head : Seq(Text), tail : Seq(Text), truncated : BOOLEAN]]
  /\ lineCut \in BOOLEAN /\ stdin \in {"writing", "done"}
  /\ queue \in Seq(Text) /\ queued \in Nat
  /\ observer \in [state : ObserverStates, item : Text]
  /\ expired \in BOOLEAN /\ waiter \in WaiterStates /\ timedOut \in BOOLEAN
  /\ caller \in CallerStates
  /\ sweep \in [{"waiter", "caller"} -> SweepStates]

(* The records of a text: each ends at a separator, the last maybe at the  *)
(* end of the text.                                                        *)
RecordsOf(text, cap) ==
  LET Start(n) == 1 + Max({0} \cup {i \in 1..(n - 1) : text[i] = Sep})
      upto[n \in 0..Len(text)] ==
        IF n = 0 THEN <<>>
        ELSE IF text[n] = Sep \/ n = Len(text)
             THEN Append(upto[n - 1], Bounded(SubSeq(text, Start(n), n), cap))
             ELSE upto[n - 1]
  IN  upto[Len(text)]

(* The capture of these records: a head and a tail of them, and no record  *)
(* dropped that would have fitted.                                         *)
HeadAndTail(c, records, cap) ==
  LET missing == Len(records) - Len(c.head) - Len(c.tail)
  IN  /\ IsPrefix(c.head, records) /\ IsSuffix(c.tail, records)
      /\ missing >= 0 /\ (c.truncated <=> missing > 0)
      /\ Retained(c) <= cap
      /\ missing > 0 => Retained(c) + Len(records[Len(c.head) + missing]) > cap

QueueIsCounted ==
  /\ queued = Bytes(queue) + Len(observer.item)
  /\ queued <= QueueBytes /\ Len(queue) <= QueueItems

(* What a capture holds of a stream that was read to its end is the first  *)
(* and the last of its records, in order, each cut alike wherever the      *)
(* chunks happened to end; it says so when records are missing, keeps      *)
(* within its budget, and dropped no record that would have fitted.  The   *)
(* observer's queue counts the bytes of the records in it and of the one   *)
(* taken and not yet counted off, and keeps within its bounds.             *)
CaptureIsHeadAndTail ==
  /\ QueueIsCounted
  /\ \A s \in Streams :
      pump[s].state = "done" =>
        HeadAndTail(capture[s], RecordsOf(written[s], Cap[s]), Cap[s])

(* A run that is returned as neither timed out, nor truncated on stdout,   *)
(* nor failed in its capture carries every character the command wrote.    *)
NoSilentLoss ==
  /\ caller = "returned" /\ ~timedOut
  /\ ~capture["out"].truncated /\ ~lineCut /\ pump["out"].state # "failed"
  => FlattenSeq(capture["out"].head \o capture["out"].tail) = written["out"]

(* When a run ends by its deadline or by a cancellation, nothing of its    *)
(* group runs any more.  Where its backend gives a marker, nothing whose   *)
(* command line names the worktree does either, unless ps failed in the    *)
(* caller's sweep and no sweep of the waiter got through before it;        *)
(* without a marker what left the group is not looked for.                 *)
NothingLeftRunning ==
  caller = "cancelled" \/ (caller = "returned" /\ timedOut) =>
    /\ RunGroup \cap AliveProcs = {}
    /\ command.marker =>
         \/ Marked \cap AliveProcs = {}
         \/ sweep["caller"] = "blind" /\ sweep["waiter"] # "done"

(* Once the deadline has passed the call ends, whoever holds a pipe, hangs *)
(* or does not return from the observer's callback.                        *)
DeadlineEndsCall == expired ~> caller \in Ended

(* A command that writes more than the pipes hold, on both streams, ends   *)
(* without its deadline as long as nothing hangs or fails.                 *)
FloodDoesNotStall ==
  <>( \/ caller \in Ended \/ hung # {} \/ observer.state = "stuck"
      \/ \E s \in Streams : pump[s].state = "failed")
=============================================================================
