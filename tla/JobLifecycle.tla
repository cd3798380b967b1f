---------------------------- MODULE JobLifecycle ----------------------------
(***************************************************************************)
(* src/src/amicus/jobs/lifecycle.py: what a paid tool does with the job it *)
(* starts.  A synchronous call starts a job, or attaches to the one its    *)
(* idempotency key names, and polls it; an asynchronous one returns a      *)
(* handle.  Every call of the store runs in a thread while the request's   *)
(* task awaits it, so a cancellation of the request can land at any await, *)
(* with the thread still queued, running or finished.                      *)
(*                                                                         *)
(* The store is what JobStore and IdempotencyIndex prove of it: its calls  *)
(* are atomic.  A job never runs on another server's word here, so that no *)
(* running job reads as failed (see JobStore for that case).               *)
(***************************************************************************)
EXTENDS TaskMap, JobListing, FiniteSets

CONSTANTS
  Jobs,       \* the job ids, finitely many positive numbers
  Keys,       \* (tool, idempotency_key) identities
  NoKey,
  Args,       \* the effective arguments of a request
  Profiles    \* what the requests are and what may happen: see Profile

(* "refuse": a start finds the cap full or fails; "busy": the index is     *)
(* contended; "unread": a stored result cannot be opened for a moment;     *)
(* "remove": a record is consumed, expires or is evicted; "asked": a       *)
(* client calls amicus_job_cancel; "fail": a job leaves no result;         *)
(* "cancel": a request is cancelled; "expire": a wait reaches its          *)
(* deadline; "page": a client lists the jobs.                              *)
EventKinds == {"refuse", "busy", "unread", "remove", "asked", "fail", "cancel", "expire", "page"}

Tools == {"sync", "async", "none"}
Request == [tool : Tools, key : Keys \cup {NoKey}, args : Args, tasked : BOOLEAN]

(* What each request is, the epochs at which jobs may start, and the       *)
(* events.                                                                 *)
Profile == [requests : [Requests -> Request], epochs : SUBSET (Nat \ {0}),
            events : SUBSET EventKinds]

ASSUME LifecycleAssumption ==
  /\ Jobs \subseteq Nat \ {0} /\ IsFiniteSet(Jobs) /\ NoKey \notin Keys /\ Args # {}
  /\ PageLimit \in Nat \ {0}
  /\ Profiles \subseteq Profile

NoJob == 0

VARIABLES
  profile,
  job,       \* [Jobs -> a record of the store]
  index,     \* [Keys -> the job a key names, or NoJob]
  start,     \* [Requests -> the thread that starts or reserves]
  stop,      \* [Requests -> the thread in store.cancel]
  callback,  \* [Requests -> the done-callback of an abandoned start]
  request,   \* [Requests -> the task: where it awaits, what it answered]
  pager      \* a client that lists the jobs page by page

jobVars == <<job, index>>
threadVars == <<start, stop, callback>>
vars == <<profile, jobVars, threadVars, request, pager, mapVars>>

Final == {"done", "failed", "timeout", "cancelled"}
JobStates == {"none", "running", "gone"} \cup Final
Places == {"idle", "starting", "reserving", "pausing", "checking", "recording", "polling",
           "expiring", "stopping", "fetching", "delivering", "returned", "cancelled"}
StartKinds == {"none", "created", "replay", "conflict", "unavailable", "transient", "refused"}
Codes == {"none", "handle", "result", "job_failed", "job_timeout", "job_cancelled", "timeout",
          "gone", "unreadable", "conflict", "unavailable", "transient", "refused"}

NoRecord == [state |-> "none", key |-> NoKey, args |-> CHOOSE a \in Args : TRUE, born |-> 0,
             asked |-> FALSE, delivered |-> FALSE]
NoStart == [at |-> "idle", kind |-> "none", job |-> NoJob]
NoAnswer == [code |-> "none", job |-> NoJob]
Unread == "unread"    \* the answer of a thread that has not run yet

Of(r) == profile.requests[r]
Keyed(r) == Of(r).key # NoKey
Tasked(r) == Of(r).tasked
Sync(r) == Of(r).tool = "sync"
May(event) == event \in profile.events
At(r, place) == request[r].at = place

(* The job a request's start was answered with.                            *)
JobOf(r) == start[r].job
Replayed(r) == start[r].kind = "replay"
Kept == {j \in Jobs : job[j].state \in Final \cup {"running"}}

Init ==
  /\ profile \in Profiles
  /\ job = [j \in Jobs |-> NoRecord]
  /\ index = [k \in Keys |-> NoJob]
  /\ start = [r \in Requests |-> NoStart]
  /\ stop = [r \in Requests |-> "idle"]
  /\ callback = [r \in Requests |-> "none"]
  /\ request = [r \in Requests |-> [at |-> "idle", saw |-> Unread, answer |-> NoAnswer,
                                    left |-> "idle"]]
  /\ pager = [at |-> "idle", anchor |-> FirstPage, listed |-> <<>>, must |-> {}]
  /\ MapInit

-----------------------------------------------------------------------------
(* The task of a request moves to another await; Ends returns or raises.   *)
Goes(r, place) == request' = [request EXCEPT ![r].at = place, ![r].saw = Unread]

Answers(r, code, j) ==
  request' = [request EXCEPT ![r].at = "returned", ![r].saw = Unread,
                             ![r].answer = [code |-> code, job |-> j]]

(* left is a history: the await at which a request was cancelled.          *)
Leaves(r, place) ==
  request' = [request EXCEPT ![r].at = place, ![r].saw = Unread, ![r].left = request[r].at]

(* A call of the store is handed to a thread.                              *)
Starts(r) == start' = [start EXCEPT ![r] = [NoStart EXCEPT !.at = "queued"]]
Stops(r) == stop' = [stop EXCEPT ![r] = "queued"]
Records(r, j) == writer' = [writer EXCEPT ![r] = [at |-> "queued", job |-> j, data |-> <<>>]]

Begin(r) ==
  /\ At(r, "idle") /\ Of(r).tool # "none"
  /\ Goes(r, IF Keyed(r) THEN "reserving" ELSE "starting")
  /\ Starts(r)
  /\ UNCHANGED <<profile, jobVars, stop, callback, pager, mapVars>>

(* Once its job is known a synchronous request records its task, if it has *)
(* one, and waits.                                                         *)
Attached(r) ==
  IF Tasked(r) THEN Goes(r, "recording") /\ Records(r, JobOf(r))
  ELSE Goes(r, "polling") /\ UNCHANGED writer

-----------------------------------------------------------------------------
(* The threads.  store.start and store.start_idempotent.                   *)
Over(r, kind, j) == start' = [start EXCEPT ![r] = [at |-> "over", kind |-> kind, job |-> j]]

(* A job id is random; only a listing tells the order of ids apart.        *)
Unborn == {j \in Jobs : job[j].state = "none"}
FreshIds == IF May("page") THEN Unborn ELSE {j \in Unborn : \A i \in Unborn : j <= i}

Spawn(r) ==
  \E j \in FreshIds, epoch \in profile.epochs :
    /\ job' = [job EXCEPT ![j] = [NoRecord EXCEPT !.state = "running", !.key = Of(r).key,
                                                  !.args = Of(r).args, !.born = epoch]]
    /\ index' = IF Keyed(r) THEN [index EXCEPT ![Of(r).key] = j] ELSE index
    /\ Over(r, "created", j)

Refused(r) == May("refuse") /\ Over(r, "refused", NoJob) /\ UNCHANGED jobVars

(* A job still on disk is replayed to a request with its arguments; one    *)
(* that is gone is not run again within the horizon.                       *)
Classified(r) ==
  LET j == index[Of(r).key]
      kind == IF job[j].args # Of(r).args THEN "conflict"
              ELSE IF j \in Kept THEN "replay" ELSE "unavailable"
  IN  Over(r, kind, IF kind = "replay" THEN j ELSE NoJob) /\ UNCHANGED jobVars

Contended(r) == May("busy") /\ Over(r, "transient", NoJob) /\ UNCHANGED jobVars

StartRuns(r) ==
  /\ start[r].at = "queued"
  /\ IF Keyed(r)
     THEN \/ Contended(r)
          \/ index[Of(r).key] = NoJob /\ (Spawn(r) \/ Refused(r))
          \/ index[Of(r).key] # NoJob /\ Classified(r)
     ELSE Spawn(r) \/ Refused(r)
  /\ UNCHANGED <<profile, stop, callback, request, pager, mapVars>>

(* store.cancel: a worker may finish in the grace it is given.             *)
Cancelled(j, states) ==
  IF job[j].state = "running"
  THEN \E s \in states : job' = [job EXCEPT ![j].state = s]
  ELSE UNCHANGED job

StopRuns(r) ==
  /\ stop[r] = "queued"
  /\ Cancelled(JobOf(r), {"cancelled", "done"})
  /\ stop' = [stop EXCEPT ![r] = "over"]
  /\ UNCHANGED <<profile, index, start, callback, request, pager, mapVars>>

(* store.status and store.result_payload, for a request that awaits them.  *)
ReadRuns(r) ==
  /\ request[r].at \in {"checking", "polling", "fetching"} /\ request[r].saw = Unread
  /\ \E saw \in {job[JobOf(r)].state} \cup
                (IF May("unread") /\ job[JobOf(r)].state = "done" THEN {"unreadable"} ELSE {}) :
       request' = [request EXCEPT ![r].saw = saw]
  /\ UNCHANGED <<profile, jobVars, threadVars, pager, mapVars>>

(* store.mark_delivered.                                                   *)
StampRuns(r) ==
  /\ At(r, "delivering") /\ request[r].saw = Unread
  /\ job' = [job EXCEPT ![JobOf(r)].delivered = (job[JobOf(r)].state = "done")]
  /\ request' = [request EXCEPT ![r].saw = "stamped"]
  /\ UNCHANGED <<profile, index, threadVars, pager, mapVars>>

WriterRuns(r) ==
  /\ Writer(r)
  /\ UNCHANGED <<profile, jobVars, threadVars, request, pager>>

-----------------------------------------------------------------------------
(* A task resumes with the answer of its thread.                           *)
Quiet(r) == UNCHANGED <<profile, jobVars, callback, pager, taskMap, mapLock, recorded>>

(* start_job, for both kinds of call.                                      *)
Started(r) ==
  /\ At(r, "starting") /\ start[r].at = "over"
  /\ IF JobOf(r) = NoJob
     THEN Answers(r, start[r].kind, NoJob) /\ UNCHANGED writer
     ELSE IF Sync(r) THEN Attached(r)
          ELSE Answers(r, "handle", JobOf(r)) /\ UNCHANGED writer
  /\ Quiet(r) /\ UNCHANGED <<start, stop>>

(* _start_keyed_sync asks again while the outcome is transient, until its  *)
(* second is over; start_async never waits.                                *)
Reserved(r) ==
  /\ At(r, "reserving") /\ start[r].at = "over"
  /\ \/ /\ start[r].kind = "created"
        /\ IF Sync(r) THEN Attached(r)
           ELSE Answers(r, "handle", JobOf(r)) /\ UNCHANGED writer
     \/ start[r].kind = "replay" /\ Goes(r, "checking") /\ UNCHANGED writer
     \/ /\ start[r].kind = "transient" /\ Sync(r)
        /\ Goes(r, "pausing") /\ UNCHANGED writer
     \/ /\ start[r].kind \notin {"created", "replay"}
        /\ Answers(r, start[r].kind, NoJob) /\ UNCHANGED writer
  /\ Quiet(r) /\ UNCHANGED <<start, stop>>

AskAgain(r) ==
  /\ At(r, "pausing")
  /\ Goes(r, "reserving") /\ Starts(r)
  /\ Quiet(r) /\ UNCHANGED <<stop, writer>>

Checked(r) ==
  /\ At(r, "checking") /\ request[r].saw # Unread
  /\ \/ request[r].saw = "gone" /\ Answers(r, "unavailable", NoJob) /\ UNCHANGED writer
     \/ request[r].saw = "unreadable" /\ Answers(r, "unreadable", JobOf(r)) /\ UNCHANGED writer
     \/ /\ request[r].saw \notin {"gone", "unreadable"}
        /\ IF Sync(r) THEN Attached(r)
           ELSE Answers(r, "handle", JobOf(r)) /\ UNCHANGED writer
  /\ Quiet(r) /\ UNCHANGED <<start, stop>>

(* A map that could not be written is logged and the wait goes on.         *)
Recorded(r) ==
  /\ At(r, "recording") /\ writer[r].at \in {"done", "failed"}
  /\ Goes(r, "polling")
  /\ Quiet(r) /\ UNCHANGED <<start, stop, writer>>

(* mutant: the answer does not wait for the cancel *)
PolledHasty(r) ==
  /\ At(r, "polling") /\ request[r].saw # Unread
  /\ \/ request[r].saw = "running" /\ Goes(r, "polling") /\ UNCHANGED stop
     \/ /\ request[r].saw = "running" /\ May("expire")
        /\ Answers(r, "timeout", JobOf(r))
        /\ IF Keyed(r) THEN UNCHANGED stop ELSE Stops(r)
     \/ /\ request[r].saw = "gone"
        /\ Answers(r, IF Replayed(r) THEN "unavailable" ELSE "gone", JobOf(r)) /\ UNCHANGED stop
     \/ /\ request[r].saw = "unreadable"
        /\ Answers(r, "unreadable", JobOf(r)) /\ UNCHANGED stop
     \/ request[r].saw \in Final /\ Goes(r, "fetching") /\ UNCHANGED stop
  /\ Quiet(r) /\ UNCHANGED <<start, writer>>

(* One turn of await_job_result: a wait whose deadline has passed stops    *)
(* its job, unless the job is shared under a key.                          *)
Polled(r) ==
  /\ At(r, "polling") /\ request[r].saw # Unread
  /\ \/ request[r].saw = "running" /\ Goes(r, "polling") /\ UNCHANGED stop
     \/ /\ request[r].saw = "running" /\ May("expire")
        /\ IF Keyed(r) THEN Answers(r, "timeout", JobOf(r)) /\ UNCHANGED stop
           ELSE Goes(r, "expiring") /\ Stops(r)
     \/ /\ request[r].saw = "gone"
        /\ Answers(r, IF Replayed(r) THEN "unavailable" ELSE "gone", JobOf(r)) /\ UNCHANGED stop
     \/ /\ request[r].saw = "unreadable"
        /\ Answers(r, "unreadable", JobOf(r)) /\ UNCHANGED stop
     \/ request[r].saw \in Final /\ Goes(r, "fetching") /\ UNCHANGED stop
  /\ Quiet(r) /\ UNCHANGED <<start, writer>>

Expired(r) ==
  /\ At(r, "expiring") /\ stop[r] = "over"
  /\ \/ Answers(r, "timeout", JobOf(r))
     \/ May("unread") /\ job[JobOf(r)].state = "done" /\ Answers(r, "unreadable", JobOf(r))
  /\ Quiet(r) /\ UNCHANGED <<start, stop, writer>>

(* finished_job_envelope.                                                  *)
ErrorOf(state) ==
  CASE state = "failed" -> "job_failed"
    [] state = "timeout" -> "job_timeout"
    [] state = "cancelled" -> "job_cancelled"

Fetched(r) ==
  /\ At(r, "fetching") /\ request[r].saw # Unread
  /\ \/ /\ request[r].saw = "gone"
        /\ Answers(r, IF Replayed(r) THEN "unavailable" ELSE "gone", JobOf(r))
     \/ request[r].saw = "unreadable" /\ Answers(r, "unreadable", JobOf(r))
     \/ request[r].saw = "done" /\ Goes(r, "delivering")
     \/ /\ request[r].saw \in Final \ {"done"}
        /\ Answers(r, ErrorOf(request[r].saw), JobOf(r))
  /\ Quiet(r) /\ UNCHANGED <<start, stop, writer>>

Delivered(r) ==
  /\ At(r, "delivering") /\ request[r].saw # Unread
  /\ Answers(r, "result", JobOf(r))
  /\ Quiet(r) /\ UNCHANGED <<start, stop, writer>>

Stopped(r) ==
  /\ At(r, "stopping") /\ stop[r] = "over"
  /\ Goes(r, "cancelled")
  /\ Quiet(r) /\ UNCHANGED <<start, stop, writer>>

Resume(r) ==
  \/ Started(r) \/ Reserved(r) \/ AskAgain(r) \/ Checked(r) \/ Recorded(r)
  \/ Polled(r) \/ Expired(r) \/ Fetched(r) \/ Delivered(r) \/ Stopped(r)

-----------------------------------------------------------------------------
(* A request is cancelled at the await it is in.  A thread that is only    *)
(* awaited, and not shielded, is dropped if no worker has taken it up yet. *)
Abandons(r, what) ==
  /\ Leaves(r, "cancelled")
  /\ callback' = [callback EXCEPT ![r] = what]

(* start_job: the start is shielded and its job is stopped when it comes.  *)
CancelStarting(r) ==
  /\ At(r, "starting")
  /\ Abandons(r, "stop")
  /\ UNCHANGED <<start, stop, writer>>

(* mutant: nobody records the job of a keyed start that was abandoned *)
CancelReservingSilently(r) ==
  /\ At(r, "reserving")
  /\ Leaves(r, "cancelled")
  /\ UNCHANGED <<start, callback, stop, writer>>

(* The keyed start of a wait is shielded, and a task still records its     *)
(* job; that of an asynchronous call is neither.                           *)
CancelReserving(r) ==
  /\ At(r, "reserving")
  /\ IF Sync(r)
     THEN Abandons(r, IF Tasked(r) THEN "record" ELSE "none") /\ UNCHANGED start
     ELSE /\ Leaves(r, "cancelled") /\ UNCHANGED callback
          /\ \/ UNCHANGED start
             \/ start[r].at = "queued" /\ start' = [start EXCEPT ![r] = NoStart]
  /\ UNCHANGED <<stop, writer>>

(* mutant: a wait that is cancelled stops its job, shared or not *)
CancelWaitingAlways(r) ==
  /\ request[r].at \in {"recording", "polling", "expiring"}
  /\ Leaves(r, "stopping") /\ Stops(r)
  /\ UNCHANGED <<start, callback, writer>>

(* mutant: the record of the task is not guarded, as before the shield *)
CancelWaitingUnguarded(r) ==
  /\ request[r].at \in {"recording", "polling", "expiring"}
  /\ IF Keyed(r) \/ At(r, "recording") THEN Leaves(r, "cancelled") /\ UNCHANGED stop
     ELSE Leaves(r, "stopping") /\ Stops(r)
  /\ UNCHANGED <<start, callback, writer>>

(* run_sync from the task record on, await_job_result: the job is stopped, *)
(* unless it is shared under a key.                                        *)
CancelWaiting(r) ==
  /\ request[r].at \in {"recording", "polling", "expiring"}
  /\ IF Keyed(r) THEN Leaves(r, "cancelled") /\ UNCHANGED stop
     ELSE Leaves(r, "stopping") /\ Stops(r)
  /\ \/ UNCHANGED writer
     \/ /\ At(r, "recording") /\ writer[r].at = "queued"
        /\ writer' = [writer EXCEPT ![r].at = "dropped"]
  /\ UNCHANGED <<start, callback>>

CancelElsewhere(r) ==
  /\ request[r].at \in {"pausing", "checking", "fetching", "delivering"}
  /\ Leaves(r, "cancelled")
  /\ UNCHANGED <<start, stop, callback, writer>>

Cancel(r) ==
  /\ May("cancel")
  /\ CancelStarting(r) \/ CancelReserving(r) \/ CancelWaiting(r) \/ CancelElsewhere(r)
  /\ UNCHANGED <<profile, jobVars, pager, taskMap, mapLock, recorded>>

(* The done-callback of an abandoned start, on the event loop.             *)
CallBack(r) ==
  /\ callback[r] # "none" /\ start[r].at = "over"
  /\ callback' = [callback EXCEPT ![r] = "none"]
  /\ IF callback[r] = "stop" /\ JobOf(r) # NoJob THEN Stops(r) ELSE UNCHANGED stop
  /\ IF callback[r] = "record" /\ JobOf(r) # NoJob THEN Records(r, JobOf(r))
     ELSE UNCHANGED writer
  /\ UNCHANGED <<profile, jobVars, start, request, pager, taskMap, mapLock, recorded>>

-----------------------------------------------------------------------------
(* What happens to jobs besides: they end, other clients cancel them, and  *)
(* their records are consumed, expire or are evicted.                      *)
Around == UNCHANGED <<profile, index, threadVars, request, mapVars>>

JobEnds(j) ==
  /\ job[j].state = "running"
  /\ \E s \in {"done"} \cup (IF May("fail") THEN {"failed", "timeout"} ELSE {}) :
       job' = [job EXCEPT ![j].state = s]
  /\ Around /\ UNCHANGED pager

JobCancelTool(j) ==
  /\ May("asked") /\ job[j].state = "running"
  /\ \E s \in {"cancelled", "done"} :
       job' = [job EXCEPT ![j].state = s, ![j].asked = TRUE]
  /\ Around /\ UNCHANGED pager

JobRemoved(j) ==
  /\ May("remove") /\ job[j].state \in Final
  /\ job' = [job EXCEPT ![j].state = "gone"]
  /\ pager' = [pager EXCEPT !.must = @ \ {j}]
  /\ Around

(* amicus_job_list with a limit, page after page.                          *)
Rows == {[born |-> job[j].born, id |-> j] : j \in Kept}

ListPage ==
  /\ May("page") /\ pager.at \in {"idle", "paging"}
  /\ LET page == Page(Rows, pager.anchor)
     IN  pager' = [at |-> IF page.hasMore THEN "paging" ELSE "done",
                   anchor |-> IF page.hasMore THEN Last(page.rows) ELSE FirstPage,
                   listed |-> pager.listed \o [i \in DOMAIN page.rows |-> page.rows[i].id],
                   must |-> IF pager.at = "idle" THEN Kept ELSE pager.must]
  /\ UNCHANGED <<profile, jobVars, threadVars, request, mapVars>>

-----------------------------------------------------------------------------
Thread(r) == StartRuns(r) \/ StopRuns(r) \/ ReadRuns(r) \/ StampRuns(r) \/ WriterRuns(r)

(* Nothing is left to do, so that a stop anywhere else is a deadlock.      *)
Finished ==
  /\ \A r \in Requests : Of(r).tool # "none" => request[r].at \in {"returned", "cancelled"}
  /\ UNCHANGED vars

Next ==
  \/ \E r \in Requests : Begin(r) \/ Thread(r) \/ Resume(r) \/ Cancel(r) \/ CallBack(r)
  \/ \E j \in Jobs : JobEnds(j) \/ JobCancelTool(j) \/ JobRemoved(j)
  \/ ListPage
  \/ Finished

Spec == Init /\ [][Next]_vars

(* Fair are the threads of the pool and the event loop; nothing makes a    *)
(* client cancel or a job end.  Only a poll of a running job can go on for *)
(* ever, and no cancelled request is at one.                               *)
Progress(r) == StartRuns(r) \/ StopRuns(r) \/ WriterRuns(r) \/ CallBack(r) \/ Resume(r)

FairSpec == Spec /\ \A r \in Requests : WF_vars(Progress(r))

-----------------------------------------------------------------------------
TypeOK ==
  /\ profile \in Profiles
  /\ job \in [Jobs -> [state : JobStates, key : Keys \cup {NoKey}, args : Args, born : Nat,
                       asked : BOOLEAN, delivered : BOOLEAN]]
  /\ index \in [Keys -> Jobs \cup {NoJob}]
  /\ start \in [Requests -> [at : {"idle", "queued", "over"}, kind : StartKinds,
                             job : Jobs \cup {NoJob}]]
  /\ stop \in [Requests -> {"idle", "queued", "over"}]
  /\ callback \in [Requests -> {"none", "stop", "record"}]
  /\ request \in [Requests -> [at : Places,
                               saw : JobStates \cup {Unread, "unreadable", "stamped"},
                               answer : [code : Codes, job : Jobs \cup {NoJob}],
                               left : Places]]
  /\ pager \in [at : {"idle", "paging", "done"}, anchor : [born : Nat, id : Nat],
                listed : Seq(Jobs), must : SUBSET Jobs]
  /\ MapTypeOK
  /\ \A i \in DOMAIN taskMap : taskMap[i].job \in Jobs

(* A job that is shared under a key is never cancelled by a wait, whether  *)
(* its deadline passes or its request is cancelled: only by                *)
(* amicus_job_cancel.                                                      *)
SharedRunSurvives ==
  \A j \in Jobs : job[j].state = "cancelled" /\ job[j].key # NoKey => job[j].asked

(* What a request is answered is true of its job when the answer is given  *)
(* and later, the job is one of its own arguments, and a job that is still *)
(* kept is named by the answer, whatever went wrong.                       *)
AnswerIsTrue(r) ==
  LET answer == request[r].answer
      state == job[JobOf(r)].state
  IN  /\ JobOf(r) # NoJob /\ JobOf(r) \in Kept => answer.job = JobOf(r)
      /\ answer.job # NoJob => job[answer.job].key = Of(r).key /\ job[answer.job].args = Of(r).args
      /\ CASE answer.code = "result" -> state \in {"done", "gone"}
           [] answer.code = "job_failed" -> state \in {"failed", "gone"}
           [] answer.code = "job_timeout" -> state \in {"timeout", "gone"}
           [] answer.code = "job_cancelled" -> state \in {"cancelled", "gone"}
           [] answer.code = "timeout" -> ~Keyed(r) => state # "running"
           [] answer.code = "gone" -> state = "gone"
           [] OTHER -> TRUE

AnswersAreTrue == \A r \in Requests : At(r, "returned") => AnswerIsTrue(r)

(* Paging through the list shows no job twice, and every job that was kept *)
(* from the first page to the last, whatever started or went between.      *)
PagingIsComplete ==
  /\ IsInjective(pager.listed)
  /\ pager.at = "done" => pager.must \subseteq ToSet(pager.listed)

(* A cancelled request without a key leaves no job running in the end,     *)
(* even when the cancellation lands before its job exists.                 *)
SpendStopped(r) ==
  start[r].at = "over" /\ (JobOf(r) # NoJob => job[JobOf(r)].state # "running")

CancelledSpendStops ==
  []<>(\A r \in Requests :
         request[r].left # "idle" /\ ~Keyed(r) => SpendStopped(r))

(* A synchronous keyed call of a task that is cancelled while its start is *)
(* under way has its job recorded under its task in the end, unless there  *)
(* is no job or the lock of the map was not to be had.                     *)
LateStartIsRecorded ==
  []<>(\A r \in Requests :
         request[r].left = "reserving" /\ Sync(r) /\ Tasked(r) =>
           start[r].at = "over" /\ (JobOf(r) # NoJob => writer[r].at \in {"done", "failed"}))
=============================================================================
