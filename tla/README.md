# A verification project for amicus

amicus is an MCP server that hands a request (consult, review, delegate) to
another vendor's coding CLI and returns its answer.  Runs cost money and take
minutes, servers come and go with the client that started them, several servers
share one state root, and the caller goes on working in the repository the run is
about.  This directory models the program's own logic in TLA+, checks it with TLC
on small instances and proves part of it with TLAPS for every instance:

- what keeps a paid run accountable: the job store, the idempotency index, the
  lifecycle of a call, the task map, the listing of jobs;
- what happens in the worker: the command that is run and its streams, the worktree,
  the diff of a review, the prose and patches that are redacted, the answer, the
  verdict;
- the maintainers' tools that change what others see: the release and the watch over
  upstream releases.

## The system

    client -- MCP call --> server: tools, lifecycle --- record ---> job store (disk)
                             |     |        |                           ^
                             |     |   task map, idempotency index      |
                             |  preparation, dry runs                   | result, lock,
                             |  spawn, signal, waitpid                  | manifest
                             v                                          |
                          worker process: site (worktree) ------------- +
                             |  diff, prompt, command line
                             v
                          runtime: pumps, deadline, kill --> the vendor's CLI
                             |
                             v
                          adapter --> answer --> redaction --> verdict, patch, envelope

| component | state it keeps | operations | what is hard | what makes it correct |
|---|---|---|---|---|
| job store (`jobs/store.py`, `tools/jobs.py`, `jobs/delivery.py`) | a directory per job: `meta.json`, `result.json`, `worker.lock`, `cleanup.json`; nothing in memory | start, status, result, mark_delivered, discard, cancel, list | no daemon; several servers; workers outlive servers; deletes and reads fail; pids are reused | what a client was told stands; nothing that runs or has an undelivered result is deleted; the cap holds; a started worker is tracked |
| detached worker (`_worker.py`) | its lock, worktree, result | boot, lock, run, write, exit | dies at any step, or goes on after its directory is gone | its result appears at once and last |
| idempotency index (`jobs/idempotency.py`) | an entry per key | reserve, classify, publish, forget, sweep | crash between reserve and publish; retries at the horizon; unreadable entries | one paid run per key inside the horizon |
| job lifecycle (`jobs/lifecycle.py`) | the waits of one server | start in background or wait, replay, cancel, deliver | cancellation at any await, with the thread queued, running or done; a wait that ends as the job does | no spend is orphaned, no shared run is stopped, every answer is true |
| task map (`jobs/taskmap.py`) | one JSON file | record, lookup | read-modify-write by several servers; 1000 entries | the newest entries are kept |
| job listing (`tools/jobs.py`) | a cursor the client holds | a page | rows come and go between pages, equal clocks | every row that stays is returned once |
| process runtime, stream capture (`sdk/core/runtime.py`, `streamcap.py`) | pumps, buffers, a queue, a deadline | read, stop, time out, kill, sweep | descendants that keep a pipe, pump failures, limits | the run ends, leaves nothing running, and no loss is silent |
| worktree, isolation (`orchestration/worktree.py`, `isolation.py`) | a git worktree, a manifest | create, seed, capture, remove, plan | live edits during the seed, failed commands, kills | the patch is the agent's work; no directory is left that nothing names |
| git diff (`orchestration/gitdiff.py`) | none between calls | gather | a dozen commands while the tree changes; a byte cap | what was reviewed is what there was, or the review says otherwise |
| redaction, path aliases (`sdk/core/redaction.py`, `pathalias.py`) | a redactor per diff | feed, sanitize | keys over lines, passes that undo each other | secrets stay home, and what was hidden is disclosed |
| run orchestration, review, finalize (`orchestration/run.py`, `review.py`, `finalize.py`) | one run | turn site, streams and exit into one envelope | precedence of cancel, timeout, failure; answers cut in the middle | an outcome never claims more than the run did |
| backends (`backends/*`), flag probe (`sdk/conventions/preflight.py`), errors (`errors.py`) | a cached `--help` | build a command line, read an answer, classify a failure | an operator's arguments, several CLI versions, one text with several meanings | the run has the guards amicus advertises; an error sends the right person to work |
| workspace resolution (`orchestration/workspace.py`), tools, dry runs | none | prepare, resolve, preview | links, roots, two looks at one repository | a call works where it says; a preview foretells the run |
| release tooling (`scripts/release.py`, `check_release_state.py`, `record_live_gate_evidence.py`) | git, GitHub, PyPI | prepare, evidence, pr, tag, post-merge, post-publish, pointer | a person between the steps, other people's merges | what is pushed is what merged and was tested |
| upstream watch (`scripts/check_backend_compat.py`) | GitHub issues | look up, deduplicate, file, roll | lost calls, kills, a lagging index | each release is filed once |
| git processes, lookup, prompts, server, discovery, snapshots, capture scripts | none, or start-up tables | wiring and rendering | data | (unit tests) |

`PROJECT.json` lists every component with its status, and under `hazards` what
is hard to test, each at its line with the property that covers it.

## Modules

| module | what it is |
|---|---|
| `JobStore` | the store, its workers and the world around them |
| `JobStoreProofs`, `JobOutcomeProofs` | its theorems, for any number of servers, calls and jobs: the lock, the cap and the stamps; how jobs end |
| `IdempotencyIndex` | keyed starts: the index, the section `start_idempotent` builds around it, and the store as the index sees it |
| `PaidOnce` | what `start_idempotent` promises a client, with no index, lock or file in it |
| `IdempotencyProofs`, `PaidOnceProofs` | theorems about the index; and that it implements `PaidOnce` |
| `StreamCapture`, `ProcessRuntime` | the capture's operators; one command under `run_async`, its threads and its process tree |
| `ProcessRuntimeProofs` | theorems about what is left running and about what is captured |
| `TaskMap`, `JobListing`, `JobLifecycle` | the shared map; the pages; the calls that start, share, await and cancel jobs, composed of both |
| `JobLifecycleProofs` | theorems about the three |
| `Repository` | the caller's git repository and its user (external) |
| `Redaction`, `Prose` | the redactor of a patch; the passes over a text and the routes it leaves by |
| `Workspace`, `RunRequest` | the directory a call works in; what a run is asked to do and what may happen to it |
| `Worktree`, `DiffGather`, `DryRun` | the worktree and its patch; the diff of a review; the previews of both |
| `Launch`, `BackendAnswer`, `ReviewFold` | the command line and the failures; what an adapter reads; the verdict |
| `RunPipeline` | one run from its preview to its envelope, composed of the modules from `Repository` on |
| `RunPipelineProofs` | theorems about its worktree and patch, its command, its review, its answer and the advice of its errors |
| `Release`, `UpstreamWatch`, `Maintenance` | the two tools, and their disjunction for TLC |
| `MaintenanceProofs` | theorems about tags and the pointer, and about the issues the watch files |
| `MC*` | instances for TLC |

Operators marked `mutant:` are plausible bugs of the definition above them; each
property is shown to catch one.

    JobStore <- JobStoreProofs <- JobOutcomeProofs
    IdempotencyIndex -> PaidOnce (INSTANCE ... WITH)
    IdempotencyIndex <- IdempotencyProofs <- PaidOnceProofs
    StreamCapture <- ProcessRuntime <- ProcessRuntimeProofs
    TaskMap, JobListing <- JobLifecycle <- JobLifecycleProofs
    Repository, Prose (<- Redaction), Workspace <- RunRequest
    RunRequest <- Worktree, DiffGather <- DryRun
    RunRequest <- Launch <- BackendAnswer;  DiffGather <- ReviewFold
    DryRun, BackendAnswer, ReviewFold <- RunPipeline <- RunPipelineProofs
    Release, UpstreamWatch <- Maintenance <- MaintenanceProofs

`JobLifecycle` takes of the store and the index what `JobStore` and
`IdempotencyIndex` show of them: their calls are atomic there, a key names one run.
`RunPipeline` is the step "the worker runs" of `JobStore`, and takes of
`ProcessRuntime` that a command ends, whole or with a marker where it was cut.

### JobStore

*Disk.*  `disk[j]` is a job's directory: whether it is absent, bare (without
`meta.json`) or a record; the stamp (`terminal_status`), the completion clock
(`completed_epoch`), the deadline (`deadline_epoch`), `delivered_epoch`,
`cleanup_warnings`; and whether `result.json`, `worker.lock` and `cleanup.json`
exist.  A clock is "unset", "recent" or "old" (past the TTL): that is all the
code asks of it.  `eio` holds the jobs whose `result.json` is there and cannot be
opened.

*Workers.*  `worker[j]` is the process: booting, opening its lock, working,
having written, a zombie of a living server, gone, or a *stranger*: another
process under the same pid.  A worker takes none of the store's locks, so its
steps come between any two steps of a call.

*Calls.*  `th[t]` is a call in flight in server `Home[t]`.  A call is one or more
sections under the record lock (`_LOCK` within a server, the flock of
`_record_lock` among servers), and a section is split wherever the code looks
twice at what a worker can change: the liveness probe (`Probe`) and the read of
the result (`Read`) are separate steps, as are the signal and the end of the
grace (`GraceEnds`), the deletes of the cap (`Evict`), the spawn (`Spawn`) and the
write of the record (`Publish`).  `cancel` stops the worker with the lock released
(`Signal`, `GraceEnds`) and reads afresh (`FinishCancel`).  `discard` of a failed job
proves the worker gone (`ProveGone`) and reads again (`DiscardFailed`).

*Failures.*  `Events` says what a run lets happen: deletes that fail before,
between or after the restores (`kept`, `lost`, `hidden`), starts whose spawn or
record write fails, worktrees that survive, workers that cannot lock, read
errors, servers that die (`Crash`: its calls end, its flock goes, its workers live
on as orphans and no later server is their parent), workers that die unasked,
pids that are reused, deadlines and retention that pass.

*History.*  `told`, `doubted`, `returned` and `hurt` remember what clients were told,
which jobs another server called failed while they ran, which results were handed
back and who was signalled.  No action reads them.

### IdempotencyIndex and PaidOnce

*Entries.*  `entry[k]` is the file of a key: absent, an empty placeholder, not a
record, reserved or active, with the fields a classification reads (`arg_hash`,
`job_id`, `reserved_epoch`, `st_mtime`).  `Readings` is `_read`: a file may read as
`io_error` once (`blip`) or always (`denied`).  A time is an age that saturates one
past the last comparison of the code, so equality at a bound is a state of its own.

*Calls.*  `call[c]` is a `start_idempotent` in flight.  It waits for both locks until
a deadline (`Enter`, `LockTimeout`), sweeps the files it listed one by one
(`SweepOne`), and reserves: `Create` is the exclusive create, `Write` the record
behind it, `WriteFailed` the roll back, `Classify` what an existing entry says,
`Reclaim` the removal of a stale one before the second and last attempt.  The winner
spawns (`Spawn`, after the reaping and the eviction of `_make_room`), writes the run's
record (`WriteMeta`) and publishes (`Publish`), or drops its reservation (`Undo`).
A crash can fall between any two of these, and so can the workers' ends and the
faults of the file system.

*The store* is here `run[r]`: running, ended and not yet seen so, or final, and
whether its record is written.  `Live` is `_read_live_job` on it.  The other calls of
the store wait for the record lock and come between two keyed calls (`OtherCall`).

*History.*  `paidAge` is the age of the reservation behind a key's last paid run,
`named` says that a run's id was published, `forsaken` that a sweep removed its
key's entry without reading it.  No guard reads them.

*The promise.*  `PaidOnce` knows callers, keys, when a key was last paid for, and runs
with the key and arguments they were paid for under.  A call is asked, may pay if its
key is free, and is answered: with the run it paid for, with a kept run of its own key
and arguments, or with a refusal, and then it has paid for nothing.
`IdempotencyIndex!ImplementsPaidOnce` maps the index to it with `Asked` and `RecordOf`.

### ProcessRuntime

The command is a tree of up to four processes: the leader, an heir in its group, a
stray in a group of its own whose command line names the worktree, and the stray's
child, which does not.  `pipe[s]` is what the kernel holds, `pump[s]` a pump thread
between its read, its assembler and the capture, `queue` and `queued` the observer's
bounded queue with its byte budget, `waiter` the worker thread of `_wait_streaming`
(`wait`, `join`, `kill`, `sweep`, `reap`, `drain`, `observe`), `caller` the task in
`run_async`, which a cancellation reaches at its await.  `sweep` counts the two passes
of `sweep_orphans` of each.  The command says whether its backend gives an orphan `marker`:
kimi does for a worktree path that is long enough, claude and codex give none
(kimi/adapter.py 206-208), and without one nothing is swept (runtime.py 423, 528, 540).  A
`ps` that cannot run, times out or exits nonzero reads as "nobody found" (174-177): such a
sweep ends `blind` (`SweepBlind`), before its first signal or before its second.
`StreamCapture` holds what the pumps call: the assembler
that cuts a stream into records of bounded size, and the capture that keeps a head
window and a rolling tail.

### JobLifecycle, TaskMap, JobListing

Each request is a task that awaits threads: `start[r]` the thread in
`store.start`/`start_idempotent`, `stop[r]` the one in `store.cancel`, `writer[r]` the
one in `TaskJobMap.record`, `callback[r]` the done-callback of an abandoned start.  A
cancellation lands at any await with the thread queued (it is then dropped), running
or done.  `request[r].at` names the await.  `taskMap` is the file, `mapLock` its lock,
`recorded` the history of what was written.  `pager` is a client that follows the
cursors of `JobListing` while jobs start and go.

### RunPipeline and its parts

*Repository.*  A file has one of four contents (absent, committed, the caller's edit,
the agent's); `head`, `staged` and `live` are a commit, the index and the working
tree.  The user edits, stages, commits and resets between any two commands, at most
`MaxMoves` times; the directory may vanish.

*One git command is one step*, in the order of the code: `DiffGather` pins the refs,
takes the state token, counts (`--numstat`), reads, lists untracked files, takes the
token and HEAD again; `Worktree` makes its parent, declares it in the manifest, adds,
reads the caller's changes, applies, commits, and takes the patch in the end; `DryRun`
reuses the gather and has `plan`'s own commands.  A command may fail (`git`), run into
its timeout (`hang`), or meet a rejected patch or an unfaithful baseline.  The run is a
thread that blocks, so SIGTERM is delivered at the one await (`running`) and SIGKILL
anywhere (`kill`).

*The request* (`spec`) is what `RunRequest` lists: verb, backend, scope, paths, the
untracked policy, the byte cap, which files look secret, what a patch says line by
line, where the call works (`place`), where a backend starts (`shell`: the operator's
arguments, the settings this CLI refuses, what it no longer knows, what `--help`
listed), and what a backend writes (`words`).

*Data.*  A text is lines of tokens, one token for each run of characters that the
patterns tell apart (a label, a vendor's key, a value, half of one, the markers of a
key, a path, a control character): `Redaction` and `Prose` then do what the code does,
pass by pass.  A flag or a key is a word; `Launch` keeps every rule of the three
backends about who may set it and in which order it is sent.  A directory is a
sequence of names; `Workspace` resolves links before it compares.

*The run* (`run`) goes asked, checking, composing, choosing, entering, launching,
running, folding, capturing, leaving, answered: each stage is a part of
`run_request`, and its codes are the code's.

*History.*  `tree.seen`, `tree.steady`, `tree.wrote`, `tree.committed`, `tree.stuck`;
`gather.since`, `until` and `owed`; `run.foretold`.

### Release and UpstreamWatch

Git is a sequence of commits with parents and a tree; a tree is what the checks of the
release read (the version, the files that must follow it, the changelog, the work, the
pointer).  The maintainer runs `prepare`, the gates and their evidence, the pull
request, the tag, post-merge, the push, post-publish and the pointer's pull request;
`MaxMishaps` steps that `RELEASING.md` does not ask for may come anywhere (amend, squash,
a tag on another commit, work pushed elsewhere, a failing gate), and other people's work
merges all the time.  The watch reads upstream, looks a title up in the lagging index
and in the newest issues, comments, retitles or creates; each call of `gh` can be lost
before or after its effect, and the job can be killed.

## Runs

| run | instance | shows |
|---|---|---|
| `races` | 1 job, 2 servers with one call in flight in each; start, status, cancel, consume; read errors, crashes, worker deaths, unlocked workers, failed deletes, deadline, TTL, reused pids | outcomes stand, stopped means stopped, a consumed failure is final, done records keep their result, strangers are not signalled |
| `cap` | 2 jobs, cap 1; start, fetch, list; results of this and of another format; spawns, record writes and deletes that fail | the cap holds, no undelivered result is deleted, every running worker is tracked |
| `overdue` | 1 propose job; start, status, cancel; deadline; worktrees that survive; with fairness | an overdue job ends, a worktree left is reported |
| `evicts_running` | 2 jobs, cap 1 | finding: a start evicts a job whose worker has not locked yet |
| `unreadable_kept` | 1 job, retention, read errors | finding: an unreadable result outlives its retention |
| `keyed` | 2 servers, 1 key, 2 arguments, 2 runs; failed writes, spawns, records and publishes, unreadable results, evictions, held locks, stuck unlinks, crashes | the index implements `PaidOnce`; a run that can be replayed is not paid for again; failed starts are forgotten |
| `keyed_returns` | 1 argument, 2 runs, with fairness; stranded placeholders, denied, damaged, misread and lost files | one payment per horizon; no key is wedged |
| `keyed_blip` | failed reads only | finding: a failed read past three horizons forgets a replayable run |
| `process` | six commands: one that overflows every bound beside a slow observer; one that floods stderr beside a prompt, with a spawn and a pump that may fail; one that floods both streams; two processes that may hang under a cancellation; every kind of process under a cancellation, once with a marker while `ps` may fail, once without one; with fairness | what is captured is head and tail; no loss is silent; nothing of the group is left running, nor what the marker finds; the deadline ends the call; a flood stalls nobody |
| `lifecycle` | five profiles of three requests: two tasks that share a key under cancellation, deadlines and removals; one key with two arguments; unkeyed calls; three tasks that record at once; a client that pages; with fairness | every answer is true, no shared run is stopped, no spend is orphaned, the map keeps the newest, every row is returned |
| `pipeline` | nine families of requests (below) | what leaves the program is what it is said to be |
| `maintenance` | two repositories and two sets of upstream streams | the release pushes what merged; the pointer is proven and never goes back; each upstream release is filed once |

*Store.*  Two servers with one call in flight in each is the least that lets every
pair of sections interleave across servers.  A job's records are independent of each
other but for the cap, so one job suffices for the races and two, against a cap of
one, for the cap.  `MaxJobs` (jobs ever started) is the only bound on behaviours.

*Index.*  The horizon is two ticks (`MaxSeconds` and `Ttl` one each, `Grace` none),
the least that lets a run outlive its deadline, then its retention, then its
entry's horizon in separate ticks; the bound of the unreadable is six.  `MaxRuns`
bounds the runs on disk at a time; with none free a start fails, as at the cap.
Keys share no state but the lock and the sweep, which treats each file alone, so one
key suffices; the proofs hold for any number.  `ArgSymmetry` permutes the arguments,
which are only compared.  `keyed_returns` has no crashes: with servers that die in
every call before the sweep nothing can be promised; what a crash leaves on disk
`strand` leaves there too.

*Process.*  A pipe holds one character and a pump reads two; the capture has three and
the observer's queue one record or three bytes, so that four characters pass every
limit: head to tail, tail to loss, full queue to lost record.

*Lifecycle.*  The map holds two entries against three tasks, a page one row against
three jobs; jobs may start in the same second.

*Pipeline.*  Two files, one that HEAD has and one that it has not, and at most two moves
of the user: one move cannot be told from none by a check at the end, and two can undo
each other.  The families: where a run may start (operators' arguments, settings, modes,
CLIs; some 2,500 shells of the three backends); where a call may name its
workspace; previews; what a backend may write (all phrases of three or four fragments of
keys, values, paths and control characters); the secrets a patch may hold (all pairs of
eighteen lines, all triples of ten); a working tree that changes while it is
reviewed; reviews of a part, with a cap below what there is; delegates while the caller
works, or while git fails; every output of every backend.

*Maintenance.*  Eight commits, three versions and two mishaps are enough for two releases
with a mistake in each, or two mistakes in one; one repository has work to release,
the other two finished releases whose pointers never moved.  The newest issue is read
directly and others file one, so that an open issue is seen directly, by the late search, or
both; two faults happen.  With four releases one can be withdrawn and return while an older issue's
title is late, which is how the exception of `SuccessMeansTracked` is met; people close at
most one issue of a stream (`MaxClosed`); each of the five groups of files that carry a
version may be forgotten (`Slips`).

Deadlock is checked except in `process` (the call ends) and `maintenance` (the bounds
are used up).

*Fairness.*  In `JobStore` every call in flight runs on (`CallsRun`, strong fairness:
the kernel hands a waited-for flock over, so a waiter is not passed over for ever),
and somebody polls (`Polled`): without a daemon the store promises nothing unless a
client calls.  Workers get no fairness: a run may hang, and that is what the
deadline is for.  In the index a call that runs goes on (its waits end by a deadline),
time passes, and clients keep asking for each key, since the sweep that frees a key is
part of a keyed start.  In `ProcessRuntime` the threads of the server make progress, and so does a
command that goes on writing and exits when it has written everything (`Progress`); it may
hang, and then it does neither, and nothing makes it fork, crash or close a pipe, nor the
deadline come: `DeadlineEndsCall` starts from one that has.  In `JobLifecycle` the tasks and threads of a
request make progress; no job and no client has to do anything.  The other models
state safety only.

### What the properties say

The comments beside each property state it.  Some need context.

- `OutcomesStand`: done, cancelled and timeout are never taken back.  A reading of
  failed is derived, not stamped, and may be premature when another server's
  worker has not locked yet (the code knows: #126); `doubted` records that case and
  the property exempts it.  A failed reading can also become cancelled, when a
  cancel had already begun to stop the worker.
- `DoneKeepsItsResult` covers deletes that fail and restore what they removed; when
  the restore of the result fails as well (`lost`) nothing can hold, and the
  property says so.
- `LeftTreeIsReported` excludes failed deletes (`kept`, `lost`) in its statement: a delete
  that fails has already removed `cleanup.json` and `worker.lock`, although the comment
  above `_rmtree` speaks of a record left as it was.  TLC finds the property false without
  the exclusion (observation 10).
- `RunningIsTracked` is checked without crashes: a server that dies between the spawn and
  the record leaves a worker no reader knows.
- `OncePerHorizon` counts from the reservation, as the code's horizon does.  A lost
  file *and* a publisher that fails or dies are two faults, and then nothing on disk
  names the run: `OneFault` excludes the pair.
- `PaidRunIsFound` exempts a run whose entry a sweep removed without reading it; that
  exemption is the third finding's subject.
- `FailedStartIsForgotten` excepts an unlink that is stuck while a start is undone, which
  the code logs; the key then waits for the horizon (`KeyComesBack`).
- `NothingLeftRunning` says more of the group than of what left it.  After a deadline or a
  cancellation the group is gone in every case.  What moved to a group of its own is found by
  the marker in its command line alone: without a marker it may run on, and so it may if `ps`
  failed in the caller's sweep and no sweep of the waiter got through before (the code logs
  neither).  TLC finds the property violated without either exception.
- `PassMeansReviewed` speaks of at most one move of the user during the gather.  The
  token the code compares says where a file stands, not what is in it (gitdiff.py
  1031-1055; skills/.../references/reading-results.md 90-93 says so), and two moves can undo each
  other between two looks.  For a file whose index is a version of its own, neither HEAD's nor
  the tree's, one is enough: an edit of such a file leaves its status as it was.  For that
  file the property speaks of no move (`Unseen`).
- `DiffIsTheAgentsWork` excepts an agent that commits (observation 1 below) and a HEAD
  that moves while the worktree is seeded (2).
- `WordsAreClean` has a named exception, `RunsTogether` (6).
- `AdviceIsSound` has one, `Misread` (7): any word that amicus sends and the operator passes
  too, but `-c`, whose complaint names its key; and an effort nobody told amicus.
- `RunIsAsAdvertised`: the preview is compared if the user moved nothing since.  A preview
  does not ask the adapter to validate, so it says "would call" of a call that is then
  refused there (no API key, an unknown effort): the codes of the repository are compared,
  not those.
- `PushedTagIsWhatMerged` and `PointerIsProven` rest on what GitHub enforces: tags are
  immutable once pushed, and a pull request merges only green and without textual
  conflict.  The maintainer is assumed to push only a tag that post-merge held for.
- `IssuesAreFiledOnce` rests on the workflow's concurrency group (one run at a time) and
  on no more new issues between the two reads of a lookup than a listing holds.
- `SuccessMeansTracked` has a named exception.  docs/WATCHING.md 41 promises without one
  that status 0 means each issue was "found, filed or moved forward"; once a release of claude was
  withdrawn, the code may exit 0 with the issue behind the release it read (observation 13).
  What is left then, and what the property asks, is that an issue was filed for that release or
  a newer one, or carries the notice that it moves there (`Tells`).  TLC finds the property
  violated without the exception.

### Findings

Three runs end in a violation of what the repository says of itself: the cap can
evict a running job (`RunningNeverEvicted`, against ADR 0038 and the docstring of
`_evictable`), a result that cannot be opened outlives its retention
(`UnreadableObeysRetention`, against the comments of `_read_or_expire` and
`_reap_workspace`), and one failed read can make the sweep forget a run that could
have been replayed (`BlipKeepsReplay`, against the comment of
`_IO_ERROR_SWEEP_MULT`).  `PROJECT.json` quotes the lines.

### Observations

What was met while modelling and has no run of its own.  Where a property would meet
one, it names the exception.

1. `worktree.capture_diff` (642-667) diffs the index against the worktree's own HEAD.
   Work an agent *commits* is not in the patch, and `delegate_result` then says "The
   backend made no changes."; the docstring (643-647) promises committed work too.
2. If HEAD moves between `worktree add ... HEAD` and `diff HEAD` of `_seed_uncommitted`,
   the baseline is not the caller's state and no warning says so (docstring of `create`,
   348-352).
3. kimi's normalizer cuts the stream with `splitlines()`, so a JSON line that holds U+2028
   or U+0085 is cut in two; an earlier message is then delivered with no loss marked.
4. `is_git_repo` (gitdiff.py 327-338, "Never raises") lets a missing binary or a timeout
   escape, as do `create` and `capture_diff`: the caller sees `internal_error`.
5. gitdiff.py 600-602 says untracked files never appear in `git diff HEAD`.  A file removed
   from the index and kept on disk is in both, and counted twice.
6. `redaction.py` 1181-1218 says stripping never discloses more than not stripping.  Two
   labelled values that a deletion joins, and two key blocks that end up on one line, are
   disclosed only after it.
7. Two failures are called something they are not: a `--disable` the CLI no longer knows,
   when the operator passes one too, is `extra_args_rejected` although amicus sends it on
   every run; an effort from the user's own config file is `cli_contract_changed`.
8. A keyed task cancelled during the status read of its replay (lifecycle.py 606), or
   before its record's thread started (683), is in no task list, though the docstring at
   659-661 refers the client to it.  A wait's timeout says the job was cancelled (459)
   also when it had just finished.
9. The comment at runtime.py 408-411 is not true of a leader that exited before its
   descendants.
10. `store.py` 271 trusts the pid of the server's own reaped child, which may be reused
   (`childreuse`).  `store.py` 668 removes `cleanup.json` before the directory, so a
   failed worker's worktree may be named by nothing; and when that delete fails and the
   record is restored, a cancel or an overrun that is stopping the worker stamps it with
   the worktree neither removed nor reported.  A kill between `mkdtemp` and the
   manifest's hook leaves an undeclared directory, and the empty directories of a
   consult and the staging directories of codex and kimi are never declared.
11. An invalid `AMICUS_CODEX_EXTRA_ARGS` makes paid runs go without any of the
   operator's arguments; only `amicus_backends` says so.
12. If the probe of a client's roots fails and `AMICUS_ALLOW_CWD` is set, a keyed retry looks in
   another workspace's store and pays again.
13. `roll_issue` takes the title of the one open claude issue from the search when the issue
   is no longer among the newest (check_backend_compat.py 1443).  If a release is withdrawn
   after the issue moved to it, the late title lets a run move the issue *back*; when the
   release returns and the search by then has the newer title, the run says "exists" and
   exits 0 with the issue behind the release (docs/WATCHING.md 41: status 0 means every issue
   was "found, filed or moved forward").  `SuccessMeansTracked` names it as its exception.

## Proofs

Eight modules prove 38 theorems; each is listed in `PROJECT.json`.  Every inductive
invariant but one holds on the instance of its component's run, where TLC checked it; the one
is `Captured`, whose two texts TLC cannot enumerate (of it the run checks the consequence,
`CaptureIsHeadAndTail`).
The constants are arbitrary but for the assumptions of the modules.  Some of these say
more than a type.  The set of job ids, of versions and of files is finite: each is an id
the program has made so far, a release, a path of a repository; and no file is called what
stands for Python's `None` (`NoFile`).  The snapshots a profile of `RunRequest` starts from
are snapshots of its files, and the fate of its CLI is one its backend has (`FatesOf`).  The
directories of `Workspace` are absolute and resolved, and a worktree and its checkout are two
of them: what `Path.resolve` and git return.  A repository a release begins from is `Orderly`:
one released version whose commit the pointer names.

### The store

`JobStoreProofs` and `JobOutcomeProofs`, for any `Servers`, `Threads`, `MaxJobs`,
`MaxCount`, `Results`, `Calls` and `Events`:

| theorem | property |
|---|---|
| `TypeCorrect` | `TypeOK` |
| `SectionsExclude` | no two calls inside a section at once |
| `CapIsKept` | `CapHolds` |
| `StampsStand` | `StampIsForever`: no step changes a terminal status once stamped |
| `DoneStays` | `DoneKeepsItsResult` |
| `StrangersAreSafe` | `UnownedPidUntouched` |
| `StoppedStays` | `StoppedMeansStopped` |
| `FailuresAreFinal` | `ConsumedFailureIsFinal` |
| `WorkersAreTracked` | `RunningIsTracked` |
| `LeftTreesAreReported` | `LeftTreeIsReported` |
| `UnreturnedResultsAreKept` | `UnreturnedResultKept` |
| `AnswersStand` | `OutcomesStand`, given that no server's own child has its pid reused: `childreuse` is not among the events |

*Argument.*  `TInv` is the type with `Cursor` (a call at a record knows which).  The
inductive invariant of the lock is `LInv`:

- `Exclusive`: a call inside a section holds the record lock.  Every step of a call
  satisfies `Behaves`: it moves that call alone, and touches disk and lock only
  inside a section or when the lock is free; hence nobody disturbs the holder.
- `Derived`: while a call derives a state, the record has no stamp.  `CapHolds` and
  `StampIsForever` are not inductive because the step that writes relies on what an
  earlier step of the same section saw; the lock carries it over.
- `Counted`: while a start collects, what it has seen, has to see and is reading
  covers the records; while it evicts, what it holds does; from then to the new
  record there is room for one.

Workers and the world leave `at` and `stamp` alone and never remove a result
(`Outside`).  `DirKept` is what a step of a call may do to one directory; the two
theorems about stamps and done records are read off it.  `SInv` adds that a worker
that ended holds no lock and that a start not yet returned owns its worker, which
is why a signalled stranger can only be one's own child's successor.

How a job ends cannot be read off one call: a cancel stops the worker with the lock
released and stamps later, and the lock file by which another server sees the worker
goes with any delete that fails half-way.  `EInv` is therefore a relation between two
calls.  `Seeing`: whoever stops a worker owns it or sees it locked, until it has ended.
`Unhanded`: while one is stopping a worker that it does not own, no other call has read
that job as one it may delete, and only a delete could take the lock file away.  `Reads`
says what a section has read still holds when it acts on it; `Rechecked`, `Tracked` and
the invariant of the worktrees build on these.

Two theorems are of steps.  A result is deleted unreturned only if a section read its job as
ended without one, which `Reads` excludes, or as delivered; `Handed` says that delivered
means returned, by a call whose later sections still know it.  What a client was told stands
because of what `ToldRight` says of the job from then on: a final state is its stamp, and
whatever any section has read of it agrees; a job told failed has no living worker and no
result, and only a cancel that was already stopping the worker may still stamp it.  For this
a section must have read no job that is gone, and none twice (`Present`), and what it read as
failed must not have a stamp yet when it reports it (`Unstamped`).  The hypothesis of
`AnswersStand` is needed: with `childreuse` TLC finds a job told failed and then running in 19
steps, when its server polls it after the reaped child's pid went to another process
(observation 10).

### The index

`IdempotencyProofs` and `PaidOnceProofs`, for any `Servers`, `Callers`, `Keys`, `Args`,
`MaxRuns`, `MaxSeconds`, `Grace`, `Ttl` and `Events`:

| theorem | property |
|---|---|
| `IndexTypeCorrect` | `TypeOK` |
| `PaidOncePerHorizon` | `OncePerHorizon`, given `OneFault`: with `lost` among the events, `publish` and `crash` are not |
| `IndexKeepsItsPromise` | `ImplementsPaidOnce`, given `OneFault` |
| `PaidRunsAreFound` | `PaidRunIsFound` |
| `FailedStartsAreForgotten` | `FailedStartIsForgotten`, given that a reservation can be taken back: no `strand` among the events |

*Argument.*  `OncePerHorizon` says of one step that the key was free; why it was
free goes back to the reservation, some steps and perhaps other calls before.  The
inductive invariant `PInv` says:

- `Exclusive`: a call inside the section holds the index.
- `Protected`: while a key is paid for, its entry is `Guarded`: it is there, and as
  its reservation is no older than the payment's, no comparison with the horizon
  lets it go; or its file was lost and its publisher is about to rewrite it.
- `Unpaid`: a call at a step that removes, writes or spawns for its key's entry has a
  key that is free.  Every such step is behind a create that found no file or a
  comparison that found it stale, and by `Protected` (lemma `Kept`) neither happens to
  a key that is paid for.
- `Holding` and `Dated` carry the guard from the reservation over the spawn to the
  payment: `WriteMeta` pays with the age of a reservation that still stands.

Time keeps `Guarded` because the entry and the payment age together (`TickPayments`),
a damaged or denied file because those are compared by `st_mtime`, which is no older,
and a crash because a dead caller's reservation stays (`CrashPayments`).

*The refinement* needs more than `PInv`: a replay has to name a run kept under the
caller's own key and arguments.  `RInv` adds `Resting` (a caller at rest asks for
nothing), `Carrying` (the run a call has spawned is there under that call's key and
arguments, and has its record once the call publishes), `Unnamed` (no entry names a run
before its record is written) and `Named` (an entry whose run is kept names a run of its
own key and arguments).  With `PInv /\ RInv`, each step of a
call, a fault or the clock maps to one step of `PaidOnce` or to a stutter.

*Published runs.*  `PaidRunIsFound` needs no exclusion of faults.  `Owed` is a published run
on disk whose entry no sweep gave up unread.  `FInv` adds to `RInv` that the entry of what is
owed names it or is corrupt (`Findable`), that a call between the classification and the
publication has nothing owed under its key (`Clear`), and that the run such a call carries is
not published (`Unpublished`).  Every removal is then of an entry that names nothing owed
(`SweepSpares`, `StaleSpares`), or forsakes what it named.  `FailedStartIsForgotten` rests on
`Emptyhanded`: a call carries a run from its spawn to its publication only, so a call that
fails has none.

### The lifecycle, the map, the pages

`JobLifecycleProofs`, for any `Jobs`, `Requests`, `Keys`, `Args`, `Profiles`, `MaxEntries`
and page length:

| theorem | property |
|---|---|
| `LifecycleIsTyped` | `TypeOK` |
| `SharedRunsSurvive` | `SharedRunSurvives` |
| `AnswersStayTrue` | `AnswersAreTrue` |
| `TaskMapIsNewest` | `TaskMapKeepsNewest` |
| `PagingMissesNothing` | `PagingIsComplete` |

*Argument.*  `RequestInv` says of each request what it knows of its job at each of its
awaits, with its threads queued, running or done; what it knows is a fact that no other
request can undo (a job that ended stays ended, a key names one job, only a cancel by its
tool stops a keyed run).  `LockInv` gives the map to one thread whose copy is current,
`WrittenOnce` counts its writes, and `Newest` compares the file with the history entry by
entry.  `PagerInv` says that what was listed sorts no lower than the anchor and that what
must be listed and was not sorts below it; that a listing exists at all (`RowsCanBeListed`)
rests on the sort key being a strict total order and on the rows being finitely many.

### The process

`ProcessRuntimeProofs`, for any commands, any texts they write, and any budgets and sizes of
pipe, chunk and queue:

| theorem | property |
|---|---|
| `RunTyped` | `TypeOK` |
| `NothingOutlivesItsRun` | `NothingLeftRunning` |
| `CapturesHeadAndTail` | `CaptureIsHeadAndTail` |
| `LossIsTold` | `NoSilentLoss` |

*What is left running* (`StopInv`).  `Killed`: once the waiter or the caller has killed the
group, nobody in it lives; this is for good, because a child is born of a living parent and
the leader is started once (`Quiet`).  `SweptClean`: a sweep that could see, that is, had a
marker and an answer of `ps` both times, and that ended after such a kill has left no marked
process, and a quiet group starts no new one.  A blind sweep, or none, leaves what there was;
the property names these cases.

*What is captured.*  A pump meets the text in chunks that end anywhere, so the property, which
speaks of the records of the whole text, says nothing of the middle of a stream.  `Captured`
does: there are two texts, `done` and `rest`, which together with the chunk in hand and the
pipe are what was written (`Read`).  `done` is a whole number of records, and the capture is
the head and tail of these; `rest` is the record begun, and the assembler holds what it would
hold had `rest` come at once (`Assembled`).  That two ways of cutting a text give one result is
an induction over the text, and over the folds of `StreamCapture`.  No library theorem of
induction can be used with these provers, but its conclusion can be had directly: the set of
the numbers for which a statement fails, were it not empty, would have a least member
(`Climb`, from the well-foundedness of the naturals).  The folds are therefore unfolded into
recursive functions, one element at a time.

*What is lost* is told because a run that is returned in time and unmarked was joined:
`Held`, `Finished` and `Joined` say that the waiter gets there in time only after both pumps
ended (`PumpsDone`), a pump ends without a mark only at the end of its pipe, and a pipe that
nobody holds is closed for good.  Then nothing is left in the pipe, and `done` is all that was
written.

### The run

`RunPipelineProofs`, for any `Files`, `Fresh`, `MaxMoves`, `Profiles`, directories and links:

| theorem | property |
|---|---|
| `WorktreesAreDeclared` | `TreesAreDeclared` |
| `PatchesAreTheAgents` | `DiffIsTheAgentsWork` |
| `AnswersAreWhole` | `AnswerIsWhole` |
| `AdviceIsOfItsOwner` | `AdviceIsSound` |
| `RunsAreAsAdvertised` | `RunIsAsAdvertised` |
| `PassesAreReviewed` | `PassMeansReviewed` |
| `RedactionsAreDisclosed` | `RedactionIsDisclosed` |

*The worktree and the patch.*  A run has a worktree from the choice of its site on (`Sited`).
`Seeded` says for each stage of the worktree's making how its files, its commit and what was
read of the caller's tree relate, so that what the agent starts from is the commit the patch
is taken against; `Declared`, `Cleared` and `Handed` say when there is a directory, when the
manifest names it and when it is left.  Together they are `PipelineInv`.

*The answer.*  `Candid` says what a backend can have left: a stream that is whole, or has a
gap, or is damaged, of a run that told a final message or none.  A stream whose end was not
lost shows the final message or none (`WholeEndShows`), a conclusion without an error is of a
clean run (`ConcludedIsWhole`), and no refusal on the way carries the code of a success;
`AnswerInv` carries this from the run's end to its answer.

*The advice.*  `AdviceInv` says that the output a run was judged by is one its backend can
give under its shell (`Heard`).  The rest is one fact about the classifier for every output
(`FailureAdvised`), by the backend, the kind of failure and the word it complains of: the word
is the operator's, amicus's, the user's or the account's, and each list of the code is that of
one of them.  `HintsLead` is about directories alone: the hint of a refused workspace is a
checkout that is absolute, resolved and under a root, so resolving it finds itself.

*The command and the preview.*  What the command line has is shown of `Launch` alone, for any
extra arguments: a word that reaches a pinned key is refused, whatever its case, quotes or
tables.  The preview is a matter of time: `Timed` dates what was foretold and when the gather
began, `Gathers`, `HoldsStill` and `SeededNow` say that as long as nobody moved since, each is
what a look at the repository would find now, so that two looks agree.  `Undisturbed` says what
a run without faults comes to, stage by stage, and `SaysWhetherItRan` that it then ran if that
was foretold; `Onward` and `Placed` say where it can be by then.

*The review.*  `GatherIsRead` compares what the gather has read of each file with the file as
it is now, while git status says of it what it said when the gather began.  Its step is
`OneMoveHidesNothing`: a move of the user that leaves HEAD and the status of a file as they
were leaves the file untracked, or differing, as it was.  The proof failed at first, at an edit
of a file whose index is a third version, which git status calls modified on both sides before
and after; the property now excepts it (see `PassMeansReviewed` above).  `Judged` says that a pass is the fold of a
reply and a gather that both stay as they are.

*The redaction.*  `Accounts` is the property said at every line that was stored.  It needs two
facts about lines of any length.  The redactor of values counts as many markers as it writes:
the spans it merged, however they overlap, stand apart (`MergedAreApart`), so that each begins
at a place of its own and writes one marker there (`ReplacedIsCounted`); a redacted key counts
the one it writes (`KeysAreCounted`), and the two are never counted for one place.  And a count
that is pending is committed only with the last of its lines stored (`FeedAccounts`), so that a
line the byte cap drops is neither sent nor counted.  Files and lines are fed by recursive
functions (`FedFiles`, `FedFile`), which are climbed as above.

### The release and the watch

`MaintenanceProofs`, for any finite set of versions, any bounds, any slips and any orderly
beginnings:

| theorem | property |
|---|---|
| `TagsAreSound` | `PushedTagIsWhatMerged` |
| `PointersAreProven` | `PointerIsProven` |
| `PointersAdvance` | `PointerOnlyAdvances` |

*Argument.*  The pointer on main is what a three-way merge makes of two commits', so `RInv`
speaks of every commit: each points at a finished release, and none at an older one than
its history did (`History`).  A merge takes the side that moved since the newest common
ancestor, which exists because commits are numbered.  A tag is sound when post-merge held
for it, and stays so because commits and records are only added.

Of the watch, for any `Watches`, `Releases`, `MaxOthers`, `MaxClosed`,
`RecentIssues` and `MaxTrouble`:

| theorem | property |
|---|---|
| `IssuesAreOnce` | `IssuesAreFiledOnce` |
| `SuccessIsTracked` | `SuccessMeansTracked` |

*Argument.*  `WatchInv` rests on what a late row may be wrong about.  `Faithful`: an issue
its row has for closed is closed, and a minor's title is what its row says.  `NoneMissed`:
whatever the title search does not know yet is among the newest issues.  Between the two
readings of a lookup nobody files so many issues that one slips through, so that after them
a title is free (`Looked`) and stays free: only the watch files under it, one run at a time.
`Noted` makes the notice of a move unique.  For the exit status, `Told` follows the streams
of a run that has not failed; a stream leaves `todo` when a row names its release or the run
has just written it.  That suffices for the streams that do not roll.  Of claude `SuccessInv`
says two things.  Until a release of it is withdrawn, every step satisfies `Advances`: what a
run reads, and therefore what it writes, only advances (`OnlyForward`), so the title is no
older than a late row of it (`Behind`) nor than the release read.  After that a late title may
be newer than the issue's own, but it is still one that the issue was filed for or was told of
(`RowsTold`, `TitleIsSaid`): neither is ever taken back (`HistoryStays`), so the exception
holds whatever comes later (`MentionInv`).

### Model-checked only

- Liveness is outside the prover's reach: `OverdueJobsEnd`, `KeyComesBack`,
  `DeadlineEndsCall`, `FloodDoesNotStall`, `CancelledSpendStops`, `LateStartIsRecorded`.
- `SecretsStayHome` and `WordsAreClean` compare a text that went through several passes with
  what a reader of the whole text would say is secret in it, token by token.  Their passes are
  folds over tokens and lines with an open key block between them; that each pass commutes with
  such a reading is not proved.  `SecretsStayHome` is also stated for the lines a request of the
  instance may hold: of a line with several key blocks `InPlain` and the code, which looks
  for the first, do not say the same.  TLC checks both on all pairs and triples of lines, and on
  all phrases, that the instance lists.

## Not modelled, and why

*JobStore.*
- Records written by releases before delivery tracking, and platforms without
  fcntl, where `_worker_lock_held` is unknown: other code paths of the same calls.
- The instant between a liveness check and the signal that follows it: the code
  makes it as small as it can, and no step of the store lies in between.
- A crash in the middle of a delete, other than as a failed restore (`lost`,
  `hidden`) followed by a crash.
- The order in which a pass meets the records: any order is allowed.
- Servers of an older release, which do not take the record lock and can overshoot the cap by
  one start each (store.py 1050-1053).  `amicus_job_list` (tools/jobs.py 295-297) tells clients
  that of every server; between servers of this release the cap holds.
- The contents of results: a result is of this release's format or of another.

*IdempotencyIndex.*
- Steps of the wall clock: the code documents that they stretch or shorten the window.
- Entries of a newer release: they read as corrupt, which is modelled.
- Temporary files a crash leaves between the write and the rename: every reader of
  the index skips them.
- Records the store fails to delete (`JobStore` has those): here an expired record is
  gone.  A record that stays because its result cannot be opened resolves as gone, and
  would be found again once it can be: a consequence of the second finding.

*ProcessRuntime.*  `run_sync_capture`, one blocking `communicate` with a timeout for local
probes, and `gitproc.run_lines`, a simpler copy of the same pattern.  A process id is not
reused; a sweep's `ps` and its signals are one step, a chunk's records are added in one;
a character is one byte; text-mode newlines are not translated.  A stray starts no other
marked process outside its group; the polls of the grace loop between the two passes; a
marker that is blank or too short, which the code refuses; the one further sweep that
`orchestration/run.py` 379 makes after `run_async` came back, which could only find more.

*JobLifecycle.*  A server does not crash (`JobStore` and `IdempotencyIndex` have that);
progress reports; results that are corrupt or of another format; a task map that cannot
be read for a moment, which reads as empty (taskmap.py 98); `mark_delivered` that fails;
list filters.

*RunPipeline.*  A patch is a header and lines, the cap a number of lines.  The prompt's
text, confidence, prose lists, the diff bound of a delegate, usage and cost accounting, model
catalogs, numstat arithmetic, ignore rules, clean filters, submodules and the hardening
flags of git.  Of texts: the character grammar of the patterns and of a path's
boundary, JSON trees (`scrub_structured`), staging directories' pattern, truncations, a
label whose value is on the next line, the streaming redactor, userinfo patterns.
SIGTERM outside the await has no effect until the await.

*Release and UpstreamWatch.*  Of the files at a tag `Consistent` reads the manifests and the
pin, as the script does for a pointer's tag; every literal is checked of the checkout it runs
in.  A file that was forgotten holds no release's version, not a particular older one.  The
read-back of GitHub's policy (release.py 1242-1461), a canonical repository other than origin,
`prepare --check`, edits a failed `prepare` leaves, the age of records, octopus merges, a HEAD
that moves while gates run.  `check` and `compare` of the watch script, which read and rewrite
the shipped captures; people who reopen or retitle; fastmcp, which is like mcp.

*Components without a module.*  Job lookup and poll hints, prompts, the server's wiring,
discovery and resources, surface snapshots and the capture and lint scripts render or
register: they keep no state between two calls and have no order to check.

## Plan

1. (done) The store, the index, the abstract promise and its refinement; the lifecycle,
   the map and the listing; the process; the run; the release and the watch.
2. (done) Proofs of how jobs end and of what clients were told of them, of the lifecycle,
   the map and the pages, of the process group and of what is captured of it, of the
   worktree and the patch, the command and its preview, the review and its redaction, the
   answer and the advice, of the release and the watch.
3. A composition of `JobLifecycle` with the premature readings of `JobStore`, so that the
   answers of a call are checked while another server's worker boots.
