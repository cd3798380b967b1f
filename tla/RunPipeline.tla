---------------------------- MODULE RunPipeline ----------------------------
(***************************************************************************)
(* One run of a backend in its worker, from the caller's preflight to the  *)
(* result: src/src/amicus/orchestration/run.py with the site it runs in,   *)
(* the diff it reviews, the answer it reads and the verdict or the patch   *)
(* it delivers.                                                            *)
(*                                                                         *)
(* All of it is one thread that blocks but for the run itself, the only    *)
(* place where a cancellation is delivered.                                *)
(***************************************************************************)
EXTENDS DryRun, BackendAnswer, ReviewFold

VARIABLE run

vars == <<repoVars, spec, gather, tree, run>>

Stages == {"asked", "checking", "planning", "counting", "composing", "choosing", "entering", "launching", "running", "folding",
           "capturing", "leaving", "answered", "killed"}
Sites == {"none", "direct", "empty", "tree"}
Ended == run.at \in {"answered", "killed"}

NoPatch == [f \in {} |-> <<>>]

NoRun ==
  [at |-> "asked", site |-> "none", cancelled |-> FALSE, code |-> "none", status |-> "none",
   verdict |-> "none", out |-> Unspawned, reply |-> Prose, text |-> NoText, warned |-> FALSE,
   overridden |-> FALSE, diff |-> NoPatch, said |-> Unsaid, foretold |-> NotForetold]

Init ==
  \E family \in Profiles : \E p \in family :
    /\ spec = p.spec
    /\ kind \in p.kinds
    /\ there = TRUE /\ moves = 0
    /\ head \in p.heads /\ staged \in p.indexes /\ live \in p.trees
    /\ gather = NoGather /\ tree = NoTree /\ run = NoRun

RunAt(stage) == run.at = stage
Delegates == spec.verb = "delegate"
Reviews == spec.verb = "review_changes" \/ (spec.verb = "adversarial_review" /\ spec.scope # "none")

RunGoes(stage) == run' = [run EXCEPT !.at = stage]

(* An envelope without a site to leave, and one inside it.                 *)
AnswersWith(code, status) == run' = [run EXCEPT !.at = "answered", !.code = code, !.status = status]
LeavesWith(code) == run' = [run EXCEPT !.at = "leaving", !.code = code]

-----------------------------------------------------------------------------
(* A caller that wants a dry run asks for it first; what it is answered is *)
(* kept beside the run.                                                    *)
Dry == May("preview") /\ spec.verb \in {"review_changes", "delegate"} /\ ~run.foretold.told

IsTold(foretold) == run' = [run EXCEPT !.at = "asked", !.foretold = foretold]

Asked == [run.foretold EXCEPT !.since = IF RunAt("asked") THEN moves ELSE @]

Refuses(code) ==
  IF Dry THEN IsTold(Foretells(Asked, code)) ELSE AnswersWith(code, "none")

(* prepare_run: the call, then a delegate's repository, is looked at       *)
(* before a job is started.                                                *)
Preflight ==
  /\ RunAt("asked")
  /\ IF Unfit THEN Refuses(RefusalOf[FirstWrong])
     ELSE run' = [run EXCEPT !.at = IF Delegates THEN "checking" ELSE "composing",
                             !.foretold = IF Dry THEN Asked ELSE @]
  /\ UNCHANGED <<repoVars, spec, gather, tree>>

EnsureRepo ==
  /\ RunAt("checking")
  /\ \/ ~there /\ Refuses("invalid_workspace_root")
     \/ there /\ kind = "plain" /\ Refuses("not_a_git_repo")
     \/ there /\ (kind = "unborn" \/ May("git") \/ May("hang")) /\ Refuses("worktree_error")
     \/ Usable /\ RunGoes(IF Dry THEN "planning" ELSE "composing")
  /\ UNCHANGED <<repoVars, spec, gather, tree>>

(* plan: the commit, then how many changes would be replayed over it.      *)
Plan ==
  /\ RunAt("planning")
  /\ \/ \E code \in PlanFailures : Refuses(code)
     \/ Usable /\ run' = [run EXCEPT !.at = "counting", !.foretold = Planned(@)]
  /\ UNCHANGED <<repoVars, spec, gather, tree>>

Count ==
  /\ RunAt("counting")
  /\ \/ \E code \in PlanFailures : Refuses(code)
     \/ Usable /\ \E changed \in Uncommitted : IsTold(ForetellsDelegate(run.foretold, changed))
  /\ UNCHANGED <<repoVars, spec, gather, tree>>

(* _not_run: nothing was spent, and nothing is said of the change.         *)
NotRun == AnswersWith("ok", "not_run")

(* _compose: the diff is gathered before any site is made, and an empty    *)
(* one ends the run without a backend.                                     *)
Compose ==
  /\ RunAt("composing")
  /\ \/ ~Reviews /\ RunGoes("choosing") /\ UNCHANGED gather
     \/ /\ Reviews /\ GatherAt("idle")
        /\ gather' = [gather EXCEPT !.at = "pinning", !.since = moves] /\ UNCHANGED run
     \/ Reviews /\ Gather /\ UNCHANGED run
     \/ /\ Reviews /\ GatherAt("failed") /\ Refuses(gather.code)
        /\ gather' = IF Dry THEN NoGather ELSE gather
     \/ /\ Reviews /\ GatherAt("done") /\ Dry
        /\ IsTold(ForetellsReview(run.foretold)) /\ gather' = NoGather
     \/ /\ Reviews /\ GatherAt("done") /\ ~Dry /\ UNCHANGED gather
        /\ IF NothingGathered THEN NotRun ELSE RunGoes("choosing")
  /\ UNCHANGED <<repoVars, spec, tree>>

(* select_site: kimi isolates every run, and a consult of it outside a     *)
(* repository runs in an empty directory.  is_git_repo answers no for a    *)
(* failed command; a missing directory and a timeout go through it.        *)
Isolated == Delegates \/ spec.backend = "kimi"
EntersTree == run' = [run EXCEPT !.at = "entering", !.site = "tree"] /\
              tree' = [tree EXCEPT !.at = "making"]

SelectSite ==
  /\ RunAt("choosing")
  /\ \/ /\ ~Isolated /\ UNCHANGED tree
        /\ run' = [run EXCEPT !.at = "launching", !.site = "direct"]
     \/ Isolated /\ spec.verb # "consult" /\ EntersTree
     \/ Isolated /\ spec.verb = "consult" /\ Usable /\ EntersTree
     \/ /\ Isolated /\ spec.verb = "consult" /\ there /\ (kind # "repo" \/ May("git"))
        /\ run' = [run EXCEPT !.at = "launching", !.site = "empty"] /\ UNCHANGED tree
     \/ /\ Isolated /\ spec.verb = "consult" /\ (~there \/ May("hang"))
        /\ AnswersWith("internal_error", "none") /\ UNCHANGED tree
  /\ UNCHANGED <<repoVars, spec, gather>>

EnterSite ==
  /\ RunAt("entering")
  /\ \/ Enter /\ UNCHANGED run
     \/ TreeAt("failed") /\ AnswersWith(tree.code, "none") /\ UNCHANGED tree
     \/ TreeAt("ready") /\ RunGoes("launching") /\ UNCHANGED tree
  /\ UNCHANGED <<repoVars, spec, gather>>

(* validate_request, the binary, the staging, and the spawn, which cannot  *)
(* be in a directory that is gone.                                         *)
Launch ==
  /\ RunAt("launching")
  /\ \/ Invalid # "none" /\ LeavesWith(Invalid)
     \/ Invalid = "none" /\ LeavesWith("cli_not_found")
     \/ Invalid = "none" /\ run' = [run EXCEPT !.at = "folding", !.out = Unspawned]
     \/ Invalid = "none" /\ (run.site # "direct" \/ there) /\ RunGoes("running")
  /\ UNCHANGED <<repoVars, spec, gather, tree>>

AgentActs ==
  /\ RunAt("running") /\ run.site = "tree"
  /\ AgentCommits \/ (May("writes") /\ \E f \in Files : AgentWrites(f))
  /\ UNCHANGED <<repoVars, spec, gather, run>>

(* What a profile looks at: every output, only plain answers, these and    *)
(* the failures, or one of them; and for "parsed" every reply of a review. *)
Plain(out) == Failure(out) = "none" /\ ~Doubtful(out) /\ Answer(out) = Final
Fails(out) == out.end # "clean" /\ out.told = <<>> /\ out.file = "absent"
Shows(out) ==
  spec.answers # "all" =>
    \/ Plain(out)
    \/ spec.answers = "fails" /\ (Fails(out) \/ out.envelope = "error")
    \/ spec.answers = "either" /\ Fails(out) /\ out.end = "nonzero" /\ out.capture = "whole"

(* A CLI that refuses to start says why and answers nothing.               *)
BackendEnds ==
  /\ RunAt("running")
  /\ LET complaints == Complaints  refuses == Startup # {}
     IN
     \E out \in {o \in Outputs[spec.backend][Staged] : Shows(o) /\ (refuses => Fails(o))} :
       \E reply \in IF spec.answers = "parsed" THEN Replies ELSE {Prose} :
       \E says \in IF out.end = "nonzero" \/ (out.end = "clean" /\ out.envelope = "error")
                   THEN complaints ELSE {Quiet} :
         /\ run' = [run EXCEPT !.at = "folding", !.out = [out EXCEPT !.says = says],
                               !.reply = reply]
  /\ UNCHANGED <<repoVars, spec, gather, tree>>

(* A cancellation waits for the run, the one await.                        *)
CancelLands ==
  /\ RunAt("running") /\ run.cancelled
  /\ LeavesWith("cancelled")
  /\ UNCHANGED <<repoVars, spec, gather, tree>>

(* What the backend wrote, as the caller reads it.                         *)
Rendered(text) ==
  IF text = NoText THEN Unsaid
  ELSE IF Delegates THEN PatchSaid(spec.words)
  ELSE IF spec.verb # "consult" /\ run.reply = Prose THEN RawSaid(spec.words)
  ELSE AnswerSaid(spec.words)

(* _parse_reviewed, consult_result, delegate_result.                       *)
Delivered(text, warned, overridden, diff) ==
  [run EXCEPT !.at = "leaving", !.text = text, !.warned = warned, !.overridden = overridden,
              !.diff = diff, !.said = Stored(Rendered(text)),
     !.code = IF spec.verb \in {"review_changes", "adversarial_review"} /\ text = NoText
              THEN "invalid_json" ELSE "ok",
     !.status = IF spec.verb \notin {"review_changes", "adversarial_review"} THEN "none"
                ELSE IF run.reply = Prose THEN "unstructured" ELSE "completed",
     !.verdict = IF spec.verb \notin {"review_changes", "adversarial_review"} THEN "none"
                 ELSE IF run.reply = Prose THEN "unknown" ELSE Folded(run.reply)]

DeliversOr(v, diff) ==
  IF v.code = "ok" THEN run' = Delivered(v.text, v.warned, v.overridden, diff)
  ELSE LeavesWith(v.code)
Concludes(diff) == DeliversOr(Concluded(run.out, DOMAIN diff # {}), diff)

(* _stamp_spawn: a spawn that failed in a workspace that is gone is the    *)
(* workspace's fault.  Then the outcome; a delegate's patch is captured    *)
(* first, unless the run failed.                                           *)
Vanished == run.out.end = "missing" /\ run.site = "direct" /\ ~there
Failed == Failure(run.out) # "none" /\ ~Explained(run.out)

Fold ==
  /\ RunAt("folding")
  /\ \/ Vanished /\ LeavesWith("invalid_workspace_root")
     \/ /\ ~Vanished /\ Failed
        /\ run' = [run EXCEPT !.at = "leaving", !.code = Failure(run.out),
                     !.said = Stored(IF Failure(run.out) = "nonzero_exit"
                                     THEN FailureSaid(spec.words, run.site # "direct")
                                     ELSE Unsaid)]
     \/ ~Vanished /\ ~Failed /\ Delegates /\ RunGoes("capturing")
     \/ ~Vanished /\ ~Failed /\ ~Delegates /\ Concludes(NoPatch)
  /\ UNCHANGED <<repoVars, spec, gather, tree>>

Capture ==
  /\ RunAt("capturing")
  /\ \/ (May("git") \/ ~there) /\ LeavesWith("worktree_error")
     \/ May("hang") /\ LeavesWith("internal_error")
     \/ there /\ Concludes(Captured)
  /\ UNCHANGED <<repoVars, spec, gather, tree>>

(* The site's __exit__.                                                    *)
Leave ==
  /\ RunAt("leaving")
  /\ tree' \in IF run.site = "tree" THEN Removed ELSE {tree}
  /\ RunGoes("answered")
  /\ UNCHANGED <<repoVars, spec, gather>>

-----------------------------------------------------------------------------
Cancel ==
  /\ May("cancel") /\ ~Ended /\ ~run.cancelled
  /\ run' = [run EXCEPT !.cancelled = TRUE]
  /\ UNCHANGED <<repoVars, spec, gather, tree>>

Kill ==
  /\ May("kill") /\ ~Ended
  /\ RunGoes("killed")
  /\ UNCHANGED <<repoVars, spec, gather, tree>>

UserActs ==
  /\ ~Ended
  /\ \/ May("edit") /\ \E f \in Files : Edit(f)
     \/ May("stage") /\ \E f \in Files : Stage(f)
     \/ May("commit") /\ Commit
     \/ May("reset") /\ Reset(Root)
     \/ May("vanish") /\ Vanish
  /\ UNCHANGED <<spec, gather, tree, run>>

Finished == Ended /\ UNCHANGED vars

Next ==
  \/ Preflight \/ EnsureRepo \/ Plan \/ Count \/ Compose \/ SelectSite \/ EnterSite
  \/ Launch \/ AgentActs \/ BackendEnds \/ CancelLands \/ Fold \/ Capture \/ Leave \/ Cancel \/ Kill \/ UserActs \/ Finished

Spec == Init /\ [][Next]_vars
-----------------------------------------------------------------------------
TypeOK ==
  /\ RepositoryTypeOK /\ GatherTypeOK /\ TreeTypeOK
  /\ spec \in RunSpec
  /\ run.at \in Stages /\ run.site \in Sites /\ run.cancelled \in BOOLEAN

(* Whatever the caller and the agent do and whatever git command fails,    *)
(* the patch a delegate delivers is the agent's work and nothing else:     *)
(* every file it changed and no change of the caller's, as long as the     *)
(* agent does not commit; and without a warning it starts from what the    *)
(* caller's tree held, as long as HEAD did not move while the worktree was *)
(* seeded.  (_seed_uncommitted, capture_diff.)                             *)
DiffIsTheAgentsWork ==
  RunAt("answered") /\ Delegates /\ run.code = "ok" =>
    /\ DOMAIN run.diff \subseteq tree.wrote
    /\ ~tree.committed =>
         \A f \in tree.wrote : f \in DOMAIN run.diff \/ tree.base[f] = tree.files[f]
    /\ ~tree.committed /\ ~tree.warned /\ tree.steady =>
         \A f \in DOMAIN run.diff : run.diff[f][1] = tree.seen[f]

(* A worktree's directory is named by the job's manifest from the hook on, *)
(* through every failure and a SIGKILL at any step, and a run that answers *)
(* leaves none behind that could be removed.  (create, remove,             *)
(* WorktreeSite.__exit__.)                                                 *)
TreesAreDeclared ==
  /\ tree.parent => tree.declared \/ TreeAt("declaring") \/ tree.stuck
  /\ RunAt("answered") /\ tree.parent => tree.stuck

(* A delivered pass speaks for all of the change: every file of the scope  *)
(* that differs was shown and not redacted, the summary counts the same    *)
(* files, and no finding was lost.  One change of the tree or of HEAD      *)
(* during the gather cannot hide behind it, but in a file whose index is a *)
(* version of its own, neither HEAD's nor the tree's, where git status     *)
(* says the same of any third; two can, undone between two looks.          *)
(* (gather_diff, _worktree_state_token, build_coverage, apply_coverage,    *)
(* apply_findings_loss.)                                                   *)
Unseen(f) == IF gather.token[f][1] = "modified" THEN 0 ELSE 1

PassMeansReviewed ==
  RunAt("answered") /\ run.verdict = "pass" =>
    /\ ~spec.focused
    /\ run.reply.listed = "list" /\ "invalid" \notin run.reply.entries
    /\ Reviews /\ OverTree =>
         \A f \in InScope : gather.until <= gather.since + Unseen(f) =>
           /\ f \in gather.owed => f \in Shown \ RedactedPaths
           /\ f \in gather.summary <=> f \in Shown
    /\ Reviews /\ ~OverTree => gather.summary = Shown

(* Of the lines of a diff, as far as the byte cap lets them, all goes to   *)
(* the backend but the bodies of private keys and the values its patterns  *)
(* match, on whatever lines a key begins and ends; a marker that claims to *)
(* stand for a whole value stands beside none of its rest; and of a file   *)
(* whose name looks secret nothing goes.  (DiffRedactor, _redact_key_      *)
(* content, _redact_secret_values, _interval_is_partial.)                  *)
Sent == gather.diff.sent
Gathered == RunAt("composing") /\ GatherAt("done")
SecretFrom(f, n) ==
  f \in spec.secret \/ \E l \in 1..n : spec.text[f][l].shape = "secret"

SecretsStayHome ==
  Gathered =>
    \A i \in DOMAIN Sent :
      LET s == Sent[i]  text == spec.text[s.path]
      IN  s.at > 0 /\ ~(text[s.at].shape \in Headers) =>
            /\ ~SecretFrom(s.path, s.at)
            /\ Scanned(text[s.at]) =>
                 /\ Unmarked(s.line) = InPlain(text, s.at, s.path \in spec.source)
                 /\ \A k \in 1..(Len(s.line) - 1) :
                      s.line[k] = "masked" => s.line[k + 1] \notin {"value", "vendor", "call"}

(* The files withheld of what was sent, and the markers sent of some.      *)
SentWithheld(sent) == {sent[i].path : i \in {k \in DOMAIN sent : sent[k].line = <<"withheld">>}}
MarkersSent(sent, files) ==
  Cardinality(UNION {{i} \X MarkersIn(sent[i].line) : i \in {k \in DOMAIN sent : sent[k].path \in files}})

(* What a review discloses of its redaction is what the backend was sent:  *)
(* the files withheld, the files sent with a value replaced, each in one   *)
(* of the two, and the number of markers in the latter, whichever lines    *)
(* the byte cap dropped and however often a file's header comes; and the   *)
(* legacy union names them all.  (feed, commit_pending, RedactionSummary.) *)
RedactionIsDisclosed ==
  Gathered =>
    LET red == gather.diff.red
    IN  /\ WithheldPaths(red) = SentWithheld(Sent)
        /\ MaskedPaths(red) = {f \in Files : MarkersSent(Sent, {f}) > 0} \ SentWithheld(Sent)
        /\ red.inline = MarkersSent(Sent, MaskedPaths(red))
        /\ WithheldPaths(red) \cup MaskedPaths(red) \subseteq RedactedPaths

(* A backend that runs, runs as amicus says it does, whatever the operator *)
(* passes through, the user has configured and --help lists: of codex no   *)
(* one but amicus sets what it pins, writing and the network among it; the *)
(* flags that bound a run are sent; a child gets no key its login does not *)
(* use; and an effort the backend does not know is not answered for, but   *)
(* where kimi is spared its unlisted model; in the directory that was      *)
(* named, inside the client's roots with all links resolved, and in the    *)
(* server's own only where that is allowed and nobody named another.       *)
(* (parse_extra_args, build_exec_command, ALWAYS_SEND, scrub_env,          *)
(* validate_request, resolve_workspace.)                                   *)
(* And a dry run foretold it, if nothing was moved and no command failed   *)
(* since: the same refusal of the repository, the same diff with what it   *)
(* left out, the same worktree.  A count of changes that failed says none. *)
(* (plan: "a dry run fails the same way the real propose run would".)      *)
WorksInPlace ==
  LET roots == RootsOf(spec.place)  named == spec.place.asked # NoPath
  IN  /\ IsDir(Where.path)
      /\ roots # <<>> => Inside(Where.path, roots)
      /\ named => Where.path = Resolved(spec.place.asked)
      /\ Where.source = "cwd" => spec.place.allowed /\ ~named /\ roots = <<>>

Faults == spec.events \cap {"git", "hang", "vanish", "hook", "reject", "dirty", "stuck"}
OfRepository == {"invalid_workspace_root", "not_a_git_repo", "worktree_error", "git_unavailable"}

AsForetold ==
  LET told == run.foretold
  IN  told.told /\ told.since = moves =>
        /\ RunAt("running") /\ told.code = "ok" =>
             /\ told.calls
             /\ Reviews => told.diff = gather.diff
             /\ Delegates /\ ~tree.warned /\ ~tree.committed =>
                  \/ told.replayed = Differing(told.base, tree.base)
                  \/ told.replayed = {} /\ May("git")
        /\ RunAt("answered") /\ Faults = {} =>
             IF told.code = "ok"
             THEN /\ run.code \notin OfRepository
                  /\ run.status = "not_run" <=> ~told.calls
             ELSE run.code = told.code

Guards ==
  CASE Codex -> {"--sandbox", "--disable"} [] Claude -> {"--tools", "--strict-mcp-config"}
    [] Kimi -> IF Writes THEN {} ELSE {"--agent-file"}

RunIsAsAdvertised ==
  /\ AsForetold
  /\ RunAt("running") =>
    /\ WorksInPlace
    /\ Codex => /\ \A key \in PinnedKeys \cup FeatureKeys : Setter(key) = "amicus"
                /\ Writes => {NetworkKey, RootsKey} \subseteq PinnedKeys
                /\ \A key \in {"sandbox_mode", "approval_policy", "model"} : ~Owns(key)
                /\ OperatorFeatures \cap OwnedFeatures = {}
    /\ Guards \subseteq SentFlags
    /\ Claude /\ spec.verb = "adversarial_review" /\ Shell.askedMode = "none" =>
         SentFlags \cap {"--safe-mode", "--bare"} # {}
    /\ "ANTHROPIC_API_KEY" \in Inherited /\ Claude => Mode = "bare"
    /\ Kimi => "KIMI_CODE_TRUST_WORKSPACE" \notin Inherited
    /\ Shell.effort = "odd" => Codex \/ (Kimi /\ Shell.catalog = "unlisted" /\ Shell.model)

(* An error of a run that failed sends to work the one it is of, and calls *)
(* itself temporary only if the identical call may succeed later: nobody   *)
(* has to change anything first, and no stored result is replayed.  Two    *)
(* failures it misreads: of a word, such as --disable, that is amicus's    *)
(* and in the operator's arguments too, and of an effort nobody told.  A   *)
(* workspace that is refused with a hint of another is accepted there.     *)
(* (classify_failure, render_failure, keyed_stored_error,                  *)
(* linked_worktree_checkout.)                                              *)
Misread(c) ==
  \/ c.by = "amicus" /\ c.about \in OperatorWords \ {"-c"}
  \/ c.says = "effort" /\ ~EffortTold

HintLeads ==
  LET hint == Hint(spec.place.asked, RootsOf(spec.place))
  IN  hint # NoPath => Resolution([spec.place EXCEPT !.asked = hint]).code = "none"

AdviceIsSound ==
  /\ run.code = "workspace_outside_roots" => HintLeads
  /\ RunAt("leaving") /\ run.code = Failure(run.out) =>
       LET c == run.out.says
       IN  /\ c.by \in SentTo(run.code, c) \/ Misread(c)
           /\ Temporary(run.code, run.out) =>
                ~Shell.keyed /\ c.by \in {"nobody", "account"}

(* A result that is not an error comes from a run that ended cleanly and   *)
(* reported no failure, its text is the backend's final message and never  *)
(* an earlier one a cut stream left in its place, a refused file is said   *)
(* to be refused, and there is no text only when the backend gave none or  *)
(* the delivered patch stands in for it.  (inspect_outcome, answer_loss,   *)
(* the fold of run_request.)                                               *)
AnswerIsWhole ==
  RunAt("answered") /\ run.code = "ok" /\ run.status # "not_run" =>
    /\ run.out.end = "clean" /\ run.out.envelope \notin {"denied", "error"}
    /\ run.text \in {Final, NoText}
    /\ Refused(run.out) => run.warned
    /\ run.text = NoText =>
         \/ run.overridden /\ DOMAIN run.diff # {}
         \/ run.out.told = <<>> /\ run.out.file \in {"absent", "empty"}

(* What a caller reads of a backend's words, in an answer, beside a patch  *)
(* or in an error, has no control character but the ends of its lines; no  *)
(* value of a label and no body of a private key, though a control         *)
(* character was wedged into it, unless one line makes two of them meet;   *)
(* nothing behind a key that the text did not end; of a run in a directory *)
(* of its own no path into that directory, and of no run the path of a     *)
(* file amicus gave it.  (sanitize_prose, sanitize_echo_prose,             *)
(* _preserving_key_block_failure, ArtifactRefs.scrub.)                     *)
Intact(text, x) == Hides(text, ToSet(HalvesOf[x]))

NothingAfterKey(text) ==
  LET line == OneLine(text)[1]
      at == {k \in DOMAIN line : line[k] = "begin"}
  IN  at # {} => \A k \in (Max(at) + 1)..Len(line) : line[k] \in Markers

WordsAreClean ==
  RunAt("answered") =>
    LET text == spec.words  first == run.said.first  beside == run.said.beside
        answered == run.code = "ok"
        away == run.site # "direct" /\ (Delegates \/ ~answered)
    IN  /\ Hides(first, {"esc"})
        /\ ~RunsTogether(text) =>
             Hides(first, Secrets) /\ (Hides(text, {"esc"}) => Hides(beside, Secrets))
        /\ EndsInside(text) => NothingAfterKey(first)
        /\ away /\ (AllPaths(text) \/ AllPaths(Collapsing(text))) => Hides(first, {"root"})
        /\ away /\ answered /\ AllPaths(text) => Hides(beside, {"root"})
        /\ answered /\ Intact(text, "artifact") /\ AllArtifacts(text) =>
             Hides(first, {"artifact"}) /\ Hides(beside, {"artifact"})
        /\ ~answered /\ AllArtifacts(KeepingLines(text)) /\ AllArtifacts(Collapsing(text)) =>
             Hides(first, {"artifact"})
=============================================================================
