----------------------------- MODULE DiffGather -----------------------------
(***************************************************************************)
(* src/src/amicus/orchestration/gitdiff.py: how the diff of a review is    *)
(* gathered.  One git command per step, each reads the repository as it is *)
(* then, while its user goes on working in it.  A file's patch is its      *)
(* header and its lines; the byte cap is a number of lines.                *)
(***************************************************************************)
EXTENDS RunRequest

VARIABLE gather

GatherStages == {"idle", "pinning", "marking", "counting", "reading", "listing", "remarking",
                 "rechecking", "done", "failed"}
GatherCodes == {"none", "invalid_workspace_root", "not_a_git_repo", "invalid_base",
                "git_unavailable"}

Nothing == [f \in Files |-> Absent]
NoToken == [f \in {} |-> <<>>]

(* _BoundedDiffAccumulator; "fed" and "short": the files it was given and  *)
(* those it dropped a line of.                                             *)
NewAccumulator == [red |-> NewRedactor, sent |-> <<>>, fed |-> {}, short |-> {}]

NoGather ==
  [at |-> "idle", code |-> "none", from |-> Nothing, to |-> Nothing, token |-> NoToken,
   summary |-> {}, diff |-> NewAccumulator, detected |-> 0, included |-> 0,
   moved |-> FALSE, since |-> 0, until |-> 0, owed |-> {}]

OverTree == spec.scope = "working_tree"
InScope == IF spec.paths = {} THEN Files ELSE spec.paths

(* The patch of the two sides the arguments were pinned to.                *)
Patch == Differing(gather.from, IF OverTree THEN Tracked ELSE gather.to) \cap InScope
Token == [f \in InScope |-> Status(f)]
NewInScope == Untracked \cap InScope

(* Histories: the moves before and until the end of the gather, and the    *)
(* files of its scope that differ from HEAD when the tree is last read.    *)
Owed == Dirty \cap InScope

GatherAt(stage) == gather.at = stage
GatherFails(code) == gather' = [gather EXCEPT !.at = "failed", !.code = code]

-----------------------------------------------------------------------------
(* What any of the git commands may run into.                              *)
GitBreaks ==
  \/ ~there /\ GatherFails("invalid_workspace_root")
  \/ there /\ kind = "plain" /\ GatherFails("not_a_git_repo")
  \/ there /\ (May("git") \/ May("hang")) /\ GatherFails("git_unavailable")

(* Every ref is resolved to a commit once.  A tree of no commit has no     *)
(* base.                                                                   *)
Pin ==
  /\ GatherAt("pinning")
  /\ \/ GitBreaks
     \/ /\ there /\ kind = "unborn"
        /\ GatherFails(IF spec.scope = "branch" THEN "invalid_base" ELSE "git_unavailable")
     \/ /\ Usable
        /\ gather' = [gather EXCEPT !.at = IF OverTree THEN "marking" ELSE "counting",
                                    !.from = IF OverTree THEN head ELSE Root,
                                    !.to = head]

Mark ==
  /\ GatherAt("marking")
  /\ \/ GitBreaks
     \/ Usable /\ gather' = [gather EXCEPT !.at = "counting", !.token = Token]

Summary ==
  /\ GatherAt("counting")
  /\ \/ GitBreaks
     \/ Usable /\ gather' = [gather EXCEPT !.at = "reading", !.summary = Patch]

(* Mutant: a redaction counts although its lines are dropped.              *)
StoresUngated(acc, item, fed, cap) ==
  LET room == IF acc.short = {} THEN Max({0, cap - Len(acc.sent)}) ELSE 0
      kept == SubSeq(fed.out, 1, Min({room, Len(fed.out)}))
      whole == kept = fed.out
  IN  [red |-> CommitPending(fed.red),
       sent |-> acc.sent \o [k \in DOMAIN kept |-> [path |-> item.path, at |-> item.at,
                                                   line |-> kept[k]]],
       fed |-> acc.fed \cup {item.path},
       short |-> IF whole THEN acc.short ELSE acc.short \cup {item.path}]

(* The accumulator stores the lines that fit and redacts all that pass;    *)
(* what a redaction did counts once all of its lines are stored.           *)
Stores(acc, item, fed, cap) ==
  LET room == IF acc.short = {} THEN Max({0, cap - Len(acc.sent)}) ELSE 0
      kept == SubSeq(fed.out, 1, Min({room, Len(fed.out)}))
      whole == kept = fed.out
  IN  [red |-> IF acc.short = {} /\ whole THEN CommitPending(fed.red) ELSE fed.red,
       sent |-> acc.sent \o [k \in DOMAIN kept |-> [path |-> item.path, at |-> item.at,
                                                   line |-> kept[k]]],
       fed |-> acc.fed \cup {item.path},
       short |-> IF whole THEN acc.short ELSE acc.short \cup {item.path}]

FeedAccumulator(acc, item, cap) == Stores(acc, item, Feed(acc.red, item.path, item.line), cap)

HeaderOf(request, f) ==
  LineOf(IF f \in request.secret THEN "secret"
         ELSE IF f \in request.source THEN "source" ELSE "header", <<>>)
PatchOf(request, f) ==
  [k \in 1..(1 + Len(request.text[f])) |->
     [path |-> f, at |-> k - 1,
      line |-> IF k = 1 THEN HeaderOf(request, f) ELSE request.text[f][k - 1]]]

(* A file's patch line by line, and the files of a diff one by one.        *)
FedFile(request, acc, f) ==
  LET patch == PatchOf(request, f)
      after[n \in 0..Len(patch)] ==
        IF n = 0 THEN acc ELSE FeedAccumulator(after[n - 1], patch[n], request.cap)
  IN  after[Len(patch)]

FedFiles(request, acc, files) ==
  LET order == SetToSeq(files)
      after[n \in 0..Cardinality(files)] ==
        IF n = 0 THEN acc ELSE FedFile(request, after[n - 1], order[n])
  IN  after[Cardinality(files)]

Fed(new) == [gather EXCEPT !.diff = FedFiles(spec, @, new)]

Shown == gather.diff.fed \ gather.diff.short
Truncated == gather.diff.short # {}
RedactedPaths == gather.diff.red.touched

Read ==
  /\ GatherAt("reading")
  /\ \/ GitBreaks
     \/ Usable /\ gather' = [Fed(Patch) EXCEPT !.at = IF OverTree THEN "listing" ELSE "done"]

(* One enumeration of the untracked files: added as new files, or only     *)
(* counted.                                                                *)
GathersUntracked ==
  spec.untracked = "include" \/ (spec.untracked = "explicit_only" /\ spec.paths # {})

List ==
  /\ GatherAt("listing")
  /\ \/ GitBreaks
     \/ /\ Usable /\ GathersUntracked
        /\ gather' = [Fed(NewInScope) EXCEPT !.at = "remarking",
                        !.summary = @ \cup NewInScope,
                        !.detected = Cardinality(NewInScope),
                        !.included = Cardinality(NewInScope)]
     \/ /\ Usable /\ ~GathersUntracked
        /\ gather' = [gather EXCEPT !.at = "remarking", !.detected = Cardinality(NewInScope)]

(* Mutant: the second reading of the state is not compared.                *)
RemarkBlind ==
  /\ GatherAt("remarking")
  /\ \/ GitBreaks
     \/ Usable /\ gather' = [gather EXCEPT !.at = "rechecking", !.owed = Owed]

Remark ==
  /\ GatherAt("remarking")
  /\ \/ GitBreaks
     \/ Usable /\ gather' = [gather EXCEPT !.at = "rechecking", !.moved = Token # gather.token,
                                         !.owed = Owed]

(* HEAD once more: the tokens are relative to it, the patch is not.        *)
Recheck ==
  /\ GatherAt("rechecking")
  /\ \/ GitBreaks
     \/ Usable /\ gather' = [gather EXCEPT !.at = "done", !.moved = @ \/ head # gather.from,
                                         !.until = moves]

Gather == Pin \/ Mark \/ Summary \/ Read \/ List \/ Remark \/ Recheck

GatherTypeOK ==
  /\ gather.at \in GatherStages /\ gather.code \in GatherCodes
  /\ gather.from \in Snapshot /\ gather.to \in Snapshot
  /\ gather.token \in UNION {[F -> Changes \X Changes] : F \in SUBSET Files}
  /\ gather.summary \subseteq Files /\ gather.diff.fed \subseteq Files
=============================================================================
