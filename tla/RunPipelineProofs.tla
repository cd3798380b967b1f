------------------------- MODULE RunPipelineProofs -------------------------
(***************************************************************************)
(* Proofs about RunPipeline, for every finite set of files, every profile  *)
(* of requests and every bound on the user's moves.                        *)
(*                                                                         *)
(* Two theorems are about the worktree of a run: what is left of it, and   *)
(* what the patch taken from it is a patch of.  A run has one only from    *)
(* the choice of its site on (Sited), and until the agent is let into it   *)
(* each stage of its making says how its files, its commit and what was    *)
(* read of the caller's tree relate (Seeded).  The third is about the      *)
(* answer: what a stream can have lost (Candid) and what is concluded from *)
(* the rest of it (ConcludedIsWhole).  The fourth is about the advice of   *)
(* an error: whose it is (FailureAdvised), and where its hint leads        *)
(* (HintsLead).  The fifth is about a dry run and the command of a run:    *)
(* what was foretold holds while nobody moves the repository (HoldsStill,  *)
(* Undisturbed).  The sixth is about a review: what was read of each file  *)
(* agrees with it as it is, while git status says what it said when the    *)
(* gather began (GatherIsRead), for one move of a user that leaves git     *)
(* status as it was hides nothing (OneMoveHidesNothing).  The last is      *)
(* about the redactor: its account is that of the lines that were stored,  *)
(* at every line (Accounts), for it writes as many markers as it finds     *)
(* spans (ValuesAreCounted), and a pending count is committed only with    *)
(* the last of them stored (FeedAccounts).                                 *)
(***************************************************************************)
EXTENDS RunPipeline, FiniteSetTheorems, SequenceTheorems, WellFoundedInduction, TLAPS

-----------------------------------------------------------------------------
(* The fields of a run, of which only the first three have a type here.    *)
RunShaped ==
  run \in [at : Stages, site : Sites, cancelled : BOOLEAN, code : {run.code},
           status : {run.status}, verdict : {run.verdict}, out : {run.out}, reply : {run.reply},
           text : {run.text}, warned : {run.warned}, overridden : {run.overridden},
           diff : {run.diff}, said : {run.said}, foretold : {run.foretold}]

Caller == staged \in Snapshot /\ live \in Snapshot /\ head \in Snapshot

Before == {"asked", "checking", "planning", "counting", "composing", "choosing"}
OnSite == {"launching", "running", "folding", "capturing", "leaving"}

(* Where a run is, and what there is of a worktree then.                   *)
Sited ==
  /\ run.at \in Before => run.site = "none" /\ run.diff = NoPatch
  /\ run.site # "tree" => tree = NoTree
  /\ run.at = "entering" => run.site = "tree"
  /\ run.at \in OnSite /\ run.site = "tree" => tree.at = "ready"
  /\ run.at \in OnSite /\ Delegates => run.site = "tree"
  /\ run.at = "capturing" => Delegates

(* There is no directory before there is one, and what is left of a        *)
(* worktree that could not be made is stuck.                               *)
Cleared ==
  /\ tree.at \in {"none", "making"} => ~tree.parent
  /\ tree.at = "failed" /\ tree.parent => tree.stuck

LEMMA MovesRun ==
  ASSUME RunShaped, NEW stage \in Stages, RunGoes(stage)
  PROVE  /\ RunShaped' /\ run'.at = stage
         /\ run'.site = run.site /\ run'.diff = run.diff /\ run'.code = run.code
         /\ run'.out = run.out /\ run'.text = run.text /\ run'.warned = run.warned
         /\ run'.overridden = run.overridden /\ run'.status = run.status
  BY DEF RunShaped, RunGoes

LEMMA AnswersRun ==
  ASSUME RunShaped, NEW code, NEW status, AnswersWith(code, status)
  PROVE  /\ RunShaped' /\ run'.at = "answered" /\ run'.code = code
         /\ run'.site = run.site /\ run'.diff = run.diff
         /\ run'.out = run.out /\ run'.text = run.text /\ run'.warned = run.warned
         /\ run'.overridden = run.overridden /\ run'.status = status
  BY DEF RunShaped, AnswersWith, Stages

LEMMA ToldRun ==
  ASSUME RunShaped, NEW foretold, IsTold(foretold)
  PROVE  /\ RunShaped' /\ run'.at = "asked"
         /\ run'.site = run.site /\ run'.diff = run.diff /\ run'.code = run.code
         /\ run'.out = run.out /\ run'.text = run.text /\ run'.warned = run.warned
         /\ run'.overridden = run.overridden
  BY DEF RunShaped, IsTold, Stages

LEMMA RefusesRun ==
  ASSUME RunShaped, NEW code, Refuses(code)
  PROVE  /\ RunShaped' /\ run'.at \in {"asked", "answered"}
         /\ run'.site = run.site /\ run'.diff = run.diff
         /\ run'.out = run.out /\ run'.text = run.text /\ run'.warned = run.warned
         /\ run'.overridden = run.overridden
         /\ run'.at = "answered" => run'.code = code
<1>1. CASE ~Dry
  BY <1>1, AnswersRun DEF Refuses
<1>2. CASE Dry
  BY <1>2, ToldRun DEF Refuses
<1> QED
  BY <1>1, <1>2

LEMMA LeavesRun ==
  ASSUME RunShaped, NEW code, LeavesWith(code)
  PROVE  /\ RunShaped' /\ run'.at = "leaving" /\ run'.code = code
         /\ run'.site = run.site /\ run'.diff = run.diff
         /\ run'.out = run.out /\ run'.text = run.text /\ run'.warned = run.warned
         /\ run'.overridden = run.overridden
  BY DEF RunShaped, LeavesWith, Stages

LEMMA DeliversRun ==
  ASSUME RunShaped, NEW v, NEW diff, DeliversOr(v, diff)
  PROVE  /\ RunShaped' /\ run'.at = "leaving" /\ run'.site = run.site /\ run'.out = run.out
         /\ \/ /\ v.code = "ok" /\ run'.diff = diff /\ run'.text = v.text
               /\ run'.warned = v.warned /\ run'.overridden = v.overridden
            \/ v.code # "ok" /\ run'.code = v.code /\ run'.diff = run.diff
<1>1. CASE v.code = "ok"
  <2>1. run' = Delivered(v.text, v.warned, v.overridden, diff)
    BY <1>1 DEF DeliversOr
  <2> QED
    BY <1>1, <2>1 DEF Delivered, RunShaped, Stages
<1>2. CASE v.code # "ok"
  BY <1>2, LeavesRun DEF DeliversOr
<1> QED
  BY <1>1, <1>2

-----------------------------------------------------------------------------
(* The worktree.                                                           *)
Patches == UNION {[F -> Content \X Content] : F \in SUBSET Files}

TreeTyped ==
  tree \in [at : TreeStages, code : TreeCodes, parent : BOOLEAN, declared : BOOLEAN,
            base : Snapshot, files : Snapshot, patch : Patches, warned : BOOLEAN,
            seen : Snapshot, steady : BOOLEAN, wrote : SUBSET Files, committed : BOOLEAN,
            stuck : BOOLEAN]

(* How the worktree's commit and files relate to what was read of the      *)
(* caller's tree, at each stage of its making and once the agent is in it. *)
Seeded ==
  /\ tree.at \in {"reading", "applying"} => tree.base = tree.files
  /\ tree.at = "applying" /\ tree.steady =>
       \A f \in Files : IF f \in DOMAIN tree.patch THEN tree.patch[f][2] = tree.seen[f]
                        ELSE tree.files[f] = tree.seen[f]
  /\ tree.at = "committing" /\ tree.steady => tree.files = tree.seen
  /\ tree.at = "ready" =>
       /\ \A f \in Files : tree.base[f] # tree.files[f] => f \in tree.wrote
       /\ ~tree.committed /\ ~tree.warned /\ tree.steady => tree.base = tree.seen

(* The hook has named the directory, is about to, or could not delete it.  *)
Declared == tree.parent => tree.declared \/ tree.at = "declaring" \/ tree.stuck

TreeInv == TreeTyped /\ Seeded /\ Declared /\ Cleared

LEMMA SnapshotsAgree ==
  ASSUME NEW a \in Snapshot, NEW b \in Snapshot, \A f \in Files : a[f] = b[f]
  PROVE  a = b
  BY DEF Snapshot

LEMMA NoTreeYet == NoTree \in [at : {"none"}, code : {"none"}, parent : {FALSE}, declared : BOOLEAN,
            base : Snapshot, files : Snapshot, patch : Patches, warned : BOOLEAN,
            seen : Snapshot, steady : BOOLEAN, wrote : {{}}, committed : BOOLEAN,
            stuck : BOOLEAN]
<1>1. [f \in Files |-> Absent] \in Snapshot
  BY DEF Snapshot, Content
<1>2. [f \in {} |-> <<>>] \in Patches
  <2>1. [f \in {} |-> <<>>] \in [{} -> Content \X Content]
    OBVIOUS
  <2> QED
    BY <2>1 DEF Patches
<1> QED
  BY <1>1, <1>2 DEF NoTree

LEMMA CodesAreTrees ==
  ASSUME NEW code \in {"worktree_error", "internal_error", "not_a_git_repo"}
  PROVE  CodeOf(code) \in TreeCodes
  BY DEF CodeOf, TreeCodes

(* A creation that fails, before there is a directory and after.           *)
LEMMA FailsTree ==
  ASSUME TreeInv, ~tree.parent, NEW code \in {"worktree_error", "internal_error", "not_a_git_repo"},
         TreeFails(code)
  PROVE  TreeInv'
  BY CodesAreTrees DEF TreeInv, TreeTyped, Seeded, Declared, Cleared, TreeFails, TreeStages

LEMMA UndoesTree ==
  ASSUME TreeInv, tree.at # "declaring", NEW code \in {"worktree_error", "internal_error", "not_a_git_repo"},
         TreeUndone(code)
  PROVE  TreeInv'
  BY CodesAreTrees DEF TreeInv, TreeTyped, Seeded, Declared, Cleared, TreeUndone, TreeStages

LEMMA BreaksTree ==
  ASSUME TreeInv, tree.at # "declaring", CommandBreaks(TreeUndone)
  PROVE  TreeInv'
  BY UndoesTree DEF CommandBreaks

LEMMA UnseedsTree ==
  ASSUME TreeInv, tree.at \in {"reading", "applying"}, tree' = Unseeded
  PROVE  TreeInv'
  BY DEF TreeInv, TreeTyped, Seeded, Declared, Cleared, Unseeded, TreeStages

LEMMA TrackedIsSnapshot ==
  ASSUME Caller
  PROVE  Tracked \in Snapshot
  BY DEF Caller, Tracked, Snapshot, Content

LEMMA RemovesTree ==
  ASSUME TreeTyped, NEW left \in Removed
  PROVE  \/ left = [tree EXCEPT !.parent = FALSE]
         \/ left = [tree EXCEPT !.stuck = tree.parent]
  BY DEF Removed

LEMMA ParentMade ==
  ASSUME TreeInv, MakeParent
  PROVE  TreeInv'
<1>1. tree.at = "making" /\ ~tree.parent
  BY DEF MakeParent, TreeAt, TreeInv, Cleared
<1>2. CASE CommandBreaks(TreeFails)
  BY <1>1, <1>2, FailsTree DEF CommandBreaks
<1>3. CASE TreeFails("not_a_git_repo") \/ TreeFails("worktree_error")
  BY <1>1, <1>3, FailsTree
<1>4. CASE tree' = [tree EXCEPT !.at = "declaring", !.parent = TRUE]
  BY <1>4 DEF TreeInv, TreeTyped, Seeded, Declared, Cleared, TreeStages
<1> QED
  BY <1>2, <1>3, <1>4 DEF MakeParent

LEMMA ParentDeclared ==
  ASSUME TreeInv, Declare
  PROVE  TreeInv'
<1>1. tree.at = "declaring"
  BY DEF Declare, TreeAt
<1>2. CASE tree' = [tree EXCEPT !.at = "adding", !.declared = TRUE]
  BY <1>2 DEF TreeInv, TreeTyped, Seeded, Declared, Cleared, TreeStages
<1>3. ASSUME NEW left \in Removed, tree' = [left EXCEPT !.at = "failed", !.code = "internal_error"]
      PROVE  TreeInv'
  <2>1. CASE left = [tree EXCEPT !.parent = FALSE]
    BY <1>3, <2>1 DEF TreeInv, TreeTyped, Seeded, Declared, Cleared, TreeStages, TreeCodes
  <2>2. CASE left = [tree EXCEPT !.stuck = tree.parent]
    BY <1>3, <2>2 DEF TreeInv, TreeTyped, Seeded, Declared, Cleared, TreeStages, TreeCodes
  <2> QED
    BY <1>3, <2>1, <2>2, RemovesTree DEF TreeInv
<1> QED
  BY <1>2, <1>3 DEF Declare

LEMMA TreeAdded ==
  ASSUME TreeInv, Caller, AddTree
  PROVE  TreeInv'
<1>1. tree.at = "adding"
  BY DEF AddTree, TreeAt
<1>2. CASE CommandBreaks(TreeUndone)
  BY <1>1, <1>2, BreaksTree
<1>3. CASE tree' = [tree EXCEPT !.at = "reading", !.base = head, !.files = head]
  BY <1>1, <1>3 DEF TreeInv, TreeTyped, Seeded, Declared, Cleared, TreeStages, Caller
<1> QED
  BY <1>2, <1>3 DEF AddTree

LEMMA PatchIsPatch ==
  ASSUME Caller
  PROVE  [f \in Differing(head, Tracked) |-> <<head[f], Tracked[f]>>] \in Patches
<1> DEFINE changed == Differing(head, Tracked)
           patch == [f \in changed |-> <<head[f], Tracked[f]>>]
<1>1. changed \in SUBSET Files
  BY DEF Differing
<1>2. \A f \in changed : head[f] \in Content /\ Tracked[f] \in Content
  BY <1>1, TrackedIsSnapshot DEF Caller, Snapshot
<1> HIDE DEF changed
<1>3. patch \in [changed -> Content \X Content]
  BY <1>2
<1> QED
  BY <1>1, <1>3 DEF Patches, changed

LEMMA LiveRead ==
  ASSUME TreeInv, Caller, ReadLive
  PROVE  TreeInv'
<1>1. tree.at = "reading" /\ tree.base = tree.files
  BY DEF ReadLive, TreeAt, TreeInv, Seeded
<1>2. CASE CommandBreaks(TreeUndone)
  BY <1>1, <1>2, BreaksTree
<1>3. CASE tree' = Unseeded
  BY <1>1, <1>3, UnseedsTree
<1> DEFINE changed == Differing(head, Tracked)
           patch == [f \in changed |-> <<head[f], Tracked[f]>>]
<1>4. /\ Tracked \in Snapshot /\ head \in Snapshot
      /\ changed \subseteq Files /\ patch \in Patches
      /\ \A f \in Files : f \notin changed => head[f] = Tracked[f]
  BY TrackedIsSnapshot, PatchIsPatch DEF Caller, Differing
<1>5. DOMAIN patch = changed /\ \A f \in changed : patch[f][2] = Tracked[f]
  OBVIOUS
<1>6. changed = {} => head = Tracked
  BY <1>4, SnapshotsAgree
<1> HIDE DEF changed, patch
<1>7. CASE changed = {} /\ tree' = [[tree EXCEPT !.seen = Tracked, !.steady = head = tree.base] EXCEPT !.at = "ready"]
  BY <1>1, <1>4, <1>6, <1>7 DEF TreeInv, TreeTyped, Seeded, Declared, Cleared, TreeStages
<1>8. CASE tree' = [[tree EXCEPT !.seen = Tracked, !.steady = head = tree.base]
                      EXCEPT !.at = "applying", !.patch = patch]
  <2>1. TreeTyped' /\ Declared' /\ Cleared'
    BY <1>1, <1>4, <1>8 DEF TreeInv, TreeTyped, Declared, Cleared, TreeStages
  <2>2. /\ tree'.at = "applying" /\ tree'.base = tree.base /\ tree'.files = tree.files
        /\ tree'.patch = patch /\ tree'.seen = Tracked
        /\ tree'.steady <=> head = tree.base
    BY <1>8 DEF TreeInv, TreeTyped
  <2>3. Seeded'
    BY <1>1, <1>4, <1>5, <2>2 DEF Seeded
  <2> QED
    BY <2>1, <2>3 DEF TreeInv
<1> QED
  BY <1>2, <1>3, <1>7, <1>8 DEF ReadLive, changed, patch

LEMMA PatchApplied ==
  ASSUME TreeInv, Caller, ApplyPatch
  PROVE  TreeInv'
<1>1. tree.at = "applying" /\ tree.base = tree.files
  BY DEF ApplyPatch, TreeAt, TreeInv, Seeded
<1>2. CASE CommandBreaks(TreeUndone)
  BY <1>1, <1>2, BreaksTree
<1>3. CASE tree' = Unseeded
  BY <1>1, <1>3, UnseedsTree
<1>4. CASE Applies /\ tree' = [tree EXCEPT !.at = "committing", !.files = Patched]
  <2>1. tree.files \in Snapshot /\ tree.seen \in Snapshot /\ tree.patch \in Patches
    BY DEF TreeInv, TreeTyped
  <2>2. PICK F \in SUBSET Files : tree.patch \in [F -> Content \X Content]
    BY <2>1 DEF Patches
  <2>3. Patched \in Snapshot
    <3>1. \A f \in DOMAIN tree.patch : tree.patch[f][2] \in Content
      BY <2>2
    <3> QED
      BY <2>1, <3>1 DEF Patched, Snapshot
  <2>4. TreeTyped' /\ Declared' /\ Cleared'
    BY <1>1, <1>4, <2>3 DEF TreeInv, TreeTyped, Declared, Cleared, TreeStages
  <2>5. tree.steady => Patched = tree.seen
    <3> SUFFICES ASSUME tree.steady
                 PROVE  \A f \in Files : Patched[f] = tree.seen[f]
      BY <2>1, <2>3, SnapshotsAgree
    <3> QED
      BY <1>1 DEF TreeInv, Seeded, Patched
  <2>6. Seeded'
    BY <1>4, <2>5 DEF Seeded, TreeInv, TreeTyped
  <2> QED
    BY <2>4, <2>6 DEF TreeInv
<1> QED
  BY <1>2, <1>3, <1>4 DEF ApplyPatch

LEMMA BaselineCommitted ==
  ASSUME TreeInv, CommitBaseline
  PROVE  TreeInv'
<1>1. tree.at = "committing"
  BY DEF CommitBaseline, TreeAt
<1>2. CASE CommandBreaks(TreeUndone)
  BY <1>1, <1>2, BreaksTree
<1>3. CASE TreeUndone("worktree_error")
  BY <1>1, <1>3, UndoesTree
<1>4. CASE tree' = [tree EXCEPT !.at = "ready", !.base = tree.files]
  BY <1>1, <1>4 DEF TreeInv, TreeTyped, Seeded, Declared, Cleared, TreeStages
<1> QED
  BY <1>2, <1>3, <1>4 DEF CommitBaseline

LEMMA CreationUndone ==
  ASSUME TreeInv, Undo
  PROVE  TreeInv'
<1>1. tree.at = "undoing"
  BY DEF Undo, TreeAt
<1> SUFFICES ASSUME NEW left \in Removed, tree' = [left EXCEPT !.at = "failed"]
             PROVE  TreeInv'
  BY DEF Undo
<1>2. CASE left = [tree EXCEPT !.parent = FALSE]
  BY <1>2 DEF TreeInv, TreeTyped, Seeded, Declared, Cleared, TreeStages
<1>3. CASE left = [tree EXCEPT !.stuck = tree.parent]
  BY <1>3 DEF TreeInv, TreeTyped, Seeded, Declared, Cleared, TreeStages
<1> QED
  BY <1>2, <1>3, RemovesTree DEF TreeInv

LEMMA TreeEntered ==
  ASSUME TreeInv, Caller, Enter
  PROVE  TreeInv'
  BY ParentMade, ParentDeclared, TreeAdded, LiveRead, PatchApplied, BaselineCommitted,
     CreationUndone DEF Enter

(* The agent, in a worktree that is ready for it.                          *)
LEMMA AgentKeepsTree ==
  ASSUME TreeInv, \/ AgentCommits
                  \/ \E f \in Files : AgentWrites(f)
  PROVE  TreeInv' /\ tree'.at = tree.at
<1>1. CASE AgentCommits
  BY <1>1 DEF AgentCommits, TreeAt, TreeInv, TreeTyped, Seeded, Declared, Cleared, TreeStages
<1>2. ASSUME NEW f \in Files, NEW c \in {Absent, Agents}, tree.at = "ready",
             tree' = [tree EXCEPT !.files[f] = c, !.wrote = @ \cup {f}]
      PROVE  TreeInv' /\ tree'.at = tree.at
  <2>1. [tree.files EXCEPT ![f] = c] \in Snapshot
    BY DEF TreeInv, TreeTyped, Snapshot, Content
  <2>2. TreeTyped' /\ Declared' /\ Cleared' /\ tree'.at = "ready"
    BY <1>2, <2>1 DEF TreeInv, TreeTyped, Declared, Cleared
  <2>3. /\ tree'.base = tree.base /\ tree'.seen = tree.seen /\ tree'.warned = tree.warned
        /\ tree'.committed = tree.committed /\ tree'.steady = tree.steady
        /\ tree'.files = [tree.files EXCEPT ![f] = c] /\ tree'.wrote = tree.wrote \cup {f}
    BY <1>2 DEF TreeInv, TreeTyped
  <2>4. \A g \in Files : g # f => tree'.files[g] = tree.files[g]
    BY <2>3 DEF TreeInv, TreeTyped, Snapshot
  <2>5. Seeded'
    BY <1>2, <2>2, <2>3, <2>4 DEF Seeded, TreeInv
  <2> QED
    BY <1>2, <2>2, <2>5 DEF TreeInv
<1> QED
  BY <1>1, <1>2 DEF AgentWrites, TreeAt

(* What leaving the site makes of a worktree that was ready.               *)
LEMMA RemovedTree ==
  ASSUME TreeInv, tree.at = "ready", tree' \in Removed
  PROVE  /\ TreeInv' /\ tree'.at = "ready"
         /\ tree'.parent => tree'.stuck
         /\ tree'.base = tree.base /\ tree'.files = tree.files /\ tree'.seen = tree.seen
         /\ tree'.wrote = tree.wrote /\ tree'.committed = tree.committed
         /\ tree'.warned = tree.warned /\ tree'.steady = tree.steady
<1>1. CASE tree' = [tree EXCEPT !.parent = FALSE]
  BY <1>1 DEF TreeInv, TreeTyped, Seeded, Declared, Cleared
<1>2. CASE tree' = [tree EXCEPT !.stuck = tree.parent]
  BY <1>2 DEF TreeInv, TreeTyped, Seeded, Declared, Cleared
<1> QED
  BY <1>1, <1>2, RemovesTree DEF TreeInv

-----------------------------------------------------------------------------
(* The run around it.                                                      *)

(* Once a run has answered, nothing is left that could be removed.         *)
Handed == run.at = "answered" /\ tree.parent => tree.stuck

(* The patch of a delegate that is on its way out or delivered.            *)
PatchIsTheAgents ==
  run.at \in {"leaving", "answered"} /\ Delegates /\ run.code = "ok" =>
    /\ DOMAIN run.diff \subseteq tree.wrote
    /\ ~tree.committed =>
         \A f \in tree.wrote : f \in DOMAIN run.diff \/ tree.base[f] = tree.files[f]
    /\ ~tree.committed /\ ~tree.warned /\ tree.steady =>
         \A f \in DOMAIN run.diff : run.diff[f][1] = tree.seen[f]

PipelineInv == RunShaped /\ Caller /\ Sited /\ TreeInv /\ Handed /\ PatchIsTheAgents

LEMMA TreeStays ==
  ASSUME TreeInv, UNCHANGED tree
  PROVE  TreeInv'
  BY DEF TreeInv, TreeTyped, Seeded, Declared, Cleared

LEMMA CallerStays ==
  ASSUME Caller, UNCHANGED repoVars
  PROVE  Caller'
  BY DEF Caller, repoVars

LEMMA FailureIsNotOk ==
  ASSUME NEW out
  PROVE  Failure(out) # "ok"
<1>1. \A c : DriftCode(c) # "ok"
  BY DEF DriftCode
<1>2. \A c : CodexCode(c) # "ok"
  BY <1>1 DEF CodexCode
<1>3. \A c : ClaudeCode(c) # "ok"
  BY DEF ClaudeCode
<1>4. \A c : KimiCode(c) # "ok"
  BY DEF KimiCode
<1>5. \A c : Classified(c) # "ok"
  BY <1>2, <1>3, <1>4 DEF Classified
<1>6. Inspected(out) # "ok"
  BY <1>3 DEF Inspected
<1> QED
  BY <1>5, <1>6 DEF Failure

LEMMA InvalidIsNotOk == Invalid # "ok"
  BY DEF Invalid

(* A run that has no worktree yet and goes on, or ends.                    *)
LEMMA EarlyStep ==
  ASSUME PipelineInv, run.at \in Before, UNCHANGED <<spec, tree>>, RunShaped', Caller',
         run'.site = run.site, run'.diff = run.diff,
         run'.at \in Before \cup {"answered", "killed"}
  PROVE  PipelineInv'
<1>1. TreeInv'
  BY TreeStays DEF PipelineInv
<1>2. tree' = NoTree /\ run'.site = "none" /\ run'.diff = NoPatch
  BY DEF PipelineInv, Sited
<1>3. Sited'
  BY <1>2 DEF Sited, Before, OnSite
<1>4. Handed' /\ PatchIsTheAgents'
  BY <1>2 DEF Handed, PatchIsTheAgents, NoTree, NoPatch
<1> QED
  BY <1>1, <1>3, <1>4 DEF PipelineInv

(* One that is on its site and goes on, or fails.                          *)
LEMMA WithinStep ==
  ASSUME PipelineInv, run.at \in OnSite \ {"leaving"}, UNCHANGED <<spec, tree>>, RunShaped', Caller',
         run'.site = run.site, run'.at \in OnSite \cup {"killed"},
         run'.at = "capturing" => Delegates,
         run'.at = "leaving" => run'.code # "ok" \/ ~Delegates
  PROVE  PipelineInv'
<1>1. TreeInv'
  BY TreeStays DEF PipelineInv
<1>2. Sited'
  BY DEF PipelineInv, Sited, Before, OnSite, Delegates
<1>3. Handed' /\ PatchIsTheAgents'
  BY DEF Handed, PatchIsTheAgents, OnSite, Delegates
<1> QED
  BY <1>1, <1>2, <1>3 DEF PipelineInv

LEMMA EarlyKeeps ==
  ASSUME PipelineInv, Preflight \/ EnsureRepo \/ Plan \/ Count \/ Compose
  PROVE  PipelineInv'
<1>0. RunShaped /\ UNCHANGED <<spec, tree>> /\ Caller' /\ run.at \in Before
  BY CallerStays DEF PipelineInv, Preflight, EnsureRepo, Plan, Count, Compose, RunAt, Before
<1> DEFINE Goes == /\ RunShaped' /\ run'.site = run.site /\ run'.diff = run.diff
                   /\ run'.at \in Before \cup {"answered", "killed"}
<1>1. (\E code : Refuses(code)) => Goes
  BY <1>0, RefusesRun DEF Before
<1>2. (\E stage \in Before : RunGoes(stage)) => Goes
  BY <1>0, MovesRun DEF Before, Stages
<1>3. (\E foretold : IsTold(foretold)) => Goes
  BY <1>0, ToldRun DEF Before
<1>4. CASE Preflight
  <2>1. CASE Unfit
    BY <1>1, <1>4, <2>1, <1>0, EarlyStep DEF Preflight
  <2>2. CASE ~Unfit
    <3>1. \E stage \in {"checking", "composing"} : \E foretold :
            run' = [run EXCEPT !.at = stage, !.foretold = foretold]
      BY <1>4, <2>2 DEF Preflight
    <3>2. Goes
      BY <1>0, <3>1 DEF RunShaped, Before, Stages
    <3> QED
      BY <1>0, <3>2, EarlyStep
  <2> QED
    BY <2>1, <2>2
<1>5. CASE EnsureRepo
  <2>1. (\E code : Refuses(code)) \/ (\E stage \in Before : RunGoes(stage))
    BY <1>5 DEF EnsureRepo, Before
  <2> QED
    BY <1>0, <1>1, <1>2, <2>1, EarlyStep
<1>6. CASE Plan
  <2>1. CASE \E code \in PlanFailures : Refuses(code)
    BY <1>0, <1>1, <2>1, EarlyStep
  <2>2. CASE run' = [run EXCEPT !.at = "counting", !.foretold = Planned(@)]
    <3>1. Goes
      BY <1>0, <2>2 DEF RunShaped, Before, Stages
    <3> QED
      BY <1>0, <3>1, EarlyStep
  <2> QED
    BY <1>6, <2>1, <2>2 DEF Plan
<1>7. CASE Count
  <2>1. (\E code : Refuses(code)) \/ (\E foretold : IsTold(foretold))
    BY <1>7 DEF Count
  <2> QED
    BY <1>0, <1>1, <1>3, <2>1, EarlyStep
<1>8. CASE Compose
  <2>1. \/ \E code : Refuses(code)
        \/ \E stage \in Before : RunGoes(stage)
        \/ \E foretold : IsTold(foretold)
        \/ AnswersWith("ok", "not_run")
        \/ UNCHANGED run
    BY <1>8 DEF Compose, Before, NotRun
  <2>2. AnswersWith("ok", "not_run") => Goes
    BY <1>0, AnswersRun DEF Before
  <2>3. (UNCHANGED run) => Goes
    BY <1>0 DEF RunShaped
  <2> QED
    BY <1>0, <1>1, <1>2, <1>3, <2>1, <2>2, <2>3, EarlyStep
<1> QED
  BY <1>4, <1>5, <1>6, <1>7, <1>8

LEMMA SiteSelected ==
  ASSUME PipelineInv, SelectSite
  PROVE  PipelineInv'
<1>1. /\ RunShaped /\ TreeInv /\ UNCHANGED spec /\ Caller' /\ run.at = "choosing"
      /\ run.site = "none" /\ run.diff = NoPatch /\ tree = NoTree
  BY CallerStays DEF PipelineInv, SelectSite, RunAt, Sited, Before
<1>2. CASE EntersTree
  <2>1. /\ RunShaped' /\ run'.at = "entering" /\ run'.site = "tree"
    BY <1>1, <1>2 DEF EntersTree, RunShaped, Stages, Sites
  <2>2. TreeInv' /\ tree'.at = "making"
    BY <1>1, <1>2 DEF EntersTree, TreeInv, TreeTyped, Seeded, Declared, Cleared, TreeStages, NoTree
  <2>3. Sited' /\ Handed' /\ PatchIsTheAgents'
    BY <2>1, <2>2 DEF Sited, Handed, PatchIsTheAgents, Before, OnSite
  <2> QED
    BY <1>1, <2>1, <2>2, <2>3 DEF PipelineInv
<1>3. ASSUME NEW site \in {"direct", "empty"}, ~Delegates, UNCHANGED tree,
             run' = [run EXCEPT !.at = "launching", !.site = site]
      PROVE  PipelineInv'
  <2>1. /\ RunShaped' /\ run'.at = "launching" /\ run'.site = site
    BY <1>1, <1>3 DEF RunShaped, Stages, Sites
  <2>2. TreeInv' /\ tree' = NoTree
    BY <1>1, <1>3, TreeStays
  <2>3. Sited' /\ Handed' /\ PatchIsTheAgents'
    BY <1>1, <1>3, <2>1, <2>2 DEF Sited, Handed, PatchIsTheAgents, Before, OnSite, Delegates
  <2> QED
    BY <1>1, <2>1, <2>2, <2>3 DEF PipelineInv
<1>4. CASE AnswersWith("internal_error", "none") /\ UNCHANGED tree
  BY <1>1, <1>4, AnswersRun, EarlyStep DEF Before
<1>5. \/ EntersTree
      \/ /\ ~Delegates /\ UNCHANGED tree
         /\ \E site \in {"direct", "empty"} :
              run' = [run EXCEPT !.at = "launching", !.site = site]
      \/ AnswersWith("internal_error", "none") /\ UNCHANGED tree
  BY DEF SelectSite, Isolated, Delegates
<1> QED
  BY <1>2, <1>3, <1>4, <1>5

LEMMA SiteEntered ==
  ASSUME PipelineInv, EnterSite
  PROVE  PipelineInv'
<1>1. /\ RunShaped /\ TreeInv /\ Caller /\ UNCHANGED spec /\ Caller' /\ run.at = "entering"
      /\ run.site = "tree"
  BY CallerStays DEF PipelineInv, EnterSite, RunAt, Sited
<1>2. CASE Enter /\ UNCHANGED run
  <2>1. TreeInv'
    BY <1>1, <1>2, TreeEntered
  <2>2. RunShaped' /\ Sited' /\ Handed' /\ PatchIsTheAgents'
    BY <1>1, <1>2 DEF RunShaped, Sited, Handed, PatchIsTheAgents, Before, OnSite
  <2> QED
    BY <1>1, <2>1, <2>2 DEF PipelineInv
<1>3. CASE tree.at = "failed" /\ AnswersWith(tree.code, "none") /\ UNCHANGED tree
  <2>1. RunShaped' /\ run'.at = "answered" /\ run'.site = "tree" /\ run'.code = tree.code
    BY <1>1, <1>3, AnswersRun
  <2>2. tree.code # "ok"
    BY <1>1 DEF TreeInv, TreeTyped, TreeCodes
  <2>3. TreeInv'
    BY <1>1, <1>3, TreeStays
  <2>4. Sited' /\ Handed' /\ PatchIsTheAgents'
    BY <1>1, <1>3, <2>1, <2>2 DEF Sited, Handed, PatchIsTheAgents, Before, OnSite, TreeInv, Cleared
  <2> QED
    BY <1>1, <2>1, <2>3, <2>4 DEF PipelineInv
<1>4. CASE tree.at = "ready" /\ RunGoes("launching") /\ UNCHANGED tree
  <2>1. RunShaped' /\ run'.at = "launching" /\ run'.site = "tree"
    BY <1>1, <1>4, MovesRun DEF Stages
  <2>2. TreeInv'
    BY <1>1, <1>4, TreeStays
  <2>3. Sited' /\ Handed' /\ PatchIsTheAgents'
    BY <1>1, <1>4, <2>1 DEF Sited, Handed, PatchIsTheAgents, Before, OnSite
  <2> QED
    BY <1>1, <2>1, <2>2, <2>3 DEF PipelineInv
<1> QED
  BY <1>2, <1>3, <1>4 DEF EnterSite, TreeAt

LEMMA LaunchKeeps ==
  ASSUME PipelineInv, Launch \/ BackendEnds \/ CancelLands
  PROVE  PipelineInv'
<1>1. /\ RunShaped /\ UNCHANGED <<spec, tree>> /\ Caller' /\ run.at \in {"launching", "running"}
  BY CallerStays DEF PipelineInv, Launch, BackendEnds, CancelLands, RunAt
<1>2. (\E code : code # "ok" /\ LeavesWith(code)) =>
        /\ RunShaped' /\ run'.at = "leaving" /\ run'.code # "ok" /\ run'.site = run.site
  BY <1>1, LeavesRun
<1>3. CASE \E out, reply : run' = [run EXCEPT !.at = "folding", !.out = out, !.reply = reply]
  <2>1. RunShaped' /\ run'.at = "folding" /\ run'.site = run.site
    BY <1>1, <1>3 DEF RunShaped, Stages
  <2> QED
    BY <1>1, <2>1, WithinStep DEF OnSite
<1>4. CASE run' = [run EXCEPT !.at = "folding", !.out = Unspawned]
  <2>1. RunShaped' /\ run'.at = "folding" /\ run'.site = run.site
    BY <1>1, <1>4 DEF RunShaped, Stages
  <2> QED
    BY <1>1, <2>1, WithinStep DEF OnSite
<1>5. CASE RunGoes("running")
  <2>1. RunShaped' /\ run'.at = "running" /\ run'.site = run.site
    BY <1>1, <1>5, MovesRun DEF Stages
  <2> QED
    BY <1>1, <2>1, WithinStep DEF OnSite
<1>6. \/ \E code : code # "ok" /\ LeavesWith(code)
      \/ \E out, reply : run' = [run EXCEPT !.at = "folding", !.out = out, !.reply = reply]
      \/ run' = [run EXCEPT !.at = "folding", !.out = Unspawned]
      \/ RunGoes("running")
  BY InvalidIsNotOk DEF Launch, BackendEnds, CancelLands
<1> QED
  BY <1>1, <1>2, <1>3, <1>4, <1>5, <1>6, WithinStep DEF OnSite

LEMMA AgentActsKeeps ==
  ASSUME PipelineInv, AgentActs
  PROVE  PipelineInv'
<1>1. run.at = "running" /\ run.site = "tree" /\ UNCHANGED <<repoVars, spec, run>>
  BY DEF AgentActs, RunAt
<1>2. TreeInv' /\ tree'.at = tree.at
  BY AgentKeepsTree DEF AgentActs, PipelineInv
<1>3. RunShaped' /\ Caller' /\ Sited' /\ Handed' /\ PatchIsTheAgents'
  BY <1>1, <1>2, CallerStays DEF PipelineInv, RunShaped, Sited, Handed, PatchIsTheAgents, OnSite,
                                Before, Delegates
<1> QED
  BY <1>2, <1>3 DEF PipelineInv

LEMMA FoldKeeps ==
  ASSUME PipelineInv, Fold
  PROVE  PipelineInv'
<1>1. RunShaped /\ UNCHANGED <<spec, tree>> /\ Caller' /\ run.at = "folding"
  BY CallerStays DEF PipelineInv, Fold, RunAt
<1>2. CASE LeavesWith("invalid_workspace_root")
  BY <1>1, <1>2, LeavesRun, WithinStep DEF OnSite
<1>3. CASE Failed /\ run' = [run EXCEPT !.at = "leaving", !.code = Failure(run.out),
                               !.said = Stored(IF Failure(run.out) = "nonzero_exit"
                                               THEN FailureSaid(spec.words, run.site # "direct")
                                               ELSE Unsaid)]
  <2>1. RunShaped' /\ run'.at = "leaving" /\ run'.code = Failure(run.out) /\ run'.site = run.site
    BY <1>1, <1>3 DEF RunShaped, Stages
  <2> QED
    BY <1>1, <2>1, FailureIsNotOk, WithinStep DEF OnSite
<1>4. CASE Delegates /\ RunGoes("capturing")
  <2>1. RunShaped' /\ run'.at = "capturing" /\ run'.site = run.site
    BY <1>1, <1>4, MovesRun DEF Stages
  <2> QED
    BY <1>1, <1>4, <2>1, WithinStep DEF OnSite
<1>5. CASE ~Delegates /\ Concludes(NoPatch)
  <2>1. RunShaped' /\ run'.at = "leaving" /\ run'.site = run.site
    BY <1>1, <1>5, DeliversRun DEF Concludes
  <2> QED
    BY <1>1, <1>5, <2>1, WithinStep DEF OnSite
<1> QED
  BY <1>2, <1>3, <1>4, <1>5 DEF Fold

LEMMA CaptureKeeps ==
  ASSUME PipelineInv, Capture
  PROVE  PipelineInv'
<1>1. /\ RunShaped /\ UNCHANGED <<spec, tree>> /\ Caller' /\ run.at = "capturing" /\ Delegates
      /\ run.site = "tree" /\ tree.at = "ready" /\ TreeInv
  BY CallerStays DEF PipelineInv, Capture, RunAt, Sited, OnSite
<1>2. CASE LeavesWith("worktree_error") \/ LeavesWith("internal_error")
  <2>1. RunShaped' /\ run'.at = "leaving" /\ run'.code # "ok" /\ run'.site = run.site
    BY <1>1, <1>2, LeavesRun
  <2> QED
    BY <1>1, <2>1, WithinStep DEF OnSite
<1>3. CASE Concludes(Captured)
  <2> DEFINE v == Concluded(run.out, DOMAIN Captured # {})
  <2>1. /\ RunShaped' /\ run'.at = "leaving" /\ run'.site = run.site
        /\ \/ run'.diff = Captured
           \/ run'.code # "ok"
    BY <1>1, <1>3, DeliversRun DEF Concludes
  <2>2. CASE run'.code # "ok"
    BY <1>1, <2>1, <2>2, WithinStep DEF OnSite
  <2>3. CASE run'.diff = Captured
    <3>1. DOMAIN Captured = Differing(tree.base, tree.files)
      BY DEF Captured
    <3>2. \A f \in DOMAIN Captured : Captured[f][1] = tree.base[f]
      BY DEF Captured
    <3>3. Differing(tree.base, tree.files) \subseteq tree.wrote
      BY <1>1 DEF Differing, TreeInv, Seeded
    <3>4. \A f \in tree.wrote : f \in DOMAIN Captured \/ tree.base[f] = tree.files[f]
      BY <1>1, <3>1 DEF Differing, TreeInv, TreeTyped
    <3>5. ~tree.committed /\ ~tree.warned /\ tree.steady => tree.base = tree.seen
      BY <1>1 DEF TreeInv, Seeded
    <3>6. tree' = tree
      BY <1>1
    <3>7. PatchIsTheAgents'
      BY <2>3, <3>1, <3>2, <3>3, <3>4, <3>5, <3>6 DEF PatchIsTheAgents
    <3>8. TreeInv' /\ Sited' /\ Handed'
      BY <1>1, <2>1, TreeStays DEF Sited, Handed, OnSite, Before, Delegates
    <3> QED
      BY <1>1, <2>1, <3>7, <3>8 DEF PipelineInv
  <2> QED
    BY <2>1, <2>2, <2>3
<1> QED
  BY <1>2, <1>3 DEF Capture

LEMMA LeaveKeeps ==
  ASSUME PipelineInv, Leave
  PROVE  PipelineInv'
<1>1. /\ RunShaped /\ UNCHANGED <<repoVars, spec>> /\ Caller' /\ run.at = "leaving" /\ TreeInv
      /\ RunGoes("answered") /\ PatchIsTheAgents
  BY CallerStays DEF PipelineInv, Leave, RunAt
<1>2. /\ RunShaped' /\ run'.at = "answered" /\ run'.site = run.site /\ run'.diff = run.diff
      /\ run'.code = run.code
  BY <1>1, MovesRun DEF Stages
<1>3. CASE run.site = "tree"
  <2>1. tree.at = "ready" /\ tree' \in Removed
    BY <1>1, <1>3 DEF Leave, PipelineInv, Sited, OnSite
  <2>2. PatchIsTheAgents'
    BY <1>1, <1>2, <2>1, RemovedTree DEF PatchIsTheAgents, Delegates
  <2>3. TreeInv' /\ Handed' /\ Sited'
    BY <1>1, <1>2, <1>3, <2>1, RemovedTree DEF Handed, Sited, Before, OnSite
  <2> QED
    BY <1>1, <1>2, <2>2, <2>3 DEF PipelineInv
<1>4. CASE run.site # "tree"
  <2>1. tree' = tree /\ tree = NoTree
    BY <1>4 DEF Leave, PipelineInv, Sited
  <2>2. TreeInv' /\ Sited' /\ Handed'
    BY <1>1, <1>2, <1>4, <2>1, TreeStays DEF Handed, Sited, Before, OnSite, NoTree
  <2>3. PatchIsTheAgents'
    BY <1>1, <1>2, <2>1 DEF PatchIsTheAgents, Delegates
  <2> QED
    BY <1>1, <1>2, <2>2, <2>3 DEF PipelineInv
<1> QED
  BY <1>3, <1>4

LEMMA StopsKeep ==
  ASSUME PipelineInv, Cancel \/ Kill
  PROVE  PipelineInv'
<1>1. RunShaped /\ UNCHANGED <<repoVars, spec, tree>> /\ Caller' /\ TreeInv'
  BY CallerStays, TreeStays DEF PipelineInv, Cancel, Kill
<1>2. CASE Cancel
  <2>1. /\ RunShaped' /\ run'.at = run.at /\ run'.site = run.site /\ run'.diff = run.diff
        /\ run'.code = run.code
    BY <1>1, <1>2 DEF Cancel, RunShaped
  <2> QED
    BY <1>1, <2>1 DEF PipelineInv, Sited, Handed, PatchIsTheAgents, Delegates
<1>3. CASE Kill
  <2>1. RunShaped' /\ run'.at = "killed" /\ run'.site = run.site
    BY <1>1, <1>3, MovesRun DEF Kill, Stages
  <2> QED
    BY <1>1, <2>1 DEF PipelineInv, Sited, Handed, PatchIsTheAgents, Before, OnSite
<1> QED
  BY <1>2, <1>3

LEMMA UserKeeps ==
  ASSUME PipelineInv, UserActs
  PROVE  PipelineInv'
<1>1. UNCHANGED <<spec, gather, tree, run>>
  BY DEF UserActs
<1>2. Caller'
  <2>1. Caller /\ Root \in Snapshot
    BY DEF PipelineInv, Root, Snapshot, Content
  <2>2. ASSUME NEW f \in Files, Edit(f)
        PROVE  Caller'
    BY <2>1, <2>2 DEF Caller, Edit, Snapshot, Content
  <2>3. ASSUME NEW f \in Files, Stage(f)
        PROVE  Caller'
    BY <2>1, <2>3 DEF Caller, Stage, Snapshot
  <2>4. CASE Commit \/ Vanish
    BY <2>1, <2>4 DEF Caller, Commit, Vanish
  <2>5. CASE Reset(Root)
    <3>1. [f \in Files |-> IF f \in Untracked /\ Root[f] = Absent THEN live[f] ELSE Root[f]] \in Snapshot
      BY <2>1 DEF Caller, Snapshot
    <3> QED
      BY <2>1, <2>5, <3>1 DEF Caller, Reset
  <2> QED
    BY <2>2, <2>3, <2>4, <2>5 DEF UserActs
<1>3. TreeInv'
  BY <1>1, TreeStays DEF PipelineInv
<1> QED
  BY <1>1, <1>2, <1>3 DEF PipelineInv, RunShaped, Sited, Handed, PatchIsTheAgents, Delegates

LEMMA PipelineInit == Init => PipelineInv
<1> SUFFICES ASSUME Init
             PROVE  PipelineInv
  OBVIOUS
<1>0. PICK family \in Profiles : \E p \in family :
        /\ head \in p.heads /\ staged \in p.indexes /\ live \in p.trees
        /\ tree = NoTree /\ run = NoRun
  BY DEF Init
<1>1. PICK p \in family :
        /\ head \in p.heads /\ staged \in p.indexes /\ live \in p.trees
        /\ tree = NoTree /\ run = NoRun
  BY <1>0
<1>2. Caller
  BY <1>1, RequestAssumption DEF Caller
<1>3. TreeInv
  BY <1>1, NoTreeYet DEF TreeInv, TreeTyped, Seeded, Declared, Cleared, TreeStages, TreeCodes
<1>4. RunShaped
  BY <1>1 DEF RunShaped, NoRun, Stages, Sites
<1>5. Sited /\ Handed /\ PatchIsTheAgents
  BY <1>1 DEF Sited, Handed, PatchIsTheAgents, NoRun, Before, OnSite
<1> QED
  BY <1>2, <1>3, <1>4, <1>5 DEF PipelineInv

LEMMA PipelineNext == PipelineInv /\ [Next]_vars => PipelineInv'
<1> SUFFICES ASSUME PipelineInv, [Next]_vars
             PROVE  PipelineInv'
  OBVIOUS
<1>1. CASE UNCHANGED vars
  <2>1. TreeInv' /\ Caller'
    BY <1>1, TreeStays, CallerStays DEF PipelineInv, vars
  <2> QED
    BY <1>1, <2>1 DEF vars, PipelineInv, RunShaped, Sited, Handed, PatchIsTheAgents, Delegates
<1>2. CASE Next
  BY <1>1, <1>2, EarlyKeeps, SiteSelected, SiteEntered, LaunchKeeps, AgentActsKeeps, FoldKeeps,
     CaptureKeeps, LeaveKeeps, StopsKeep, UserKeeps DEF Next, Finished
<1> QED
  BY <1>1, <1>2

-----------------------------------------------------------------------------
(* The directory of a worktree is named by the manifest from the hook on,  *)
(* whatever fails and whenever the worker dies, and a run that answers     *)
(* leaves none that could be removed (create, remove, WorktreeSite).       *)
THEOREM WorktreesAreDeclared == Spec => []TreesAreDeclared
<1>1. PipelineInv => TreesAreDeclared
  BY DEF PipelineInv, TreeInv, Declared, Handed, TreesAreDeclared, RunAt, TreeAt
<1> QED
  BY <1>1, PipelineInit, PipelineNext, PTL DEF Spec

(* What a delegate delivers is a patch of the agent's work and no change   *)
(* of the caller's, over what the caller's tree held, whatever the caller  *)
(* does meanwhile (_seed_uncommitted, capture_diff).                       *)
THEOREM PatchesAreTheAgents == Spec => []DiffIsTheAgentsWork
<1>1. PipelineInv => DiffIsTheAgentsWork
  BY DEF PipelineInv, PatchIsTheAgents, DiffIsTheAgentsWork, RunAt
<1> QED
  BY <1>1, PipelineInit, PipelineNext, PTL DEF Spec

-----------------------------------------------------------------------------
(* The answer.                                                             *)
Spoken == {Early, Final, Lost}

LEMMA MaxIs ==
  ASSUME NEW S \in SUBSET Int, NEW m \in S, \A k \in S : m >= k
  PROVE  Max(S) = m
<1>1. \E n \in S : \A k \in S : n >= k
  OBVIOUS
<1>2. Max(S) \in S /\ \A k \in S : Max(S) >= k
  BY <1>1 DEF Max
<1>3. m >= Max(S) /\ Max(S) >= m
  BY <1>2
<1>4. m \in Int /\ Max(S) \in Int
  BY <1>2
<1> QED
  BY <1>3, <1>4

LEMMA LastOf ==
  ASSUME NEW stream \in Seq(Spoken), stream # <<>>, stream[Len(stream)] # Lost
  PROVE  LastMessage(stream) = stream[Len(stream)]
<1> DEFINE said == {i \in DOMAIN stream : stream[i] # Lost}
<1>1. Len(stream) \in said /\ said \in SUBSET Int /\ \A k \in said : Len(stream) >= k
  OBVIOUS
<1> HIDE DEF said
<1>2. Max(said) = Len(stream) /\ said # {}
  BY <1>1, MaxIs
<1> QED
  BY <1>2 DEF LastMessage, said

LEMMA LostAtLast ==
  ASSUME NEW stream \in Seq(Spoken), stream # <<>>, stream[Len(stream)] = Lost
  PROVE  LostAfter(stream)
<1>1. Len(stream) \in DOMAIN stream /\ \A k \in DOMAIN stream : ~(k > Len(stream))
  OBVIOUS
<1> QED
  BY <1>1 DEF LostAfter

LEMMA ToldEnds ==
  ASSUME NEW told \in Told
  PROVE  told \in Seq(Spoken) /\ (told = <<>> \/ told[Len(told)] = Final)
<1>1. Early \in Spoken /\ Final \in Spoken
  BY DEF Spoken
<1>2. CASE told = <<>>
  BY <1>2
<1>3. CASE told = <<Final>>
  BY <1>1, <1>3
<1>4. CASE told = <<Early, Final>>
  BY <1>1, <1>4
<1> QED
  BY <1>2, <1>3, <1>4 DEF Told

(* A stream that lost nothing of its end shows the final message or none.  *)
LEMMA WholeEndShows ==
  ASSUME NEW told \in Told, NEW s \in Streams(told),
         s[1] # "failed", s[1] = "truncated" => ~LostAfter(s[2])
  PROVE  LastMessage(s[2]) \in {Final, NoText}
<1>0. told \in Seq(Spoken) /\ (told = <<>> \/ told[Len(told)] = Final)
  BY ToldEnds
<1>1. CASE s = <<"whole", told>>
  <2>1. CASE told = <<>>
    <3>1. {i \in DOMAIN told : told[i] # Lost} = {}
      BY <2>1
    <3> QED
      BY <1>1, <3>1 DEF LastMessage
  <2>2. CASE told # <<>>
    BY <1>0, <1>1, <2>2, LastOf DEF Lost, Final
  <2> QED
    BY <2>1, <2>2
<1>2. ASSUME NEW t \in Torn(told), s = <<"truncated", t>>
      PROVE  LastMessage(s[2]) \in {Final, NoText}
  <2>1. PICK gap \in (0..Len(told)) \X (1..(Len(told) + 1)) :
          /\ gap[2] > gap[1] + 1
          /\ t = SubSeq(told, 1, gap[1]) \o <<Lost>> \o SubSeq(told, gap[2], Len(told))
    BY DEF Torn
  <2> DEFINE front == SubSeq(told, 1, gap[1])
             back == SubSeq(told, gap[2], Len(told))
  <2>2. gap[1] \in 0..Len(told) /\ gap[2] \in 1..(Len(told) + 1)
    BY <1>0, <2>1
  <2>3. front \in Seq(Spoken) /\ back \in Seq(Spoken) /\ <<Lost>> \in Seq(Spoken)
    BY <1>0, <2>2 DEF Spoken
  <2>4. Len(back) > 0 => told # <<>> /\ back[Len(back)] = told[Len(told)]
    BY <1>0, <2>2
  <2>5. t = front \o <<Lost>> \o back
    BY <2>1
  <2> HIDE DEF front, back
  <2> DEFINE marked == front \o <<Lost>>
  <2>6. marked \in Seq(Spoken) /\ Len(marked) = Len(front) + 1 /\ marked[Len(marked)] = Lost
    BY <2>3
  <2> HIDE DEF marked
  <2>7. t = marked \o back
    BY <2>5 DEF marked
  <2>8. t \in Seq(Spoken) /\ t # <<>> /\ t[Len(t)] = IF Len(back) > 0 THEN back[Len(back)] ELSE Lost
    BY <2>3, <2>6, <2>7
  <2>9. ~LostAfter(t)
    BY <1>2
  <2>10. t[Len(t)] = Final
    BY <1>0, <2>4, <2>8, <2>9, LostAtLast
  <2> QED
    BY <1>2, <2>8, <2>10, LastOf DEF Lost, Final
<1> QED
  BY <1>1, <1>2 DEF Streams

(* What a backend that ran, or did not, can have left.                     *)
Candid(out) ==
  /\ out.told \in Told /\ <<out.capture, out.stream>> \in Streams(out.told)
  /\ out.capture \in {"whole", "truncated", "failed"}
  /\ spec.backend = "codex" => out.told = <<>>
  /\ out.file \in ArtifactFiles /\ (~Staged => out.file = "absent")
  /\ out.envelope \in Envelopes /\ (spec.backend # "claude" => out.envelope = "none")
  /\ out.envelope = "silent" => out.told = <<>>

LEMMA UnspawnedIsCandid == Candid(Unspawned)
<1>1. <<"whole", <<>>>> \in Streams(<<>>)
  BY DEF Streams
<1> QED
  BY <1>1 DEF Candid, Unspawned, Told, ArtifactFiles, Envelopes

LEMMA OutputIsCandid ==
  ASSUME spec.backend \in Backends, NEW o \in Outputs[spec.backend][Staged]
  PROVE  Candid(o)
<1>1. Staged \in BOOLEAN
  BY DEF Staged
<1>2. o \in OutputsOf(spec.backend, Staged)
  BY <1>1 DEF Outputs
<1>3. PICK e \in Ends, w \in Written(spec.backend),
           a \in (IF Staged THEN ArtifactFiles ELSE {"absent"}) :
        o = [end |-> e, told |-> w[1], capture |-> w[2][1], stream |-> w[2][2],
             envelope |-> w[3], file |-> a, says |-> Quiet]
  BY <1>2 DEF OutputsOf
<1>4. /\ w[1] \in Tells(spec.backend) /\ w[2] \in Streams(w[1])
      /\ w[3] \in EnvelopesOf(spec.backend, w[1], w[2]) /\ w[3] \in Envelopes
  BY DEF Written
<1>5. w[1] \in Told /\ (spec.backend = "codex" => w[1] = <<>>)
  BY <1>4 DEF Tells, Told
<1>6. w[2] = <<w[2][1], w[2][2]>> /\ w[2][1] \in {"whole", "truncated", "failed"}
  <2>1. \E how \in {"whole", "truncated", "failed"} : \E kept : w[2] = <<how, kept>>
    BY <1>4 DEF Streams
  <2> QED
    BY <2>1
<1>7. spec.backend # "claude" => w[3] = "none"
  <2> SUFFICES ASSUME spec.backend # "claude"
               PROVE  EnvelopesOf(spec.backend, w[1], w[2]) = {"none"}
    BY <1>4
  <2> QED
    BY DEF EnvelopesOf
<1>8. w[3] = "silent" => w[1] = <<>>
  <2> SUFFICES ASSUME w[1] # <<>>
               PROVE  EnvelopesOf(spec.backend, w[1], w[2]) \subseteq {"none", "answer"}
    BY <1>4
  <2>1. CASE spec.backend # "claude"
    BY <2>1 DEF EnvelopesOf
  <2>2. CASE spec.backend = "claude" /\ w[2][2] = <<Final>>
    BY <2>2 DEF EnvelopesOf
  <2>3. CASE spec.backend = "claude" /\ w[2][2] # <<Final>>
    BY <2>3 DEF EnvelopesOf
  <2> QED
    BY <2>1, <2>2, <2>3
<1>9. a \in ArtifactFiles /\ (~Staged => a = "absent")
  BY DEF ArtifactFiles
<1> QED
  BY <1>3, <1>4, <1>5, <1>6, <1>7, <1>8, <1>9 DEF Candid

(* What is concluded from it.                                              *)
LEMMA AnswerShows ==
  ASSUME NEW out, Candid(out), spec.backend \in Backends, Loss(out) = "none"
  PROVE  Answer(out) \in {Final, NoText}
<1>1. CASE spec.backend = "codex"
  BY <1>1 DEF Answer, FileText
<1>2. CASE spec.backend = "claude"
  BY <1>2 DEF Answer
<1>3. CASE spec.backend = "kimi"
  <2>1. CASE FileText(out) # NoText
    BY <1>3, <2>1 DEF Answer, FileText
  <2>2. CASE FileText(out) = NoText
    <3>1. out.capture # "failed" /\ (out.capture = "truncated" => ~LostAfter(out.stream))
      BY <1>3, <2>2 DEF Loss, StreamLoss
    <3>2. LastMessage(<<out.capture, out.stream>>[2]) \in {Final, NoText}
      BY <3>1, WholeEndShows DEF Candid
    <3> QED
      BY <1>3, <2>2, <3>2 DEF Answer
  <2> QED
    BY <2>1, <2>2
<1> QED
  BY <1>1, <1>2, <1>3 DEF Backends

LEMMA OkIsClean ==
  ASSUME NEW out, Candid(out), spec.backend \in Backends,
         Failure(out) = "none" \/ Explained(out)
  PROVE  out.end = "clean" /\ out.envelope \notin {"denied", "error"}
<1>1. out.end = "clean"
  <2>1. \A c : Classified(c) # "none"
    <3>1. \A c : DriftCode(c) # "none"
      BY DEF DriftCode
    <3>2. \A c : CodexCode(c) # "none" /\ ClaudeCode(c) # "none" /\ KimiCode(c) # "none"
      BY <3>1 DEF CodexCode, ClaudeCode, KimiCode
    <3> QED
      BY <3>2 DEF Classified
  <2> QED
    BY <2>1 DEF Failure, Explained
<1>2. CASE spec.backend # "claude"
  BY <1>1, <1>2 DEF Candid
<1>3. CASE spec.backend = "claude"
  <2>1. Failure(out) = Inspected(out)
    BY <1>1 DEF Failure
  <2>2. out.envelope = "denied" => Inspected(out) = "permission_error"
    BY <1>1, <1>3 DEF Inspected
  <2>3. out.envelope = "error" => Inspected(out) \notin {"none", "empty_response", "invalid_json"}
    <3>1. \A c : ClaudeCode(c) \notin {"none", "empty_response", "invalid_json"}
      BY DEF ClaudeCode
    <3> QED
      BY <1>1, <1>3, <3>1 DEF Inspected
  <2> QED
    BY <1>1, <2>1, <2>2, <2>3 DEF Explained
<1> QED
  BY <1>2, <1>3

(* A run that lost nothing and has no text said nothing.                   *)
LEMMA SilentIsSilent ==
  ASSUME NEW out, Candid(out), spec.backend \in Backends, ~Doubtful(out), Answer(out) = NoText,
         Failure(out) = "none" \/ Explained(out)
  PROVE  out.told = <<>> /\ out.file \in {"absent", "empty"}
<1>1. out.end = "clean" /\ out.envelope \notin {"denied", "error"}
  BY OkIsClean
<1>2. ~Refused(out) /\ Loss(out) = "none" /\ Failure(out) = "none"
  BY DEF Doubtful, Explained
<1>3. Inspected(out) = "none"
  BY <1>1, <1>2 DEF Failure
<1>4. FileText(out) = NoText => out.file \in {"absent", "empty"}
  BY <1>2 DEF FileText, Refused, Candid, ArtifactFiles, Refusals, Final, NoText
<1>5. CASE spec.backend = "codex"
  BY <1>4, <1>5 DEF Answer, Candid
<1>6. CASE spec.backend = "claude"
  <2>1. out.envelope # "answer"
    BY <1>6 DEF Answer, Final, NoText
  <2>2. out.envelope # "none"
    BY <1>1, <1>3, <1>6 DEF Inspected
  <2>3. out.envelope = "silent"
    BY <1>1, <2>1, <2>2 DEF Candid, Envelopes
  <2>4. ~Staged
    BY <1>6 DEF Staged
  <2> QED
    BY <2>3, <2>4 DEF Candid
<1>7. CASE spec.backend = "kimi"
  BY <1>1, <1>3, <1>7 DEF Inspected
<1> QED
  BY <1>5, <1>6, <1>7 DEF Backends

LEMMA ConcludedIsWhole ==
  ASSUME NEW out, Candid(out), spec.backend \in Backends, NEW diffed \in BOOLEAN,
         Concluded(out, diffed).code = "ok"
  PROVE  LET v == Concluded(out, diffed)
         IN  /\ out.end = "clean" /\ out.envelope \notin {"denied", "error"}
             /\ v.text \in {Final, NoText}
             /\ Refused(out) => v.warned
             /\ v.text = NoText => \/ v.overridden /\ diffed
                                   \/ out.told = <<>> /\ out.file \in {"absent", "empty"}
<1> DEFINE v == Concluded(out, diffed)
<1>1. Failure(out) = "none" \/ Explained(out)
  <2> SUFFICES ASSUME Failure(out) # "none" /\ ~Explained(out)
               PROVE  FALSE
    OBVIOUS
  <2>1. v = [code |-> Failure(out), text |-> NoText, warned |-> FALSE, overridden |-> FALSE]
    BY DEF Concluded
  <2> QED
    BY <2>1, FailureIsNotOk
<1>2. out.end = "clean" /\ out.envelope \notin {"denied", "error"}
  BY <1>1, OkIsClean
<1>3. CASE ~Doubtful(out)
  <2>1. v = [code |-> "ok", text |-> Answer(out), warned |-> FALSE, overridden |-> FALSE]
    BY <1>1, <1>3 DEF Concluded
  <2>2. ~Refused(out) /\ Loss(out) = "none"
    BY <1>3 DEF Doubtful
  <2>3. Answer(out) \in {Final, NoText}
    BY <2>2, AnswerShows
  <2>4. Answer(out) = NoText => out.told = <<>> /\ out.file \in {"absent", "empty"}
    BY <1>1, <1>3, SilentIsSilent
  <2> QED
    BY <1>2, <2>1, <2>2, <2>3, <2>4
<1>4. CASE Doubtful(out) /\ Substituted(out)
  <2>1. v = [code |-> "ok", text |-> Answer(out), warned |-> TRUE, overridden |-> FALSE]
    BY <1>1, <1>4 DEF Concluded
  <2>2. Loss(out) = "none" /\ Answer(out) # NoText
    BY <1>4 DEF Substituted
  <2>3. Answer(out) \in {Final, NoText}
    BY <2>2, AnswerShows
  <2> QED
    BY <1>2, <2>1, <2>2, <2>3
<1>5. CASE Doubtful(out) /\ ~Substituted(out) /\ spec.verb = "delegate" /\ diffed
  <2>1. v = [code |-> "ok", text |-> NoText, warned |-> Refused(out), overridden |-> TRUE]
    BY <1>1, <1>5 DEF Concluded
  <2>2. v.text = NoText /\ v.warned = Refused(out) /\ v.overridden = TRUE
    BY <2>1
  <2>3. Refused(out) => v.warned
    BY <2>2, Zenon
  <2> QED
    BY <1>2, <1>5, <2>2, <2>3
<1>6. CASE Doubtful(out) /\ ~Substituted(out) /\ ~(spec.verb = "delegate" /\ diffed)
  <2>1. v.code = "answer_unavailable"
    BY <1>1, <1>6 DEF Concluded
  <2> QED
    BY <2>1
<1> QED
  BY <1>3, <1>4, <1>5, <1>6

-----------------------------------------------------------------------------
(* A result that is not an error.                                          *)
GatherShaped ==
  gather \in [at : {gather.at}, code : GatherCodes, from : {gather.from}, to : {gather.to},
              token : {gather.token}, summary : {gather.summary}, diff : {gather.diff},
              detected : {gather.detected}, included : {gather.included}, moved : {gather.moved},
              since : {gather.since}, until : {gather.until}, owed : {gather.owed}]

Whole ==
  run.at \in {"leaving", "answered"} /\ run.code = "ok" /\ run.status # "not_run" =>
    /\ run.out.end = "clean" /\ run.out.envelope \notin {"denied", "error"}
    /\ run.text \in {Final, NoText}
    /\ Refused(run.out) => run.warned
    /\ run.text = NoText =>
         \/ run.overridden /\ DOMAIN run.diff # {}
         \/ run.out.told = <<>> /\ run.out.file \in {"absent", "empty"}

AnswerInv == spec \in RunSpec /\ RunShaped /\ GatherShaped /\ Candid(run.out) /\ Whole

(* The naturals are well-founded, so a set of them has a least member.     *)
LEMMA LeastExists ==
  ASSUME NEW S, S \subseteq Nat, S # {}
  PROVE  \E n \in S : \A k \in S : n <= k
<1> DEFINE R == OpToRel(<, Nat)
<1>1. PICK n \in S : \A k \in S : <<k, n>> \notin R
  <2> HIDE DEF R
  <2>1. IsWellFoundedOn(R, Nat)
    BY NatLessThanWellFounded DEF R
  <2> QED
    BY <2>1, WFMin
<1>2. R = {ss \in Nat \X Nat : ss[1] < ss[2]}
  BY DEF OpToRel
<1>3. ASSUME NEW k \in Nat, NEW i \in Nat, k < i
      PROVE  <<k, i>> \in R
  <2> HIDE DEF R
  <2>1. <<k, i>> \in Nat \X Nat
    OBVIOUS
  <2> QED
    BY <1>2, <1>3, <2>1
<1> HIDE DEF R
<1>4. \A k \in S : n <= k
  <2> SUFFICES ASSUME NEW k \in S
               PROVE  n <= k
    OBVIOUS
  <2>1. k \in Nat /\ n \in Nat
    OBVIOUS
  <2>2. ~(k < n)
    BY <1>1, <1>3, <2>1
  <2> QED
    BY <2>1, <2>2
<1> QED
  BY <1>4

LEMMA LeastIsIn ==
  ASSUME NEW S, S \subseteq Nat, S # {}
  PROVE  Min(S) \in S
  BY LeastExists DEF Min

LEMMA RefusalIsNotOk ==
  ASSUME spec \in RunSpec, Unfit
  PROVE  RefusalOf[FirstWrong] # "ok"
<1> DEFINE at == {i \in DOMAIN Checks : Checks[i] \in Wrong}
<1>1. spec.shell.wrong \subseteq {"options", "backend", "placeholder", "effort_shape", "turn_text",
                                  "scope", "size"}
  <2>1. spec.shell \in Shells
    BY DEF RunSpec
  <2> QED
    BY <2>1 DEF Shells
<1>2. DOMAIN Checks = 1..8
  BY DEF Checks
<1>3. at # {} /\ at \subseteq Nat
  BY <1>1, <1>2 DEF Unfit, Wrong, Checks, Shell
<1>4. FirstWrong = Checks[Min(at)]
  BY DEF FirstWrong
<1> HIDE DEF at
<1>5. Min(at) \in at
  <2> HIDE DEF at
  <2> QED
    BY <1>3, LeastIsIn
<1>6. \E i \in 1..8 : FirstWrong = Checks[i]
  BY <1>2, <1>4, <1>5 DEF at
<1>7. Where.code # "ok"
  BY DEF Where, Resolution, Nowhere, Found
<1> QED
  BY <1>6, <1>7 DEF RefusalOf, Checks

LEMMA GatherStays ==
  ASSUME GatherShaped, UNCHANGED gather
  PROVE  GatherShaped'
  BY DEF GatherShaped

LEMMA GatherBegins ==
  ASSUME GatherShaped, NEW stage, NEW since,
         gather' = [gather EXCEPT !.at = stage, !.since = since]
  PROVE  GatherShaped'
  BY DEF GatherShaped

LEMMA GatherKeeps ==
  ASSUME GatherShaped, Gather
  PROVE  GatherShaped'
<1>1. ASSUME NEW code \in GatherCodes, GatherFails(code)
      PROVE  GatherShaped'
  BY <1>1 DEF GatherShaped, GatherFails
<1>2. CASE GitBreaks
  BY <1>1, <1>2 DEF GitBreaks, GatherCodes
<1>3. CASE Pin
  <2>1. CASE GatherFails(IF spec.scope = "branch" THEN "invalid_base" ELSE "git_unavailable")
    BY <1>1, <2>1 DEF GatherCodes
  <2>2. ASSUME NEW stage, NEW from,
               gather' = [gather EXCEPT !.at = stage, !.from = from, !.to = head]
        PROVE  GatherShaped'
    BY <2>2 DEF GatherShaped
  <2> QED
    BY <1>2, <1>3, <2>1, <2>2 DEF Pin
<1>4. CASE Mark
  <2>1. CASE gather' = [gather EXCEPT !.at = "counting", !.token = Token]
    BY <2>1 DEF GatherShaped
  <2> QED
    BY <1>2, <1>4, <2>1 DEF Mark
<1>5. CASE Summary
  <2>1. CASE gather' = [gather EXCEPT !.at = "reading", !.summary = Patch]
    BY <2>1 DEF GatherShaped
  <2> QED
    BY <1>2, <1>5, <2>1 DEF Summary
<1>6. CASE Read
  <2>1. ASSUME NEW stage, gather' = [Fed(Patch) EXCEPT !.at = stage]
        PROVE  GatherShaped'
    BY <2>1 DEF GatherShaped, Fed
  <2> QED
    BY <1>2, <1>6, <2>1 DEF Read
<1>7. CASE List
  <2>1. CASE gather' = [Fed(NewInScope) EXCEPT !.at = "remarking", !.summary = @ \cup NewInScope,
                          !.detected = Cardinality(NewInScope),
                          !.included = Cardinality(NewInScope)]
    BY <2>1 DEF GatherShaped, Fed
  <2>2. CASE gather' = [gather EXCEPT !.at = "remarking", !.detected = Cardinality(NewInScope)]
    BY <2>2 DEF GatherShaped
  <2> QED
    BY <1>2, <1>7, <2>1, <2>2 DEF List
<1>8. CASE Remark
  <2>1. CASE gather' = [gather EXCEPT !.at = "rechecking", !.moved = Token # gather.token,
                          !.owed = Owed]
    BY <2>1 DEF GatherShaped
  <2> QED
    BY <1>2, <1>8, <2>1 DEF Remark
<1>9. CASE Recheck
  <2>1. CASE gather' = [gather EXCEPT !.at = "done", !.moved = @ \/ head # gather.from,
                          !.until = moves]
    BY <2>1 DEF GatherShaped
  <2> QED
    BY <1>2, <1>9, <2>1 DEF Recheck
<1> QED
  BY <1>3, <1>4, <1>5, <1>6, <1>7, <1>8, <1>9 DEF Gather

LEMMA GatherForgotten ==
  ASSUME gather' = NoGather
  PROVE  GatherShaped'
  BY DEF GatherShaped, NoGather, GatherCodes

LEMMA CandidStays ==
  ASSUME UNCHANGED spec, \E o : Candid(o) /\ run'.out = o
  PROVE  Candid(run.out)'
  BY DEF Candid, Staged

LEMMA OutputSaid ==
  ASSUME spec.backend \in Backends, NEW o \in Outputs[spec.backend][Staged], NEW says
  PROVE  Candid([o EXCEPT !.says = says])
<1> DEFINE said == [o EXCEPT !.says = says]
<1>1. /\ said.told = o.told /\ said.capture = o.capture /\ said.stream = o.stream
      /\ said.file = o.file /\ said.envelope = o.envelope
  OBVIOUS
<1> HIDE DEF said
<1>2. Candid(said)
  BY <1>1, OutputIsCandid DEF Candid
<1> QED
  BY <1>2 DEF said

(* A step after which the run goes on, or is refused.                      *)
LEMMA SaysNothing ==
  ASSUME AnswerInv, UNCHANGED spec, RunShaped', GatherShaped', \E o : Candid(o) /\ run'.out = o,
         run'.at \in {"leaving", "answered"} => run'.code # "ok" \/ run'.status = "not_run"
  PROVE  AnswerInv'
<1>1. Candid(run.out)'
  BY CandidStays
<1>2. Whole'
  BY DEF Whole
<1> QED
  BY <1>1, <1>2 DEF AnswerInv

(* A step that leaves what was answered as it is.                          *)
LEMMA SaysTheSame ==
  ASSUME AnswerInv, UNCHANGED spec, RunShaped', GatherShaped', run'.out = run.out,
         run'.at \in {"leaving", "answered"} => run.at \in {"leaving", "answered"},
         run'.code = run.code, run'.status = run.status, run'.text = run.text,
         run'.warned = run.warned, run'.overridden = run.overridden, run'.diff = run.diff
  PROVE  AnswerInv'
<1>1. Candid(run.out)'
  BY CandidStays DEF AnswerInv
<1>2. Refused(run.out)' <=> Refused(run.out)
  BY DEF Refused, Staged
<1>3. Whole'
  BY <1>2 DEF AnswerInv, Whole
<1> QED
  BY <1>1, <1>3 DEF AnswerInv

LEMMA DeliveryIsWhole ==
  ASSUME AnswerInv, UNCHANGED <<spec, gather>>, NEW diff, Concludes(diff)
  PROVE  AnswerInv'
<1> DEFINE v == Concluded(run.out, DOMAIN diff # {})
<1>0. RunShaped /\ Candid(run.out) /\ spec.backend \in Backends /\ GatherShaped'
  BY GatherStays DEF AnswerInv, RunSpec
<1>1. DeliversOr(v, diff)
  BY DEF Concludes
<1>2. v.code = "ok" =>
        /\ run.out.end = "clean" /\ run.out.envelope \notin {"denied", "error"}
        /\ v.text \in {Final, NoText}
        /\ Refused(run.out) => v.warned
        /\ v.text = NoText => \/ v.overridden /\ DOMAIN diff # {}
                              \/ run.out.told = <<>> /\ run.out.file \in {"absent", "empty"}
  <2> DEFINE diffed == DOMAIN diff # {}
  <2>1. diffed \in BOOLEAN
    OBVIOUS
  <2>2. v = Concluded(run.out, diffed)
    OBVIOUS
  <2> HIDE DEF v, diffed
  <2>3. Concluded(run.out, diffed).code = "ok" =>
        /\ run.out.end = "clean" /\ run.out.envelope \notin {"denied", "error"}
        /\ Concluded(run.out, diffed).text \in {Final, NoText}
        /\ Refused(run.out) => Concluded(run.out, diffed).warned
        /\ Concluded(run.out, diffed).text = NoText =>
              \/ Concluded(run.out, diffed).overridden /\ diffed
              \/ run.out.told = <<>> /\ run.out.file \in {"absent", "empty"}
    BY <1>0, <2>1, ConcludedIsWhole
  <2>4. diffed <=> DOMAIN diff # {}
    BY DEF diffed
  <2> QED
    BY <2>2, <2>3, <2>4
<1> HIDE DEF v
<1>3. /\ RunShaped' /\ run'.at = "leaving" /\ run'.out = run.out
      /\ \/ /\ v.code = "ok" /\ run'.diff = diff /\ run'.text = v.text
            /\ run'.warned = v.warned /\ run'.overridden = v.overridden
         \/ v.code # "ok" /\ run'.code = v.code /\ run'.diff = run.diff
  BY <1>0, <1>1, DeliversRun
<1>4. CASE v.code # "ok"
  BY <1>0, <1>3, <1>4, SaysNothing
<1>5. CASE v.code = "ok"
  <2>1. Candid(run.out)'
    BY <1>0, <1>3, CandidStays
  <2>2. Refused(run.out)' <=> Refused(run.out)
    BY <1>3 DEF Refused, Staged
  <2>3. Whole'
    BY <1>2, <1>3, <1>5, <2>2 DEF Whole
  <2> QED
    BY <1>0, <1>3, <2>1, <2>3 DEF AnswerInv
<1> QED
  BY <1>4, <1>5

LEMMA EarlyAnswers ==
  ASSUME AnswerInv, Preflight \/ EnsureRepo \/ Plan \/ Count
  PROVE  AnswerInv'
<1>0. RunShaped /\ UNCHANGED <<spec, gather>> /\ GatherShaped' /\ spec \in RunSpec
      /\ Candid(run.out) /\ run.at \in Before
  BY GatherStays DEF AnswerInv, Preflight, EnsureRepo, Plan, Count, RunAt, Before
<1>1. ASSUME NEW code, code # "ok", Refuses(code)
      PROVE  AnswerInv'
  BY <1>0, <1>1, RefusesRun, SaysNothing
<1>2. ASSUME NEW stage \in Before, RunGoes(stage)
      PROVE  AnswerInv'
  BY <1>0, <1>2, MovesRun, SaysNothing DEF Before, Stages
<1>3. ASSUME NEW stage \in Before, NEW foretold,
             run' = [run EXCEPT !.at = stage, !.foretold = foretold]
      PROVE  AnswerInv'
  <2>1. RunShaped' /\ run'.at = stage /\ run'.out = run.out
    BY <1>0, <1>3, ZenonT(60) DEF RunShaped, Before, Stages
  <2> QED
    BY <1>0, <2>1, SaysNothing DEF Before
<1>4. ASSUME NEW foretold, IsTold(foretold)
      PROVE  AnswerInv'
  BY <1>0, <1>4, ToldRun, SaysNothing
<1>5. CASE Preflight
  <2>1. CASE Unfit
    BY <1>0, <1>1, <1>5, <2>1, RefusalIsNotOk DEF Preflight
  <2>2. CASE ~Unfit
    <3>1. \E stage \in Before : \E foretold :
            run' = [run EXCEPT !.at = stage, !.foretold = foretold]
      BY <1>5, <2>2 DEF Preflight, Before
    <3> QED
      BY <1>3, <3>1
  <2> QED
    BY <2>1, <2>2
<1>6. CASE EnsureRepo
  <2>1. (\E code : code # "ok" /\ Refuses(code)) \/ (\E stage \in Before : RunGoes(stage))
    BY <1>6 DEF EnsureRepo, Before
  <2> QED
    BY <1>1, <1>2, <2>1
<1>7. \A code \in PlanFailures : code # "ok"
  BY DEF PlanFailures
<1>8. CASE Plan
  BY <1>1, <1>3, <1>7, <1>8 DEF Plan, Before
<1>9. CASE Count
  BY <1>1, <1>4, <1>7, <1>9 DEF Count
<1> QED
  BY <1>5, <1>6, <1>8, <1>9

LEMMA ComposeAnswers ==
  ASSUME AnswerInv, Compose
  PROVE  AnswerInv'
<1>0. RunShaped /\ UNCHANGED spec /\ GatherShaped /\ Candid(run.out) /\ run.at = "composing"
  BY DEF AnswerInv, Compose, RunAt
<1>1. GatherShaped'
  <2>1. \/ UNCHANGED gather
        \/ \E stage, since : gather' = [gather EXCEPT !.at = stage, !.since = since]
        \/ Gather
        \/ gather' = NoGather
    BY DEF Compose
  <2> QED
    BY <1>0, <2>1, GatherStays, GatherBegins, GatherKeeps, GatherForgotten
<1>2. CASE RunGoes("choosing")
  BY <1>0, <1>1, <1>2, MovesRun, SaysNothing DEF Stages
<1>3. CASE Refuses(gather.code)
  <2>1. gather.code # "ok"
    BY <1>0 DEF GatherShaped, GatherCodes
  <2> QED
    BY <1>0, <1>1, <1>3, <2>1, RefusesRun, SaysNothing
<1>4. ASSUME NEW foretold, IsTold(foretold)
      PROVE  AnswerInv'
  BY <1>0, <1>1, <1>4, ToldRun, SaysNothing
<1>5. CASE NotRun
  BY <1>0, <1>1, <1>5, AnswersRun, SaysNothing DEF NotRun
<1>6. CASE UNCHANGED run
  BY <1>0, <1>1, <1>6, SaysNothing DEF RunShaped
<1>7. \/ RunGoes("choosing") \/ Refuses(gather.code) \/ NotRun \/ UNCHANGED run
      \/ \E foretold : IsTold(foretold)
  BY DEF Compose
<1> QED
  BY <1>2, <1>3, <1>4, <1>5, <1>6, <1>7

LEMMA SiteAnswers ==
  ASSUME AnswerInv, PipelineInv, SelectSite \/ EnterSite
  PROVE  AnswerInv'
<1>0. RunShaped /\ UNCHANGED <<spec, gather>> /\ GatherShaped' /\ Candid(run.out)
      /\ run.at \in {"choosing", "entering"}
  BY GatherStays DEF AnswerInv, SelectSite, EnterSite, RunAt
<1>1. ASSUME NEW stage \in {"launching", "entering"}, NEW site \in Sites,
             run' = [run EXCEPT !.at = stage, !.site = site]
      PROVE  AnswerInv'
  <2>1. RunShaped' /\ run'.at = stage /\ run'.out = run.out
    BY <1>0, <1>1 DEF RunShaped, Stages
  <2> QED
    BY <1>0, <2>1, SaysNothing
<1>2. ASSUME NEW code, code # "ok", AnswersWith(code, "none")
      PROVE  AnswerInv'
  BY <1>0, <1>2, AnswersRun, SaysNothing
<1>3. CASE SelectSite
  <2>1. \/ \E stage \in {"launching", "entering"}, site \in Sites :
             run' = [run EXCEPT !.at = stage, !.site = site]
        \/ AnswersWith("internal_error", "none")
    BY <1>3 DEF SelectSite, EntersTree, Sites
  <2> QED
    BY <1>1, <1>2, <2>1
<1>4. CASE EnterSite
  <2>1. tree.code # "ok"
    BY DEF PipelineInv, TreeInv, TreeTyped, TreeCodes
  <2>2. CASE UNCHANGED run
    BY <1>0, <2>2, SaysNothing DEF RunShaped
  <2>3. CASE RunGoes("launching")
    BY <1>0, <2>3, MovesRun, SaysNothing DEF Stages
  <2> QED
    BY <1>2, <1>4, <2>1, <2>2, <2>3 DEF EnterSite
<1> QED
  BY <1>3, <1>4

LEMMA LaunchAnswers ==
  ASSUME AnswerInv, Launch \/ BackendEnds \/ CancelLands
  PROVE  AnswerInv'
<1>0. RunShaped /\ UNCHANGED <<spec, gather>> /\ GatherShaped' /\ Candid(run.out)
      /\ spec.backend \in Backends
  BY GatherStays DEF AnswerInv, Launch, BackendEnds, CancelLands, RunSpec
<1>1. ASSUME NEW code, code # "ok", LeavesWith(code)
      PROVE  AnswerInv'
  BY <1>0, <1>1, LeavesRun, SaysNothing
<1>2. CASE run' = [run EXCEPT !.at = "folding", !.out = Unspawned]
  <2>1. RunShaped' /\ run'.at = "folding" /\ run'.out = Unspawned
    BY <1>0, <1>2 DEF RunShaped, Stages
  <2> QED
    BY <1>0, <2>1, UnspawnedIsCandid, SaysNothing
<1>3. CASE RunGoes("running")
  BY <1>0, <1>3, MovesRun, SaysNothing DEF Stages
<1>4. CASE BackendEnds
  <2>0. PICK o \in Outputs[spec.backend][Staged] : \E reply, says :
          run' = [run EXCEPT !.at = "folding", !.out = [o EXCEPT !.says = says], !.reply = reply]
    BY <1>4 DEF BackendEnds
  <2>1. PICK reply, says :
          run' = [run EXCEPT !.at = "folding", !.out = [o EXCEPT !.says = says], !.reply = reply]
    BY <2>0
  <2>2. Candid([o EXCEPT !.says = says])
    BY <1>0, OutputSaid
  <2>3. RunShaped' /\ run'.at = "folding" /\ run'.out = [o EXCEPT !.says = says]
    BY <1>0, <2>1 DEF RunShaped, Stages
  <2> QED
    BY <1>0, <2>2, <2>3, SaysNothing
<1> QED
  BY <1>1, <1>2, <1>3, <1>4, InvalidIsNotOk DEF Launch, CancelLands

LEMMA FoldAnswers ==
  ASSUME AnswerInv, Fold \/ Capture
  PROVE  AnswerInv'
<1>0. RunShaped /\ UNCHANGED <<spec, gather>> /\ GatherShaped' /\ Candid(run.out)
  BY GatherStays DEF AnswerInv, Fold, Capture
<1>1. ASSUME NEW code, code # "ok", LeavesWith(code)
      PROVE  AnswerInv'
  BY <1>0, <1>1, LeavesRun, SaysNothing
<1>2. ASSUME NEW said, run' = [run EXCEPT !.at = "leaving", !.code = Failure(run.out), !.said = said]
      PROVE  AnswerInv'
  <2>1. RunShaped' /\ run'.at = "leaving" /\ run'.code = Failure(run.out) /\ run'.out = run.out
    BY <1>0, <1>2 DEF RunShaped, Stages
  <2> QED
    BY <1>0, <2>1, FailureIsNotOk, SaysNothing
<1>3. CASE RunGoes("capturing")
  BY <1>0, <1>3, MovesRun, SaysNothing DEF Stages
<1>4. CASE Concludes(NoPatch) \/ Concludes(Captured)
  BY <1>0, <1>4, DeliveryIsWhole
<1> QED
  BY <1>1, <1>2, <1>3, <1>4 DEF Fold, Capture

LEMMA RestAnswers ==
  ASSUME AnswerInv, AgentActs \/ Leave \/ Cancel \/ Kill \/ UserActs
  PROVE  AnswerInv'
<1>0. RunShaped /\ UNCHANGED <<spec, gather>> /\ GatherShaped' /\ Candid(run.out)
  BY GatherStays DEF AnswerInv, AgentActs, Leave, Cancel, Kill, UserActs
<1>1. CASE UNCHANGED run
  BY <1>0, <1>1, SaysTheSame DEF RunShaped
<1>2. CASE Leave
  BY <1>0, <1>2, MovesRun, SaysTheSame DEF Leave, RunAt, Stages
<1>3. CASE Cancel
  <2>1. /\ RunShaped' /\ run'.at = run.at /\ run'.out = run.out /\ run'.code = run.code
        /\ run'.status = run.status /\ run'.text = run.text /\ run'.warned = run.warned
        /\ run'.overridden = run.overridden /\ run'.diff = run.diff
    BY <1>0, <1>3 DEF Cancel, RunShaped
  <2> QED
    BY <1>0, <2>1, SaysTheSame
<1>4. CASE Kill
  BY <1>0, <1>4, MovesRun, SaysNothing DEF Kill, Stages
<1> QED
  BY <1>1, <1>2, <1>3, <1>4 DEF AgentActs, UserActs

LEMMA AnswerInit == Init => AnswerInv
<1> SUFFICES ASSUME Init
             PROVE  AnswerInv
  OBVIOUS
<1>1. PICK family \in Profiles : \E p \in family :
        spec = p.spec /\ gather = NoGather /\ run = NoRun
  BY DEF Init
<1>2. PICK p \in family : spec = p.spec /\ gather = NoGather /\ run = NoRun
  BY <1>1
<1>3. spec \in RunSpec
  BY <1>2, RequestAssumption
<1>4. RunShaped /\ Whole
  BY <1>2 DEF RunShaped, Whole, NoRun, Stages, Sites
<1>5. GatherShaped
  BY <1>2 DEF GatherShaped, NoGather, GatherCodes
<1>6. Candid(run.out)
  BY <1>2, UnspawnedIsCandid DEF NoRun
<1> QED
  BY <1>3, <1>4, <1>5, <1>6 DEF AnswerInv

LEMMA AnswerNext == AnswerInv /\ PipelineInv /\ [Next]_vars => AnswerInv'
<1> SUFFICES ASSUME AnswerInv, PipelineInv, [Next]_vars
             PROVE  AnswerInv'
  OBVIOUS
<1>1. CASE UNCHANGED vars
  BY <1>1, SaysTheSame, GatherStays DEF vars, AnswerInv, RunShaped
<1>2. CASE Next
  BY <1>1, <1>2, EarlyAnswers, ComposeAnswers, SiteAnswers, LaunchAnswers, FoldAnswers, RestAnswers
     DEF Next, Finished
<1> QED
  BY <1>1, <1>2

(* A result that is no error is the whole of what a clean run said, or     *)
(* says what stands in for it (inspect_outcome, answer_loss, run_request). *)
THEOREM AnswersAreWhole == Spec => []AnswerIsWhole
<1>1. AnswerInv => AnswerIsWhole
  BY DEF AnswerInv, Whole, AnswerIsWhole, RunAt
<1> QED
  BY <1>1, AnswerInit, AnswerNext, PipelineInit, PipelineNext, PTL DEF Spec

-----------------------------------------------------------------------------
(* Where a run starts, as far as the advice of an error rests on it.       *)
CallTyped == spec \in RunSpec /\ spec.shell.fate \in FatesOf[spec.backend]

(* What was heard of a run that failed, and of no other.                   *)
Heard(out) ==
  /\ out.says \in Complaints \cup {Quiet}
  /\ out.says = Quiet \/ out.end = "nonzero" \/ (out.end = "clean" /\ out.envelope = "error")
  /\ out.envelope = "error" => Claude

LEMMA ShellTyped ==
  ASSUME spec \in RunSpec
  PROVE  /\ Shell \in Shells /\ spec.backend \in Backends
         /\ Shell.settings \in SUBSET [key : STRING, wrong : {"unknown", "value", "retired"},
                                       where : {"argv", "profile", "config"}]
         /\ Shell.entries \in Seq([flag : ExtraFlags, name : STRING \ ExtraFlags, plain : BOOLEAN])
         /\ Shell.keyed \in BOOLEAN
<1>1. Shell \in Shells /\ spec.backend \in Backends
  BY DEF RunSpec, Shell
<1> QED
  BY <1>1 DEF Shells

LEMMA PassedAre ==
  ASSUME spec \in RunSpec, NEW e \in Passed
  PROVE  Codex /\ e.flag \in ExtraFlags /\ e.name \notin ExtraFlags /\ ~IsDenied(e)
<1> DEFINE E == [flag : ExtraFlags, name : STRING \ ExtraFlags, plain : BOOLEAN]
<1>1. Shell.entries \in Seq(E)
  BY ShellTyped
<1>2. PICK i \in DOMAIN Shell.entries : e = Shell.entries[i]
  BY DEF Passed
<1>3. e \in E
  <2> HIDE DEF E
  <2> QED
    BY <1>1, <1>2
<1>4. Codex /\ ~IsDenied(e)
  BY DEF Passed
<1> QED
  BY <1>3, <1>4

(* What the operator may set is nothing amicus keeps for itself.           *)
LEMMA OwnedIsAmicus ==
  ASSUME spec \in RunSpec
  PROVE  /\ OperatorKeys \cap DeniedKeys = {}
         /\ OperatorFeatures \cap OwnedFeatures = {}
         /\ OperatorFlags \subseteq ExtraFlags
         /\ OperatorWords \cap {"-c"} \subseteq OperatorFlags
         /\ ~Codex => OperatorFlags = {} /\ OperatorWords = {}
<1>1. OperatorKeys \cap DeniedKeys = {}
  BY PassedAre DEF OperatorKeys, IsDenied, Normal
<1>2. OperatorFeatures \cap OwnedFeatures = {}
  BY PassedAre DEF OperatorFeatures, IsDenied, Normal
<1>3. OperatorFlags \subseteq ExtraFlags
  BY PassedAre DEF OperatorFlags
<1>4. OperatorWords \cap {"-c"} \subseteq OperatorFlags
  BY PassedAre DEF OperatorWords, ExtraFlags
<1>5. ~Codex => OperatorFlags = {} /\ OperatorWords = {}
  BY DEF OperatorWords, OperatorFlags, Passed
<1> QED
  BY <1>1, <1>2, <1>3, <1>4, <1>5

(* A code that sends the right one to work, and is temporary only for what *)
(* passes.                                                                 *)
Advises(code, c) ==
  /\ c.by \in SentTo(code, c) \/ Misread(c)
  /\ code \in {"backend_rate_limited", "nonzero_exit"} => c.by \in {"nobody", "account"}

LEMMA ReadsWhat ==
  ASSUME NEW c
  PROVE  /\ c.says \in {"flag", "feature", "effort"} => Reads(c) = c.also \cup {"drift"}
         /\ c.says = "default_model" => Reads(c) = c.also \cup {"model"}
         /\ c.says \notin {"flag", "feature", "effort", "default_model"} =>
              Reads(c) = c.also \cup {c.says}
  BY DEF Reads

LEMMA PinIsSent ==
  ASSUME Codex
  PROVE  ("-c" \in SentFlags) <=> (PinnedKeys # {})
<1>1. ~Claude /\ ~Kimi
  BY DEF Codex, Claude, Kimi
<1> QED
  BY <1>1 DEF SentFlags, WantedFlags, Dropped, GatedFlags

LEMMA OneBackend ==
  ASSUME spec \in RunSpec
  PROVE  /\ Codex \/ Claude \/ Kimi
         /\ Codex => ~Claude /\ ~Kimi
         /\ Claude => ~Codex /\ ~Kimi
         /\ Kimi => ~Codex /\ ~Claude
  BY ShellTyped DEF Codex, Claude, Kimi, Backends

LEMMA FlagAdvised ==
  ASSUME spec \in RunSpec, NEW c \in RejectedFlags
  PROVE  Advises(Classified(c), c)
<1>1. PICK f \in (SentFlags \cup OperatorFlags) \cap Shell.gone :
        c = Says("flag", f, IF f \in SentFlags THEN "amicus" ELSE "operator", "argv", {})
  BY DEF RejectedFlags
<1>2. /\ c.says = "flag" /\ c.about = f /\ c.also = {}
      /\ c.by = IF f \in SentFlags THEN "amicus" ELSE "operator"
  BY <1>1 DEF Says
<1>3. Reads(c) = {"drift"}
  BY <1>2, ReadsWhat
<1>4. CASE Codex
  <2>1. Classified(c) = DriftCode(c)
    BY <1>2, <1>3, <1>4 DEF Classified, CodexCode
  <2>2. CASE f \in OperatorWords /\ f = "-c" /\ PinnedKeys # {}
    <3>1. c.by = "amicus"
      BY <1>2, <1>4, <2>2, PinIsSent
    <3>2. DriftCode(c) = "cli_contract_changed"
      BY <1>2, <2>2 DEF DriftCode
    <3> QED
      BY <2>1, <3>1, <3>2 DEF Advises, SentTo
  <2>3. CASE f \in OperatorWords /\ (f # "-c" \/ PinnedKeys = {})
    <3>1. {f} \cap OperatorWords = {f}
      BY <2>3
    <3>2. DriftCode(c) = "extra_args_rejected"
      BY <1>2, <2>3, <3>1 DEF DriftCode
    <3>3. c.by = "amicus" => f \in OperatorWords \ {"-c"}
      BY <1>2, <1>4, <2>3, PinIsSent
    <3>4. c.by = "operator" \/ Misread(c)
      BY <1>2, <3>3 DEF Misread
    <3> QED
      BY <2>1, <3>2, <3>4 DEF Advises, SentTo
  <2>4. CASE f \notin OperatorWords
    <3>1. f \in SentFlags
      BY <1>1, <2>4 DEF OperatorWords
    <3>2. DriftCode(c) = "cli_contract_changed"
      BY <1>2, <2>4 DEF DriftCode
    <3> QED
      BY <1>2, <2>1, <3>1, <3>2 DEF Advises, SentTo
  <2> QED
    BY <2>2, <2>3, <2>4
<1>5. CASE ~Codex
  <2>1. f \in SentFlags
    BY <1>1, <1>5, OwnedIsAmicus
  <2>2. Classified(c) = "cli_contract_changed"
    BY <1>2, <1>3, <1>5 DEF Classified, ClaudeCode, KimiCode
  <2> QED
    BY <1>2, <2>1, <2>2 DEF Advises, SentTo
<1> QED
  BY <1>4, <1>5

LEMMA FeatureAdvised ==
  ASSUME spec \in RunSpec, Codex, NEW c \in RejectedFeatures
  PROVE  Advises(Classified(c), c)
<1>1. PICK f \in (OwnedFeatures \cup OperatorFeatures) \cap Shell.gone :
        c = Says("feature", f, IF f \in OwnedFeatures THEN "amicus" ELSE "operator", "argv", {})
  BY DEF RejectedFeatures
<1>2. /\ c.says = "feature" /\ c.about = f /\ c.also = {}
      /\ c.by = IF f \in OwnedFeatures THEN "amicus" ELSE "operator"
  BY <1>1 DEF Says
<1>3. Reads(c) = {"drift"}
  BY <1>2, ReadsWhat
<1>4. Classified(c) = DriftCode(c)
  BY <1>2, <1>3 DEF Classified, CodexCode
<1>5. f # "-c"
  <2>1. f \in OperatorFeatures => f \notin ExtraFlags
    BY PassedAre DEF OperatorFeatures
  <2> QED
    BY <2>1 DEF OwnedFeatures, ExtraFlags
<1>6. CASE f \in OperatorWords
  <2>1. {f} \cap OperatorWords = {f} /\ {f} # {"-c"}
    BY <1>5, <1>6
  <2>2. DriftCode(c) = "extra_args_rejected"
    BY <1>2, <2>1 DEF DriftCode
  <2>3. c.by = "operator" \/ Misread(c)
    BY <1>2, <1>5, <1>6 DEF Misread
  <2> QED
    BY <1>4, <2>2, <2>3 DEF Advises, SentTo
<1>7. CASE f \notin OperatorWords
  <2>1. f \in OwnedFeatures
    BY <1>1, <1>7 DEF OperatorWords, OperatorFeatures
  <2>2. DriftCode(c) = "cli_contract_changed"
    BY <1>2, <1>7 DEF DriftCode
  <2> QED
    BY <1>2, <1>4, <2>1, <2>2 DEF Advises, SentTo
<1> QED
  BY <1>6, <1>7

LEMMA PinAdvised ==
  ASSUME spec \in RunSpec, Codex, NEW c \in RejectedPins
  PROVE  Advises(Classified(c), c)
<1>1. PICK how \in {"override", "retired", "value"}, k \in PinnedKeys \cap Shell.gone,
           also \in {{}, {"auth", "drift", "rate"}} : c = Says(how, k, "amicus", "argv", also)
  BY DEF RejectedPins
<1>2. c.says = how /\ c.about = k /\ c.by = "amicus"
  BY <1>1 DEF Says
<1>3. k \in PinnedKeys /\ k \in PluginKeys
  BY DEF PinnedKeys
<1>4. Classified(c) = "cli_contract_changed"
  BY <1>2, <1>3 DEF Classified, CodexCode
<1> QED
  BY <1>2, <1>4 DEF Advises, SentTo

LEMMA SettingAdvised ==
  ASSUME spec \in RunSpec, Codex, NEW c \in RejectedSettings
  PROVE  Advises(Classified(c), c)
<1>1. PICK s \in {t \in Shell.settings : IF t.wrong = "unknown" THEN IsStrict /\ IsRead(t)
                                        ELSE IsInForce(t)},
           also \in {{}, {"auth", "drift", "rate"}} :
        c = Says(IF s.wrong # "unknown" THEN s.wrong
                 ELSE IF s.where = "argv" THEN "override" ELSE "file",
                 s.key, OwnerOf(s), s.where, also)
  BY DEF RejectedSettings
<1>2. /\ c.says = IF s.wrong # "unknown" THEN s.wrong
                  ELSE IF s.where = "argv" THEN "override" ELSE "file"
      /\ c.about = s.key /\ c.by = OwnerOf(s) /\ c.where = s.where
  BY <1>1 DEF Says
<1>3. s.wrong \in {"unknown", "value", "retired"} /\ s.where \in {"argv", "profile", "config"}
  BY ShellTyped
<1>4. IsRead(s) /\ (s.wrong # "unknown" => IsInForce(s))
  BY <1>1 DEF IsInForce
<1>5. s.where = "argv" => s.key \notin PluginKeys /\ s.key \notin PinnedKeys /\ Owns(s.key)
  <2>1. SUFFICES ASSUME s.where = "argv"
                 PROVE  s.key \notin PluginKeys /\ s.key \notin PinnedKeys /\ Owns(s.key)
    OBVIOUS
  <2>2. s.key \in OperatorKeys
    BY <1>4, <2>1 DEF IsRead
  <2> QED
    BY <2>2, OwnedIsAmicus DEF DeniedKeys, PinnedKeys, Owns, Covers
<1>6. CASE s.wrong = "unknown"
  <2>1. CASE s.where = "argv"
    <3>1. Classified(c) = "extra_args_rejected"
      BY <1>2, <1>5, <1>6, <2>1 DEF Classified, CodexCode
    <3> QED
      BY <1>2, <2>1, <3>1 DEF Advises, SentTo, OwnerOf
  <2>2. CASE s.where # "argv"
    <3>1. Classified(c) = IF s.where = "profile" THEN "extra_args_rejected" ELSE "user_config_rejected"
      BY <1>2, <1>6, <2>2 DEF Classified, CodexCode
    <3>2. c.by = IF s.where = "profile" THEN "operator" ELSE "user"
      BY <1>2, <1>3, <2>2 DEF OwnerOf
    <3> QED
      BY <3>1, <3>2 DEF Advises, SentTo
  <2> QED
    BY <2>1, <2>2
<1>7. CASE s.wrong # "unknown"
  <2>1. c.says \in {"retired", "value"}
    BY <1>2, <1>3, <1>7
  <2>2. CASE s.where = "argv"
    <3>1. Classified(c) = "extra_args_rejected"
      BY <1>2, <1>5, <2>1, <2>2 DEF Classified, CodexCode
    <3> QED
      BY <1>2, <2>2, <3>1 DEF Advises, SentTo, OwnerOf
  <2>3. CASE s.where # "argv"
    <3>1. ~Owns(s.key) /\ s.key \notin PinnedKeys
      BY <1>4, <1>7, <2>3 DEF IsInForce, Setter, Pins
    <3>2. Classified(c) = "user_config_rejected"
      BY <1>2, <2>1, <3>1 DEF Classified, CodexCode
    <3>3. s.where = "profile" => HasProfile
      BY <1>4 DEF IsRead
    <3>4. c.by = IF s.where = "profile" THEN "operator" ELSE "user"
      BY <1>2, <1>3, <2>3 DEF OwnerOf
    <3> QED
      BY <2>1, <3>2, <3>3, <3>4 DEF Advises, SentTo
  <2> QED
    BY <2>2, <2>3
<1> QED
  BY <1>6, <1>7

LEMMA AliasAdvised ==
  ASSUME spec \in RunSpec, NEW c \in RejectedAlias
  PROVE  Advises(Classified(c), c)
<1>1. Kimi /\ c = Says("model", "alias", "caller", "run", {})
  BY DEF RejectedAlias
<1>2. c.says = "model" /\ c.by = "caller" /\ c.also = {} /\ ~Codex /\ ~Claude
  BY <1>1, OneBackend DEF Says
<1>3. Reads(c) = {"model"}
  BY <1>2, ReadsWhat
<1>4. Classified(c) = "invalid_model"
  BY <1>2, <1>3 DEF Classified, KimiCode
<1> QED
  BY <1>2, <1>4 DEF Advises, SentTo

(* A run that started, and failed of what its CLI can fail of.             *)
LEMMA FateAdvised ==
  ASSUME CallTyped, NEW c, Shell.fate # "other",
         c = Says(Shell.fate, Shell.fate, FateOf[Shell.fate], "run", {})
  PROVE  Advises(Classified(c), c)
<1>1. /\ c.says = Shell.fate /\ c.by = FateOf[Shell.fate] /\ c.also = {} /\ c.about = Shell.fate
  BY DEF Says
<1>2. /\ Codex => Shell.fate \in {"auth", "rate", "effort"}
      /\ Claude => Shell.fate \in {"auth", "rate", "key", "budget"}
      /\ Kimi => Shell.fate \in {"auth", "rate", "default_model"}
  BY DEF CallTyped, FatesOf, Shell, Codex, Claude, Kimi
<1>3. Codex \/ Claude \/ Kimi
  BY OneBackend DEF CallTyped
<1>4. CASE Shell.fate = "auth"
  <2>1. Reads(c) = {"auth"} /\ c.by = "account" /\ c.says = "auth"
    BY <1>1, <1>4, ReadsWhat DEF FateOf
  <2>2. Classified(c) = "backend_auth_required"
    BY <2>1 DEF Classified, CodexCode, ClaudeCode, KimiCode
  <2> QED
    BY <2>1, <2>2 DEF Advises, SentTo
<1>5. CASE Shell.fate = "rate"
  <2>1. Reads(c) = {"rate"} /\ c.by = "account" /\ c.says = "rate"
    BY <1>1, <1>5, ReadsWhat DEF FateOf
  <2>2. Classified(c) = "backend_rate_limited"
    BY <2>1 DEF Classified, CodexCode, ClaudeCode, KimiCode
  <2> QED
    BY <2>1, <2>2 DEF Advises, SentTo
<1>6. CASE Shell.fate = "effort"
  <2>1. Codex
    BY <1>2, <1>3, <1>6
  <2>2. Reads(c) = {"drift"} /\ c.says = "effort" /\ c.by = IF EffortTold THEN "caller" ELSE "user"
    BY <1>1, <1>6, ReadsWhat DEF FateOf
  <2>3. Classified(c) = DriftCode(c)
    BY <2>1, <2>2 DEF Classified, CodexCode
  <2>4. CASE EffortTold
    <3>1. DriftCode(c) = "invalid_reasoning_effort"
      BY <2>2, <2>4 DEF DriftCode
    <3> QED
      BY <2>2, <2>3, <2>4, <3>1 DEF Advises, SentTo
  <2>5. CASE ~EffortTold
    <3>1. Misread(c)
      BY <2>2, <2>5 DEF Misread
    <3>2. DriftCode(c) \in {"extra_args_rejected", "cli_contract_changed"}
      BY <2>5 DEF DriftCode
    <3> QED
      BY <2>3, <3>1, <3>2 DEF Advises
  <2> QED
    BY <2>4, <2>5
<1>7. CASE Shell.fate \in {"key", "budget"}
  <2>1. Claude /\ ~Codex
    BY <1>2, <1>3, <1>7, OneBackend DEF CallTyped
  <2>2. Reads(c) = {c.says} /\ c.says = Shell.fate
    BY <1>1, <1>7, ReadsWhat
  <2>3. Classified(c) = IF Shell.fate = "key" THEN "api_key_invalid" ELSE "budget_exceeded"
    BY <1>7, <2>1, <2>2 DEF Classified, ClaudeCode
  <2>4. c.by = IF Shell.fate = "key" THEN "account" ELSE "caller"
    BY <1>1, <1>7 DEF FateOf
  <2> QED
    BY <2>3, <2>4 DEF Advises, SentTo
<1>8. CASE Shell.fate = "default_model"
  <2>1. ~Claude /\ ~Codex
    BY <1>2, <1>3, <1>8, OneBackend DEF CallTyped
  <2>2. Reads(c) = {"model"} /\ c.says = "default_model" /\ c.by = "user"
    BY <1>1, <1>8, ReadsWhat DEF FateOf
  <2>3. Classified(c) = "invalid_model"
    BY <2>1, <2>2 DEF Classified, KimiCode
  <2> QED
    BY <2>2, <2>3 DEF Advises, SentTo
<1> QED
  BY <1>2, <1>3, <1>4, <1>5, <1>6, <1>7, <1>8

LEMMA QuietAdvised ==
  /\ Classified(Quiet) = "nonzero_exit" /\ Advises("nonzero_exit", Quiet)
  /\ Quiet.by = "nobody" /\ ClaudeCode(Quiet) = "nonzero_exit"
<1>1. Quiet.says = "other" /\ Quiet.by = "nobody" /\ Quiet.also = {}
  BY DEF Quiet, Says
<1>2. Reads(Quiet) = {"other"}
  BY <1>1, ReadsWhat
<1>3. Classified(Quiet) = "nonzero_exit" /\ ClaudeCode(Quiet) = "nonzero_exit"
  BY <1>1, <1>2 DEF Classified, CodexCode, ClaudeCode, KimiCode
<1> QED
  BY <1>1, <1>3 DEF Advises, SentTo

LEMMA ComplaintAdvised ==
  ASSUME CallTyped, NEW c \in Complaints \cup {Quiet}
  PROVE  Advises(Classified(c), c)
<1>1. CASE c = Quiet
  BY <1>1, QuietAdvised
<1>2. CASE c \in Startup
  <2>1. \/ c \in RejectedFlags \cup RejectedAlias
        \/ Codex /\ c \in RejectedFeatures \cup RejectedPins \cup RejectedSettings
    BY <1>2 DEF Startup
  <2> QED
    BY <2>1, FlagAdvised, AliasAdvised, FeatureAdvised, PinAdvised, SettingAdvised DEF CallTyped
<1>3. CASE Shell.fate # "other" /\ c = Says(Shell.fate, Shell.fate, FateOf[Shell.fate], "run", {})
  BY <1>3, FateAdvised
<1> QED
  BY <1>1, <1>2, <1>3 DEF Complaints

-----------------------------------------------------------------------------
(* What a run is asked does not change, and nothing that is read of it.    *)
LEMMA WordsStay ==
  ASSUME UNCHANGED spec
  PROVE  /\ Shell' = Shell /\ (Codex' <=> Codex) /\ (Claude' <=> Claude) /\ (Kimi' <=> Kimi)
         /\ (Writes' <=> Writes) /\ (EffortTold' <=> EffortTold)
         /\ Passed' = Passed /\ OperatorFlags' = OperatorFlags /\ OperatorKeys' = OperatorKeys
         /\ OperatorFeatures' = OperatorFeatures /\ OperatorWords' = OperatorWords
         /\ (HasProfile' <=> HasProfile) /\ \A key : Owns(key)' <=> Owns(key)
<1>1. /\ Shell' = Shell /\ (Codex' <=> Codex) /\ (Claude' <=> Claude) /\ (Kimi' <=> Kimi)
      /\ (Writes' <=> Writes)
  BY DEF Shell, Codex, Claude, Kimi, Writes
<1>2. EffortTold' <=> EffortTold
  BY <1>1 DEF EffortTold
<1>3. Passed' = Passed
  BY <1>1 DEF Passed
<1>4. OperatorFlags' = OperatorFlags /\ OperatorKeys' = OperatorKeys
      /\ OperatorFeatures' = OperatorFeatures
  BY <1>3 DEF OperatorFlags, OperatorKeys, OperatorFeatures
<1>5. OperatorWords' = OperatorWords
  BY <1>3, <1>4 DEF OperatorWords
<1>6. (HasProfile' <=> HasProfile) /\ \A key : Owns(key)' <=> Owns(key)
  BY <1>3, <1>4 DEF HasProfile, Owns
<1> QED
  BY <1>1, <1>2, <1>3, <1>4, <1>5, <1>6

LEMMA FlagsStay ==
  ASSUME UNCHANGED spec
  PROVE  /\ PinnedKeys' = PinnedKeys /\ (IsStrict' <=> IsStrict)
         /\ \A key : Setter(key)' = Setter(key)
         /\ Mode' = Mode /\ SentFlags' = SentFlags
<1> USE WordsStay
<1>1. PinnedKeys' = PinnedKeys
  BY DEF PinnedKeys
<1>2. (IsStrict' <=> IsStrict) /\ \A key : Setter(key)' = Setter(key)
  BY <1>1 DEF IsStrict, Setter, Pins
<1>3. Mode' = Mode /\ Access' = Access
  BY DEF Mode, Access
<1>4. ModeFlags' = ModeFlags
  BY <1>3 DEF ModeFlags
<1>5. WantedFlags' = WantedFlags
  BY <1>1, <1>2, <1>3, <1>4 DEF WantedFlags, Codex, Claude, Kimi, Shell, EffortTold, Writes
<1>6. Dropped' = Dropped
  BY <1>5 DEF Dropped, GatedFlags, IsSupported, Codex, Claude, Kimi, Shell
<1> QED
  BY <1>1, <1>2, <1>3, <1>5, <1>6 DEF SentFlags

LEMMA ComplaintsStay ==
  ASSUME UNCHANGED spec
  PROVE  Complaints' = Complaints
<1> USE WordsStay, FlagsStay
<1>1. \A s : IsRead(s)' <=> IsRead(s)
  BY DEF IsRead
<1>2. \A s : IsInForce(s)' <=> IsInForce(s)
  BY <1>1 DEF IsInForce
<1>3. RejectedFlags' = RejectedFlags /\ RejectedFeatures' = RejectedFeatures
  BY DEF RejectedFlags, RejectedFeatures
<1>4. RejectedPins' = RejectedPins
  BY DEF RejectedPins
<1>5. RejectedSettings' = RejectedSettings
  BY <1>1, <1>2 DEF RejectedSettings
<1>6. RejectedAlias' = RejectedAlias
  BY DEF RejectedAlias
<1>7. Startup' = Startup
  BY <1>3, <1>4, <1>5, <1>6 DEF Startup
<1> QED
  BY <1>7 DEF Complaints, FateOf

-----------------------------------------------------------------------------
(* The hint of a refused workspace.                                        *)
LEMMA GreatestExists ==
  ASSUME NEW S, NEW bound \in Nat, S # {}, \A d \in S : Len(d) \in 0..bound
  PROVE  \E d \in S : \A e \in S : Len(e) <= Len(d)
<1> DEFINE short == {n \in 0..bound : \E d \in S : n = bound - Len(d)}
<1>1. short \subseteq Nat /\ short # {}
  <2>1. PICK d \in S : TRUE
    OBVIOUS
  <2>2. PICK n \in 0..bound : n = bound - Len(d)
    OBVIOUS
  <2>3. n \in short
    BY <2>2
  <2>4. short \subseteq 0..bound
    OBVIOUS
  <2> HIDE DEF short
  <2> QED
    BY <2>3, <2>4
<1>2. PICK n \in short : \A k \in short : n <= k
  <2> HIDE DEF short
  <2> QED
    BY <1>1, LeastExists
<1>3. PICK d \in S : n = bound - Len(d)
  OBVIOUS
<1>4. \A e \in S : bound - Len(e) \in short
  OBVIOUS
<1>5. \A e \in S : n <= bound - Len(e)
  BY <1>2, <1>4
<1>6. \A e \in S : Len(e) <= Len(d)
  BY <1>3, <1>5
<1> QED
  BY <1>6

LEMMA ResolvedIsPath ==
  ASSUME NEW path \in Seq(STRING)
  PROVE  Resolved(path) \in Seq(STRING)
<1> DEFINE through == {link \in DOMAIN Links : IsPrefix(link, path)}
           link == CHOOSE l \in through : TRUE
<1>1. CASE through = {}
  BY <1>1 DEF Resolved
<1>2. CASE through # {}
  <2>1. link \in through
    BY <1>2
  <2>2. link \in DOMAIN Links /\ link \in Seq(STRING)
    BY <2>1, WorkspaceAssumption
  <2>3. Links[link] \in Seq(STRING)
    BY <2>2, WorkspaceAssumption
  <2>4. Resolved(path) = Links[link] \o SubSeq(path, Len(link) + 1, Len(path))
    BY <1>2 DEF Resolved
  <2> HIDE DEF link
  <2>5. Len(link) + 1 \in Nat /\ Len(path) \in Nat /\ Len(link) + 1 >= 1
    BY <2>2
  <2>6. SubSeq(path, Len(link) + 1, Len(path)) \in Seq(STRING)
    BY <2>5
  <2> QED
    BY <2>3, <2>4, <2>6
<1> QED
  BY <1>1, <1>2

LEMMA ResolvedStays ==
  ASSUME NEW dir \in Directories
  PROVE  Resolved(dir) = dir
<1>1. {link \in DOMAIN Links : IsPrefix(link, dir)} = {}
  BY WorkspaceAssumption
<1> QED
  BY <1>1 DEF Resolved

LEMMA HintsLead ==
  ASSUME spec \in RunSpec
  PROVE  HintLeads
<1> DEFINE roots == RootsOf(spec.place)
           path == spec.place.asked
           hint == Hint(path, roots)
           above == {d \in DOMAIN GitLinks : IsWithin(Resolved(path), d)}
           nearest == CHOOSE d \in above : \A other \in above : Len(other) <= Len(d)
<1> SUFFICES ASSUME hint # NoPath
             PROVE  Resolution([spec.place EXCEPT !.asked = hint]).code = "none"
  BY DEF HintLeads
<1>1. spec.place \in Places /\ path \in Seq(STRING)
  BY DEF RunSpec, Places
<1>2. above # {} /\ GitLinks[nearest].mutual /\ Inside(hint, roots) /\ hint = GitLinks[nearest].checkout
  BY DEF Hint
<1>3. Resolved(path) \in Seq(STRING)
  BY <1>1, ResolvedIsPath
<1>4. \A d \in above : Len(d) \in 0..Len(Resolved(path))
  BY <1>3, WorkspaceAssumption DEF IsWithin, IsPrefix
<1>5. \E d \in above : \A other \in above : Len(other) <= Len(d)
  <2>1. Len(Resolved(path)) \in Nat
    BY <1>3
  <2> HIDE DEF above
  <2> QED
    BY <1>2, <1>4, <2>1, GreatestExists
<1>6. nearest \in above
  <2> HIDE DEF above
  <2> QED
    BY <1>5
<1>7. hint \in Directories
  BY <1>2, <1>6, WorkspaceAssumption
<1> HIDE DEF hint, path
<1> DEFINE accepted == [spec.place EXCEPT !.asked = hint]
<1>8. accepted.asked = hint /\ RootsOf(accepted) = roots
  <2>1. accepted.client = spec.place.client /\ accepted.roots = spec.place.roots /\ accepted.asked = hint
    BY <1>1 DEF Places
  <2> HIDE DEF accepted
  <2> QED
    BY <2>1 DEF RootsOf
<1>9. Resolved(hint) = hint /\ ~Relative(hint) /\ hint # NoPath /\ IsDir(hint)
  BY <1>7, ResolvedStays, WorkspaceAssumption DEF IsDir
<1>10. Bounds(hint, roots)
  BY <1>2, <1>9 DEF Bounds
<1> HIDE DEF roots, accepted
<1>11. Resolution(accepted) = Found(hint, "param")
  BY <1>8, <1>9, <1>10 DEF Resolution
<1> QED
  BY <1>11 DEF Found, accepted

-----------------------------------------------------------------------------
(* What a failure is reported as.                                          *)
AdviceInv == CallTyped /\ Heard(run.out)

LEMMA HeardStays ==
  ASSUME UNCHANGED spec, \E out : Heard(out) /\ run'.out = out
  PROVE  Heard(run.out)'
  BY WordsStay, ComplaintsStay DEF Heard

LEMMA FailureAdvised ==
  ASSUME CallTyped, NEW out, Heard(out)
  PROVE  LET code == Failure(out)
         IN  /\ out.says.by \in SentTo(code, out.says) \/ Misread(out.says)
             /\ Temporary(code, out) => ~Shell.keyed /\ out.says.by \in {"nobody", "account"}
<1> DEFINE c == out.says  code == Failure(out)
           Sound == /\ c.by \in SentTo(code, c) \/ Misread(c)
                    /\ Temporary(code, out) => ~Shell.keyed /\ c.by \in {"nobody", "account"}
<1>1. c \in Complaints \cup {Quiet} /\ Advises(Classified(c), c)
  BY ComplaintAdvised DEF Heard
<1>2. c = Quiet => c.by = "nobody"
  BY QuietAdvised
<1>3. CASE c = Quiet /\ code \notin {"extra_args_rejected", "cli_contract_changed", "user_config_rejected",
              "invalid_reasoning_effort", "budget_exceeded", "backend_auth_required",
              "api_key_invalid", "backend_rate_limited", "invalid_model"}
  <2>1. SentTo(code, c) = {"nobody"}
    BY <1>3 DEF SentTo
  <2> QED
    BY <1>2, <1>3, <2>1 DEF Temporary
<1>4. CASE code = Classified(c)
  <2>1. c.by \in SentTo(code, c) \/ Misread(c)
    BY <1>1, <1>4 DEF Advises
  <2>2. ASSUME Temporary(code, out)
        PROVE  ~Shell.keyed /\ c.by \in {"nobody", "account"}
    <3>1. code \notin {"invalid_json", "empty_response", "timeout"}
      <4>1. DriftCode(c) \notin {"invalid_json", "empty_response", "timeout"}
        BY DEF DriftCode
      <4>2. Classified(c) \notin {"invalid_json", "empty_response", "timeout"}
        BY <4>1 DEF Classified, CodexCode, ClaudeCode, KimiCode
      <4> QED
        BY <1>4, <4>2
    <3>2. ~Shell.keyed /\ code \in {"backend_rate_limited", "nonzero_exit"}
      BY <2>2, <3>1 DEF Temporary
    <3> QED
      BY <1>1, <1>4, <3>2 DEF Advises
  <2> QED
    BY <2>1, <2>2
<1>5. CASE out.end = "clean"
  <2>1. code = Inspected(out)
    BY <1>5 DEF Failure
  <2>2. CASE out.envelope = "error" /\ Claude
    <3>1. code = ClaudeCode(c)
      BY <2>1, <2>2 DEF Inspected, Claude
    <3>2. Classified(c) = ClaudeCode(c)
      BY <2>2 DEF Classified, Codex, Claude
    <3> QED
      BY <1>4, <3>1, <3>2
  <2>3. CASE out.envelope # "error"
    <3>1. c = Quiet
      BY <1>5, <2>3 DEF Heard
    <3>2. code \in {"invalid_json", "permission_error", "none", "empty_response"}
      BY <2>1, <2>3 DEF Inspected
    <3> QED
      BY <1>3, <3>1, <3>2
  <2> QED
    BY <2>2, <2>3 DEF Heard
<1>6. CASE out.end \in {"missing", "timeout"}
  <2>1. c = Quiet
    BY <1>6 DEF Heard
  <2>2. code \in {"backend_not_found", "timeout"}
    BY <1>6 DEF Failure
  <2> QED
    BY <1>3, <2>1, <2>2
<1>7. CASE out.end \notin {"clean", "missing", "timeout"}
  <2>1. code = Classified(c)
    BY <1>7 DEF Failure
  <2> QED
    BY <1>4, <2>1
<1> QED
  BY <1>5, <1>6, <1>7

LEMMA OutStays ==
  ASSUME RunShaped, Next
  PROVE  UNCHANGED spec /\ (run'.out \in {run.out, Unspawned} \/ BackendEnds)
<1>0. UNCHANGED spec
  BY DEF Next, Preflight, EnsureRepo, Plan, Count, Compose, SelectSite, EnterSite, Launch, AgentActs, BackendEnds,
         CancelLands, Fold, Capture, Leave, Cancel, Kill, UserActs, Finished, vars
<1> DEFINE Stays == run'.out = run.out
<1>1. (\E code : Refuses(code)) => Stays
  BY RefusesRun
<1>2. (\E stage : RunGoes(stage)) => Stays
  BY DEF RunGoes, RunShaped
<1>3. (\E foretold : IsTold(foretold)) => Stays
  BY ToldRun
<1>4. (\E code, status : AnswersWith(code, status)) => Stays
  BY AnswersRun
<1>5. (\E code : LeavesWith(code)) => Stays
  BY LeavesRun
<1>6. (\E stage, foretold : run' = [run EXCEPT !.at = stage, !.foretold = foretold]) => Stays
  BY DEF RunShaped
<1>7. (\E stage, site : run' = [run EXCEPT !.at = stage, !.site = site]) => Stays
  BY DEF RunShaped
<1>8. (UNCHANGED run) => Stays
  OBVIOUS
<1>9. (\E diff : Concludes(diff)) => Stays
  BY DeliversRun DEF Concludes
<1>10. (\E code, said : run' = [run EXCEPT !.at = "leaving", !.code = code, !.said = said]) => Stays
  BY DEF RunShaped
<1>11. CASE Preflight \/ EnsureRepo \/ Plan \/ Count
  BY <1>1, <1>2, <1>3, <1>6, <1>11 DEF Preflight, EnsureRepo, Plan, Count
<1>12. CASE Compose
  BY <1>1, <1>2, <1>3, <1>4, <1>8, <1>12 DEF Compose, NotRun
<1>13. CASE SelectSite \/ EnterSite
  BY <1>2, <1>4, <1>7, <1>8, <1>13 DEF SelectSite, EnterSite, EntersTree
<1>14. CASE Launch
  <2>1. run' = [run EXCEPT !.at = "folding", !.out = Unspawned] => run'.out = Unspawned
    BY DEF RunShaped
  <2> QED
    BY <1>2, <1>5, <1>14, <2>1 DEF Launch
<1>15. CASE CancelLands \/ Fold \/ Capture
  BY <1>2, <1>5, <1>9, <1>10, <1>15 DEF CancelLands, Fold, Capture
<1>16. CASE AgentActs \/ Leave \/ Cancel \/ Kill \/ UserActs \/ Finished
  <2>1. Cancel => Stays
    BY DEF Cancel, RunShaped
  <2>2. Leave \/ Kill => Stays
    BY <1>2 DEF Leave, Kill
  <2>3. AgentActs \/ UserActs \/ Finished => Stays
    BY DEF AgentActs, UserActs, Finished, vars
  <2> QED
    BY <1>0, <1>16, <2>1, <2>2, <2>3
<1> QED
  BY <1>0, <1>11, <1>12, <1>13, <1>14, <1>15, <1>16 DEF Next

LEMMA EndIsHeard ==
  ASSUME CallTyped, RunShaped, BackendEnds
  PROVE  \E out : Heard(out) /\ run'.out = out
<1>1. PICK o \in Outputs[spec.backend][Staged] :
        \E reply, says :
          /\ says \in IF o.end = "nonzero" \/ (o.end = "clean" /\ o.envelope = "error")
                      THEN Complaints ELSE {Quiet}
          /\ run' = [run EXCEPT !.at = "folding", !.out = [o EXCEPT !.says = says], !.reply = reply]
  BY DEF BackendEnds
<1>2. PICK reply, says :
        /\ says \in IF o.end = "nonzero" \/ (o.end = "clean" /\ o.envelope = "error")
                    THEN Complaints ELSE {Quiet}
        /\ run' = [run EXCEPT !.at = "folding", !.out = [o EXCEPT !.says = says], !.reply = reply]
  BY <1>1
<1>3. run'.out = [o EXCEPT !.says = says]
  BY <1>2 DEF RunShaped
<1>4. spec.backend \in Backends
  BY DEF CallTyped, RunSpec
<1>5. o.envelope = "error" => Claude
  BY <1>4, OutputIsCandid DEF Candid, Claude
<1>6. PICK e, t, h, s, v, a : o = [end |-> e, told |-> t, capture |-> h, stream |-> s,
                                    envelope |-> v, file |-> a, says |-> Quiet]
  <2>1. Staged \in BOOLEAN
    BY DEF Staged
  <2>2. o \in OutputsOf(spec.backend, Staged)
    BY <1>4, <2>1 DEF Outputs
  <2> QED
    BY <2>2 DEF OutputsOf
<1>7. LET out == [o EXCEPT !.says = says]
      IN  out.says = says /\ out.end = o.end /\ out.envelope = o.envelope
  BY <1>6
<1>8. Heard([o EXCEPT !.says = says])
  BY <1>2, <1>5, <1>7 DEF Heard
<1> QED
  BY <1>3, <1>8

LEMMA AdviceNext == AdviceInv /\ PipelineInv /\ [Next]_vars => AdviceInv'
<1> SUFFICES ASSUME AdviceInv, PipelineInv, [Next]_vars
             PROVE  AdviceInv'
  OBVIOUS
<1>1. RunShaped
  BY DEF PipelineInv
<1>2. UNCHANGED spec /\ (run'.out \in {run.out, Unspawned} \/ BackendEnds)
  BY <1>1, OutStays DEF vars
<1>3. Heard(Unspawned)
  BY DEF Heard, Unspawned
<1>4. \E out : Heard(out) /\ run'.out = out
  BY <1>1, <1>2, <1>3, EndIsHeard DEF AdviceInv
<1>5. CallTyped'
  BY <1>2 DEF AdviceInv, CallTyped
<1> QED
  BY <1>2, <1>4, <1>5, HeardStays DEF AdviceInv

LEMMA AdviceInit == Init => AdviceInv
<1> SUFFICES ASSUME Init
             PROVE  AdviceInv
  OBVIOUS
<1>1. PICK family \in Profiles : \E p \in family : spec = p.spec /\ run = NoRun
  BY DEF Init
<1>2. PICK p \in family : spec = p.spec /\ run = NoRun
  BY <1>1
<1>3. CallTyped
  BY <1>2, RequestAssumption DEF CallTyped
<1>4. Heard(run.out)
  BY <1>2 DEF Heard, NoRun, Unspawned
<1> QED
  BY <1>3, <1>4 DEF AdviceInv

(* An error sends to work the one whose it is, calls itself temporary only *)
(* if nobody has to change anything first, and a hint of a refused         *)
(* workspace is accepted there, for every configuration, whatever the      *)
(* operator passes through and whatever the CLI says (classify_failure,    *)
(* render_failure, linked_worktree_checkout).                              *)
THEOREM AdviceIsOfItsOwner == Spec => []AdviceIsSound
<1>1. AdviceInv => AdviceIsSound
  BY FailureAdvised, HintsLead DEF AdviceInv, CallTyped, AdviceIsSound
<1> QED
  BY <1>1, AdviceInit, AdviceNext, PipelineInit, PipelineNext, PTL DEF Spec

-----------------------------------------------------------------------------
(* The command line, and the directory it runs in.                         *)
LEMMA PlaceIsFound ==
  ASSUME spec \in RunSpec, Where.code = "none"
  PROVE  WorksInPlace
<1> DEFINE place == spec.place  roots == RootsOf(place)  first == roots[Min(DOMAIN roots)]
<1>1. place \in Places
  BY DEF RunSpec
<1>2. roots # <<>> => DOMAIN roots # {} /\ DOMAIN roots \subseteq Nat
  <2> SUFFICES ASSUME roots # <<>>
               PROVE  DOMAIN roots # {} /\ DOMAIN roots \subseteq Nat
    OBVIOUS
  <2> DEFINE kept == {k \in DOMAIN place.roots : place.roots[k].file /\ place.roots[k].path # <<>>}
  <2>1. roots = [i \in kept |-> place.roots[i].path]
    BY DEF RootsOf
  <2>2. kept \subseteq Nat
    BY <1>1 DEF Places
  <2>3. kept # {}
    <3> SUFFICES ASSUME kept = {}
                 PROVE  FALSE
      OBVIOUS
    <3>1. roots = [i \in {} |-> place.roots[i].path]
      BY <2>1
    <3>2. [i \in {} |-> place.roots[i].path] = <<>>
      OBVIOUS
    <3> QED
      BY <3>1, <3>2
  <2> QED
    BY <2>1, <2>2, <2>3
<1>3. roots # <<>> => Min(DOMAIN roots) \in DOMAIN roots
  <2> HIDE DEF roots
  <2> QED
    BY <1>2, LeastIsIn
<1>4. Where = Resolution(place)
  BY DEF Where
<1>5. \A dir \in Directories : IsPrefix(dir, dir)
  BY WorkspaceAssumption DEF IsPrefix
<1>6. CASE place.asked # NoPath
  <2>1. /\ Where = Found(Resolved(place.asked), "param")
        /\ IsDir(Resolved(place.asked)) /\ Bounds(place.asked, roots)
    BY <1>4, <1>6 DEF Resolution, Nowhere
  <2> QED
    BY <1>6, <2>1 DEF WorksInPlace, Found, Bounds
<1>7. CASE place.asked = NoPath /\ roots # <<>>
  <2>1. Where = Found(Resolved(first), "roots") /\ IsDir(Resolved(first))
    BY <1>4, <1>7 DEF Resolution, Nowhere
  <2>2. Inside(Resolved(first), roots)
    BY <1>3, <1>5, <1>7, <2>1 DEF Inside, IsWithin, IsDir
  <2> QED
    BY <1>7, <2>1, <2>2 DEF WorksInPlace, Found
<1>8. CASE place.asked = NoPath /\ roots = <<>>
  <2>1. Where = Found(Resolved(place.cwd), "cwd") /\ IsDir(Resolved(place.cwd)) /\ place.allowed
    BY <1>4, <1>8 DEF Resolution, Nowhere
  <2> QED
    BY <1>8, <2>1 DEF WorksInPlace, Found
<1> QED
  BY <1>6, <1>7, <1>8

AsConfigured ==
    /\ WorksInPlace
    /\ Codex => /\ \A key \in PinnedKeys \cup FeatureKeys : Setter(key) = "amicus"
                /\ Writes => {NetworkKey, RootsKey} \subseteq PinnedKeys
                /\ \A key \in {"sandbox_mode", "approval_policy", "model"} : ~Owns(key)
                /\ OperatorFeatures \cap OwnedFeatures = {}
    /\ Guards \subseteq SentFlags
    /\ Claude /\ spec.verb = "adversarial_review" /\ Shell.askedMode = "none" =>
         SentFlags \cap {"--safe-mode", "--bare"} # {}
    /\ "ANTHROPIC_API_KEY" \in Inherited /\ Claude => Mode = "bare"
    /\ Kimi => "KIMI_CODE_TRUST_WORKSPACE" \notin Inherited
    /\ Shell.effort = "odd" => Codex \/ (Kimi /\ Shell.catalog = "unlisted" /\ Shell.model)

LEMMA CommandIsAmicus ==
  ASSUME spec \in RunSpec, Where.code = "none", Invalid = "none"
  PROVE  AsConfigured
<1>1. WorksInPlace
  BY PlaceIsFound
<1>2. ASSUME NEW key, key \in PluginKeys \cup FeatureKeys \cup {"sandbox_mode", "approval_policy", "model"}
      PROVE  ~Owns(key)
  <2>1. key \in DeniedKeys /\ "features" \in DeniedKeys
    BY <1>2 DEF DeniedKeys
  <2>2. key # "tools.web_search"
    BY <1>2 DEF PluginKeys, FeatureKeys, NetworkKey, RootsKey, EffortKey, TurnKey
  <2> QED
    BY <2>1, <2>2, OwnedIsAmicus DEF Owns, Covers
<1>3. PinnedKeys \subseteq PluginKeys
  BY DEF PinnedKeys
<1>4. \A key \in PinnedKeys \cup FeatureKeys : Setter(key) = "amicus"
  BY <1>2, <1>3 DEF Setter, Pins
<1>5. Codex /\ Writes => {NetworkKey, RootsKey} \subseteq PinnedKeys
  BY DEF PinnedKeys, PluginKeys, EffortKey, TurnKey, NetworkKey, RootsKey
<1>6. Guards \subseteq SentFlags
  <2>1. CASE Codex
    BY <2>1, OneBackend DEF Guards, SentFlags, WantedFlags, Dropped, GatedFlags
  <2>2. CASE Claude
    BY <2>2, OneBackend DEF Guards, SentFlags, WantedFlags, ModeFlags, Dropped, GatedFlags
  <2>3. CASE Kimi
    BY <2>3, OneBackend DEF Guards, SentFlags, WantedFlags, Dropped, GatedFlags
  <2> QED
    BY <2>1, <2>2, <2>3, OneBackend
<1>7. Claude /\ spec.verb = "adversarial_review" /\ Shell.askedMode = "none" =>
        SentFlags \cap {"--safe-mode", "--bare"} # {}
  <2> SUFFICES ASSUME Claude, spec.verb = "adversarial_review", Shell.askedMode = "none"
               PROVE  SentFlags \cap {"--safe-mode", "--bare"} # {}
    OBVIOUS
  <2>1. ~Codex /\ ~Kimi
    BY OneBackend
  <2>2. Mode \in {"safe", "bare"}
    BY DEF Mode
  <2>3. \E flag \in {"--safe-mode", "--bare"} : flag \in ModeFlags
    BY <2>2 DEF ModeFlags
  <2>4. \A flag \in {"--safe-mode", "--bare"} : flag \in ModeFlags => flag \in SentFlags
    BY <2>1 DEF SentFlags, WantedFlags, Dropped, GatedFlags
  <2> QED
    BY <2>3, <2>4
<1>8. ("ANTHROPIC_API_KEY" \in Inherited /\ Claude => Mode = "bare")
      /\ (Kimi => "KIMI_CODE_TRUST_WORKSPACE" \notin Inherited)
  BY DEF Inherited
<1>9. Shell.effort = "odd" => Codex \/ (Kimi /\ Shell.catalog = "unlisted" /\ Shell.model)
  BY OneBackend DEF Invalid
<1> QED
  BY <1>1, <1>2, <1>4, <1>5, <1>6, <1>7, <1>8, <1>9, OwnedIsAmicus DEF AsConfigured

-----------------------------------------------------------------------------
(* What a gather that nothing disturbs finds.                              *)
FoundFrom == IF OverTree THEN head ELSE Root
FoundPatch == Differing(FoundFrom, IF OverTree THEN Tracked ELSE head) \cap InScope
AddsNew == OverTree /\ GathersUntracked
FoundFiles == IF AddsNew THEN FoundPatch \cup NewInScope ELSE FoundPatch
FoundRead == FedFiles(spec, NewAccumulator, FoundPatch)
FoundDiff == IF AddsNew THEN FedFiles(spec, FoundRead, NewInScope) ELSE FoundRead
FoundNothing == FoundFiles = {} /\ FoundDiff.sent = <<>>

LEMMA FoundStays ==
  ASSUME UNCHANGED <<spec, head, staged, live>>
  PROVE  /\ FoundFrom' = FoundFrom /\ FoundPatch' = FoundPatch /\ FoundFiles' = FoundFiles
         /\ FoundRead' = FoundRead /\ FoundDiff' = FoundDiff /\ (FoundNothing' <=> FoundNothing)
         /\ Tracked' = Tracked
<1>1. /\ Tracked' = Tracked /\ (OverTree' <=> OverTree) /\ InScope' = InScope
      /\ (GathersUntracked' <=> GathersUntracked) /\ FoundFrom' = FoundFrom
  BY DEF Tracked, OverTree, InScope, GathersUntracked, FoundFrom, Root
<1>2. NewInScope' = NewInScope
  BY <1>1 DEF NewInScope, Untracked
<1>3. FoundPatch' = FoundPatch /\ (AddsNew' <=> AddsNew)
  BY <1>1 DEF FoundPatch, Differing, AddsNew
<1>4. FoundFiles' = FoundFiles
  BY <1>2, <1>3 DEF FoundFiles
<1>5. FoundRead' = FoundRead
  BY <1>3 DEF FoundRead
<1>6. FoundDiff' = FoundDiff
  BY <1>2, <1>3, <1>5 DEF FoundDiff
<1> QED
  BY <1>1, <1>3, <1>4, <1>5, <1>6 DEF FoundNothing

-----------------------------------------------------------------------------
(* How a run is answered, as far as a dry run foretells it.                *)
Past == {"choosing", "entering", "launching", "running", "folding", "capturing", "leaving"}

LEMMA GoesOn ==
  ASSUME RunShaped, NEW stage, RunGoes(stage)
  PROVE  /\ run'.at = stage /\ run'.foretold = run.foretold /\ run'.code = run.code
         /\ run'.status = run.status
  BY DEF RunShaped, RunGoes

LEMMA AnsweredSo ==
  ASSUME RunShaped, NEW code, NEW status, AnswersWith(code, status)
  PROVE  /\ run'.at = "answered" /\ run'.foretold = run.foretold /\ run'.code = code
         /\ run'.status = status
  BY DEF RunShaped, AnswersWith

LEMMA ToldSo ==
  ASSUME RunShaped, NEW foretold, IsTold(foretold)
  PROVE  /\ run'.at = "asked" /\ run'.foretold = foretold /\ run'.code = run.code
         /\ run'.status = run.status
  BY DEF RunShaped, IsTold

LEMMA LeftSo ==
  ASSUME RunShaped, NEW code, LeavesWith(code)
  PROVE  /\ run'.at = "leaving" /\ run'.foretold = run.foretold /\ run'.code = code
         /\ run'.status = run.status
  BY DEF RunShaped, LeavesWith

LEMMA FailureIsTheRuns ==
  ASSUME NEW out
  PROVE  Failure(out) \notin OfRepository
<1>1. \A c : DriftCode(c) \notin OfRepository
  BY DEF DriftCode, OfRepository
<1>2. \A c : CodexCode(c) \notin OfRepository
  BY <1>1 DEF CodexCode, OfRepository
<1>3. \A c : ClaudeCode(c) \notin OfRepository
  BY DEF ClaudeCode, OfRepository
<1>4. \A c : KimiCode(c) \notin OfRepository
  BY DEF KimiCode, OfRepository
<1>5. \A c : Classified(c) \notin OfRepository
  BY <1>2, <1>3, <1>4 DEF Classified
<1>6. Inspected(out) \notin OfRepository
  BY <1>3 DEF Inspected, OfRepository
<1> QED
  BY <1>5, <1>6 DEF Failure, OfRepository

LEMMA InvalidIsTheCalls == Invalid \notin OfRepository
  BY DEF Invalid, OfRepository

LEMMA ConcludedSo ==
  ASSUME RunShaped, NEW diff, Concludes(diff)
  PROVE  /\ run'.at = "leaving" /\ run'.foretold = run.foretold /\ run'.code \notin OfRepository
         /\ run'.status \in {run.status, "none", "unstructured", "completed"}
<1> DEFINE v == Concluded(run.out, DOMAIN diff # {})
<1>1. v.code = Failure(run.out) \/ v.code \in {"ok", "answer_unavailable"}
  BY DEF Concluded
<1>2. v.code \notin OfRepository
  BY <1>1, FailureIsTheRuns DEF OfRepository
<1>3. DeliversOr(v, diff)
  BY DEF Concludes
<1> HIDE DEF v
<1>4. CASE v.code = "ok"
  <2>1. run' = Delivered(v.text, v.warned, v.overridden, diff)
    BY <1>3, <1>4 DEF DeliversOr
  <2>2. /\ run'.at = "leaving" /\ run'.foretold = run.foretold
        /\ run'.code \in {"invalid_json", "ok"} /\ run'.status \in {"none", "unstructured", "completed"}
    BY <2>1 DEF Delivered, RunShaped
  <2> QED
    BY <2>2 DEF OfRepository
<1>5. CASE v.code # "ok"
  BY <1>2, <1>3, <1>5, LeftSo DEF DeliversOr
<1> QED
  BY <1>4, <1>5

-----------------------------------------------------------------------------
(* The call as it is looked at, and the refusal the repository deserves.   *)
Fit == Shell.wrong = {} /\ Where.code = "none"

Deserved ==
  IF Unfit THEN RefusalOf[FirstWrong]
  ELSE IF kind = "repo" \/ ~(Delegates \/ Reviews) THEN "ok"
  ELSE IF kind = "plain" THEN "not_a_git_repo"
  ELSE IF Delegates THEN "worktree_error"
  ELSE IF spec.scope = "branch" THEN "invalid_base" ELSE "git_unavailable"

LEMMA FitIs ==
  /\ Unfit <=> ~(Fit /\ there)
  BY DEF Unfit, Wrong, Fit

LEMMA CallStays ==
  ASSUME UNCHANGED spec
  PROVE  /\ (Fit' <=> Fit) /\ Invalid' = Invalid /\ Where' = Where
         /\ (Delegates' <=> Delegates) /\ (Reviews' <=> Reviews) /\ Faults' = Faults
         /\ \A event : May(event)' <=> May(event)
<1>1. Where' = Where /\ Shell' = Shell
  BY DEF Where, Shell
<1>2. Invalid' = Invalid
  BY WordsStay, FlagsStay DEF Invalid
<1> QED
  BY <1>1, <1>2 DEF Fit, Delegates, Reviews, Faults, May

LEMMA DeservedStays ==
  ASSUME UNCHANGED <<spec, kind, there>>
  PROVE  Deserved' = Deserved /\ (Unfit' <=> Unfit)
<1>1. Where' = Where /\ Shell' = Shell
  BY DEF Where, Shell
<1>2. Wrong' = Wrong /\ RefusalOf' = RefusalOf
  BY <1>1 DEF Wrong, RefusalOf
<1>3. FirstWrong' = FirstWrong
  BY <1>2 DEF FirstWrong
<1> QED
  BY <1>2, <1>3, CallStays DEF Deserved, Unfit

-----------------------------------------------------------------------------
(* What a dry run says is of the repository as it was when it was asked,   *)
(* and so is the gather and the worktree of the run, until its user moves. *)
Unbegun == {"asked", "checking", "planning", "counting"}

Timed ==
  /\ moves \in Nat
  /\ run.foretold \in [told : BOOLEAN, code : {run.foretold.code}, calls : {run.foretold.calls},
                       diff : {run.foretold.diff}, base : {run.foretold.base},
                       replayed : {run.foretold.replayed}, since : 0..moves]
  /\ gather.at = "idle" => gather = NoGather
  /\ gather.at # "idle" => gather.since \in run.foretold.since..moves
  /\ run.at \in Unbegun => gather.at = "idle"
  /\ run.foretold.told => Delegates \/ Reviews

Gathers ==
  /\ gather.at \in {"idle", "pinning", "marking", "counting", "reading"} =>
       gather.diff = NewAccumulator
  /\ gather.at \in {"listing", "remarking", "rechecking"} => OverTree
  /\ gather.since = moves =>
       /\ gather.at \notin {"idle", "pinning", "failed"} => gather.from = FoundFrom /\ gather.to = head
       /\ gather.at \in {"reading", "listing"} => gather.summary = FoundPatch
       /\ gather.at = "listing" => gather.diff = FoundRead
       /\ gather.at \in {"remarking", "rechecking", "done"} =>
            gather.summary = FoundFiles /\ gather.diff = FoundDiff

Onward == run.at \in Past /\ Reviews => gather.at = "done" /\ ~NothingGathered

HoldsOf(foretold) ==
  foretold.told /\ foretold.code = "ok" =>
    /\ Reviews => foretold.diff = FoundDiff /\ (foretold.calls <=> ~FoundNothing)
    /\ Delegates => /\ foretold.calls /\ foretold.base = head
                    /\ \/ foretold.replayed = Differing(head, Tracked)
                       \/ foretold.replayed = {} /\ May("git")

HoldsStill ==
  run.foretold.since = moves =>
    /\ run.at = "counting" => run.foretold.base = head
    /\ HoldsOf(run.foretold)

SeededNow ==
  run.foretold.since = moves =>
    /\ tree.at = "reading" => tree.base = head
    /\ tree.at \in {"applying", "committing"} \/ (tree.at = "ready" /\ ~tree.warned) =>
         tree.seen = Tracked /\ tree.steady

Placed ==
  /\ run.at \notin {"asked", "answered", "killed"} => Fit
  /\ run.at \in {"checking", "planning", "counting"} => Delegates
  /\ run.at \in {"planning", "counting"} => kind = "repo" /\ Dry
  /\ run.at = "running" => Invalid = "none"

(* What a run in which nothing fails comes to.                             *)
Undisturbed ==
  Faults = {} =>
    /\ there
    /\ run.foretold.told => run.foretold.code = Deserved
    /\ gather.at = "failed" => gather.code = Deserved /\ Deserved # "ok"
    /\ gather.at \notin {"idle", "pinning", "failed"} => kind = "repo"
    /\ run.at = "composing" => kind = "repo" \/ ~Delegates
    /\ run.at \in Past => Deserved = "ok"
    /\ kind = "repo" => tree.at \notin {"undoing", "failed"}
    /\ run.at \in {"leaving", "answered"} /\ Deserved = "ok" /\ (Delegates \/ Reviews) =>
         run.code \notin OfRepository
    /\ run.at = "answered" /\ Deserved # "ok" => run.code = Deserved

SaysWhetherItRan ==
  /\ run.status = "not_run" => run.at = "answered"
  /\ Faults = {} /\ run.at = "answered" /\ run.foretold.told /\ run.foretold.code = "ok"
     /\ run.foretold.since = moves => (run.status = "not_run" <=> ~run.foretold.calls)

AdvertInv ==
  /\ spec \in RunSpec /\ Timed /\ Gathers /\ Onward /\ HoldsStill /\ SeededNow /\ Placed /\ Undisturbed
  /\ SaysWhetherItRan

LEMMA StillTimed ==
  ASSUME Timed, UNCHANGED <<spec, moves, gather>>, run'.foretold = run.foretold,
         run'.at \in Unbegun => gather.at = "idle"
  PROVE  Timed'
  BY CallStays DEF Timed

LEMMA StillGathers ==
  ASSUME Gathers, UNCHANGED <<spec, repoVars, gather>>
  PROVE  Gathers'
  BY FoundStays DEF Gathers, repoVars, OverTree

LEMMA HoldingStays ==
  ASSUME UNCHANGED <<spec, head, staged, live>>
  PROVE  \A foretold : HoldsOf(foretold)' <=> HoldsOf(foretold)
  BY FoundStays, CallStays DEF HoldsOf, Differing

LEMMA StillHolds ==
  ASSUME HoldsStill, UNCHANGED <<spec, repoVars>>, run'.foretold = run.foretold,
         run'.at = "counting" => run.at = "counting"
  PROVE  HoldsStill'
<1> DEFINE told == run.foretold
<1>1. HoldsOf(run.foretold)' <=> HoldsOf(run.foretold)
  BY FoundStays, CallStays DEF HoldsOf, Differing, repoVars
<1> QED
  BY <1>1 DEF HoldsStill, repoVars

LEMMA StillSeeded ==
  ASSUME SeededNow, UNCHANGED <<spec, repoVars, tree>>, run'.foretold = run.foretold
  PROVE  SeededNow'
  BY FoundStays DEF SeededNow, repoVars

(* A gather, step by step.                                                 *)
LEMMA GathersStep ==
  ASSUME GatherShaped, Gathers, UNCHANGED <<spec, repoVars>>, Gather
  PROVE  Gathers' /\ gather'.since = gather.since /\ gather.at # "idle" /\ gather'.at # "idle"
<1> DEFINE Goal == Gathers' /\ gather'.since = gather.since /\ gather.at # "idle" /\ gather'.at # "idle"
<1>0. /\ UNCHANGED <<spec, head, staged, live, moves>>
      /\ FoundFrom' = FoundFrom /\ FoundPatch' = FoundPatch /\ FoundFiles' = FoundFiles
      /\ FoundRead' = FoundRead /\ FoundDiff' = FoundDiff /\ (OverTree' <=> OverTree)
  BY FoundStays DEF repoVars, OverTree
<1>1. ASSUME NEW code, GatherFails(code), gather.at # "idle"
      PROVE  Goal
  BY <1>0, <1>1 DEF Gathers, GatherShaped, GatherFails
<1>2. GitBreaks /\ gather.at # "idle" => Goal
  BY <1>1 DEF GitBreaks
<1>3. Patch = Differing(gather.from, IF OverTree THEN Tracked ELSE gather.to) \cap InScope
  BY DEF Patch
<1>4. CASE Pin
  <2>0. gather.at = "pinning"
    BY <1>4 DEF Pin, GatherAt
  <2>1. CASE gather' = [gather EXCEPT !.at = IF OverTree THEN "marking" ELSE "counting",
                                      !.from = IF OverTree THEN head ELSE Root, !.to = head]
    BY <1>0, <2>0, <2>1 DEF Gathers, GatherShaped, FoundFrom
  <2> QED
    BY <1>1, <1>2, <1>4, <2>0, <2>1 DEF Pin
<1>5. CASE Mark
  <2>0. gather.at = "marking"
    BY <1>5 DEF Mark, GatherAt
  <2>1. CASE gather' = [gather EXCEPT !.at = "counting", !.token = Token]
    BY <1>0, <2>0, <2>1 DEF Gathers, GatherShaped
  <2> QED
    BY <1>2, <1>5, <2>0, <2>1 DEF Mark
<1>6. CASE Summary
  <2>0. gather.at = "counting"
    BY <1>6 DEF Summary, GatherAt
  <2>1. CASE gather' = [gather EXCEPT !.at = "reading", !.summary = Patch]
    <3>1. gather.since = moves => Patch = FoundPatch
      BY <1>3, <2>0 DEF Gathers, FoundPatch
    <3> QED
      BY <1>0, <2>0, <2>1, <3>1 DEF Gathers, GatherShaped
  <2> QED
    BY <1>2, <1>6, <2>0, <2>1 DEF Summary
<1>7. CASE Read
  <2>0. gather.at = "reading"
    BY <1>7 DEF Read, GatherAt
  <2>1. CASE gather' = [Fed(Patch) EXCEPT !.at = IF OverTree THEN "listing" ELSE "done"]
    <3>1. gather.since = moves => Patch = FoundPatch
      BY <1>3, <2>0 DEF Gathers, FoundPatch
    <3>2. gather.since = moves => FedFiles(spec, gather.diff, Patch) = FoundRead
      BY <2>0, <3>1 DEF Gathers, FoundRead
    <3>3. /\ gather'.at = (IF OverTree THEN "listing" ELSE "done")
          /\ gather'.diff = FedFiles(spec, gather.diff, Patch)
          /\ gather'.from = gather.from /\ gather'.to = gather.to /\ gather'.summary = gather.summary
          /\ gather'.since = gather.since
      BY <2>1 DEF Fed, GatherShaped
    <3>4. ~OverTree => FoundFiles = FoundPatch /\ FoundDiff = FoundRead
      BY DEF FoundFiles, FoundDiff, AddsNew
    <3> QED
      BY <1>0, <2>0, <3>1, <3>2, <3>3, <3>4 DEF Gathers
  <2> QED
    BY <1>2, <1>7, <2>0, <2>1 DEF Read
<1>8. CASE List
  <2>0. gather.at = "listing" /\ OverTree
    BY <1>8 DEF List, GatherAt, Gathers
  <2>1. CASE /\ GathersUntracked
             /\ gather' = [Fed(NewInScope) EXCEPT !.at = "remarking",
                             !.summary = @ \cup NewInScope, !.detected = Cardinality(NewInScope),
                             !.included = Cardinality(NewInScope)]
    <3>1. /\ gather'.at = "remarking" /\ gather'.diff = FedFiles(spec, gather.diff, NewInScope)
          /\ gather'.from = gather.from /\ gather'.to = gather.to
          /\ gather'.summary = gather.summary \cup NewInScope /\ gather'.since = gather.since
      BY <2>1 DEF Fed, GatherShaped
    <3>2. gather.since = moves =>
            gather'.diff = FoundDiff /\ gather'.summary = FoundFiles
      BY <2>0, <2>1, <3>1 DEF Gathers, FoundDiff, FoundFiles, AddsNew
    <3> QED
      BY <1>0, <2>0, <3>1, <3>2 DEF Gathers
  <2>2. CASE /\ ~GathersUntracked
             /\ gather' = [gather EXCEPT !.at = "remarking", !.detected = Cardinality(NewInScope)]
    <3>1. /\ gather'.at = "remarking" /\ gather'.diff = gather.diff
          /\ gather'.from = gather.from /\ gather'.to = gather.to
          /\ gather'.summary = gather.summary /\ gather'.since = gather.since
      BY <2>2 DEF GatherShaped
    <3>2. gather.since = moves =>
            gather'.diff = FoundDiff /\ gather'.summary = FoundFiles
      BY <2>0, <2>2, <3>1 DEF Gathers, FoundDiff, FoundFiles, AddsNew
    <3> QED
      BY <1>0, <2>0, <3>1, <3>2 DEF Gathers
  <2> QED
    BY <1>2, <1>8, <2>0, <2>1, <2>2 DEF List
<1>9. CASE Remark
  <2>0. gather.at = "remarking"
    BY <1>9 DEF Remark, GatherAt
  <2>1. CASE gather' = [gather EXCEPT !.at = "rechecking", !.moved = Token # gather.token, !.owed = Owed]
    BY <1>0, <2>0, <2>1 DEF Gathers, GatherShaped
  <2> QED
    BY <1>2, <1>9, <2>0, <2>1 DEF Remark
<1>10. CASE Recheck
  <2>0. gather.at = "rechecking"
    BY <1>10 DEF Recheck, GatherAt
  <2>1. CASE gather' = [gather EXCEPT !.at = "done", !.moved = @ \/ head # gather.from, !.until = moves]
    BY <1>0, <2>0, <2>1 DEF Gathers, GatherShaped
  <2> QED
    BY <1>2, <1>10, <2>0, <2>1 DEF Recheck
<1> QED
  BY <1>4, <1>5, <1>6, <1>7, <1>8, <1>9, <1>10 DEF Gather

-----------------------------------------------------------------------------
(* A change that is told to need a backend is one that gets it.            *)
LEMMA OnwardIsCalled ==
  ASSUME AdvertInv, run.at \in Past, run.foretold.told, run.foretold.code = "ok",
         run.foretold.since = moves
  PROVE  run.foretold.calls /\ (Reviews => run.foretold.diff = gather.diff)
<1>1. Delegates \/ Reviews
  BY DEF AdvertInv, Timed
<1>2. HoldsOf(run.foretold)
  BY DEF AdvertInv, HoldsStill
<1>3. CASE Delegates
  BY <1>2, <1>3 DEF HoldsOf, Delegates, Reviews
<1>4. CASE Reviews
  <2>1. gather.at = "done" /\ ~NothingGathered
    BY <1>4 DEF AdvertInv, Onward
  <2>2. gather.since = moves
    <3>1. gather.since \in run.foretold.since..moves /\ moves \in Nat
      BY <2>1 DEF AdvertInv, Timed
    <3> QED
      BY <3>1
  <2>3. gather.summary = FoundFiles /\ gather.diff = FoundDiff
    BY <2>1, <2>2 DEF AdvertInv, Gathers
  <2>4. ~FoundNothing
    BY <2>1, <2>3 DEF NothingGathered, FoundNothing
  <2> QED
    BY <1>2, <1>4, <2>3, <2>4 DEF HoldsOf
<1> QED
  BY <1>1, <1>3, <1>4

(* A step of a run that has begun: its repository is not touched by it.    *)
LEMMA LaterStep ==
  ASSUME AdvertInv, UNCHANGED <<spec, repoVars, gather>>, run'.foretold = run.foretold,
         SeededNow', kind = "repo" /\ Faults = {} => tree'.at \notin {"undoing", "failed"},
         run.at \in Past, run'.at \in Past \cup {"answered", "killed"},
         run'.at = "running" => Invalid = "none",
         run'.at \in {"leaving", "answered"} /\ Faults = {} /\ Deserved = "ok" /\ kind = "repo"
           /\ (Delegates \/ Reviews) => run'.code \notin OfRepository,
         run'.status # "not_run"
  PROVE  AdvertInv'
<1>1. /\ spec \in RunSpec' /\ Timed' /\ Gathers' /\ HoldsStill'
  BY StillTimed, StillGathers, StillHolds DEF AdvertInv, repoVars, Past, Unbegun
<1>2. Onward' /\ Placed'
  <2>1. (NothingGathered' <=> NothingGathered) /\ (Fit' <=> Fit) /\ Invalid' = Invalid
        /\ (Reviews' <=> Reviews)
    BY CallStays DEF NothingGathered
  <2> QED
    BY <2>1 DEF AdvertInv, Onward, Placed, Past
<1>3. Deserved = "ok" /\ (Delegates \/ Reviews) => kind = "repo"
  BY RefusalIsNotOk DEF Deserved, AdvertInv
<1>4. Deserved' = Deserved /\ Faults' = Faults /\ (Delegates' <=> Delegates)
      /\ (Reviews' <=> Reviews) /\ kind' = kind /\ there' = there
  BY DeservedStays, CallStays DEF repoVars
<1>5. Undisturbed'
  <2> SUFFICES ASSUME Faults = {}
               PROVE  Undisturbed'
    BY <1>4 DEF Undisturbed
  <2>1. /\ there /\ Deserved = "ok"
        /\ run.foretold.told => run.foretold.code = Deserved
        /\ gather.at = "failed" => gather.code = Deserved /\ Deserved # "ok"
        /\ gather.at \notin {"idle", "pinning", "failed"} => kind = "repo"
    BY DEF AdvertInv, Undisturbed
  <2>2. gather' = gather
    OBVIOUS
  <2> QED
    BY <1>3, <1>4, <2>1, <2>2 DEF Undisturbed, Past
<1>6. SaysWhetherItRan'
  <2>1. Faults = {} /\ run.foretold.told /\ run.foretold.code = "ok" /\ run.foretold.since = moves
        => run.foretold.calls
    BY OnwardIsCalled
  <2>2. moves' = moves
    BY DEF repoVars
  <2> QED
    BY <1>4, <2>1, <2>2 DEF SaysWhetherItRan
<1> QED
  BY <1>1, <1>2, <1>5, <1>6 DEF AdvertInv

LEMMA SiteAsAdvertised ==
  ASSUME AdvertInv, PipelineInv, SelectSite
  PROVE  AdvertInv'
<1>1. RunShaped /\ UNCHANGED <<spec, repoVars, gather>> /\ run.at = "choosing" /\ run.status # "not_run"
      /\ tree = NoTree
  BY DEF PipelineInv, SelectSite, RunAt, AdvertInv, SaysWhetherItRan, Sited, Before
<1>2. /\ run'.at \in {"launching", "entering", "answered"} /\ run'.foretold = run.foretold
      /\ run'.status # "not_run"
      /\ run'.at = "answered" => run'.code = "internal_error"
      /\ UNCHANGED tree \/ tree' = [tree EXCEPT !.at = "making"]
  <2>1. CASE AnswersWith("internal_error", "none") /\ UNCHANGED tree
    BY <1>1, <2>1, AnsweredSo
  <2>2. ASSUME NEW stage \in {"launching", "entering"}, NEW site,
               run' = [run EXCEPT !.at = stage, !.site = site]
        PROVE  run'.at = stage /\ run'.foretold = run.foretold /\ run'.status = run.status
    BY <1>1, <2>2 DEF RunShaped
  <2>3. \/ AnswersWith("internal_error", "none") /\ UNCHANGED tree
        \/ /\ \E stage \in {"launching", "entering"} : \E site :
                run' = [run EXCEPT !.at = stage, !.site = site]
           /\ UNCHANGED tree \/ tree' = [tree EXCEPT !.at = "making"]
    BY DEF SelectSite, EntersTree
  <2> QED
    BY <1>1, <2>1, <2>2, <2>3
<1>3. tree'.at \in {"none", "making"}
  BY <1>1, <1>2 DEF NoTree
<1>4. SeededNow'
  BY <1>3 DEF SeededNow
<1> QED
  BY <1>1, <1>2, <1>3, <1>4, LaterStep DEF Past, OfRepository

(* A worktree that is made, step by step.                                  *)
LEMMA EntersAsAdvertised ==
  ASSUME AdvertInv, PipelineInv, EnterSite
  PROVE  AdvertInv'
<1>1. RunShaped /\ UNCHANGED <<spec, repoVars, gather>> /\ run.at = "entering" /\ run.status # "not_run"
      /\ TreeTyped /\ Tracked' = Tracked /\ head' = head /\ moves' = moves
  BY FoundStays DEF PipelineInv, EnterSite, RunAt, AdvertInv, SaysWhetherItRan, TreeInv, repoVars
<1>2. kind = "repo" /\ Faults = {} => tree.at \notin {"undoing", "failed"}
  BY DEF AdvertInv, Undisturbed
<1>3. CASE tree.at = "failed" /\ AnswersWith(tree.code, "none") /\ UNCHANGED tree
  <2>1. SeededNow'
    BY <1>3 DEF SeededNow
  <2> QED
    BY <1>1, <1>2, <1>3, <2>1, AnsweredSo, LaterStep DEF Past
<1>4. CASE tree.at = "ready" /\ RunGoes("launching") /\ UNCHANGED tree
  <2>1. run'.at = "launching" /\ run'.foretold = run.foretold /\ run'.status = run.status
    BY <1>1, <1>4, GoesOn
  <2>2. SeededNow'
    BY <1>1, <1>4, <2>1, StillSeeded DEF AdvertInv
  <2> QED
    BY <1>1, <1>2, <1>4, <2>1, <2>2, LaterStep DEF Past
<1>5. CASE Enter /\ UNCHANGED run
  <2>1. SeededNow
    BY DEF AdvertInv
  <2>2. Faults = {} => ~May("git") /\ ~May("hang") /\ ~May("hook") /\ ~May("dirty") /\ there
    BY DEF Faults, May, AdvertInv, Undisturbed
  <2> DEFINE Made == SeededNow' /\ (kind = "repo" /\ Faults = {} => tree'.at \notin {"undoing", "failed"})
  <2>3. ASSUME NEW code, TreeFails(code) \/ TreeUndone(code), ~(kind = "repo" /\ Faults = {})
        PROVE  Made
    <3>1. tree'.at \in {"failed", "undoing"}
      BY <1>1, <2>3 DEF TreeFails, TreeUndone, TreeTyped
    <3> QED
      BY <2>3, <3>1 DEF SeededNow
  <2>4. CommandBreaks(TreeFails) => Made
    BY <2>2, <2>3 DEF CommandBreaks
  <2>5. CommandBreaks(TreeUndone) => Made
    BY <2>2, <2>3 DEF CommandBreaks
  <2>6. ASSUME NEW code, \E left \in Removed : tree' = [left EXCEPT !.at = "failed", !.code = code],
               ~(kind = "repo" /\ Faults = {})
        PROVE  Made
    <3>1. PICK left \in Removed : tree' = [left EXCEPT !.at = "failed", !.code = code]
      BY <2>6
    <3>2. tree'.at = "failed"
      BY <1>1, <3>1, RemovesTree DEF TreeTyped
    <3> QED
      BY <2>6, <3>2 DEF SeededNow
  <2>7. (tree' = Unseeded) => Made
    <3> SUFFICES ASSUME tree' = Unseeded
                 PROVE  Made
      OBVIOUS
    <3>1. tree'.at = "ready" /\ tree'.warned = TRUE
      BY <1>1 DEF Unseeded, TreeTyped
    <3> QED
      BY <3>1 DEF SeededNow
  <2>8. ASSUME MakeParent
       PROVE  Made
    <3>1. tree' = [tree EXCEPT !.at = "declaring", !.parent = TRUE] => Made
      <4> SUFFICES ASSUME tree' = [tree EXCEPT !.at = "declaring", !.parent = TRUE]
                   PROVE  Made
        OBVIOUS
      <4>1. tree'.at = "declaring"
        BY <1>1 DEF TreeTyped
      <4> QED
        BY <4>1 DEF SeededNow
    <3> QED
      BY <2>3, <2>4, <2>8, <3>1 DEF MakeParent
  <2>9. ASSUME Declare
       PROVE  Made
    <3>1. tree' = [tree EXCEPT !.at = "adding", !.declared = TRUE] => Made
      <4> SUFFICES ASSUME tree' = [tree EXCEPT !.at = "adding", !.declared = TRUE]
                   PROVE  Made
        OBVIOUS
      <4>1. tree'.at = "adding"
        BY <1>1 DEF TreeTyped
      <4> QED
        BY <4>1 DEF SeededNow
    <3> QED
      BY <2>2, <2>6, <2>9, <3>1 DEF Declare
  <2>10. ASSUME AddTree
        PROVE  Made
    <3>1. tree' = [tree EXCEPT !.at = "reading", !.base = head, !.files = head] => Made
      <4> SUFFICES ASSUME tree' = [tree EXCEPT !.at = "reading", !.base = head, !.files = head]
                   PROVE  Made
        OBVIOUS
      <4>1. tree'.at = "reading" /\ tree'.base = head
        BY <1>1 DEF TreeTyped
      <4> QED
        BY <1>1, <4>1 DEF SeededNow
    <3> QED
      BY <2>5, <2>10, <3>1 DEF AddTree
  <2>11. ASSUME ReadLive
        PROVE  Made
    <3>0. tree.at = "reading"
      BY <2>11 DEF ReadLive, TreeAt
    <3> DEFINE read == [tree EXCEPT !.seen = Tracked, !.steady = head = tree.base]
    <3>1. ASSUME NEW stage \in {"ready", "applying"}, NEW patch,
                 \/ tree' = [read EXCEPT !.at = stage]
                 \/ tree' = [read EXCEPT !.at = stage, !.patch = patch]
          PROVE  Made
      <4>1. tree'.at = stage /\ tree'.seen = Tracked /\ tree'.steady = (head = tree.base)
        BY <1>1, <3>1 DEF TreeTyped
      <4>2. run.foretold.since = moves => tree'.steady
        BY <2>1, <3>0, <4>1 DEF SeededNow
      <4> QED
        BY <1>1, <1>5, <4>1, <4>2 DEF SeededNow
    <3> QED
      BY <2>5, <2>7, <2>11, <3>1 DEF ReadLive
  <2>12. ASSUME ApplyPatch
        PROVE  Made
    <3>0. tree.at = "applying"
      BY <2>12 DEF ApplyPatch, TreeAt
    <3>1. tree' = [tree EXCEPT !.at = "committing", !.files = Patched] => Made
      <4> SUFFICES ASSUME tree' = [tree EXCEPT !.at = "committing", !.files = Patched]
                   PROVE  Made
        OBVIOUS
      <4>1. tree'.at = "committing" /\ tree'.seen = tree.seen /\ tree'.steady = tree.steady
        BY <1>1 DEF TreeTyped
      <4> QED
        BY <1>1, <1>5, <2>1, <3>0, <4>1 DEF SeededNow
    <3> QED
      BY <2>5, <2>7, <2>12, <3>1 DEF ApplyPatch
  <2>13. ASSUME CommitBaseline
        PROVE  Made
    <3>0. tree.at = "committing"
      BY <2>13 DEF CommitBaseline, TreeAt
    <3>1. tree' = [tree EXCEPT !.at = "ready", !.base = tree.files] => Made
      <4> SUFFICES ASSUME tree' = [tree EXCEPT !.at = "ready", !.base = tree.files]
                   PROVE  Made
        OBVIOUS
      <4>1. tree'.at = "ready" /\ tree'.seen = tree.seen /\ tree'.steady = tree.steady
        BY <1>1 DEF TreeTyped
      <4> QED
        BY <1>1, <1>5, <2>1, <3>0, <4>1 DEF SeededNow
    <3> QED
      BY <2>2, <2>3, <2>5, <2>13, <3>1 DEF CommitBaseline
  <2>14. ASSUME Undo
        PROVE  Made
    <3>1. tree.at = "undoing" /\ \E left \in Removed : tree' = [left EXCEPT !.at = "failed"]
      BY <2>14 DEF Undo, TreeAt
    <3>2. PICK left \in Removed : tree' = [left EXCEPT !.at = "failed"]
      BY <3>1
    <3>3. tree'.at = "failed"
      BY <1>1, <3>2, RemovesTree DEF TreeTyped
    <3> QED
      BY <1>2, <3>1, <3>3 DEF SeededNow
  <2>15. Made
    BY <1>5, <2>8, <2>9, <2>10, <2>11, <2>12, <2>13, <2>14 DEF Enter
  <2> QED
    BY <1>1, <1>5, <2>15, LaterStep DEF Past
<1> QED
  BY <1>3, <1>4, <1>5 DEF EnterSite, TreeAt

LEMMA LaunchAsAdvertised ==
  ASSUME AdvertInv, PipelineInv, Launch \/ BackendEnds \/ CancelLands
  PROVE  AdvertInv'
<1>1. RunShaped /\ UNCHANGED <<spec, repoVars, gather, tree>> /\ run.at \in {"launching", "running"}
      /\ run.status # "not_run"
  BY DEF PipelineInv, Launch, BackendEnds, CancelLands, RunAt, AdvertInv, SaysWhetherItRan
<1>2. kind = "repo" /\ Faults = {} => tree'.at \notin {"undoing", "failed"}
  BY <1>1 DEF AdvertInv, Undisturbed
<1>3. ASSUME NEW code, code \notin OfRepository, LeavesWith(code)
      PROVE  AdvertInv'
  BY <1>1, <1>2, <1>3, LeftSo, LaterStep, StillSeeded DEF Past, AdvertInv
<1>4. ASSUME Invalid = "none", RunGoes("running")
      PROVE  AdvertInv'
  BY <1>1, <1>2, <1>4, GoesOn, LaterStep, StillSeeded DEF Past, AdvertInv
<1>5. ASSUME run'.at = "folding", run'.foretold = run.foretold, run'.status = run.status
      PROVE  AdvertInv'
  BY <1>1, <1>2, <1>5, LaterStep, StillSeeded DEF Past, AdvertInv
<1>6. ASSUME NEW out, run' = [run EXCEPT !.at = "folding", !.out = out]
      PROVE  AdvertInv'
  BY <1>1, <1>5, <1>6 DEF RunShaped
<1>7. ASSUME NEW out, NEW reply, run' = [run EXCEPT !.at = "folding", !.out = out, !.reply = reply]
      PROVE  AdvertInv'
  BY <1>1, <1>5, <1>7 DEF RunShaped
<1>8. CASE Launch
  BY <1>3, <1>4, <1>6, <1>8, InvalidIsTheCalls DEF Launch, OfRepository
<1>9. CASE BackendEnds
  BY <1>7, <1>9 DEF BackendEnds
<1>10. CASE CancelLands
  BY <1>3, <1>10 DEF CancelLands, OfRepository
<1> QED
  BY <1>8, <1>9, <1>10

LEMMA FoldAsAdvertised ==
  ASSUME AdvertInv, PipelineInv, Fold \/ Capture \/ Leave \/ AgentActs
  PROVE  AdvertInv'
<1>1. RunShaped /\ UNCHANGED <<spec, repoVars, gather>> /\ run.at \in Past /\ run.status # "not_run"
  BY DEF PipelineInv, Fold, Capture, Leave, AgentActs, RunAt, AdvertInv, SaysWhetherItRan, Past
<1>2. kind = "repo" /\ Faults = {} => tree.at \notin {"undoing", "failed"}
  BY DEF AdvertInv, Undisturbed
<1>3. Faults = {} => there /\ ~May("git") /\ ~May("hang")
  BY DEF AdvertInv, Undisturbed, Faults, May
<1>4. ASSUME UNCHANGED tree, NEW code, LeavesWith(code), Faults = {} => code \notin OfRepository
      PROVE  AdvertInv'
  BY <1>1, <1>2, <1>4, LeftSo, LaterStep, StillSeeded DEF Past, AdvertInv
<1>5. ASSUME UNCHANGED tree, NEW diff, Concludes(diff)
      PROVE  AdvertInv'
  BY <1>1, <1>2, <1>5, ConcludedSo, LaterStep, StillSeeded DEF Past, AdvertInv
<1>6. CASE Fold
  <2>0. UNCHANGED tree
    BY <1>6 DEF Fold
  <2>1. Vanished => Faults # {}
    BY <1>3 DEF Vanished
  <2>2. ASSUME NEW said, run' = [run EXCEPT !.at = "leaving", !.code = Failure(run.out), !.said = said]
        PROVE  AdvertInv'
    <3>1. run'.at = "leaving" /\ run'.foretold = run.foretold /\ run'.code = Failure(run.out)
          /\ run'.status = run.status
      BY <1>1, <2>2 DEF RunShaped
    <3> QED
      BY <1>1, <1>2, <2>0, <3>1, FailureIsTheRuns, LaterStep, StillSeeded DEF Past, AdvertInv
  <2>3. ASSUME RunGoes("capturing")
        PROVE  AdvertInv'
    BY <1>1, <1>2, <2>0, <2>3, GoesOn, LaterStep, StillSeeded DEF Past, AdvertInv
  <2> QED
    BY <1>4, <1>5, <1>6, <2>0, <2>1, <2>2, <2>3 DEF Fold
<1>7. CASE Capture
  BY <1>3, <1>4, <1>5, <1>7 DEF Capture, OfRepository
<1>8. CASE Leave
  <2>1. run.at = "leaving" /\ run'.at = "answered" /\ run'.foretold = run.foretold
        /\ run'.status = run.status /\ run'.code = run.code
    BY <1>1, <1>8, GoesOn DEF Leave, RunAt
  <2>2. Faults = {} /\ Deserved = "ok" /\ kind = "repo" /\ (Delegates \/ Reviews) =>
          run.code \notin OfRepository
    BY <2>1 DEF AdvertInv, Undisturbed
  <2>3. SeededNow' /\ tree'.at = tree.at
    <3>1. CASE run.site = "tree"
      <4>1. tree.at = "ready" /\ TreeInv /\ tree' \in Removed
        BY <1>8, <2>1, <3>1 DEF Leave, PipelineInv, Sited, OnSite
      <4>2. tree'.at = "ready" /\ tree'.seen = tree.seen /\ tree'.warned = tree.warned
            /\ tree'.steady = tree.steady
        BY <4>1, RemovedTree
      <4>3. Tracked' = Tracked /\ moves' = moves
        BY <1>1, FoundStays DEF repoVars
      <4> QED
        BY <2>1, <4>1, <4>2, <4>3 DEF SeededNow, AdvertInv
    <3>2. CASE run.site # "tree"
      <4>1. UNCHANGED tree
        BY <1>8, <3>2 DEF Leave
      <4> QED
        BY <1>1, <2>1, <4>1, StillSeeded DEF AdvertInv
    <3> QED
      BY <3>1, <3>2
  <2> QED
    BY <1>1, <1>2, <2>1, <2>2, <2>3, LaterStep DEF Past
<1>9. CASE AgentActs
  <2>1. UNCHANGED run /\ run.at = "running" /\ TreeInv
    BY <1>9 DEF AgentActs, RunAt, PipelineInv
  <2>2. tree.at = "ready" /\ tree'.at = tree.at /\ tree'.seen = tree.seen /\ tree'.warned = tree.warned
        /\ tree'.steady = tree.steady
    BY <1>9, <2>1 DEF AgentActs, AgentCommits, AgentWrites, TreeAt, TreeInv, TreeTyped
  <2>3. Tracked' = Tracked /\ moves' = moves
    BY <1>1, FoundStays DEF repoVars
  <2>4. SeededNow'
    BY <2>1, <2>2, <2>3 DEF SeededNow, AdvertInv
  <2>5. run.at = "running" => Invalid = "none"
    BY DEF AdvertInv, Placed
  <2> QED
    BY <1>1, <1>2, <2>1, <2>2, <2>4, <2>5, LaterStep DEF Past
<1> QED
  BY <1>6, <1>7, <1>8, <1>9

(* A run that has not begun: it goes on, or it is refused as deserved.     *)
LEMMA EarlyGoesOn ==
  ASSUME AdvertInv, RunShaped, UNCHANGED <<spec, repoVars, gather, tree>>,
         run.at \in Unbegun \cup {"composing"}, run'.foretold = run.foretold,
         run'.status = run.status, Fit,
         \/ run'.at = "composing" /\ (Faults = {} => kind = "repo" \/ ~Delegates)
         \/ run'.at = "checking" /\ Delegates
         \/ run'.at = "planning" /\ Delegates /\ kind = "repo" /\ Dry
         \/ run'.at = "choosing" /\ (Reviews => gather.at = "done" /\ ~NothingGathered)
                                 /\ (Faults = {} => Deserved = "ok"),
         run'.at \in Unbegun => gather.at = "idle"
  PROVE  AdvertInv'
<1>1. /\ spec \in RunSpec' /\ Timed' /\ Gathers' /\ SeededNow'
  BY StillTimed, StillGathers, StillSeeded DEF AdvertInv, repoVars
<1>2. Onward' /\ Placed'
  <2>1. (NothingGathered' <=> NothingGathered) /\ (Fit' <=> Fit) /\ Invalid' = Invalid
        /\ (Reviews' <=> Reviews) /\ (Delegates' <=> Delegates) /\ (Dry' <=> Dry) /\ kind' = kind
    BY CallStays DEF NothingGathered, Dry, repoVars
  <2> QED
    BY <2>1 DEF AdvertInv, Onward, Placed, Past, Unbegun
<1>3. HoldsStill'
  <2>1. (HoldsOf(run.foretold)' <=> HoldsOf(run.foretold)) /\ head' = head /\ moves' = moves
    BY FoundStays, CallStays DEF HoldsOf, Differing, repoVars
  <2> QED
    BY <2>1 DEF HoldsStill, AdvertInv
<1>4. Deserved' = Deserved /\ Faults' = Faults /\ (Delegates' <=> Delegates)
      /\ (Reviews' <=> Reviews) /\ kind' = kind /\ there' = there
  BY DeservedStays, CallStays DEF repoVars
<1>5. Undisturbed'
  <2> SUFFICES ASSUME Faults = {}
               PROVE  Undisturbed'
    BY <1>4 DEF Undisturbed
  <2>1. /\ there
        /\ run.foretold.told => run.foretold.code = Deserved
        /\ gather.at = "failed" => gather.code = Deserved /\ Deserved # "ok"
        /\ gather.at \notin {"idle", "pinning", "failed"} => kind = "repo"
        /\ kind = "repo" => tree.at \notin {"undoing", "failed"}
    BY DEF AdvertInv, Undisturbed
  <2>2. gather' = gather /\ tree' = tree
    OBVIOUS
  <2> QED
    BY <1>4, <2>1, <2>2 DEF Undisturbed, Past
<1>6. SaysWhetherItRan'
  BY DEF AdvertInv, SaysWhetherItRan, Unbegun
<1> QED
  BY <1>1, <1>2, <1>3, <1>5, <1>6 DEF AdvertInv

(* One that is refused, or that is told what would become of it.           *)
LEMMA EarlyIsRefused ==
  ASSUME AdvertInv, RunShaped, UNCHANGED <<spec, repoVars, tree>>, NEW code, Refuses(code),
         run.at \in Unbegun \cup {"composing"}, code # "ok", tree = NoTree,
         UNCHANGED gather \/ gather' = NoGather, Dry => gather' = NoGather,
         Faults = {} => code = Deserved
  PROVE  AdvertInv'
<1>0. run.foretold.told => ~Dry
  BY DEF Dry
<1>1. /\ spec \in RunSpec' /\ Gathers' /\ moves' = moves /\ moves \in Nat
      /\ (Reviews' <=> Reviews) /\ (Delegates' <=> Delegates)
  <2>1. CASE UNCHANGED gather
    BY <2>1, StillGathers, CallStays DEF AdvertInv, Timed, repoVars
  <2>2. CASE gather' = NoGather
    <3>1. gather'.at = "idle" /\ gather'.diff = NewAccumulator
      BY <2>2 DEF NoGather
    <3>2. Gathers'
      BY <3>1 DEF Gathers
    <3> QED
      BY <3>2, CallStays DEF AdvertInv, Timed, repoVars
  <2> QED
    BY <2>1, <2>2
<1>2. CASE ~Dry
  <2>1. run'.at = "answered" /\ run'.foretold = run.foretold /\ run'.code = code /\ run'.status = "none"
    BY <1>2, AnsweredSo DEF Refuses
  <2>2. Timed'
    <3>1. CASE UNCHANGED gather
      BY <1>1, <2>1, <3>1 DEF AdvertInv, Timed, Unbegun
    <3>2. CASE gather' = NoGather
      BY <1>1, <2>1, <3>2 DEF AdvertInv, Timed, Unbegun, NoGather
    <3> QED
      BY <3>1, <3>2
  <2>3. HoldsStill' /\ SeededNow' /\ Onward' /\ Placed'
    BY <2>1, StillHolds, StillSeeded DEF AdvertInv, Onward, Placed, Past
  <2>4. Deserved' = Deserved /\ Faults' = Faults /\ kind' = kind /\ there' = there
    BY DeservedStays, CallStays DEF repoVars
  <2>5. Undisturbed'
    <3> SUFFICES ASSUME Faults = {}
                 PROVE  Undisturbed'
      BY <2>4 DEF Undisturbed
    <3>1. /\ there
          /\ run.foretold.told => run.foretold.code = Deserved
          /\ gather'.at = "failed" => gather'.code = Deserved /\ Deserved # "ok"
          /\ gather'.at \notin {"idle", "pinning", "failed"} => kind = "repo"
          /\ kind = "repo" => tree.at \notin {"undoing", "failed"}
      BY DEF AdvertInv, Undisturbed, NoGather
    <3> QED
      BY <2>1, <2>4, <3>1 DEF Undisturbed, Past
  <2>6. SaysWhetherItRan'
    <3>1. Faults = {} /\ run.foretold.told => run.foretold.code # "ok"
      BY DEF AdvertInv, Undisturbed
    <3> QED
      BY <2>1, <2>4, <3>1 DEF SaysWhetherItRan
  <2> QED
    BY <1>1, <2>2, <2>3, <2>5, <2>6 DEF AdvertInv
<1>3. CASE Dry
  <2> DEFINE asked == Asked
             told == Foretells(asked, code)
  <2>1. run'.at = "asked" /\ run'.foretold = told /\ run'.status = run.status
    BY <1>3, ToldSo DEF Refuses
  <2>2. /\ asked \in [told : BOOLEAN, code : {run.foretold.code}, calls : {run.foretold.calls},
                      diff : {run.foretold.diff}, base : {run.foretold.base},
                      replayed : {run.foretold.replayed}, since : 0..moves]
    <3>1. moves \in 0..moves
      BY <1>1
    <3> QED
      BY <3>1 DEF Asked, AdvertInv, Timed
  <2> HIDE DEF asked
  <2>3. /\ told \in [told : {TRUE}, code : {code}, calls : {run.foretold.calls},
                     diff : {run.foretold.diff}, base : {run.foretold.base},
                     replayed : {run.foretold.replayed}, since : 0..moves]
    BY <2>2 DEF Foretells
  <2> HIDE DEF told
  <2>4. told.told = TRUE /\ told.code = code
    BY <2>3
  <2>5. Timed'
    <3>1. gather'.at = "idle" /\ gather' = NoGather
      BY <1>3 DEF NoGather
    <3>2. Delegates \/ Reviews
      BY <1>3 DEF Dry, Delegates, Reviews
    <3>3. run'.foretold \in [told : BOOLEAN, code : {run'.foretold.code},
                       calls : {run'.foretold.calls}, diff : {run'.foretold.diff},
                       base : {run'.foretold.base}, replayed : {run'.foretold.replayed},
                       since : 0..moves]
      BY <2>1, <2>3
    <3> QED
      BY <1>1, <2>1, <3>1, <3>2, <3>3 DEF Timed
  <2>6. HoldsStill'
    <3>1. run'.foretold.code # "ok" /\ run'.at # "counting"
      BY <2>1, <2>4
    <3> QED
      BY <3>1 DEF HoldsStill, HoldsOf
  <2>7. SeededNow' /\ Onward' /\ Placed'
    <3>1. tree'.at = "none" => SeededNow'
      BY DEF SeededNow
    <3> QED
      BY <2>1, <3>1 DEF Onward, Placed, Past, NoTree
  <2>8. Deserved' = Deserved /\ Faults' = Faults /\ kind' = kind /\ there' = there
    BY DeservedStays, CallStays DEF repoVars
  <2>9. Undisturbed'
    <3> SUFFICES ASSUME Faults = {}
                 PROVE  Undisturbed'
      BY <2>8 DEF Undisturbed
    <3>1. /\ there /\ gather'.at = "idle"
          /\ kind = "repo" => tree.at \notin {"undoing", "failed"}
      BY <1>3 DEF AdvertInv, Undisturbed, NoGather
    <3> QED
      BY <2>1, <2>4, <2>8, <3>1 DEF Undisturbed, Past
  <2>10. SaysWhetherItRan'
    BY <2>1 DEF SaysWhetherItRan, AdvertInv, Unbegun
  <2> QED
    BY <1>1, <2>5, <2>6, <2>7, <2>9, <2>10 DEF AdvertInv
<1> QED
  BY <1>2, <1>3

LEMMA EarlyIsTold ==
  ASSUME AdvertInv, RunShaped, UNCHANGED <<spec, repoVars, tree>>, tree = NoTree, Dry,
         run.at \in Unbegun \cup {"composing"}, gather' = NoGather, NEW foretold, IsTold(foretold),
         foretold \in [told : {TRUE}, code : {"ok"}, calls : {foretold.calls},
                       diff : {foretold.diff}, base : {foretold.base},
                       replayed : {foretold.replayed}, since : 0..moves],
         foretold.since = moves => HoldsOf(foretold), Faults = {} => Deserved = "ok"
  PROVE  AdvertInv'
<1>1. run'.at = "asked" /\ run'.foretold = foretold /\ run'.status = run.status
  BY ToldSo
<1>2. /\ spec \in RunSpec' /\ moves' = moves /\ moves \in Nat
      /\ (Reviews' <=> Reviews) /\ (Delegates' <=> Delegates)
  BY CallStays DEF AdvertInv, Timed, repoVars
<1>3. gather'.at = "idle" /\ gather'.diff = NewAccumulator
  BY DEF NoGather
<1>4. Gathers'
  BY <1>3 DEF Gathers
<1>5. foretold.told = TRUE /\ foretold.code = "ok"
  OBVIOUS
<1>6. Timed'
  <2>1. Delegates \/ Reviews
    BY DEF Dry, Delegates, Reviews
  <2>2. run'.foretold \in [told : BOOLEAN, code : {run'.foretold.code},
                     calls : {run'.foretold.calls}, diff : {run'.foretold.diff},
                     base : {run'.foretold.base}, replayed : {run'.foretold.replayed},
                     since : 0..moves]
    BY <1>1
  <2> QED
    BY <1>1, <1>2, <1>3, <2>1, <2>2 DEF Timed
<1>7. HoldsStill'
  <2>1. HoldsOf(run.foretold)' <=> HoldsOf(foretold)
    BY <1>1, FoundStays, CallStays DEF HoldsOf, Differing, repoVars
  <2> QED
    BY <1>1, <1>2, <2>1 DEF HoldsStill
<1>8. SeededNow' /\ Onward' /\ Placed'
  <2>1. tree'.at = "none" => SeededNow'
    BY DEF SeededNow
  <2> QED
    BY <1>1, <2>1 DEF Onward, Placed, Past, NoTree
<1>9. Undisturbed'
  <2>1. Deserved' = Deserved /\ Faults' = Faults /\ kind' = kind /\ there' = there
    BY DeservedStays, CallStays DEF repoVars
  <2> SUFFICES ASSUME Faults = {}
               PROVE  Undisturbed'
    BY <2>1 DEF Undisturbed
  <2>2. /\ there /\ Deserved = "ok"
        /\ kind = "repo" => tree.at \notin {"undoing", "failed"}
    BY DEF AdvertInv, Undisturbed
  <2> QED
    BY <1>1, <1>3, <1>5, <2>1, <2>2 DEF Undisturbed, Past
<1>10. SaysWhetherItRan'
  BY <1>1 DEF SaysWhetherItRan, AdvertInv, Unbegun
<1> QED
  BY <1>2, <1>4, <1>6, <1>7, <1>8, <1>9, <1>10 DEF AdvertInv

LEMMA ForetoldFields ==
  ASSUME Timed
  PROVE  /\ \A code : Foretells(run.foretold, code) \in
              [told : {TRUE}, code : {code}, calls : {run.foretold.calls}, diff : {run.foretold.diff},
               base : {run.foretold.base}, replayed : {run.foretold.replayed},
               since : {run.foretold.since}]
         /\ run.foretold.since \in 0..moves /\ moves \in Nat
  BY DEF Timed, Foretells

LEMMA PreflightAsAdvertised ==
  ASSUME AdvertInv, PipelineInv, Preflight
  PROVE  AdvertInv'
<1>1. /\ RunShaped /\ UNCHANGED <<spec, repoVars, gather, tree>> /\ run.at = "asked" /\ tree = NoTree
      /\ spec \in RunSpec /\ gather.at = "idle" /\ gather = NoGather
  BY DEF PipelineInv, Preflight, RunAt, AdvertInv, Timed, Sited, Before, Unbegun
<1>2. CASE Unfit
  <2>1. Refuses(RefusalOf[FirstWrong]) /\ RefusalOf[FirstWrong] # "ok"
    BY <1>1, <1>2, RefusalIsNotOk DEF Preflight
  <2>2. Deserved = RefusalOf[FirstWrong]
    BY <1>2 DEF Deserved
  <2> QED
    BY <1>1, <2>1, <2>2, EarlyIsRefused DEF Unbegun
<1>3. CASE ~Unfit
  <2>1. Fit
    BY <1>3, FitIs
  <2> DEFINE stage == IF Delegates THEN "checking" ELSE "composing"
             foretold == IF Dry THEN Asked ELSE run.foretold
  <2>2. run'.at = stage /\ run'.foretold = foretold /\ run'.status = run.status
    BY <1>1, <1>3 DEF Preflight, RunShaped
  <2>3. CASE ~Dry
    BY <1>1, <2>1, <2>2, <2>3, EarlyGoesOn DEF Unbegun
  <2>4. CASE Dry
    <3>1. foretold \in [told : {FALSE}, code : {run.foretold.code}, calls : {run.foretold.calls},
                        diff : {run.foretold.diff}, base : {run.foretold.base},
                        replayed : {run.foretold.replayed}, since : 0..moves]
      <4>1. moves \in 0..moves
        BY DEF AdvertInv, Timed
      <4> QED
        BY <1>1, <2>4, <4>1 DEF Asked, AdvertInv, Timed, RunAt, Dry
    <3> HIDE DEF foretold
    <3>2. /\ spec \in RunSpec' /\ Gathers' /\ moves' = moves /\ moves \in Nat
          /\ (Reviews' <=> Reviews) /\ (Delegates' <=> Delegates)
      BY <1>1, StillGathers, CallStays DEF AdvertInv, Timed, repoVars
    <3>3. Timed'
      <4>1. run'.foretold \in [told : BOOLEAN, code : {run'.foretold.code},
                       calls : {run'.foretold.calls}, diff : {run'.foretold.diff},
                       base : {run'.foretold.base}, replayed : {run'.foretold.replayed},
                       since : 0..moves]
        BY <2>2, <3>1
      <4>2. ~run'.foretold.told
        BY <2>2, <3>1
      <4> QED
        BY <1>1, <3>2, <4>1, <4>2 DEF Timed
    <3>4. ~run'.foretold.told
      BY <2>2, <3>1
    <3>5. HoldsStill' /\ SeededNow' /\ Onward' /\ SaysWhetherItRan'
      <4>1. tree'.at = "none"
        BY <1>1 DEF NoTree
      <4> QED
        BY <1>1, <2>2, <3>4, <4>1 DEF HoldsStill, HoldsOf, SeededNow, Onward, Past, SaysWhetherItRan, AdvertInv
    <3>6. Placed'
      BY <1>1, <2>1, <2>2, CallStays DEF Placed
    <3>7. Undisturbed'
      <4>1. Faults' = Faults /\ kind' = kind /\ there' = there
        BY <1>1, CallStays DEF repoVars
      <4> SUFFICES ASSUME Faults = {}
                   PROVE  Undisturbed'
        BY <4>1 DEF Undisturbed
      <4>2. there
        BY DEF AdvertInv, Undisturbed
      <4>3. tree'.at = "none" /\ gather'.at = "idle"
        BY <1>1 DEF NoTree
      <4>4. run'.at \in {"checking", "composing"} /\ (run'.at = "composing" => ~Delegates')
        BY <2>2, <3>2
      <4> QED
        BY <3>4, <4>1, <4>2, <4>3, <4>4 DEF Undisturbed, Past
    <3> QED
      BY <1>1, <3>2, <3>3, <3>5, <3>6, <3>7 DEF AdvertInv
  <2> QED
    BY <2>3, <2>4
<1> QED
  BY <1>2, <1>3

LEMMA PlansAsAdvertised ==
  ASSUME AdvertInv, RunShaped, UNCHANGED <<spec, repoVars, gather, tree>>, tree = NoTree,
         run.at = "planning", gather.at = "idle",
         run' = [run EXCEPT !.at = "counting", !.foretold = Planned(@)]
  PROVE  AdvertInv'
<1> DEFINE foretold == Planned(run.foretold)
<1>1. run'.at = "counting" /\ run'.foretold = foretold /\ run'.status = run.status
  BY DEF RunShaped
<1>2. /\ foretold \in [told : {run.foretold.told}, code : {run.foretold.code},
                       calls : {run.foretold.calls}, diff : {run.foretold.diff}, base : {head},
                       replayed : {run.foretold.replayed}, since : 0..moves]
      /\ foretold.since = run.foretold.since
  BY DEF AdvertInv, Timed, Planned
<1> HIDE DEF foretold
<1>3. /\ spec \in RunSpec' /\ Gathers' /\ moves' = moves /\ moves \in Nat
      /\ (Reviews' <=> Reviews) /\ (Delegates' <=> Delegates) /\ head' = head
  BY StillGathers, CallStays DEF AdvertInv, Timed, repoVars
<1>4. Delegates /\ kind = "repo" /\ Dry /\ Fit /\ ~run.foretold.told
  BY DEF AdvertInv, Placed, Dry
<1>5. ~run'.foretold.told /\ run'.foretold.base = head
  BY <1>1, <1>2, <1>4
<1>6. Timed'
  <2>1. run'.foretold \in [told : BOOLEAN, code : {run'.foretold.code},
                     calls : {run'.foretold.calls}, diff : {run'.foretold.diff},
                     base : {run'.foretold.base}, replayed : {run'.foretold.replayed},
                     since : 0..moves]
    <3>1. run.foretold.told \in BOOLEAN
      BY DEF AdvertInv, Timed
    <3> QED
      BY <1>1, <1>2, <3>1
  <2>2. gather'.at = "idle" /\ gather' = NoGather
    BY DEF AdvertInv, Timed
  <2> QED
    BY <1>1, <1>3, <1>5, <2>1, <2>2 DEF Timed
<1>7. HoldsStill' /\ SeededNow' /\ Onward' /\ SaysWhetherItRan'
  <2>1. tree'.at = "none"
    BY DEF NoTree
  <2> QED
    BY <1>1, <1>3, <1>5, <2>1 DEF HoldsStill, HoldsOf, SeededNow, Onward, Past, SaysWhetherItRan, AdvertInv
<1>8. Placed'
  <2>1. (Fit' <=> Fit) /\ kind' = kind /\ Dry'
    BY <1>4, <1>5, CallStays DEF Dry, repoVars
  <2> QED
    BY <1>1, <1>3, <1>4, <2>1 DEF Placed
<1>9. Undisturbed'
  <2>1. Faults' = Faults /\ kind' = kind /\ there' = there
    BY CallStays DEF repoVars
  <2> SUFFICES ASSUME Faults = {}
               PROVE  Undisturbed'
    BY <2>1 DEF Undisturbed
  <2>2. there
    BY DEF AdvertInv, Undisturbed
  <2>3. tree'.at = "none" /\ gather'.at = "idle"
    BY DEF NoTree
  <2> QED
    BY <1>1, <1>5, <2>1, <2>2, <2>3 DEF Undisturbed, Past
<1> QED
  BY <1>3, <1>6, <1>7, <1>8, <1>9 DEF AdvertInv

LEMMA RepoAsAdvertised ==
  ASSUME AdvertInv, PipelineInv, EnsureRepo \/ Plan \/ Count
  PROVE  AdvertInv'
<1>1. /\ RunShaped /\ UNCHANGED <<spec, repoVars, gather, tree>> /\ tree = NoTree
      /\ run.at \in {"checking", "planning", "counting"} /\ Fit
      /\ spec \in RunSpec /\ gather.at = "idle" /\ gather = NoGather
  BY DEF PipelineInv, EnsureRepo, Plan, Count, RunAt, AdvertInv, Timed, Sited, Before, Unbegun, Placed
<1>2. Faults = {} => /\ there /\ ~May("git") /\ ~May("hang") /\ Delegates /\ ~Unfit
                     /\ run.at \in {"planning", "counting"} => kind = "repo"
  BY <1>1, FitIs DEF AdvertInv, Undisturbed, Placed, Faults, May
<1>3. ASSUME NEW code, code # "ok", Refuses(code), Faults = {} => code = Deserved
      PROVE  AdvertInv'
  BY <1>1, <1>3, EarlyIsRefused DEF Unbegun
<1>4. CASE EnsureRepo
  <2>0. run.at = "checking"
    BY <1>4 DEF EnsureRepo, RunAt
  <2>1. Delegates
    BY <2>0 DEF AdvertInv, Placed
  <2>2. ASSUME Usable, RunGoes(IF Dry THEN "planning" ELSE "composing")
        PROVE  AdvertInv'
    <3>1. /\ run'.at = IF Dry THEN "planning" ELSE "composing"
          /\ run'.foretold = run.foretold /\ run'.status = run.status
      BY <1>1, <2>2, GoesOn
    <3> QED
      BY <1>1, <2>1, <2>2, <3>1, EarlyGoesOn DEF Unbegun, Usable
  <2>3. ASSUME ~there, Refuses("invalid_workspace_root")
        PROVE  AdvertInv'
    BY <1>2, <1>3, <2>3
  <2>4. ASSUME there, kind = "plain", Refuses("not_a_git_repo")
        PROVE  AdvertInv'
    BY <1>2, <1>3, <2>4 DEF Deserved
  <2>5. ASSUME there, kind = "unborn" \/ May("git") \/ May("hang"), Refuses("worktree_error")
        PROVE  AdvertInv'
    BY <1>2, <1>3, <2>5 DEF Deserved
  <2> QED
    BY <1>4, <2>2, <2>3, <2>4, <2>5 DEF EnsureRepo
<1>5. ASSUME NEW code \in PlanFailures, Refuses(code), run.at \in {"planning", "counting"}
      PROVE  AdvertInv'
  <2>1. code # "ok" /\ (Faults = {} => FALSE)
    BY <1>2, <1>5 DEF PlanFailures
  <2> QED
    BY <1>3, <1>5, <2>1
<1>6. CASE Plan
  <2>0. run.at = "planning"
    BY <1>6 DEF Plan, RunAt
  <2>1. ASSUME Usable, run' = [run EXCEPT !.at = "counting", !.foretold = Planned(@)]
        PROVE  AdvertInv'
    BY <1>1, <2>0, <2>1, PlansAsAdvertised
  <2> QED
    BY <1>5, <1>6, <2>0, <2>1 DEF Plan
<1>7. CASE Count
  <2>0. run.at = "counting"
    BY <1>7 DEF Count, RunAt
  <2>1. ASSUME NEW changed \in Uncommitted, IsTold(ForetellsDelegate(run.foretold, changed))
        PROVE  AdvertInv'
    <3> DEFINE foretold == ForetellsDelegate(run.foretold, changed)
    <3>1. foretold \in [told : {TRUE}, code : {"ok"}, calls : {TRUE}, diff : {run.foretold.diff},
                       base : {run.foretold.base}, replayed : {changed},
                       since : {run.foretold.since}]
          /\ run.foretold.since \in 0..moves
      BY DEF AdvertInv, Timed, ForetellsDelegate, Foretells
    <3>2. IsTold(foretold)
      BY <2>1
    <3> HIDE DEF foretold
    <3>3. foretold \in [told : {TRUE}, code : {"ok"}, calls : {foretold.calls},
                       diff : {foretold.diff}, base : {foretold.base},
                       replayed : {foretold.replayed}, since : 0..moves]
      BY <3>1
    <3>4. Dry /\ Delegates /\ kind = "repo" /\ ~Reviews
      BY <2>0 DEF AdvertInv, Placed, Delegates, Reviews
    <3>5. foretold.since = moves => HoldsOf(foretold)
      <4> SUFFICES ASSUME foretold.since = moves
                   PROVE  HoldsOf(foretold)
        OBVIOUS
      <4>1. run.foretold.base = head
        BY <2>0, <3>1 DEF AdvertInv, HoldsStill
      <4>2. changed = Differing(head, Tracked) \/ (changed = {} /\ May("git"))
        BY <2>1 DEF Uncommitted
      <4> QED
        BY <3>1, <3>4, <4>1, <4>2 DEF HoldsOf
    <3>6. Faults = {} => Deserved = "ok"
      BY <1>2, <3>4 DEF Deserved
    <3> QED
      BY <1>1, <3>2, <3>3, <3>4, <3>5, <3>6, EarlyIsTold DEF Unbegun
  <2> QED
    BY <1>5, <1>7, <2>0, <2>1 DEF Count
<1> QED
  BY <1>4, <1>6, <1>7

(* A step of the gather.                                                   *)
LEMMA GatherGoesOn ==
  ASSUME AdvertInv, UNCHANGED <<spec, repoVars, tree, run>>, run.at = "composing",
         Gathers', gather'.at # "idle", gather'.since \in run.foretold.since..moves,
         Faults = {} => /\ gather'.at = "failed" => gather'.code = Deserved /\ Deserved # "ok"
                        /\ gather'.at \notin {"idle", "pinning", "failed"} => kind = "repo"
  PROVE  AdvertInv'
<1>1. /\ spec \in RunSpec' /\ SeededNow' /\ HoldsStill'
  BY StillSeeded, StillHolds DEF AdvertInv
<1>2. moves' = moves /\ (Fit' <=> Fit) /\ (Reviews' <=> Reviews) /\ (Delegates' <=> Delegates)
  BY CallStays DEF repoVars
<1>3. Timed'
  BY <1>2 DEF AdvertInv, Timed, Unbegun
<1>4. Onward' /\ Placed' /\ SaysWhetherItRan'
  BY <1>2 DEF AdvertInv, Onward, Placed, Past, SaysWhetherItRan
<1>5. Deserved' = Deserved /\ Faults' = Faults /\ kind' = kind /\ there' = there
  BY DeservedStays, CallStays DEF repoVars
<1>6. Undisturbed'
  <2> SUFFICES ASSUME Faults = {}
               PROVE  Undisturbed'
    BY <1>5 DEF Undisturbed
  <2>1. /\ there
        /\ run.foretold.told => run.foretold.code = Deserved
        /\ kind = "repo" \/ ~Delegates
        /\ kind = "repo" => tree.at \notin {"undoing", "failed"}
    BY DEF AdvertInv, Undisturbed
  <2> QED
    BY <1>2, <1>5, <2>1 DEF Undisturbed, Past
<1> QED
  BY <1>1, <1>3, <1>4, <1>6 DEF AdvertInv

LEMMA GatherFailsAsDeserved ==
  ASSUME GatherShaped, Undisturbed, Fit, Reviews, Faults = {}, Gather
  PROVE  /\ gather'.at = "failed" => gather'.code = Deserved /\ Deserved # "ok"
         /\ gather'.at \notin {"idle", "pinning", "failed"} => kind = "repo"
<1> DEFINE Goal == /\ gather'.at = "failed" => gather'.code = Deserved /\ Deserved # "ok"
                   /\ gather'.at \notin {"idle", "pinning", "failed"} => kind = "repo"
<1>1. there /\ ~May("git") /\ ~May("hang") /\ ~Unfit /\ ~Delegates
  BY FitIs DEF Undisturbed, Faults, May, Delegates, Reviews
<1>2. ASSUME NEW code, code # "ok", GatherFails(code), code = Deserved
      PROVE  Goal
  BY <1>2 DEF GatherFails, GatherShaped
<1>3. GitBreaks => Goal
  BY <1>1, <1>2 DEF GitBreaks, Deserved
<1>4. CASE Pin
  <2>1. kind = "unborn" /\ GatherFails(IF spec.scope = "branch" THEN "invalid_base" ELSE "git_unavailable")
        => Goal
    BY <1>1, <1>2 DEF Deserved
  <2>2. Usable /\ gather' = [gather EXCEPT !.at = IF OverTree THEN "marking" ELSE "counting",
                                    !.from = IF OverTree THEN head ELSE Root,
                                    !.to = head]
        => Goal
    BY DEF Usable, GatherShaped
  <2> QED
    BY <1>3, <1>4, <2>1, <2>2 DEF Pin
<1>5. CASE ~Pin
  <2>1. Mark \/ Summary \/ Read \/ List \/ Remark \/ Recheck
    BY <1>5 DEF Gather
  <2>2. \/ GitBreaks
        \/ Usable /\ gather'.at \notin {"idle", "pinning", "failed"}
    BY <2>1 DEF Mark, Summary, Read, List, Remark, Recheck, Fed, GatherShaped
  <2> QED
    BY <1>3, <2>2 DEF Usable
<1> QED
  BY <1>4, <1>5

LEMMA ComposeAsAdvertised ==
  ASSUME AdvertInv, PipelineInv, GatherShaped, Compose
  PROVE  AdvertInv'
<1>1. /\ RunShaped /\ UNCHANGED <<spec, repoVars, tree>> /\ run.at = "composing" /\ tree = NoTree
      /\ spec \in RunSpec /\ Fit /\ ~(Reviews /\ Delegates)
  BY DEF PipelineInv, Compose, RunAt, AdvertInv, Sited, Before, Placed, Reviews, Delegates
<1>2. Faults = {} => /\ there /\ ~Unfit /\ (kind = "repo" \/ ~Delegates)
                     /\ kind = "repo" \/ ~Reviews => Deserved = "ok"
                     /\ gather.at = "done" => kind = "repo"
                     /\ gather.at = "failed" => gather.code = Deserved
  BY <1>1, FitIs DEF AdvertInv, Undisturbed, Deserved
<1>3. ASSUME ~Reviews, RunGoes("choosing"), UNCHANGED gather
      PROVE  AdvertInv'
  BY <1>1, <1>2, <1>3, GoesOn, EarlyGoesOn DEF Unbegun
<1>4. ASSUME Reviews, gather.at = "idle",
             gather' = [gather EXCEPT !.at = "pinning", !.since = moves], UNCHANGED run
      PROVE  AdvertInv'
  <2>1. gather = NoGather /\ run.foretold.since \in 0..moves /\ moves \in Nat
    BY <1>4 DEF AdvertInv, Timed
  <2>2. gather'.at = "pinning" /\ gather'.since = moves /\ gather'.diff = NewAccumulator
    BY <1>4, <2>1 DEF NoGather
  <2>3. Gathers'
    BY <2>2 DEF Gathers
  <2>4. gather'.since \in run.foretold.since..moves
    BY <2>1, <2>2
  <2> QED
    BY <1>1, <1>4, <2>2, <2>3, <2>4, GatherGoesOn
<1>5. ASSUME Reviews, Gather, UNCHANGED run
      PROVE  AdvertInv'
  <2>1. Gathers' /\ gather'.since = gather.since /\ gather.at # "idle" /\ gather'.at # "idle"
    BY <1>1, <1>5, GathersStep DEF AdvertInv
  <2>2. gather'.since \in run.foretold.since..moves
    BY <2>1 DEF AdvertInv, Timed
  <2>3. Faults = {} => /\ gather'.at = "failed" => gather'.code = Deserved /\ Deserved # "ok"
                       /\ gather'.at \notin {"idle", "pinning", "failed"} => kind = "repo"
    BY <1>1, <1>5, GatherFailsAsDeserved DEF AdvertInv
  <2> QED
    BY <1>1, <1>5, <2>1, <2>2, <2>3, GatherGoesOn
<1>6. ASSUME gather.at = "failed", Refuses(gather.code), gather' = IF Dry THEN NoGather ELSE gather
      PROVE  AdvertInv'
  <2>1. gather.code # "ok"
    BY DEF GatherShaped, GatherCodes
  <2> QED
    BY <1>1, <1>2, <1>6, <2>1, EarlyIsRefused DEF Unbegun
<1>7. ASSUME Reviews, gather.at = "done"
      PROVE  run.foretold.since = moves =>
               gather.diff = FoundDiff /\ (NothingGathered <=> FoundNothing)
  <2> SUFFICES ASSUME run.foretold.since = moves
               PROVE  gather.diff = FoundDiff /\ (NothingGathered <=> FoundNothing)
    OBVIOUS
  <2>1. gather.since = moves
    <3>1. gather.since \in run.foretold.since..moves /\ moves \in Nat
      BY <1>7 DEF AdvertInv, Timed
    <3> QED
      BY <3>1
  <2>2. gather.summary = FoundFiles /\ gather.diff = FoundDiff
    BY <1>7, <2>1 DEF AdvertInv, Gathers
  <2> QED
    BY <2>2 DEF NothingGathered, FoundNothing
<1>8. ASSUME Reviews, gather.at = "done", Dry, IsTold(ForetellsReview(run.foretold)), gather' = NoGather
      PROVE  AdvertInv'
  <2> DEFINE foretold == ForetellsReview(run.foretold)
  <2>1. foretold \in [told : {TRUE}, code : {"ok"}, calls : {~NothingGathered}, diff : {gather.diff},
                     base : {run.foretold.base}, replayed : {run.foretold.replayed},
                     since : {run.foretold.since}]
        /\ run.foretold.since \in 0..moves
    BY DEF AdvertInv, Timed, ForetellsReview, Foretells
  <2>2. IsTold(foretold)
    BY <1>8
  <2> HIDE DEF foretold
  <2>3. foretold \in [told : {TRUE}, code : {"ok"}, calls : {foretold.calls},
                     diff : {foretold.diff}, base : {foretold.base},
                     replayed : {foretold.replayed}, since : 0..moves]
    BY <2>1
  <2>4. foretold.since = run.foretold.since /\ foretold.diff = gather.diff
        /\ foretold.calls = ~NothingGathered
    BY <2>1
  <2>5. foretold.since = moves => HoldsOf(foretold)
    BY <1>1, <1>7, <1>8, <2>4 DEF HoldsOf
  <2> QED
    BY <1>1, <1>2, <1>8, <2>2, <2>3, <2>5, EarlyIsTold DEF Unbegun
<1>9. ASSUME Reviews, gather.at = "done", UNCHANGED gather, ~NothingGathered, RunGoes("choosing")
      PROVE  AdvertInv'
  BY <1>1, <1>2, <1>9, GoesOn, EarlyGoesOn DEF Unbegun
<1>10. ASSUME Reviews, gather.at = "done", UNCHANGED gather, NothingGathered, NotRun
       PROVE  AdvertInv'
  <2>1. run'.at = "answered" /\ run'.foretold = run.foretold /\ run'.code = "ok" /\ run'.status = "not_run"
    BY <1>1, <1>10, AnsweredSo DEF NotRun
  <2>2. /\ spec \in RunSpec' /\ Timed' /\ Gathers' /\ SeededNow' /\ HoldsStill'
    BY <1>1, <1>10, <2>1, StillTimed, StillGathers, StillSeeded, StillHolds DEF AdvertInv, repoVars, Unbegun
  <2>3. Onward' /\ Placed'
    BY <2>1 DEF Onward, Placed, Past
  <2>4. Deserved' = Deserved /\ Faults' = Faults /\ kind' = kind /\ there' = there
        /\ (Delegates' <=> Delegates) /\ (Reviews' <=> Reviews) /\ moves' = moves
    BY <1>1, DeservedStays, CallStays DEF repoVars
  <2>5. Undisturbed'
    <3> SUFFICES ASSUME Faults = {}
                 PROVE  Undisturbed'
      BY <2>4 DEF Undisturbed
    <3>1. /\ there /\ kind = "repo" /\ Deserved = "ok"
          /\ run.foretold.told => run.foretold.code = Deserved
          /\ kind = "repo" => tree.at \notin {"undoing", "failed"}
      BY <1>2, <1>10 DEF AdvertInv, Undisturbed
    <3>2. gather'.at = "done" /\ tree' = tree
      BY <1>1, <1>10
    <3> QED
      BY <2>1, <2>4, <3>1, <3>2 DEF Undisturbed, Past, OfRepository
  <2>6. SaysWhetherItRan'
    <3>1. run.foretold.told /\ run.foretold.code = "ok" /\ run.foretold.since = moves => ~run.foretold.calls
      <4>1. run.foretold.since = moves => HoldsOf(run.foretold)
        BY DEF AdvertInv, HoldsStill
      <4> QED
        BY <1>7, <1>10, <4>1 DEF HoldsOf
    <3> QED
      BY <2>1, <2>4, <3>1 DEF SaysWhetherItRan
  <2> QED
    BY <1>1, <2>2, <2>3, <2>5, <2>6 DEF AdvertInv
<1> QED
  BY <1>3, <1>4, <1>5, <1>6, <1>8, <1>9, <1>10 DEF Compose, GatherAt

LEMMA StopsAsAdvertised ==
  ASSUME AdvertInv, UNCHANGED <<spec, repoVars, gather, tree>>, run'.foretold = run.foretold,
         run'.code = run.code, run'.status = run.status,
         run'.at = run.at \/ (run'.at = "killed" /\ run.at # "answered")
  PROVE  AdvertInv'
<1>1. /\ spec \in RunSpec' /\ Timed' /\ Gathers' /\ SeededNow' /\ HoldsStill'
  BY StillTimed, StillGathers, StillSeeded, StillHolds DEF AdvertInv, repoVars, Timed, Unbegun
<1>2. Deserved' = Deserved /\ Faults' = Faults /\ kind' = kind /\ there' = there
      /\ (Delegates' <=> Delegates) /\ (Reviews' <=> Reviews) /\ moves' = moves
      /\ (Fit' <=> Fit) /\ Invalid' = Invalid /\ (NothingGathered' <=> NothingGathered)
      /\ (Dry' <=> Dry)
  BY DeservedStays, CallStays DEF repoVars, NothingGathered, Dry
<1>3. Onward' /\ Placed'
  BY <1>2 DEF AdvertInv, Onward, Placed, Past
<1>4. Undisturbed'
  <2>1. gather' = gather /\ tree' = tree
    OBVIOUS
  <2> QED
    BY <1>2, <2>1 DEF AdvertInv, Undisturbed, Past
<1>5. SaysWhetherItRan'
  BY <1>2 DEF AdvertInv, SaysWhetherItRan
<1> QED
  BY <1>1, <1>3, <1>4, <1>5 DEF AdvertInv

LEMMA UserAsAdvertised ==
  ASSUME AdvertInv, UserActs
  PROVE  AdvertInv'
<1>1. UNCHANGED <<spec, gather, tree, run, kind>>
  BY DEF UserActs, Edit, Stage, Commit, Reset, Vanish
<1>2. /\ (Fit' <=> Fit) /\ Invalid' = Invalid /\ (Reviews' <=> Reviews) /\ (Delegates' <=> Delegates)
      /\ Faults' = Faults /\ (Dry' <=> Dry) /\ (NothingGathered' <=> NothingGathered)
      /\ (OverTree' <=> OverTree)
  BY <1>1, CallStays DEF Dry, NothingGathered, OverTree
<1>3. Onward' /\ Placed'
  BY <1>1, <1>2 DEF AdvertInv, Onward, Placed
<1>4. moves \in Nat
  BY DEF AdvertInv, Timed
<1>5. CASE UNCHANGED there /\ moves' = moves + 1
  <2>1. run.foretold.since \in 0..moves /\ gather.since \in 0..moves
    <3>1. run.foretold.since \in 0..moves
      BY DEF AdvertInv, Timed
    <3>2. gather.at = "idle" => gather.since = 0
      BY DEF AdvertInv, Timed, NoGather
    <3>3. gather.at # "idle" => gather.since \in run.foretold.since..moves
      BY DEF AdvertInv, Timed
    <3> QED
      BY <1>4, <3>1, <3>2, <3>3
  <2>2. /\ run.foretold.since # moves' /\ gather.since # moves' /\ moves' \in Nat
        /\ run.foretold.since \in 0..moves'
        /\ gather.at # "idle" => gather.since \in run.foretold.since..moves'
    <3>1. gather.at # "idle" => gather.since \in run.foretold.since..moves
      BY DEF AdvertInv, Timed
    <3> QED
      BY <1>4, <1>5, <2>1, <3>1
  <2>3. run.foretold \in [told : BOOLEAN, code : {run.foretold.code}, calls : {run.foretold.calls},
                       diff : {run.foretold.diff}, base : {run.foretold.base},
                       replayed : {run.foretold.replayed}, since : 0..moves']
    <3>1. run.foretold \in [told : BOOLEAN, code : {run.foretold.code}, calls : {run.foretold.calls},
                       diff : {run.foretold.diff}, base : {run.foretold.base},
                       replayed : {run.foretold.replayed}, since : 0..moves]
      BY DEF AdvertInv, Timed
    <3>2. 0..moves \subseteq 0..moves'
      BY <1>4, <1>5
    <3> QED
      BY <3>1, <3>2
  <2>0. run'.foretold.since # moves' /\ gather'.since # moves' /\ run' = run /\ gather' = gather
        /\ tree' = tree
    BY <1>1, <2>2
  <2>4. Timed'
    <3>1. gather.at # "idle" => gather.since \in run.foretold.since..moves'
      BY <2>2
    <3>2. /\ gather.at = "idle" => gather = NoGather
          /\ run.at \in Unbegun => gather.at = "idle"
          /\ run.foretold.told => Delegates \/ Reviews
      BY DEF AdvertInv, Timed
    <3>3. moves' \in Nat
      BY <2>2
    <3> QED
      BY <1>1, <1>2, <2>0, <2>3, <3>1, <3>2, <3>3 DEF Timed
  <2>5. Gathers' /\ HoldsStill' /\ SeededNow'
    <3>1. Gathers'
      BY <1>2, <2>0 DEF AdvertInv, Gathers
    <3> QED
      BY <2>0, <3>1 DEF HoldsStill, SeededNow
  <2>6. Deserved' = Deserved /\ there' = there
    BY <1>1, <1>5, DeservedStays
  <2>7. Undisturbed'
    BY <1>1, <1>2, <2>6 DEF AdvertInv, Undisturbed
  <2>8. SaysWhetherItRan'
    <3>1. run.status = "not_run" => run.at = "answered"
      BY DEF AdvertInv, SaysWhetherItRan
    <3> QED
      BY <2>0, <3>1 DEF SaysWhetherItRan
  <2> QED
    BY <1>1, <1>3, <2>4, <2>5, <2>7, <2>8 DEF AdvertInv
<1>6. CASE May("vanish") /\ UNCHANGED <<head, staged, live, moves>>
  <2>1. Faults' # {}
    BY <1>2, <1>6 DEF Faults, May
  <2>2. Timed'
    BY <1>1, <1>6, StillTimed DEF AdvertInv, Timed
  <2>3. Gathers'
    BY <1>1, <1>2, <1>6, FoundStays DEF AdvertInv, Gathers
  <2>4. HoldsStill' /\ SeededNow'
    <3>1. HoldsOf(run.foretold)' <=> HoldsOf(run.foretold)
      BY <1>1, <1>6, FoundStays, CallStays DEF HoldsOf, Differing
    <3> QED
      BY <1>1, <1>6, <3>1, FoundStays DEF AdvertInv, HoldsStill, SeededNow
  <2>5. Undisturbed' /\ SaysWhetherItRan'
    BY <1>1, <2>1 DEF AdvertInv, Undisturbed, SaysWhetherItRan
  <2> QED
    BY <1>1, <1>3, <2>2, <2>3, <2>4, <2>5 DEF AdvertInv
<1> QED
  BY <1>5, <1>6 DEF UserActs, Edit, Stage, Commit, Reset, Vanish, Moves

LEMMA AdvertInit == Init => AdvertInv
<1> SUFFICES ASSUME Init
             PROVE  AdvertInv
  OBVIOUS
<1>1. PICK family \in Profiles : \E p \in family : spec = p.spec
  BY DEF Init
<1>2. spec \in RunSpec
  BY <1>1, RequestAssumption
<1>3. /\ there = TRUE /\ moves = 0 /\ gather = NoGather /\ tree = NoTree /\ run = NoRun
  BY DEF Init
<1>4. /\ run.at = "asked" /\ run.status = "none" /\ run.foretold = NotForetold
      /\ gather.at = "idle" /\ gather.diff = NewAccumulator /\ tree.at = "none"
  BY <1>3 DEF NoRun, NoGather, NoTree
<1>5. NotForetold \in [told : {FALSE}, code : {NotForetold.code}, calls : {NotForetold.calls},
                   diff : {NotForetold.diff}, base : {NotForetold.base},
                   replayed : {NotForetold.replayed}, since : 0..0]
  BY DEF NotForetold
<1>6. Timed /\ ~run.foretold.told
  <2>1. ~NotForetold.told
    BY <1>5
  <2>2. NotForetold \in [told : BOOLEAN, code : {NotForetold.code}, calls : {NotForetold.calls},
                   diff : {NotForetold.diff}, base : {NotForetold.base},
                   replayed : {NotForetold.replayed}, since : 0..0]
    BY DEF NotForetold
  <2> QED
    BY <1>3, <1>4, <2>1, <2>2 DEF Timed
<1>7. Gathers /\ Onward /\ HoldsStill /\ SeededNow /\ Placed /\ SaysWhetherItRan
  BY <1>4, <1>6 DEF Gathers, Onward, HoldsStill, HoldsOf, SeededNow, Placed, SaysWhetherItRan, Past
<1>8. Undisturbed
  BY <1>3, <1>4, <1>6 DEF Undisturbed, Past
<1> QED
  BY <1>2, <1>6, <1>7, <1>8 DEF AdvertInv

LEMMA AdvertNext == AdvertInv /\ PipelineInv /\ AnswerInv /\ [Next]_vars => AdvertInv'
<1> SUFFICES ASSUME AdvertInv, PipelineInv, AnswerInv, [Next]_vars
             PROVE  AdvertInv'
  OBVIOUS
<1>1. RunShaped /\ GatherShaped
  BY DEF AnswerInv
<1>2. CASE UNCHANGED vars
  BY <1>2, StopsAsAdvertised DEF vars
<1>3. CASE Cancel
  <2>1. run' = [run EXCEPT !.cancelled = TRUE] /\ UNCHANGED <<repoVars, spec, gather, tree>>
    BY <1>3 DEF Cancel
  <2>2. run'.at = run.at /\ run'.foretold = run.foretold /\ run'.code = run.code
        /\ run'.status = run.status
    BY <1>1, <2>1 DEF RunShaped
  <2> QED
    BY <2>1, <2>2, StopsAsAdvertised
<1>4. CASE Kill
  <2>1. UNCHANGED <<repoVars, spec, gather, tree>> /\ run'.at = "killed" /\ run.at # "answered"
        /\ run'.foretold = run.foretold /\ run'.code = run.code /\ run'.status = run.status
    BY <1>1, <1>4, GoesOn DEF Kill, Ended
  <2> QED
    BY <2>1, StopsAsAdvertised
<1>5. CASE Finished
  BY <1>2, <1>5 DEF Finished
<1> QED
  BY <1>1, <1>2, <1>3, <1>4, <1>5, PreflightAsAdvertised, RepoAsAdvertised, ComposeAsAdvertised,
     SiteAsAdvertised, EntersAsAdvertised, LaunchAsAdvertised, FoldAsAdvertised, UserAsAdvertised
     DEF Next

LEMMA InvIsAsAdvertised ==
  ASSUME AdvertInv, PipelineInv
  PROVE  RunIsAsAdvertised
<1>1. ASSUME run.at = "running"
      PROVE  AsConfigured
  BY <1>1, CommandIsAmicus DEF AdvertInv, Placed, Fit
<1>2. ASSUME run.foretold.told, run.foretold.since = moves, run.at = "running",
             run.foretold.code = "ok"
      PROVE  /\ run.foretold.calls
             /\ Reviews => run.foretold.diff = gather.diff
             /\ Delegates /\ ~tree.warned /\ ~tree.committed =>
                  \/ run.foretold.replayed = Differing(run.foretold.base, tree.base)
                  \/ run.foretold.replayed = {} /\ May("git")
  <2>1. run.foretold.calls /\ (Reviews => run.foretold.diff = gather.diff)
    BY <1>2, OnwardIsCalled DEF Past
  <2>2. ASSUME Delegates, ~tree.warned, ~tree.committed
        PROVE  tree.base = Tracked
    <3>1. tree.at = "ready"
      BY <1>2, <2>2 DEF PipelineInv, Sited, OnSite
    <3>2. tree.seen = Tracked /\ tree.steady
      BY <1>2, <2>2, <3>1 DEF AdvertInv, SeededNow
    <3> QED
      BY <2>2, <3>1, <3>2 DEF PipelineInv, TreeInv, Seeded
  <2>3. Delegates => /\ run.foretold.base = head
                     /\ \/ run.foretold.replayed = Differing(head, Tracked)
                        \/ run.foretold.replayed = {} /\ May("git")
    BY <1>2 DEF AdvertInv, HoldsStill, HoldsOf
  <2> QED
    BY <2>1, <2>2, <2>3
<1>3. ASSUME run.foretold.told, run.foretold.since = moves, run.at = "answered", Faults = {}
      PROVE  IF run.foretold.code = "ok"
             THEN /\ run.code \notin OfRepository
                  /\ run.status = "not_run" <=> ~run.foretold.calls
             ELSE run.code = run.foretold.code
  <2>1. Delegates \/ Reviews
    BY <1>3 DEF AdvertInv, Timed
  <2>2. run.foretold.code = Deserved
    BY <1>3 DEF AdvertInv, Undisturbed
  <2>3. Deserved = "ok" => run.code \notin OfRepository
    BY <1>3, <2>1 DEF AdvertInv, Undisturbed
  <2>4. Deserved # "ok" => run.code = Deserved
    BY <1>3 DEF AdvertInv, Undisturbed
  <2>5. run.foretold.code = "ok" => (run.status = "not_run" <=> ~run.foretold.calls)
    BY <1>3 DEF AdvertInv, SaysWhetherItRan
  <2> QED
    BY <2>2, <2>3, <2>4, <2>5
<1>4. AsForetold
  BY <1>2, <1>3 DEF AsForetold, RunAt
<1> QED
  BY <1>1, <1>4 DEF RunIsAsAdvertised, AsConfigured, RunAt

(* A backend that runs is started as amicus advertises, whatever the       *)
(* operator passes through, the user configures and --help lists; and what *)
(* a free preview said of the call is what becomes of it, unless the       *)
(* caller's tree moved or a git command failed meanwhile (parse_extra_args,*)
(* build_exec_command, scrub_env, resolve_workspace, tools/dry_run.py).    *)
THEOREM RunsAreAsAdvertised == Spec => []RunIsAsAdvertised
<1>1. AdvertInv /\ PipelineInv => RunIsAsAdvertised
  BY InvIsAsAdvertised
<1> QED
  BY <1>1, AdvertInit, AdvertNext, PipelineInit, PipelineNext, AnswerInit, AnswerNext, PTL DEF Spec

-----------------------------------------------------------------------------
(* What the accumulator was given: a file's patch line by line, the files  *)
(* one by one.                                                             *)
LEMMA Climb ==
  ASSUME NEW S, 0 \in S, \A n \in Nat : n \in S => n + 1 \in S
  PROVE  \A n \in Nat : n \in S
<1> SUFFICES ASSUME NEW k \in Nat, k \notin S
             PROVE  FALSE
  OBVIOUS
<1> DEFINE T == {n \in Nat : n \notin S}
<1>1. PICK n \in T : \A y \in T : n <= y
  BY LeastExists
<1>2. n - 1 \in T /\ n - 1 < n
  OBVIOUS
<1> QED
  BY <1>1, <1>2

FeedsLines(f, request, acc, patch, m) ==
  f = [n \in 0..m |-> IF n = 0 THEN acc ELSE FeedAccumulator(f[n - 1], patch[n], request.cap)]

LEMMA FeedsLinesIs ==
  ASSUME NEW f, NEW request, NEW acc, NEW patch, NEW m \in Nat
  PROVE  FeedsLines(f, request, acc, patch, m) <=>
           /\ f = [n \in 0..m |-> f[n]]
           /\ \A n \in 0..m : f[n] = IF n = 0 THEN acc
                                     ELSE FeedAccumulator(f[n - 1], patch[n], request.cap)
  BY DEF FeedsLines

LEMMA LinesCanBeFed ==
  ASSUME NEW request, NEW acc, NEW patch, NEW n \in Nat
  PROVE  \E f : FeedsLines(f, request, acc, patch, n)
<1> DEFINE S == {m \in Nat : \E f : FeedsLines(f, request, acc, patch, m)}
<1>1. 0 \in S
  <2> DEFINE f == [n_1 \in 0..0 |-> acc]
  <2>1. FeedsLines(f, request, acc, patch, 0)
    BY DEF FeedsLines
  <2> QED
    BY <2>1
<1>2. ASSUME NEW m \in Nat, m \in S
      PROVE  m + 1 \in S
  <2>1. PICK f : FeedsLines(f, request, acc, patch, m)
    BY <1>2
  <2> DEFINE at(h, i) == IF i = 0 THEN acc ELSE FeedAccumulator(h[i - 1], patch[i], request.cap)
             g == [i \in 0..(m + 1) |-> IF i = m + 1 THEN at(f, i) ELSE f[i]]
  <2>2. \A i \in 0..m : f[i] = at(f, i)
    BY <2>1, FeedsLinesIs
  <2>3. \A i \in 0..(m + 1) : g[i] = at(g, i)
    <3> TAKE i \in 0..(m + 1)
    <3>1. CASE i = m + 1
      <4>1. g[i - 1] = f[i - 1] /\ g[i] = at(f, i)
        BY <3>1
      <4> QED
        BY <4>1
    <3>2. CASE i \in 1..m
      <4>1. g[i - 1] = f[i - 1] /\ g[i] = f[i]
        BY <3>2
      <4> QED
        BY <2>2, <3>2, <4>1
    <3>3. CASE i = 0
      BY <2>2, <3>3
    <3> QED
      BY <3>1, <3>2, <3>3
  <2>4. g = [i \in 0..(m + 1) |-> g[i]]
    OBVIOUS
  <2> HIDE DEF g
  <2>5. FeedsLines(g, request, acc, patch, m + 1)
    <3> DEFINE h == [i \in 0..(m + 1) |-> at(g, i)]
    <3>1. \A i \in 0..(m + 1) : g[i] = h[i]
      BY <2>3
    <3>2. g = h
      BY <2>4, <3>1
    <3> QED
      BY <3>2 DEF FeedsLines
  <2> QED
    BY <2>5
<1> HIDE DEF S
<1>3. n \in S
  BY <1>1, <1>2, Climb
<1> QED
  BY <1>3 DEF S

GivenTo(acc) == acc.fed

OfFile(patch, file, m) == \A n \in 1..m : patch[n].path = file

LEMMA FeedIsGiven ==
  ASSUME NEW acc, NEW item, NEW cap
  PROVE  GivenTo(FeedAccumulator(acc, item, cap)) = GivenTo(acc) \cup {item.path}
<1>1. ASSUME NEW fed
      PROVE  Stores(acc, item, fed, cap).fed = acc.fed \cup {item.path}
  BY DEF Stores
<1> QED
  BY <1>1 DEF FeedAccumulator, GivenTo

LEMMA LinesFed ==
  ASSUME NEW request, NEW acc, NEW patch, NEW file, NEW f, NEW m \in Nat, m # 0,
         OfFile(patch, file, m), FeedsLines(f, request, acc, patch, m)
  PROVE  GivenTo(f[m]) = GivenTo(acc) \cup {file}
<1> DEFINE S == {n \in Nat : n <= m => GivenTo(f[n]) = IF n = 0 THEN GivenTo(acc) ELSE GivenTo(acc) \cup {file}}
<1>0. \A n \in 0..m : f[n] = IF n = 0 THEN acc ELSE FeedAccumulator(f[n - 1], patch[n], request.cap)
  BY FeedsLinesIs
<1>1. 0 \in S
  BY <1>0
<1>2. ASSUME NEW n \in Nat, n \in S
      PROVE  n + 1 \in S
  <2> SUFFICES ASSUME n + 1 <= m
               PROVE  GivenTo(f[n + 1]) = GivenTo(acc) \cup {file}
    OBVIOUS
  <2>1. f[n + 1] = FeedAccumulator(f[n], patch[n + 1], request.cap) /\ patch[n + 1].path = file
    BY <1>0 DEF OfFile
  <2>2. GivenTo(f[n + 1]) = GivenTo(f[n]) \cup {file}
    BY <2>1, FeedIsGiven
  <2> QED
    BY <1>2, <2>2
<1> HIDE DEF S
<1>3. m \in S
  BY <1>1, <1>2, Climb
<1> QED
  BY <1>3 DEF S

LEMMA FileFed ==
  ASSUME NEW request \in RunSpec, NEW acc, NEW file \in Files
  PROVE  GivenTo(FedFile(request, acc, file)) = GivenTo(acc) \cup {file}
<1> DEFINE patch == PatchOf(request, file)
<1>1. Len(request.text[file]) \in Nat
  BY DEF RunSpec
<1>2. Len(patch) = 1 + Len(request.text[file]) /\ \A n \in 1..Len(patch) : patch[n].path = file
  BY <1>1 DEF PatchOf
<1> HIDE DEF patch
<1>3. FedFile(request, acc, file) =
        (CHOOSE f : FeedsLines(f, request, acc, patch, Len(patch)))[Len(patch)]
  BY DEF FedFile, FeedsLines, patch
<1> DEFINE m == Len(patch)
           f == CHOOSE g : FeedsLines(g, request, acc, patch, m)
<1>4. m \in Nat /\ m # 0
  BY <1>1, <1>2
<1>5. OfFile(patch, file, m)
  BY <1>2 DEF OfFile
<1>6. FedFile(request, acc, file) = f[m]
  BY <1>3
<1> HIDE DEF m
<1>7. FeedsLines(f, request, acc, patch, m)
  BY <1>4, LinesCanBeFed
<1> HIDE DEF f
<1>8. GivenTo(f[m]) = GivenTo(acc) \cup {file}
  BY <1>4, <1>5, <1>7, LinesFed
<1> QED
  BY <1>4, <1>6, <1>8

LEMMA OrderNamesAll ==
  ASSUME NEW S, IsFiniteSet(S)
  PROVE  /\ Cardinality(S) \in Nat /\ SetToSeq(S) \in [1..Cardinality(S) -> S]
         /\ S = {SetToSeq(S)[n] : n \in 1..Cardinality(S)}
<1> DEFINE m == Cardinality(S)
           D == 1..m
<1>1. m \in Nat /\ ExistsBijection(D, S)
  BY FS_CardinalityType
<1>2. IsFiniteSet(D) /\ Cardinality(D) = m
  BY <1>1, FS_Interval
<1>3. \E f \in [D -> S] : IsInjective(f)
  BY <1>1 DEF ExistsBijection, Bijection, Injection
<1>4. SetToSeq(S) \in [D -> S] /\ IsInjective(SetToSeq(S))
  BY <1>3 DEF SetToSeq
<1> DEFINE order == SetToSeq(S)
<1>5. order \in Injection(D, S)
  BY <1>4 DEF Injection
<1> HIDE DEF D, order
<1>6. order \in Surjection(D, S)
  BY <1>2, <1>5, FS_Injection
<1>7. \A t \in S : \E n \in D : order[n] = t
  BY <1>6 DEF Surjection
<1>8. order \in [D -> S]
  BY <1>4 DEF order
<1>9. S = {order[n] : n \in D}
  BY <1>7, <1>8
<1> QED
  BY <1>1, <1>8, <1>9 DEF D, order

FeedsFiles(f, request, acc, order, m) ==
  f = [n \in 0..m |-> IF n = 0 THEN acc ELSE FedFile(request, f[n - 1], order[n])]

LEMMA FeedsFilesIs ==
  ASSUME NEW f, NEW request, NEW acc, NEW order, NEW m \in Nat
  PROVE  FeedsFiles(f, request, acc, order, m) <=>
           /\ f = [n \in 0..m |-> f[n]]
           /\ \A n \in 0..m : f[n] = IF n = 0 THEN acc ELSE FedFile(request, f[n - 1], order[n])
  BY DEF FeedsFiles

LEMMA FilesCanBeFed ==
  ASSUME NEW request, NEW acc, NEW order, NEW n \in Nat
  PROVE  \E f : FeedsFiles(f, request, acc, order, n)
<1> DEFINE S == {m \in Nat : \E f : FeedsFiles(f, request, acc, order, m)}
<1>1. 0 \in S
  <2> DEFINE f == [n_1 \in 0..0 |-> acc]
  <2>1. FeedsFiles(f, request, acc, order, 0)
    BY DEF FeedsFiles
  <2> QED
    BY <2>1
<1>2. ASSUME NEW m \in Nat, m \in S
      PROVE  m + 1 \in S
  <2>1. PICK f : FeedsFiles(f, request, acc, order, m)
    BY <1>2
  <2> DEFINE at(h, i) == IF i = 0 THEN acc ELSE FedFile(request, h[i - 1], order[i])
             g == [i \in 0..(m + 1) |-> IF i = m + 1 THEN at(f, i) ELSE f[i]]
  <2>2. \A i \in 0..m : f[i] = at(f, i)
    BY <2>1, FeedsFilesIs
  <2>3. \A i \in 0..(m + 1) : g[i] = at(g, i)
    <3> TAKE i \in 0..(m + 1)
    <3>1. CASE i = m + 1
      <4>1. g[i - 1] = f[i - 1] /\ g[i] = at(f, i)
        BY <3>1
      <4> QED
        BY <4>1
    <3>2. CASE i \in 1..m
      <4>1. g[i - 1] = f[i - 1] /\ g[i] = f[i]
        BY <3>2
      <4> QED
        BY <2>2, <3>2, <4>1
    <3>3. CASE i = 0
      BY <2>2, <3>3
    <3> QED
      BY <3>1, <3>2, <3>3
  <2>4. g = [i \in 0..(m + 1) |-> g[i]]
    OBVIOUS
  <2> HIDE DEF g
  <2>5. FeedsFiles(g, request, acc, order, m + 1)
    <3> DEFINE h == [i \in 0..(m + 1) |-> at(g, i)]
    <3>1. \A i \in 0..(m + 1) : g[i] = h[i]
      BY <2>3
    <3>2. g = h
      BY <2>4, <3>1
    <3> QED
      BY <3>2 DEF FeedsFiles
  <2> QED
    BY <2>5
<1> HIDE DEF S
<1>3. n \in S
  BY <1>1, <1>2, Climb
<1> QED
  BY <1>3 DEF S

LEMMA OrderFed ==
  ASSUME NEW request \in RunSpec, NEW acc, NEW order, NEW f, NEW m \in Nat,
         \A n \in 1..m : order[n] \in Files, FeedsFiles(f, request, acc, order, m)
  PROVE  GivenTo(f[m]) = GivenTo(acc) \cup {order[n] : n \in 1..m}
<1> DEFINE S == {n \in Nat : n <= m => GivenTo(f[n]) = GivenTo(acc) \cup {order[k] : k \in 1..n}}
<1>0. \A n \in 0..m : f[n] = IF n = 0 THEN acc ELSE FedFile(request, f[n - 1], order[n])
  BY FeedsFilesIs
<1>1. 0 \in S
  <2>1. f[0] = acc
    BY <1>0
  <2> QED
    BY <2>1
<1>2. ASSUME NEW n \in Nat, n \in S
      PROVE  n + 1 \in S
  <2> SUFFICES ASSUME n + 1 <= m
               PROVE  GivenTo(f[n + 1]) = GivenTo(acc) \cup {order[k] : k \in 1..(n + 1)}
    OBVIOUS
  <2>1. f[n + 1] = FedFile(request, f[n], order[n + 1]) /\ order[n + 1] \in Files
    BY <1>0
  <2>2. GivenTo(f[n + 1]) = GivenTo(f[n]) \cup {order[n + 1]}
    BY <2>1, FileFed
  <2>3. GivenTo(f[n]) = GivenTo(acc) \cup {order[k] : k \in 1..n}
    BY <1>2
  <2>4. 1..(n + 1) = (1..n) \cup {n + 1}
    OBVIOUS
  <2>5. {order[k] : k \in 1..(n + 1)} = {order[k] : k \in 1..n} \cup {order[n + 1]}
    BY <2>4
  <2> QED
    BY <2>2, <2>3, <2>5
<1> HIDE DEF S
<1>3. m \in S
  BY <1>1, <1>2, Climb
<1> QED
  BY <1>3 DEF S

LEMMA FilesFed ==
  ASSUME NEW request \in RunSpec, NEW acc, NEW files \in SUBSET Files
  PROVE  GivenTo(FedFiles(request, acc, files)) = GivenTo(acc) \cup files
<1> DEFINE order == SetToSeq(files)
           m == Cardinality(files)
           f == CHOOSE g : FeedsFiles(g, request, acc, order, m)
<1>1. IsFiniteSet(files)
  BY RequestAssumption, FS_Subset
<1>2. m \in Nat /\ order \in [1..m -> files] /\ files = {order[n] : n \in 1..m}
  BY <1>1, OrderNamesAll
<1>3. FedFiles(request, acc, files) = f[m]
  BY DEF FedFiles, FeedsFiles
<1> HIDE DEF order, m
<1>4. FeedsFiles(f, request, acc, order, m)
  BY <1>2, FilesCanBeFed
<1> HIDE DEF f
<1>5. \A n \in 1..m : order[n] \in Files
  BY <1>2
<1>6. GivenTo(f[m]) = GivenTo(acc) \cup {order[n] : n \in 1..m}
  BY <1>2, <1>4, <1>5, OrderFed
<1> QED
  BY <1>2, <1>3, <1>6

-----------------------------------------------------------------------------
(* One move of the user that leaves HEAD alone and git status the same for *)
(* a file leaves what a review reads of the file as it was, unless the     *)
(* file's index is a version of its own.                                   *)
Changed(f) == gather.from[f] # Tracked[f]
New(f) == GathersUntracked /\ f \in Untracked

LEMMA TrackedOf ==
  ASSUME NEW f \in Files
  PROVE  Tracked[f] = IF staged[f] = Absent THEN Absent ELSE live[f]
  BY DEF Tracked

LEMMA UntrackedIsTold ==
  ASSUME NEW f \in Files
  PROVE  f \in Untracked <=> Status(f)[2] = "untracked"
  BY DEF Status, Untracked, Change

LEMMA StatusOf ==
  ASSUME NEW f \in Files
  PROVE  /\ Status(f)[1] = Change(head[f], staged[f])
         /\ f \notin Untracked => Status(f)[2] = Change(staged[f], Tracked[f])
  BY DEF Status

LEMMA MoveIsOne ==
  ASSUME UserActs, moves' # moves, moves \in Nat
  PROVE  (\E f \in Files : Edit(f)) \/ (\E f \in Files : Stage(f)) \/ Commit \/ Reset(Root)
  BY DEF UserActs, Vanish

LEMMA OneMoveHidesNothing ==
  ASSUME Caller, UserActs, moves' # moves, moves \in Nat, head' = head, NEW f \in Files,
         Status(f)' = Status(f), Status(f)[1] # "modified"
  PROVE  /\ (f \in Untracked)' <=> f \in Untracked
         /\ (head[f] # Tracked[f])' <=> head[f] # Tracked[f]
<1> DEFINE Alike == (head[f] # Tracked[f])' <=> head[f] # Tracked[f]
<1>1. (f \in Untracked)' <=> f \in Untracked
  <2>1. (f \in Untracked)' <=> Status(f)'[2] = "untracked"
    BY DEF Status, Untracked, Change
  <2> QED
    BY <2>1, UntrackedIsTold
<1>2. /\ Tracked[f] = IF staged[f] = Absent THEN Absent ELSE live[f]
      /\ Tracked'[f] = IF staged'[f] = Absent THEN Absent ELSE live'[f]
  BY DEF Tracked
<1>3. /\ f \in Untracked <=> staged[f] = Absent /\ live[f] # Absent
      /\ f \in Untracked' <=> staged'[f] = Absent /\ live'[f] # Absent
  BY DEF Untracked
<1>4. /\ Change(head[f], staged[f]) # "modified"
      /\ Change(head'[f], staged'[f]) = Change(head[f], staged[f])
      /\ f \notin Untracked => Change(staged'[f], Tracked'[f]) = Change(staged[f], Tracked[f])
  <2>1. Status(f)'[1] = Change(head'[f], staged'[f])
        /\ (f \notin Untracked' => Status(f)'[2] = Change(staged'[f], Tracked'[f]))
    BY DEF Status
  <2> QED
    BY <1>1, <2>1, StatusOf
<1>5. ASSUME NEW g \in Files, Edit(g)
      PROVE  Alike
  <2>1. UNCHANGED <<head, staged>>
    BY <1>5 DEF Edit
  <2>2. CASE g # f
    <3>1. live'[f] = live[f]
      BY <1>5, <2>2 DEF Edit, Caller, Snapshot
    <3> QED
      BY <1>2, <2>1, <3>1
  <2>3. CASE staged[f] = Absent
    BY <1>2, <2>1, <2>3
  <2>4. CASE staged[f] # Absent
    <3>1. f \notin Untracked /\ Tracked[f] = live[f] /\ Tracked'[f] = live'[f]
      BY <1>2, <1>3, <2>1, <2>4
    <3>2. Change(staged[f], live'[f]) = Change(staged[f], live[f])
      BY <1>4, <2>1, <3>1
    <3>3. head[f] = staged[f] \/ head[f] = Absent
      BY <1>4, <2>4 DEF Change
    <3>4. CASE head[f] = staged[f]
      BY <2>1, <3>1, <3>2, <3>4 DEF Change
    <3>5. CASE head[f] = Absent
      BY <2>1, <2>4, <3>1, <3>2, <3>5 DEF Change
    <3> QED
      BY <3>3, <3>4, <3>5
  <2> QED
    BY <2>3, <2>4
<1>6. ASSUME NEW g \in Files, Stage(g)
      PROVE  Alike
  <2>1. UNCHANGED <<head, live>> /\ staged[g] # live[g] /\ staged' = [staged EXCEPT ![g] = live[g]]
    BY <1>6 DEF Stage
  <2>2. CASE g # f
    <3>1. staged'[f] = staged[f]
      BY <2>1, <2>2 DEF Caller, Snapshot
    <3> QED
      BY <1>2, <2>1, <3>1
  <2>3. CASE g = f
    <3>1. staged'[f] = live[f] /\ staged[f] # live[f] /\ live'[f] = live[f]
      BY <2>1, <2>3 DEF Caller, Snapshot
    <3>2. Tracked'[f] = staged'[f] /\ f \notin Untracked'
      BY <1>2, <1>3, <3>1
    <3>3. f \notin Untracked
      BY <1>1, <3>2
    <3>4. Tracked[f] = staged[f]
      BY <1>4, <3>2, <3>3 DEF Change
    <3> QED
      BY <1>2, <1>3, <3>1, <3>3, <3>4
  <2> QED
    BY <2>2, <2>3
<1>7. CASE Commit
  BY <1>7 DEF Commit
<1>8. CASE Reset(Root)
  <2>1. /\ head[f] = Root[f] /\ staged'[f] = Root[f] /\ head' = head
        /\ live'[f] = IF f \in Untracked /\ Root[f] = Absent THEN live[f] ELSE Root[f]
    BY <1>8 DEF Reset
  <2>2. Tracked'[f] = head[f]
    BY <1>2, <2>1
  <2>3. staged[f] = head[f]
    BY <1>4, <2>1 DEF Change
  <2>4. Tracked[f] = head[f]
    <3>1. CASE f \in Untracked
      BY <1>2, <1>3, <2>3, <3>1
    <3>2. CASE f \notin Untracked
      <4>1. Change(staged'[f], Tracked'[f]) = "same"
        BY <2>1, <2>2 DEF Change
      <4> QED
        BY <1>4, <2>3, <3>2, <4>1 DEF Change
    <3> QED
      BY <3>1, <3>2
  <2>5. head'[f] = head[f]
    BY <2>1
  <2>6. ~(head[f] # Tracked[f]) /\ ~(head'[f] # Tracked'[f])
    BY <2>2, <2>4, <2>5
  <2> QED
    BY <1>1, <2>6
<1> QED
  BY <1>1, <1>5, <1>6, <1>7, <1>8, MoveIsOne

-----------------------------------------------------------------------------
(* What a gather has read of a file agrees with the file as it is now, if  *)
(* HEAD and git status are as they were when the gather began and the user *)
(* moved at most once: not at all, for a file whose index is a version of  *)
(* its own.  So a token that has not changed speaks for it.                *)
Looking == {"counting", "reading", "listing", "remarking"}

AsMarked(f) ==
  /\ gather.from = head /\ gather.token[f] = Status(f)
  /\ moves # gather.since => gather.token[f][1] # "modified"

ReadSoFar(f) ==
  /\ gather.at \in {"reading", "listing"} => (f \in gather.summary <=> Changed(f))
  /\ gather.at = "listing" => (f \in GivenTo(gather.diff) <=> Changed(f))
  /\ gather.at = "remarking" =>
       /\ f \in gather.summary <=> Changed(f) \/ New(f)
       /\ f \in GivenTo(gather.diff) <=> Changed(f) \/ New(f)
       /\ ~GathersUntracked /\ gather.detected = 0 => f \notin Untracked

SpokenFor(f) ==
  /\ f \in gather.owed => f \in GivenTo(gather.diff)
  /\ f \in gather.summary <=> f \in GivenTo(gather.diff)

CountsAreWhole ==
  /\ gather.detected \in Nat /\ gather.included \in Nat
  /\ gather.at \in {"idle", "pinning", "marking", "counting", "reading", "listing"} =>
       gather.included = 0
  /\ gather.at \in {"remarking", "rechecking", "done"} /\ OverTree =>
       gather.included = IF GathersUntracked THEN gather.detected ELSE 0

TreeIsRead ==
  OverTree =>
    /\ gather.at \in Looking /\ gather.since = moves => gather.token = Token
    /\ gather.at \in Looking /\ moves <= gather.since + 1 =>
         \A f \in InScope : AsMarked(f) => ReadSoFar(f)
    /\ gather.at = "rechecking" /\ head = gather.from /\ ~gather.moved /\ Omitted <= 0 =>
         \A f \in InScope : moves <= gather.since + Unseen(f) => SpokenFor(f)
    /\ gather.at = "done" /\ ~gather.moved /\ Omitted <= 0 =>
         \A f \in InScope : gather.until <= gather.since + Unseen(f) => SpokenFor(f)

BranchIsRead ==
  ~OverTree =>
    /\ gather.at = "reading" => gather.summary = Differing(gather.from, gather.to) \cap InScope
    /\ gather.at = "done" => GivenTo(gather.diff) = gather.summary

GatherIsRead == CountsAreWhole /\ TreeIsRead /\ BranchIsRead

LEMMA ScopeIsFiles ==
  ASSUME spec \in RunSpec
  PROVE  InScope \subseteq Files
  BY DEF RunSpec, InScope

LEMMA SinceIsNat ==
  ASSUME Timed
  PROVE  gather.since \in Nat /\ moves \in Nat /\ gather.since <= moves
<1>1. run.foretold.since \in 0..moves /\ moves \in Nat
  BY DEF Timed
<1>2. gather.at = "idle" => gather.since = 0
  BY DEF Timed, NoGather
<1>3. gather.at # "idle" => gather.since \in run.foretold.since..moves
  BY DEF Timed
<1> QED
  BY <1>1, <1>2, <1>3

LEMMA NothingYetGiven == GivenTo(NewAccumulator) = {}
  BY DEF GivenTo, NewAccumulator

LEMMA InScopePatch ==
  ASSUME NEW f \in Files, f \in InScope, OverTree
  PROVE  f \in Patch <=> Changed(f)
  BY DEF Patch, Differing, Changed

LEMMA NewOnesCounted ==
  ASSUME spec \in RunSpec
  PROVE  /\ NewInScope \in SUBSET Files /\ Cardinality(NewInScope) \in Nat
         /\ Cardinality(NewInScope) = 0 => NewInScope = {}
<1>1. NewInScope \in SUBSET Files
  BY ScopeIsFiles DEF NewInScope
<1>2. IsFiniteSet(NewInScope)
  BY <1>1, RequestAssumption, FS_Subset
<1> QED
  BY <1>1, <1>2, FS_CardinalityType, FS_EmptySet

(* A file owed to the reviewer differs from HEAD or is new.                *)
LEMMA OwedIsFound ==
  ASSUME NEW f \in Files, f \in Owed, gather.from = head
  PROVE  Changed(f) \/ f \in Untracked
<1>1. live[f] # head[f]
  BY DEF Owed, Dirty
<1>2. CASE staged[f] = Absent
  <2>1. f \in Untracked <=> live[f] # Absent
    BY <1>2 DEF Untracked
  <2> QED
    BY <1>1, <1>2, <2>1, TrackedOf DEF Changed
<1>3. CASE staged[f] # Absent
  BY <1>1, <1>3, TrackedOf DEF Changed
<1> QED
  BY <1>2, <1>3

LEMMA ReadStays ==
  ASSUME GatherIsRead, UNCHANGED <<spec, gather, head, staged, live, moves>>
  PROVE  GatherIsRead'
<1>1. /\ (OverTree' <=> OverTree) /\ InScope' = InScope /\ (GathersUntracked' <=> GathersUntracked)
      /\ Token' = Token /\ Omitted' = Omitted
      /\ \A f : (AsMarked(f)' <=> AsMarked(f)) /\ (Changed(f)' <=> Changed(f)) /\ (New(f)' <=> New(f))
                /\ (f \in Untracked' <=> f \in Untracked) /\ Unseen(f)' = Unseen(f)
                /\ (SpokenFor(f)' <=> SpokenFor(f))
  BY DEF OverTree, InScope, GathersUntracked, Token, Omitted, AsMarked, Status, Untracked, Tracked, Changed,
         New, Unseen, SpokenFor
<1>2. \A f : ReadSoFar(f)' <=> ReadSoFar(f)
  BY <1>1 DEF ReadSoFar
<1>3. gather' = gather /\ moves' = moves /\ head' = head
  OBVIOUS
<1>4. CountsAreWhole'
  BY <1>1, <1>3 DEF GatherIsRead, CountsAreWhole
<1>5. TreeIsRead'
  BY <1>1, <1>2, <1>3 DEF GatherIsRead, TreeIsRead
<1>6. BranchIsRead'
  BY <1>1, <1>3 DEF GatherIsRead, BranchIsRead
<1> QED
  BY <1>4, <1>5, <1>6 DEF GatherIsRead

LEMMA ReadsOn ==
  ASSUME GatherShaped, Timed, Gathers, GatherIsRead, spec \in RunSpec,
         UNCHANGED <<spec, repoVars>>, Gather
  PROVE  GatherIsRead'
<1>0. /\ (OverTree' <=> OverTree) /\ InScope' = InScope /\ (GathersUntracked' <=> GathersUntracked)
      /\ Token' = Token /\ moves' = moves /\ head' = head
      /\ gather.since \in Nat /\ moves \in Nat /\ gather.since <= moves
      /\ gather.detected \in Nat /\ gather.included \in Nat
      /\ \A f : /\ f \in Untracked' <=> f \in Untracked
                /\ Status(f)' = Status(f) /\ (New(f)' <=> New(f))
      /\ Tracked' = Tracked
  BY SinceIsNat DEF repoVars, OverTree, InScope, GathersUntracked, Token, Status, Untracked, Tracked, New,
                    GatherIsRead, CountsAreWhole
<1>1. ASSUME NEW code, GatherFails(code)
      PROVE  GatherIsRead'
  <2>1. gather'.at = "failed" /\ gather'.detected = gather.detected /\ gather'.included = gather.included
    BY <1>1 DEF GatherFails, GatherShaped
  <2> QED
    BY <1>0, <2>1 DEF GatherIsRead, CountsAreWhole, TreeIsRead, BranchIsRead, Looking
<1>2. GitBreaks => GatherIsRead'
  BY <1>1 DEF GitBreaks
<1>3. ASSUME gather'.from = gather.from, gather'.token = gather.token, gather'.since = gather.since
      PROVE  \A f : (AsMarked(f)' <=> AsMarked(f)) /\ (Changed(f)' <=> Changed(f)) /\ Unseen(f)' = Unseen(f)
  BY <1>0, <1>3 DEF AsMarked, Changed, Unseen
<1>4. CASE Pin
  <2>1. CASE gather' = [gather EXCEPT !.at = IF OverTree THEN "marking" ELSE "counting",
                                      !.from = IF OverTree THEN head ELSE Root, !.to = head]
    <3>1. /\ gather'.at = (IF OverTree THEN "marking" ELSE "counting")
          /\ gather'.detected = gather.detected /\ gather'.included = gather.included
      BY <2>1 DEF GatherShaped
    <3>2. gather.at = "pinning"
      BY <1>4 DEF Pin, GatherAt
    <3> QED
      BY <1>0, <3>1, <3>2 DEF GatherIsRead, CountsAreWhole, TreeIsRead, BranchIsRead, Looking
  <2> QED
    BY <1>1, <1>2, <1>4, <2>1 DEF Pin
<1>5. CASE Mark
  <2>1. CASE gather' = [gather EXCEPT !.at = "counting", !.token = Token]
    <3>1. /\ gather'.at = "counting" /\ gather'.token = Token
          /\ gather'.detected = gather.detected /\ gather'.included = gather.included
      BY <2>1 DEF GatherShaped
    <3>2. gather.at = "marking"
      BY <1>5 DEF Mark, GatherAt
    <3>3. \A f : ReadSoFar(f)'
      BY <3>1 DEF ReadSoFar
    <3> QED
      BY <1>0, <3>1, <3>2, <3>3 DEF GatherIsRead, CountsAreWhole, TreeIsRead, BranchIsRead, Looking
  <2> QED
    BY <1>2, <1>5, <2>1 DEF Mark
<1>6. CASE Summary
  <2>0. gather.at = "counting"
    BY <1>6 DEF Summary, GatherAt
  <2>1. CASE gather' = [gather EXCEPT !.at = "reading", !.summary = Patch]
    <3>1. /\ gather'.at = "reading" /\ gather'.summary = Patch /\ gather'.token = gather.token
          /\ gather'.detected = gather.detected /\ gather'.included = gather.included
          /\ gather'.from = gather.from /\ gather'.to = gather.to /\ gather'.since = gather.since
      BY <2>1 DEF GatherShaped
    <3>2. OverTree => \A f \in InScope : ReadSoFar(f)'
      BY <1>3, <3>1, InScopePatch, ScopeIsFiles DEF ReadSoFar
    <3>3. ~OverTree => Patch = Differing(gather.from, gather.to) \cap InScope
      BY DEF Patch
    <3>4. CountsAreWhole'
      BY <1>0, <2>0, <3>1 DEF GatherIsRead, CountsAreWhole
    <3>5. TreeIsRead'
      BY <1>0, <2>0, <3>1, <3>2 DEF GatherIsRead, TreeIsRead, Looking
    <3>6. BranchIsRead'
      BY <1>0, <3>1, <3>3 DEF BranchIsRead, Differing
    <3> QED
      BY <3>4, <3>5, <3>6 DEF GatherIsRead
  <2> QED
    BY <1>2, <1>6, <2>1 DEF Summary
<1>7. CASE Read
  <2>0. gather.at = "reading"
    BY <1>7 DEF Read, GatherAt
  <2>1. CASE gather' = [Fed(Patch) EXCEPT !.at = IF OverTree THEN "listing" ELSE "done"]
    <3>1. /\ gather'.at = (IF OverTree THEN "listing" ELSE "done")
          /\ gather'.summary = gather.summary /\ gather'.token = gather.token
          /\ gather'.detected = gather.detected /\ gather'.included = gather.included
          /\ gather'.from = gather.from /\ gather'.to = gather.to /\ gather'.since = gather.since
          /\ gather'.diff = FedFiles(spec, gather.diff, Patch)
      BY <2>1 DEF GatherShaped, Fed
    <3>2. gather.diff = NewAccumulator
      BY <2>0 DEF Gathers
    <3>3. Patch \in SUBSET Files
      BY DEF Patch, Differing
    <3>4. GivenTo(gather'.diff) = Patch
      BY <3>1, <3>2, <3>3, FilesFed, NothingYetGiven
    <3>5. ASSUME OverTree, NEW f \in InScope, ReadSoFar(f)
          PROVE  ReadSoFar(f)'
      <4>1. f \in Patch <=> Changed(f)
        BY <3>5, InScopePatch, ScopeIsFiles
      <4>2. f \in gather.summary <=> Changed(f)
        BY <2>0, <3>5 DEF ReadSoFar
      <4> QED
        BY <1>3, <3>1, <3>4, <3>5, <4>1, <4>2 DEF ReadSoFar
    <3>6. CountsAreWhole'
      BY <1>0, <2>0, <3>1 DEF GatherIsRead, CountsAreWhole
    <3>7. TreeIsRead'
      BY <1>0, <1>3, <2>0, <3>1, <3>5 DEF GatherIsRead, TreeIsRead, Looking
    <3>8. BranchIsRead'
      <4>1. ~OverTree => gather.summary = Patch
        BY <2>0 DEF GatherIsRead, BranchIsRead, Patch
      <4> QED
        BY <1>0, <3>1, <3>4, <4>1 DEF BranchIsRead
    <3> QED
      BY <3>6, <3>7, <3>8 DEF GatherIsRead
  <2> QED
    BY <1>2, <1>7, <2>1 DEF Read
<1>8. CASE List
  <2>0. gather.at = "listing" /\ OverTree
    BY <1>8 DEF List, GatherAt, Gathers
  <2>1. NewInScope \in SUBSET Files /\ Cardinality(NewInScope) \in Nat
        /\ (Cardinality(NewInScope) = 0 => NewInScope = {})
    BY NewOnesCounted
  <2>2. CASE /\ GathersUntracked
             /\ gather' = [Fed(NewInScope) EXCEPT !.at = "remarking",
                             !.summary = @ \cup NewInScope, !.detected = Cardinality(NewInScope),
                             !.included = Cardinality(NewInScope)]
    <3>1. /\ gather'.at = "remarking" /\ gather'.summary = gather.summary \cup NewInScope
          /\ gather'.token = gather.token /\ gather'.detected = Cardinality(NewInScope)
          /\ gather'.included = Cardinality(NewInScope)
          /\ gather'.from = gather.from /\ gather'.since = gather.since
          /\ gather'.diff = FedFiles(spec, gather.diff, NewInScope)
      BY <2>2 DEF GatherShaped, Fed
    <3>2. GivenTo(gather'.diff) = GivenTo(gather.diff) \cup NewInScope
      BY <2>1, <3>1, FilesFed
    <3>3. ASSUME NEW f \in InScope, ReadSoFar(f)
          PROVE  ReadSoFar(f)'
      <4>1. f \in NewInScope <=> New(f)
        BY <2>2 DEF NewInScope, New
      <4>2. (f \in gather.summary <=> Changed(f)) /\ (f \in GivenTo(gather.diff) <=> Changed(f))
        BY <2>0, <3>3 DEF ReadSoFar
      <4> QED
        BY <1>0, <1>3, <2>2, <3>1, <3>2, <4>1, <4>2 DEF ReadSoFar
    <3>4. CountsAreWhole'
      BY <1>0, <2>1, <2>2, <3>1 DEF CountsAreWhole
    <3>5. TreeIsRead'
      BY <1>0, <1>3, <2>0, <3>1, <3>3 DEF GatherIsRead, TreeIsRead, Looking
    <3> QED
      BY <1>0, <2>0, <3>4, <3>5 DEF GatherIsRead, BranchIsRead
  <2>3. CASE /\ ~GathersUntracked
             /\ gather' = [gather EXCEPT !.at = "remarking", !.detected = Cardinality(NewInScope)]
    <3>1. /\ gather'.at = "remarking" /\ gather'.summary = gather.summary
          /\ gather'.token = gather.token /\ gather'.detected = Cardinality(NewInScope)
          /\ gather'.included = gather.included
          /\ gather'.from = gather.from /\ gather'.since = gather.since
          /\ gather'.diff = gather.diff
      BY <2>3 DEF GatherShaped
    <3>2. ASSUME NEW f \in InScope, ReadSoFar(f)
          PROVE  ReadSoFar(f)'
      <4>1. ~New(f) /\ (f \in NewInScope <=> f \in Untracked)
        BY <2>3 DEF NewInScope, New
      <4>2. (f \in gather.summary <=> Changed(f)) /\ (f \in GivenTo(gather.diff) <=> Changed(f))
        BY <2>0, <3>2 DEF ReadSoFar
      <4>3. gather'.detected = 0 => f \notin Untracked
        BY <2>1, <3>1, <4>1
      <4> QED
        BY <1>0, <1>3, <2>3, <3>1, <4>1, <4>2, <4>3 DEF ReadSoFar
    <3>3. CountsAreWhole'
      BY <1>0, <2>0, <2>1, <2>3, <3>1 DEF GatherIsRead, CountsAreWhole
    <3>4. TreeIsRead'
      BY <1>0, <1>3, <2>0, <3>1, <3>2 DEF GatherIsRead, TreeIsRead, Looking
    <3> QED
      BY <1>0, <2>0, <3>3, <3>4 DEF GatherIsRead, BranchIsRead
  <2> QED
    BY <1>2, <1>8, <2>2, <2>3 DEF List
<1>9. CASE Remark
  <2>0. gather.at = "remarking" /\ OverTree
    BY <1>9 DEF Remark, GatherAt, Gathers
  <2>1. CASE gather' = [gather EXCEPT !.at = "rechecking", !.moved = Token # gather.token, !.owed = Owed]
    <3>1. /\ gather'.at = "rechecking" /\ gather'.summary = gather.summary /\ gather'.owed = Owed
          /\ gather'.token = gather.token /\ gather'.detected = gather.detected
          /\ gather'.included = gather.included /\ gather'.from = gather.from
          /\ gather'.since = gather.since /\ gather'.diff = gather.diff
          /\ gather'.moved = (Token # gather.token)
      BY <2>1 DEF GatherShaped
    <3>2. Omitted' = Omitted
      BY <3>1 DEF Omitted
    <3>3. ASSUME head = gather.from, ~gather'.moved, Omitted <= 0, NEW f \in InScope,
                 moves <= gather.since + Unseen(f)
          PROVE  SpokenFor(f)'
      <4>1. Token = gather.token /\ f \in Files
        BY <3>1, <3>3, ScopeIsFiles
      <4>2. gather.token[f] = Status(f)
        BY <4>1 DEF Token
      <4>3. moves <= gather.since + 1 /\ (moves # gather.since => gather.token[f][1] # "modified")
        BY <1>0, <3>3 DEF Unseen
      <4>4. ReadSoFar(f)
        BY <2>0, <3>3, <4>2, <4>3 DEF AsMarked, GatherIsRead, TreeIsRead, Looking
      <4>5. ~GathersUntracked => f \notin Untracked
        <5>1. ~GathersUntracked => gather.detected = 0
          BY <1>0, <2>0, <3>3 DEF Omitted, GatherIsRead, CountsAreWhole
        <5> QED
          BY <2>0, <4>4, <5>1 DEF ReadSoFar
      <4>6. f \in Owed => Changed(f) \/ New(f)
        BY <3>3, <4>1, <4>5, OwedIsFound DEF New
      <4>7. (f \in gather.summary <=> Changed(f) \/ New(f)) /\ (f \in GivenTo(gather.diff) <=> Changed(f) \/ New(f))
        BY <2>0, <4>4 DEF ReadSoFar
      <4> QED
        BY <3>1, <4>6, <4>7 DEF SpokenFor
    <3>4. CountsAreWhole'
      BY <1>0, <2>0, <3>1 DEF GatherIsRead, CountsAreWhole
    <3>5. TreeIsRead'
      BY <1>0, <1>3, <3>1, <3>2, <3>3 DEF TreeIsRead, Looking
    <3> QED
      BY <1>0, <2>0, <3>4, <3>5 DEF GatherIsRead, BranchIsRead
  <2> QED
    BY <1>2, <1>9, <2>1 DEF Remark
<1>10. CASE Recheck
  <2>0. gather.at = "rechecking" /\ OverTree
    BY <1>10 DEF Recheck, GatherAt, Gathers
  <2>1. CASE gather' = [gather EXCEPT !.at = "done", !.moved = @ \/ head # gather.from, !.until = moves]
    <3>1. /\ gather'.at = "done" /\ gather'.summary = gather.summary /\ gather'.owed = gather.owed
          /\ gather'.token = gather.token /\ gather'.detected = gather.detected
          /\ gather'.included = gather.included /\ gather'.from = gather.from
          /\ gather'.since = gather.since /\ gather'.diff = gather.diff /\ gather'.until = moves
          /\ gather'.moved = (gather.moved \/ head # gather.from)
      BY <2>1 DEF GatherShaped
    <3>2. Omitted' = Omitted /\ \A f : (SpokenFor(f)' <=> SpokenFor(f))
      BY <3>1 DEF Omitted, SpokenFor
    <3>3. ~gather'.moved => ~gather.moved /\ head = gather.from
      BY <3>1
    <3>4. CountsAreWhole'
      BY <1>0, <2>0, <3>1 DEF GatherIsRead, CountsAreWhole
    <3>5. TreeIsRead'
      BY <1>0, <1>3, <2>0, <3>1, <3>2, <3>3 DEF GatherIsRead, TreeIsRead, Looking
    <3> QED
      BY <1>0, <2>0, <3>4, <3>5 DEF GatherIsRead, BranchIsRead
  <2> QED
    BY <1>2, <1>10, <2>1 DEF Recheck
<1> QED
  BY <1>4, <1>5, <1>6, <1>7, <1>8, <1>9, <1>10 DEF Gather

LEMMA UserIsSeen ==
  ASSUME Caller, Timed, Gathers, GatherIsRead, spec \in RunSpec, UserActs
  PROVE  GatherIsRead'
<1>1. /\ UNCHANGED <<spec, gather>> /\ gather.since \in Nat /\ moves \in Nat /\ gather.since <= moves
      /\ moves' = moves + 1 \/ UNCHANGED <<moves, head, staged, live>>
  BY SinceIsNat DEF UserActs, Edit, Stage, Commit, Reset, Vanish, Moves
<1>2. CASE UNCHANGED <<moves, head, staged, live>>
  BY <1>1, <1>2, ReadStays
<1>3. CASE moves' = moves + 1
  <2>0. /\ (OverTree' <=> OverTree) /\ InScope' = InScope /\ (GathersUntracked' <=> GathersUntracked)
        /\ Omitted' = Omitted /\ gather' = gather
        /\ \A f : Unseen(f)' = Unseen(f) /\ (SpokenFor(f)' <=> SpokenFor(f))
    BY <1>1 DEF OverTree, InScope, GathersUntracked, Omitted, Unseen, SpokenFor
  <2>1. gather.since # moves'
    BY <1>1, <1>3
  <2>2. ASSUME OverTree, gather.at \in Looking, moves' <= gather.since + 1, NEW f \in InScope, AsMarked(f)'
        PROVE  ReadSoFar(f)'
    <3>1. gather.since = moves
      BY <1>1, <1>3, <2>2
    <3>2. f \in Files
      BY ScopeIsFiles
    <3>3. gather.token = Token
      BY <2>2, <3>1 DEF GatherIsRead, TreeIsRead
    <3>4. gather.from = head
      BY <2>2, <3>1 DEF Gathers, Looking, FoundFrom
    <3>5. gather.token[f] = Status(f)
      BY <3>3 DEF Token
    <3>6. head' = head /\ Status(f)' = Status(f) /\ Status(f)[1] # "modified"
      BY <2>0, <2>1, <2>2, <3>4, <3>5 DEF AsMarked
    <3>7. /\ (f \in Untracked)' <=> f \in Untracked
          /\ (head[f] # Tracked[f])' <=> head[f] # Tracked[f]
      BY <1>1, <1>3, <3>2, <3>6, OneMoveHidesNothing
    <3>8. (Changed(f)' <=> Changed(f)) /\ (New(f)' <=> New(f))
      <4>1. Changed(f)' <=> (head[f] # Tracked[f])'
        BY <2>0, <3>4, <3>6 DEF Changed
      <4>2. Changed(f) <=> head[f] # Tracked[f]
        BY <3>4 DEF Changed
      <4>3. New(f)' <=> New(f)
        BY <2>0, <3>7 DEF New
      <4> QED
        BY <3>7, <4>1, <4>2, <4>3
    <3>9. AsMarked(f)
      BY <3>1, <3>4, <3>5 DEF AsMarked
    <3>10. ReadSoFar(f)
      BY <1>1, <2>2, <3>1, <3>9 DEF GatherIsRead, TreeIsRead
    <3> QED
      BY <2>0, <3>7, <3>8, <3>10 DEF ReadSoFar
  <2>3. ASSUME OverTree, gather.at = "rechecking", head' = gather.from, ~gather.moved, Omitted <= 0,
               NEW f \in InScope, moves' <= gather.since + Unseen(f)
        PROVE  SpokenFor(f)
    <3>1. gather.since = moves
      BY <1>1, <1>3, <2>3 DEF Unseen
    <3>2. gather.from = head
      BY <2>3, <3>1 DEF Gathers, FoundFrom
    <3>3. moves <= gather.since + Unseen(f)
      BY <1>1, <3>1 DEF Unseen
    <3> QED
      BY <2>3, <3>2, <3>3 DEF GatherIsRead, TreeIsRead
  <2>4. CountsAreWhole'
    BY <2>0 DEF GatherIsRead, CountsAreWhole
  <2>5. TreeIsRead'
    BY <2>0, <2>1, <2>2, <2>3 DEF GatherIsRead, TreeIsRead
  <2>6. BranchIsRead'
    BY <2>0 DEF GatherIsRead, BranchIsRead, Differing
  <2> QED
    BY <2>4, <2>5, <2>6 DEF GatherIsRead
<1> QED
  BY <1>1, <1>2, <1>3

-----------------------------------------------------------------------------
(* A verdict is only what the reply and the gather were folded into, and   *)
(* both stay as they are.                                                  *)
Judged ==
  /\ run.reply \in Replies
  /\ run.verdict = "pass" =>
       /\ run.at \in {"leaving", "answered", "killed"} /\ (Reviews => gather.at = "done")
       /\ spec.verb \in {"review_changes", "adversarial_review"}
       /\ Folded(run.reply) = "pass"

JudgedInv == Judged /\ GatherIsRead

LEMMA PassIsClear ==
  ASSUME NEW reply \in Replies, Folded(reply) = "pass"
  PROVE  Omissions = {} /\ reply.listed = "list" /\ "invalid" \notin reply.entries
<1>1. Deviations(reply) \cap Losses = {} /\ OverPart(VerdictOf(reply)) = "pass"
  BY DEF Folded, OverLoss
<1>2. Omissions = {}
  BY <1>1 DEF OverPart
<1>3. reply.listed \in {"list", "absent", "container"}
  BY DEF Replies, Prose
<1>4. reply.listed = "list"
  BY <1>1, <1>3 DEF Deviations, Losses
<1>5. "invalid" \notin reply.entries
  BY <1>1, <1>4 DEF Deviations, Losses
<1> QED
  BY <1>2, <1>4, <1>5

LEMMA FoldedStays ==
  ASSUME UNCHANGED <<spec, gather>>
  PROVE  \A reply : Folded(reply)' = Folded(reply)
<1>1. Omissions' = Omissions
  BY DEF Omissions, OverTree, Omitted, Truncated, RedactedPaths
<1> QED
  BY <1>1 DEF Folded, OverLoss, OverPart

(* No step but the last of a run's fold gives a verdict.                   *)
LEMMA VerdictStays ==
  ASSUME RunShaped, Next
  PROVE  \/ UNCHANGED <<spec, run>>
         \/ /\ UNCHANGED spec /\ run'.verdict = run.verdict
            /\ run'.reply = run.reply
            /\ run.at \in {"leaving", "answered", "killed"} => UNCHANGED gather /\ run'.at \in {run.at, "answered", "killed"}
         \/ BackendEnds
         \/ Fold \/ Capture
<1> DEFINE Stays == run'.verdict = run.verdict /\ run'.reply = run.reply
           Late == {"leaving", "answered", "killed"}
           Kept == \/ UNCHANGED <<spec, run>>
                   \/ /\ UNCHANGED spec /\ Stays
                      /\ run.at \in Late => UNCHANGED gather /\ run'.at \in {run.at, "answered", "killed"}
<1>0. UNCHANGED spec
  BY DEF Next, Preflight, EnsureRepo, Plan, Count, Compose, SelectSite, EnterSite, Launch, AgentActs, BackendEnds,
         CancelLands, Fold, Capture, Leave, Cancel, Kill, UserActs, Finished, vars
<1>2. (\E stage : RunGoes(stage)) => Stays
  BY DEF RunGoes, RunShaped
<1>3. (\E foretold : IsTold(foretold)) => Stays
  BY DEF IsTold, RunShaped
<1>4. (\E code, status : AnswersWith(code, status)) => Stays
  BY DEF AnswersWith, RunShaped
<1>1. (\E code : Refuses(code)) => Stays
  BY <1>3, <1>4 DEF Refuses
<1>5. (\E code : LeavesWith(code)) => Stays
  BY DEF LeavesWith, RunShaped
<1>6. (\E stage, foretold : run' = [run EXCEPT !.at = stage, !.foretold = foretold]) => Stays
  BY DEF RunShaped
<1>7. (\E stage, site : run' = [run EXCEPT !.at = stage, !.site = site]) => Stays
  BY DEF RunShaped
<1>8. (UNCHANGED run) => Stays
  OBVIOUS
<1>11. CASE Preflight \/ EnsureRepo \/ Plan \/ Count
  <2>1. Stays
    BY <1>1, <1>2, <1>3, <1>6, <1>11 DEF Preflight, EnsureRepo, Plan, Count
  <2>2. run.at \notin Late
    BY <1>11 DEF Preflight, EnsureRepo, Plan, Count, RunAt
  <2> QED
    BY <1>0, <2>1, <2>2
<1>12. CASE Compose
  <2>1. Stays
    BY <1>1, <1>2, <1>3, <1>4, <1>8, <1>12 DEF Compose, NotRun
  <2>2. run.at \notin Late
    BY <1>12 DEF Compose, RunAt
  <2> QED
    BY <1>0, <2>1, <2>2
<1>13. CASE SelectSite \/ EnterSite
  <2>1. Stays
    BY <1>2, <1>4, <1>7, <1>8, <1>13 DEF SelectSite, EnterSite, EntersTree
  <2>2. run.at \notin Late
    BY <1>13 DEF SelectSite, EnterSite, RunAt
  <2> QED
    BY <1>0, <2>1, <2>2
<1>14. CASE Launch \/ CancelLands
  <2>1. run' = [run EXCEPT !.at = "folding", !.out = Unspawned] => Stays
    BY DEF RunShaped
  <2>2. Stays
    BY <1>2, <1>5, <1>14, <2>1 DEF Launch, CancelLands
  <2>3. run.at \notin Late
    BY <1>14 DEF Launch, CancelLands, RunAt
  <2> QED
    BY <1>0, <2>2, <2>3
<1>15. CASE AgentActs \/ UserActs \/ Finished
  BY <1>0, <1>15 DEF AgentActs, UserActs, Finished, vars
<1>16. CASE Cancel
  <2>1. run' = [run EXCEPT !.cancelled = TRUE] /\ UNCHANGED gather
    BY <1>16 DEF Cancel
  <2>2. Stays /\ run'.at = run.at
    BY <2>1 DEF RunShaped
  <2> QED
    BY <1>0, <2>1, <2>2
<1>17. CASE Leave \/ Kill
  <2>1. \E stage \in {"answered", "killed"} : RunGoes(stage) /\ UNCHANGED gather
    BY <1>17 DEF Leave, Kill
  <2>2. run'.at \in {"answered", "killed"}
    BY <2>1, GoesOn
  <2> QED
    BY <1>0, <1>2, <2>1, <2>2
<1> QED
  BY <1>11, <1>12, <1>13, <1>14, <1>15, <1>16, <1>17 DEF Next

LEMMA ConcludesJudged ==
  ASSUME Judged, RunShaped, Onward, UNCHANGED <<spec, gather>>, run.at \in Past, run.at # "leaving",
         NEW diff, Concludes(diff)
  PROVE  Judged'
<1>1. run.verdict # "pass"
  BY DEF Judged, Past
<1>2. \A reply : Folded(reply)' = Folded(reply)
  BY FoldedStays
<1>3. (Reviews' <=> Reviews)
  BY DEF Reviews
<1> DEFINE v == Concluded(run.out, DOMAIN diff # {})
<1>4. DeliversOr(v, diff)
  BY DEF Concludes
<1> HIDE DEF v
<1>5. CASE v.code = "ok"
  <2>1. run' = Delivered(v.text, v.warned, v.overridden, diff)
    BY <1>4, <1>5 DEF DeliversOr
  <2>2. /\ run'.at = "leaving" /\ run'.reply = run.reply
        /\ run'.verdict = IF spec.verb \notin {"review_changes", "adversarial_review"} THEN "none"
                          ELSE IF run.reply = Prose THEN "unknown" ELSE Folded(run.reply)
    BY <2>1 DEF Delivered, RunShaped
  <2>3. Reviews => gather.at = "done"
    BY DEF Onward
  <2> QED
    BY <1>2, <1>3, <2>2, <2>3 DEF Judged
<1>6. CASE v.code # "ok"
  <2>1. LeavesWith(v.code)
    BY <1>4, <1>6 DEF DeliversOr
  <2>2. run'.verdict = run.verdict /\ run'.reply = run.reply
    BY <2>1 DEF LeavesWith, RunShaped
  <2> QED
    BY <1>1, <2>2 DEF Judged
<1> QED
  BY <1>5, <1>6

LEMMA JudgedStays ==
  ASSUME Judged, RunShaped, Onward, [Next]_vars
  PROVE  Judged'
<1>1. CASE UNCHANGED <<spec, gather>> /\ run'.verdict = run.verdict /\ run'.reply = run.reply
           /\ (run.at \in {"leaving", "answered", "killed"} => run'.at \in {run.at, "answered", "killed"})
  <2>1. \A reply : Folded(reply)' = Folded(reply)
    BY <1>1, FoldedStays
  <2>2. Reviews' <=> Reviews
    BY <1>1 DEF Reviews
  <2> QED
    BY <1>1, <2>1, <2>2 DEF Judged
<1>2. ASSUME run'.verdict = run.verdict, run'.reply \in Replies, run.verdict # "pass"
      PROVE  Judged'
  BY <1>2 DEF Judged
<1>3. CASE UNCHANGED vars
  BY <1>1, <1>3 DEF vars
<1>4. CASE BackendEnds
  <2>1. PICK out, reply : run' = [run EXCEPT !.at = "folding", !.out = out, !.reply = reply]
                          /\ reply \in Replies
    <3>1. Prose \in Replies
      BY DEF Replies
    <3> QED
      BY <1>4, <3>1 DEF BackendEnds
  <2>2. run'.verdict = run.verdict /\ run'.reply = reply
    BY <2>1 DEF RunShaped
  <2>3. run.verdict # "pass"
    BY <1>4 DEF BackendEnds, RunAt, Judged
  <2> QED
    BY <1>2, <2>1, <2>2, <2>3
<1>5. CASE Fold \/ Capture
  <2>1. UNCHANGED <<spec, gather>> /\ run.at \in Past /\ run.at # "leaving" /\ run.verdict # "pass"
    BY <1>5 DEF Fold, Capture, RunAt, Past, Judged
  <2>2. ASSUME run'.verdict = run.verdict, run'.reply = run.reply
        PROVE  Judged'
    BY <1>2, <2>1, <2>2 DEF Judged
  <2>3. ASSUME NEW code, LeavesWith(code)
        PROVE  Judged'
    BY <2>2, <2>3 DEF LeavesWith, RunShaped
  <2>4. ASSUME NEW said, run' = [run EXCEPT !.at = "leaving", !.code = Failure(run.out), !.said = said]
        PROVE  Judged'
    BY <2>2, <2>4 DEF RunShaped
  <2>5. ASSUME RunGoes("capturing")
        PROVE  Judged'
    BY <2>2, <2>5 DEF RunGoes, RunShaped
  <2>6. ASSUME NEW diff, Concludes(diff)
        PROVE  Judged'
    BY <2>1, <2>6, ConcludesJudged
  <2> QED
    BY <1>5, <2>3, <2>4, <2>5, <2>6 DEF Fold, Capture
<1>6. CASE /\ UNCHANGED spec /\ run'.verdict = run.verdict /\ run'.reply = run.reply
           /\ run.at \in {"leaving", "answered", "killed"} => UNCHANGED gather /\ run'.at \in {run.at, "answered", "killed"}
  <2>1. CASE run.at \in {"leaving", "answered", "killed"}
    BY <1>1, <1>6, <2>1
  <2>2. CASE run.at \notin {"leaving", "answered", "killed"}
    BY <1>2, <1>6, <2>2 DEF Judged
  <2> QED
    BY <2>1, <2>2
<1>7. CASE UNCHANGED <<spec, run>> /\ Next
  <2>1. CASE run.at \in {"leaving", "answered", "killed"}
    <3>1. UNCHANGED gather
      BY <1>7, <2>1 DEF Next, Preflight, EnsureRepo, Plan, Count, Compose, SelectSite, EnterSite, Launch,
            AgentActs, BackendEnds, CancelLands, Fold, Capture, Leave, Cancel, Kill, UserActs, Finished,
            vars, RunAt
    <3> QED
      BY <1>1, <1>7, <3>1
  <2>2. CASE run.at \notin {"leaving", "answered", "killed"}
    BY <1>2, <1>7, <2>2 DEF Judged
  <2> QED
    BY <2>1, <2>2
<1> QED
  BY <1>3, <1>4, <1>5, <1>6, <1>7, VerdictStays

(* A gather that has not begun has read nothing.                           *)
LEMMA NothingYetRead ==
  ASSUME CountsAreWhole, gather'.at \in {"idle", "pinning"},
         gather'.detected \in Nat, gather'.included = 0
  PROVE  GatherIsRead'
  BY DEF GatherIsRead, CountsAreWhole, TreeIsRead, BranchIsRead, Looking

LEMMA NoneIsRead ==
  ASSUME CountsAreWhole, gather' = NoGather
  PROVE  GatherIsRead'
<1>1. gather'.at = "idle" /\ gather'.detected = 0 /\ gather'.included = 0
  BY DEF NoGather
<1> QED
  BY <1>1, NothingYetRead

LEMMA ReadNext ==
  ASSUME GatherIsRead, Timed, Gathers, GatherShaped, Caller, spec \in RunSpec, [Next]_vars
  PROVE  GatherIsRead'
<1>1. CASE UNCHANGED <<spec, gather, head, staged, live, moves>>
  BY <1>1, ReadStays
<1>2. UNCHANGED <<spec, repoVars>> /\ UNCHANGED gather
      => UNCHANGED <<spec, gather, head, staged, live, moves>>
  BY DEF repoVars
<1>3. CASE UNCHANGED vars \/ Preflight \/ EnsureRepo \/ Plan \/ Count \/ SelectSite \/ EnterSite \/ Launch
           \/ AgentActs \/ BackendEnds \/ CancelLands \/ Fold \/ Capture \/ Leave \/ Cancel \/ Kill \/ Finished
  <2>1. UNCHANGED <<spec, repoVars>> /\ UNCHANGED gather
    BY <1>3 DEF vars, Preflight, EnsureRepo, Plan, Count, SelectSite, EnterSite, Launch, AgentActs, BackendEnds,
                CancelLands, Fold, Capture, Leave, Cancel, Kill, Finished
  <2> QED
    BY <1>1, <1>2, <2>1
<1>4. CASE UserActs
  BY <1>4, UserIsSeen
<1>5. CASE Compose
  <2>0. UNCHANGED <<spec, repoVars>> /\ CountsAreWhole
    BY <1>5 DEF Compose, GatherIsRead
  <2>1. CASE UNCHANGED gather
    BY <1>1, <1>2, <2>0, <2>1
  <2>2. CASE gather' = NoGather
    BY <2>0, <2>2, NoneIsRead
  <2>3. CASE Gather
    BY <2>0, <2>3, ReadsOn
  <2>4. CASE GatherAt("idle") /\ gather' = [gather EXCEPT !.at = "pinning", !.since = moves]
    <3>1. gather = NoGather
      BY <2>4 DEF GatherAt, Timed
    <3>2. gather'.at = "pinning" /\ gather'.detected = 0 /\ gather'.included = 0
      BY <2>4, <3>1 DEF NoGather
    <3> QED
      BY <2>0, <3>2, NothingYetRead
  <2> QED
    BY <1>5, <2>1, <2>2, <2>3, <2>4 DEF Compose
<1> QED
  BY <1>3, <1>4, <1>5 DEF Next

LEMMA JudgedInit == Init => JudgedInv
<1> SUFFICES ASSUME Init PROVE JudgedInv
  OBVIOUS
<1>1. gather = NoGather /\ run = NoRun
  BY DEF Init
<1>2. /\ gather.at = "idle" /\ gather.detected = 0 /\ gather.included = 0
  BY <1>1 DEF NoGather
<1>3. run.reply = Prose /\ run.verdict = "none"
  BY <1>1 DEF NoRun
<1>4. Prose \in Replies
  BY DEF Replies
<1>5. Judged
  BY <1>3, <1>4 DEF Judged
<1>6. GatherIsRead
  BY <1>2 DEF GatherIsRead, CountsAreWhole, TreeIsRead, BranchIsRead, Looking
<1> QED
  BY <1>5, <1>6 DEF JudgedInv

LEMMA JudgedNext == JudgedInv /\ AdvertInv /\ PipelineInv /\ AnswerInv /\ [Next]_vars => JudgedInv'
<1> SUFFICES ASSUME JudgedInv, AdvertInv, PipelineInv, AnswerInv, [Next]_vars
             PROVE  JudgedInv'
  OBVIOUS
<1>1. Judged'
  BY JudgedStays DEF JudgedInv, PipelineInv, AdvertInv
<1>2. GatherIsRead'
  BY ReadNext DEF JudgedInv, PipelineInv, AdvertInv, AnswerInv
<1> QED
  BY <1>1, <1>2 DEF JudgedInv

LEMMA JudgedIsReviewed ==
  ASSUME JudgedInv
  PROVE  PassMeansReviewed
<1> SUFFICES ASSUME run.at = "answered", run.verdict = "pass"
             PROVE  /\ ~spec.focused
                    /\ run.reply.listed = "list" /\ "invalid" \notin run.reply.entries
                    /\ Reviews /\ OverTree =>
                         \A f \in InScope : gather.until <= gather.since + Unseen(f) =>
                           /\ f \in gather.owed => f \in Shown \ RedactedPaths
                           /\ f \in gather.summary <=> f \in Shown
                    /\ Reviews /\ ~OverTree => gather.summary = Shown
  BY DEF PassMeansReviewed, RunAt
<1>1. /\ run.reply \in Replies /\ Folded(run.reply) = "pass" /\ (Reviews => gather.at = "done")
      /\ spec.verb \in {"review_changes", "adversarial_review"}
  BY DEF JudgedInv, Judged
<1>2. Omissions = {} /\ run.reply.listed = "list" /\ "invalid" \notin run.reply.entries
  BY <1>1, PassIsClear
<1>3. ~spec.focused
  BY <1>1, <1>2 DEF Omissions
<1>4. ASSUME Reviews
      PROVE  /\ Shown = GivenTo(gather.diff) /\ RedactedPaths = {}
             /\ OverTree => ~(Omitted > 0) /\ ~gather.moved
  <2>1. ~Truncated /\ RedactedPaths = {} /\ (OverTree => ~(Omitted > 0) /\ ~gather.moved)
    BY <1>2, <1>4 DEF Omissions, Reviews
  <2> QED
    BY <2>1 DEF Truncated, Shown, GivenTo
<1>5. ASSUME Reviews, OverTree, NEW f \in InScope, gather.until <= gather.since + Unseen(f)
      PROVE  /\ f \in gather.owed => f \in Shown \ RedactedPaths
             /\ f \in gather.summary <=> f \in Shown
  <2>1. Omitted <= 0
    BY <1>4, <1>5 DEF Omitted, JudgedInv, GatherIsRead, CountsAreWhole
  <2>2. SpokenFor(f)
    BY <1>1, <1>4, <1>5, <2>1 DEF JudgedInv, GatherIsRead, TreeIsRead
  <2> QED
    BY <1>4, <1>5, <2>2 DEF SpokenFor
<1>6. Reviews /\ ~OverTree => gather.summary = Shown
  BY <1>1, <1>4 DEF JudgedInv, GatherIsRead, BranchIsRead
<1> QED
  BY <1>2, <1>3, <1>5, <1>6

(* A delivered pass speaks for all of the change: every file of the scope  *)
(* that differs was shown and not redacted, and the summary counts the     *)
(* same files, although the user works in the tree while git command after *)
(* git command reads it (gather_diff, _worktree_state_token,               *)
(* build_coverage, apply_coverage, apply_findings_loss).                   *)
THEOREM PassesAreReviewed == Spec => []PassMeansReviewed
<1>1. JudgedInv => PassMeansReviewed
  BY JudgedIsReviewed
<1> QED
  BY <1>1, JudgedInit, JudgedNext, AdvertInit, AdvertNext, PipelineInit, PipelineNext, AnswerInit, AnswerNext, PTL
     DEF Spec

-----------------------------------------------------------------------------
(* The markers in a line.                                                  *)
Emits == Tokens \cup {"masked"}
Words == Tokens \cup Markers
HowMany(line) == Cardinality(MarkersIn(line))

LEMMA NoTokenIsMarker == Tokens \cap Markers = {} /\ "masked" \in Markers /\ "withheld" \notin Words
  BY DEF Tokens, Markers, Long, Short, Halves, Words

LEMMA MarkersAreFinite ==
  ASSUME NEW W, NEW line \in Seq(W)
  PROVE  IsFiniteSet(MarkersIn(line)) /\ HowMany(line) \in Nat
<1>1. IsFiniteSet(DOMAIN line)
  BY LenProperties, FS_Interval
<1>2. MarkersIn(line) \in SUBSET (DOMAIN line)
  BY DEF MarkersIn
<1> QED
  BY <1>1, <1>2, FS_Subset, FS_CardinalityType DEF HowMany

LEMMA NoneInTokens ==
  ASSUME NEW line \in Seq(Tokens)
  PROVE  MarkersIn(line) = {} /\ HowMany(line) = 0
<1>1. MarkersIn(line) = {}
  <2> SUFFICES ASSUME NEW k \in DOMAIN line
               PROVE  line[k] \notin Markers
    BY DEF MarkersIn
  <2>1. line[k] \in Tokens
    BY LenProperties
  <2> QED
    BY <2>1, NoTokenIsMarker
<1> QED
  BY <1>1, FS_EmptySet DEF HowMany

LEMMA OneBetween ==
  ASSUME NEW a \in Seq(Tokens), NEW b \in Seq(Tokens)
  PROVE  a \o <<"masked">> \o b \in Seq(Emits) /\ HowMany(a \o <<"masked">> \o b) = 1
<1> DEFINE n == Len(a)  m == Len(b)  s == a \o <<"masked">>  t == s \o b
<1>1. a \in Seq(Emits) /\ b \in Seq(Emits) /\ <<"masked">> \in Seq(Emits) /\ n \in Nat /\ m \in Nat
  BY SeqMonotonic, LenProperties DEF Emits
<1>2. s \in Seq(Emits) /\ Len(s) = n + 1 /\ \A i \in 1..(n + 1) : s[i] = IF i <= n THEN a[i] ELSE "masked"
  BY <1>1
<1>3. t \in Seq(Emits) /\ Len(t) = n + 1 + m
      /\ \A i \in 1..(n + 1 + m) : t[i] = IF i <= n + 1 THEN s[i] ELSE b[i - (n + 1)]
  BY <1>1, <1>2, ConcatProperties
<1>4. \A i \in 1..n : a[i] \in Tokens
  BY LenProperties
<1>5. \A i \in 1..m : b[i] \in Tokens
  BY LenProperties
<1>6. \A i \in 1..(n + 1 + m) : t[i] \in Markers <=> i = n + 1
  <2> TAKE i \in 1..(n + 1 + m)
  <2>1. CASE i <= n
    <3>1. t[i] = a[i] /\ i \in 1..n
      BY <1>1, <1>2, <1>3, <2>1
    <3> QED
      BY <1>1, <1>4, <2>1, <3>1, NoTokenIsMarker
  <2>2. CASE i = n + 1
    <3>1. t[i] = "masked"
      BY <1>1, <1>2, <1>3, <2>2
    <3> QED
      BY <2>2, <3>1, NoTokenIsMarker
  <2>3. CASE i > n + 1
    <3>1. t[i] = b[i - (n + 1)] /\ i - (n + 1) \in 1..m
      BY <1>1, <1>3, <2>3
    <3> QED
      BY <1>1, <1>5, <2>3, <3>1, NoTokenIsMarker
  <2> QED
    BY <1>1, <2>1, <2>2, <2>3
<1>7. DOMAIN t = 1..(n + 1 + m)
  BY <1>3, LenProperties
<1> HIDE DEF t, n, m
<1>8. MarkersIn(t) = {n + 1}
  BY <1>1, <1>6, <1>7 DEF MarkersIn
<1>9. HowMany(t) = 1
  BY <1>8, FS_Singleton DEF HowMany
<1> QED
  BY <1>3, <1>9 DEF t

LEMMA FirstIsIn ==
  ASSUME NEW token, NEW content \in Seq(Tokens), NEW from \in Nat \ {0}, FirstOf(token, content, from) # 0
  PROVE  FirstOf(token, content, from) \in from..Len(content)
<1> DEFINE at == {k \in from..Len(content) : content[k] = token}
<1>1. at # {} /\ FirstOf(token, content, from) = Min(at)
  BY DEF FirstOf
<1>2. at \subseteq Nat
  BY LenProperties
<1> HIDE DEF at
<1>3. Min(at) \in at
  BY <1>1, <1>2, LeastIsIn
<1> QED
  BY <1>1, <1>3 DEF at

LEMMA PartIsTokens ==
  ASSUME NEW content \in Seq(Tokens), NEW i \in Nat \ {0}, NEW j \in Nat, j <= Len(content)
  PROVE  SubSeq(content, i, j) \in Seq(Tokens)
<1>1. \A k \in i..j : content[k] \in Tokens
  BY LenProperties
<1> QED
  BY <1>1, SubSeqProperties

(* What the key blocks leave of a line says how many markers were put in.  *)
LEMMA KeysAreCounted ==
  ASSUME NEW content \in Seq(Tokens), NEW open
  PROVE  LET r == RedactKeys(content, open)
         IN  r.line \in Seq(Emits) /\ r.count \in Nat /\ HowMany(r.line) = r.count
<1>0. Len(content) \in Nat
  BY LenProperties
<1>1. content \in Seq(Emits) /\ HowMany(content) = 0
  BY NoneInTokens, SeqMonotonic DEF Emits
<1>2. <<>> \in Seq(Tokens)
  OBVIOUS
<1>3. ASSUME NEW b \in Seq(Tokens)
      PROVE  <<"masked">> \o b \in Seq(Emits) /\ HowMany(<<"masked">> \o b) = 1
  <2>1. <<>> \o <<"masked">> = <<"masked">>
    OBVIOUS
  <2> QED
    BY <1>2, <2>1, OneBetween
<1>4. ASSUME NEW a \in Seq(Tokens)
      PROVE  Append(a, "masked") \in Seq(Emits) /\ HowMany(Append(a, "masked")) = 1
  <2>1. a \in Seq(Emits) /\ "masked" \in Emits
    BY SeqMonotonic DEF Emits
  <2>2. Append(a, "masked") = a \o <<"masked">> /\ a \o <<"masked">> \in Seq(Emits)
    BY <2>1, AppendIsConcat
  <2>3. a \o <<"masked">> \o <<>> = a \o <<"masked">>
    BY <2>2, ConcatEmptySeq
  <2> QED
    BY <1>2, <2>2, <2>3, OneBetween
<1>5. <<"masked">> \in Seq(Emits) /\ HowMany(<<"masked">>) = 1
  <2>1. <<"masked">> \o <<>> = <<"masked">>
    OBVIOUS
  <2> QED
    BY <1>2, <1>3, <2>1
<1>6. CASE open
  <2> DEFINE end == FirstOf("end", content, 1)
  <2>1. end # 0 => From(content, end) \in Seq(Tokens)
    BY <1>0, FirstIsIn, PartIsTokens DEF From
  <2> HIDE DEF end
  <2>2. Within(content) \in {[line |-> <<"masked">>, count |-> 1, open |-> TRUE],
                             [line |-> content, count |-> 0, open |-> FALSE]}
        \/ (end # 0 /\ Within(content) = [line |-> <<"masked">> \o From(content, end), count |-> 1, open |-> FALSE])
    BY DEF Within, end
  <2>3. RedactKeys(content, open) = Within(content)
    BY <1>6 DEF RedactKeys
  <2>4. CASE Within(content) = [line |-> <<"masked">>, count |-> 1, open |-> TRUE]
    BY <1>5, <2>3, <2>4
  <2>5. CASE Within(content) = [line |-> content, count |-> 0, open |-> FALSE]
    BY <1>1, <2>3, <2>5
  <2>6. CASE end # 0 /\ Within(content) = [line |-> <<"masked">> \o From(content, end), count |-> 1, open |-> FALSE]
    BY <1>3, <2>1, <2>3, <2>6
  <2> QED
    BY <2>2, <2>4, <2>5, <2>6
<1>7. CASE ~open
  <2> DEFINE begin == FirstOf("begin", content, 1)  end == FirstOf("end", content, begin + 1)
             start == SubSeq(content, 1, begin)
  <2>1. begin # 0 => begin \in Nat /\ start \in Seq(Tokens)
    BY <1>0, FirstIsIn, PartIsTokens
  <2>2. begin # 0 /\ end # 0 => From(content, end) \in Seq(Tokens)
    <3>1. begin # 0 => begin + 1 \in Nat \ {0}
      BY <2>1
    <3> HIDE DEF begin
    <3>2. begin # 0 /\ end # 0 => end \in (begin + 1)..Len(content)
      BY <3>1, FirstIsIn
    <3> HIDE DEF end
    <3> QED
      BY <1>0, <2>1, <3>2, PartIsTokens DEF From
  <2> HIDE DEF begin, end, start
  <2>3. \/ Without(content) \in {[line |-> content, count |-> 0, open |-> FALSE],
                                 [line |-> content, count |-> 0, open |-> TRUE]}
        \/ begin # 0 /\ end # 0
           /\ Without(content) = [line |-> start \o <<"masked">> \o From(content, end), count |-> 1, open |-> FALSE]
        \/ begin # 0 /\ Without(content) = [line |-> Append(start, "masked"), count |-> 1, open |-> TRUE]
    BY DEF Without, begin, end, start
  <2>4. RedactKeys(content, open) = Without(content)
    BY <1>7 DEF RedactKeys
  <2>5. CASE begin # 0 /\ end # 0 /\ Without(content) = [line |-> start \o <<"masked">> \o From(content, end), count |-> 1, open |-> FALSE]
    BY <2>1, <2>2, <2>4, <2>5, OneBetween
  <2>6. CASE begin # 0 /\ Without(content) = [line |-> Append(start, "masked"), count |-> 1, open |-> TRUE]
    BY <1>4, <2>1, <2>4, <2>6
  <2> QED
    BY <1>1, <2>3, <2>4, <2>5, <2>6
<1> QED
  BY <1>6, <1>7

-----------------------------------------------------------------------------
(* The spans that are replaced.                                            *)
LEMMA LeastIsLeast ==
  ASSUME NEW S, S \subseteq Nat, S # {}
  PROVE  Min(S) \in S /\ \A k \in S : Min(S) <= k
  BY LeastExists DEF Min

Markless(content, i, j) == \A k \in i..j : content[k] \notin Markers

Spans(content) ==
  {c \in [from : 1..Len(content), to : 1..Len(content), whole : BOOLEAN, narrow : BOOLEAN] :
     c.from <= c.to /\ Markless(content, c.from, c.to)}

LEMMA RunIsPlain ==
  ASSUME NEW content \in Seq(Emits), NEW i \in Nat \ {0}, i <= Len(content) + 1
  PROVE  /\ RunFrom(content, i) \in Nat /\ RunFrom(content, i) <= Len(content)
         /\ Markless(content, i, RunFrom(content, i))
<1> DEFINE stops == {j \in i..Len(content) : ~InRun(content[j])}
           n == Len(content)  r == RunFrom(content, i)
<1>0. n \in Nat
  BY LenProperties
<1>1. r = IF stops = {} THEN n ELSE Min(stops) - 1
  BY DEF RunFrom
<1>2. \A token : InRun(token) => token \notin Markers
  BY DEF InRun, Long, Short, Halves, Markers
<1>3. stops # {} => Min(stops) \in stops /\ \A k \in stops : Min(stops) <= k
  <2>1. stops \subseteq Nat
    BY <1>0
  <2> HIDE DEF stops
  <2> QED
    BY <2>1, LeastIsLeast
<1>4. r \in Nat /\ r <= n
  <2>1. CASE stops = {}
    BY <1>0, <1>1, <2>1
  <2>2. CASE stops # {}
    <3>1. Min(stops) \in i..n
      BY <1>3, <2>2
    <3> HIDE DEF stops, r, n
    <3> QED
      BY <1>0, <1>1, <2>2, <3>1 DEF n
  <2> QED
    BY <2>1, <2>2
<1>5. ASSUME NEW k \in i..r
      PROVE  InRun(content[k])
  <2>1. k \in i..n
    <3> HIDE DEF r, n
    <3> QED
      BY <1>0, <1>4
  <2>2. k \notin stops
    <3>1. CASE stops = {}
      BY <3>1
    <3>2. CASE stops # {}
      <4>1. k <= Min(stops) - 1 /\ Min(stops) \in Nat
        <5>1. r = Min(stops) - 1 /\ Min(stops) \in i..n
          BY <1>1, <1>3, <3>2
        <5> HIDE DEF r, n, stops
        <5> QED
          BY <1>0, <5>1 DEF n
      <4>2. k \in stops => Min(stops) <= k
        BY <1>3, <3>2
      <4> HIDE DEF stops
      <4> QED
        BY <4>1, <4>2
    <3> QED
      BY <3>1, <3>2
  <2> QED
    BY <2>1, <2>2
<1> HIDE DEF r, n
<1>6. Markless(content, i, r)
  BY <1>2, <1>5 DEF Markless
<1> QED
  BY <1>4, <1>6 DEF r, n

LEMMA CandidatesAreSpans ==
  ASSUME NEW content \in Seq(Emits), NEW code
  PROVE  Labelled(content, code) \subseteq Spans(content) /\ Vendors(content) \subseteq Spans(content)
<1>0. Len(content) \in Nat /\ DOMAIN content = 1..Len(content)
  BY LenProperties
<1>1. ASSUME NEW c \in Labelled(content, code)
      PROVE  c \in Spans(content)
  <2>1. PICK i \in DOMAIN content :
          /\ c = [from |-> i + 1, to |-> RunFrom(content, i + 1), whole |-> FALSE, narrow |-> TRUE]
          /\ IsValue(content, i + 1, RunFrom(content, i + 1))
    BY DEF Labelled
  <2> DEFINE r == RunFrom(content, i + 1)
  <2>2. r \in Nat /\ r <= Len(content) /\ Markless(content, i + 1, r)
    BY <1>0, RunIsPlain
  <2>3. \E k \in (i + 1)..r : TRUE
    BY <2>1 DEF IsValue
  <2> HIDE DEF r
  <2>4. i + 1 <= r
    BY <1>0, <2>2, <2>3
  <2>5. i + 1 \in 1..Len(content) /\ r \in 1..Len(content)
    BY <1>0, <2>2, <2>4
  <2>6. c = [from |-> i + 1, to |-> r, whole |-> FALSE, narrow |-> TRUE]
    BY <2>1 DEF r
  <2> QED
    BY <2>2, <2>4, <2>5, <2>6 DEF Spans
<1>2. ASSUME NEW c \in Vendors(content)
      PROVE  c \in Spans(content)
  <2>1. PICK i \in DOMAIN content :
          c = [from |-> i, to |-> i, whole |-> TRUE, narrow |-> FALSE] /\ content[i] = "vendor"
    BY DEF Vendors
  <2>2. "vendor" \notin Markers
    BY DEF Markers
  <2>3. Markless(content, i, i)
    BY <1>0, <2>1, <2>2 DEF Markless
  <2> QED
    BY <1>0, <2>1, <2>3 DEF Spans
<1> QED
  BY <1>1, <1>2

(* Merged spans stand apart, and cover nothing that was put in already.    *)
Apart(spans, content) ==
  /\ spans \in Seq(Spans(content))
  /\ \A i, j \in 1..Len(spans) : i < j => spans[i].to < spans[j].from

LEMMA SpanIs ==
  ASSUME NEW content \in Seq(Emits), NEW c \in Spans(content)
  PROVE  /\ c.from \in 1..Len(content) /\ c.to \in 1..Len(content) /\ c.from <= c.to
         /\ Markless(content, c.from, c.to) /\ c.whole \in BOOLEAN /\ c.narrow \in BOOLEAN
  BY DEF Spans

LEMMA LaterOf ==
  ASSUME NEW a \in Int, NEW b \in Int
  PROVE  Max({a, b}) = IF a >= b THEN a ELSE b
<1>1. CASE a >= b
  <2>1. {a, b} \in SUBSET Int /\ a \in {a, b} /\ \A k \in {a, b} : a >= k
    BY <1>1
  <2> QED
    BY <1>1, <2>1, MaxIs
<1>2. CASE b > a
  <2>1. {a, b} \in SUBSET Int /\ b \in {a, b} /\ \A k \in {a, b} : b >= k
    BY <1>2
  <2>2. ~(a >= b)
    BY <1>2
  <2> QED
    BY <2>1, <2>2, MaxIs
<1> QED
  BY <1>1, <1>2

(* The two of them as one.                                                 *)
AsOne(m, c) ==
  [from |-> m.from, to |-> Max({m.to, c.to}),
   whole |-> m.whole \/ (c.from = m.from /\ c.whole),
   narrow |-> IF c.to > m.to THEN c.narrow ELSE m.narrow \/ (c.to = m.to /\ c.narrow)]

LEMMA AsOneIsSpan ==
  ASSUME NEW content \in Seq(Emits), NEW m \in Spans(content), NEW c \in Spans(content), ~(c.from > m.to)
  PROVE  AsOne(m, c) \in Spans(content) /\ AsOne(m, c).from = m.from
<1> DEFINE t == Max({m.to, c.to})  n == Len(content)
           w == m.whole \/ (c.from = m.from /\ c.whole)
           a == IF c.to > m.to THEN c.narrow ELSE m.narrow \/ (c.to = m.to /\ c.narrow)
<1>1. n \in Nat /\ m.from \in 1..n /\ m.to \in 1..n /\ m.from <= m.to /\ c.from \in 1..n /\ c.to \in 1..n
  BY SpanIs, LenProperties
<1>2. t = IF m.to >= c.to THEN m.to ELSE c.to
  BY <1>1, LaterOf
<1>3. Markless(content, m.from, m.to) /\ Markless(content, c.from, c.to) /\ m.whole \in BOOLEAN /\ m.narrow \in BOOLEAN
      /\ c.whole \in BOOLEAN /\ c.narrow \in BOOLEAN
  BY SpanIs
<1>4. w \in BOOLEAN /\ a \in BOOLEAN
  BY <1>3, Zenon
<1>5. AsOne(m, c) = [from |-> m.from, to |-> t, whole |-> w, narrow |-> a]
  BY DEF AsOne
<1> HIDE DEF t, w, a, n
<1>6. t \in 1..n /\ m.from <= t
  BY <1>1, <1>2
<1>7. Markless(content, m.from, t)
  <2> SUFFICES ASSUME NEW k \in (m.from)..t
               PROVE  content[k] \notin Markers
    BY DEF Markless
  <2>1. k \in (m.from)..(m.to) \/ k \in (c.from)..(c.to)
    BY <1>1, <1>2
  <2> QED
    BY <1>3, <2>1 DEF Markless
<1> QED
  BY <1>1, <1>4, <1>5, <1>6, <1>7 DEF Spans, n

LEMMA MergeKeepsApart ==
  ASSUME NEW content \in Seq(Emits), NEW spans, Apart(spans, content), NEW c \in Spans(content)
  PROVE  Apart(Merge(spans, c), content)
<1> DEFINE n == Len(spans)  m == Last(spans)  new == Merge(spans, c)
<1>1. spans \in Seq(Spans(content)) /\ n \in Nat /\ \A i, j \in 1..n : i < j => spans[i].to < spans[j].from
  BY LenProperties DEF Apart
<1>2. \A i \in 1..n : spans[i] \in Spans(content)
  BY <1>1, LenProperties
<1>3. \A i \in 1..n : spans[i].from \in Nat /\ spans[i].to \in Nat /\ spans[i].from <= spans[i].to
  <2> TAKE i \in 1..n
  <2>1. spans[i] \in Spans(content)
    BY <1>2
  <2> HIDE DEF n
  <2>2. spans[i].from \in 1..Len(content) /\ spans[i].to \in 1..Len(content) /\ spans[i].from <= spans[i].to
    BY <2>1, SpanIs
  <2> QED
    BY <2>2, LenProperties
<1>4. c.from \in Nat /\ c.to \in Nat
  BY SpanIs, LenProperties
<1>5. n # 0 => m = spans[n] /\ n \in 1..n
  BY <1>1 DEF Last
<1>6. spans = <<>> <=> n = 0
  BY <1>1, EmptySeq
<1>7. CASE spans = <<>> \/ c.from > m.to
  <2>1. new = Append(spans, c)
    BY <1>7 DEF Merge
  <2>2. new \in Seq(Spans(content)) /\ Len(new) = n + 1 /\ new[n + 1] = c /\ \A i \in 1..n : new[i] = spans[i]
    BY <1>1, <2>1, AppendProperties
  <2>3. \A i \in 1..n : spans[i].to < c.from
    <3> TAKE i \in 1..n
    <3>1. n # 0 /\ m = spans[n] /\ c.from > m.to /\ n \in 1..n
      BY <1>1, <1>5, <1>6, <1>7
    <3>2. spans[i].to <= spans[n].to
      <4>1. CASE i = n
        BY <1>3, <4>1
      <4>2. CASE i < n
        <5>1. spans[i].to < spans[n].from /\ spans[n].from <= spans[n].to
          BY <1>1, <1>3, <3>1, <4>2
        <5> QED
          BY <1>3, <3>1, <5>1
      <4> QED
        BY <1>1, <4>1, <4>2
    <3> QED
      BY <1>3, <1>4, <3>1, <3>2
  <2> HIDE DEF n, m, new
  <2>4. ASSUME NEW i \in 1..(n + 1), NEW j \in 1..(n + 1), i < j
        PROVE  new[i].to < new[j].from
    <3>1. i \in 1..n
      BY <1>1, <2>4
    <3>2. CASE j = n + 1
      BY <2>2, <2>3, <3>1, <3>2
    <3>3. CASE j \in 1..n
      BY <1>1, <2>2, <2>4, <3>1, <3>3
    <3> QED
      BY <1>1, <3>2, <3>3
  <2> QED
    BY <2>2, <2>4 DEF Apart, new
<1>8. CASE ~(spans = <<>> \/ c.from > m.to)
  <2>1. new = Append(Front(spans), AsOne(m, c))
    BY <1>8 DEF Merge, AsOne
  <2>2. n # 0 /\ m = spans[n] /\ m \in Spans(content)
    BY <1>2, <1>5, <1>6, <1>8
  <2> DEFINE o == AsOne(m, c)  f == Front(spans)
  <2>3. o \in Spans(content) /\ o.from = m.from
    BY <1>8, <2>2, AsOneIsSpan
  <2> HIDE DEF m, o, n
  <2>4. f \in Seq(Spans(content)) /\ Len(f) = n - 1 /\ \A i \in 1..(n - 1) : f[i] = spans[i]
    <3>1. \A i \in 1..(n - 1) : spans[i] \in Spans(content)
      BY <1>1, <1>2
    <3>2. f = SubSeq(spans, 1, n - 1)
      BY DEF Front, n
    <3>3. n - 1 \in Nat
      BY <1>1, <2>2
    <3> DEFINE g == SubSeq(spans, 1, n - 1)
    <3>4. g \in Seq(Spans(content))
      BY <3>1, <3>3, SubSeqProperties
    <3>5. Len(g) = n - 1
      BY <3>1, <3>3, SubSeqProperties
    <3>6. \A i \in 1..(n - 1) : g[i] = spans[i]
      BY <3>1, <3>3, SubSeqProperties
    <3> QED
      BY <3>2, <3>4, <3>5, <3>6
  <2> HIDE DEF f
  <2>5. new = Append(f, o)
    BY <2>1 DEF f, o
  <2>6. new \in Seq(Spans(content)) /\ Len(new) = n /\ new[n] = o /\ \A i \in 1..(n - 1) : new[i] = spans[i]
    BY <1>1, <2>3, <2>4, <2>5, AppendProperties
  <2> HIDE DEF new
  <2>7. ASSUME NEW i \in 1..n, NEW j \in 1..n, i < j
        PROVE  new[i].to < new[j].from
    <3>1. i \in 1..(n - 1) /\ new[i] = spans[i]
      BY <1>1, <2>6, <2>7
    <3>2. spans[i].to < spans[j].from
      BY <1>1, <2>7
    <3>3. CASE j = n
      BY <2>2, <2>3, <2>6, <3>1, <3>2, <3>3
    <3>4. CASE j \in 1..(n - 1)
      BY <2>6, <3>1, <3>2, <3>4
    <3> QED
      BY <1>1, <3>3, <3>4
  <2> QED
    BY <2>6, <2>7 DEF Apart, new
<1> QED
  BY <1>7, <1>8

LEMMA MergeAnyKeepsApart ==
  ASSUME NEW content \in Seq(Emits), NEW spans, Apart(spans, content), NEW new, new \subseteq Spans(content)
  PROVE  Apart(MergeAny(spans, new), content)
<1>1. CASE new = {}
  BY <1>1 DEF MergeAny
<1>2. CASE new # {}
  <2> DEFINE c == CHOOSE c \in new : TRUE
  <2>1. c \in Spans(content)
    BY <1>2
  <2>2. MergeAny(spans, new) = Merge(spans, c)
    BY <1>2 DEF MergeAny
  <2> HIDE DEF c
  <2> QED
    BY <2>1, <2>2, MergeKeepsApart
<1> QED
  BY <1>1, <1>2

(* The spans that begin at each of the first n positions, merged.          *)
StartingAt(spans, k) == {c \in spans : c.from = k}
MergeAt(merged, content, code, k) ==
  MergeAny(MergeAny(merged, StartingAt(Vendors(content), k)), StartingAt(Labelled(content, code), k))
MergesUpTo(f, content, code, m) ==
  f = [k \in 0..m |-> IF k = 0 THEN <<>> ELSE MergeAt(f[k - 1], content, code, k)]

LEMMA MergesUpToIs ==
  ASSUME NEW f, NEW content, NEW code, NEW m \in Nat
  PROVE  MergesUpTo(f, content, code, m) <=>
           /\ f = [k \in 0..m |-> f[k]]
           /\ \A k \in 0..m : f[k] = IF k = 0 THEN <<>> ELSE MergeAt(f[k - 1], content, code, k)
  BY DEF MergesUpTo

LEMMA SpansCanBeMerged ==
  ASSUME NEW content, NEW code, NEW n \in Nat
  PROVE  \E f : MergesUpTo(f, content, code, n)
<1> DEFINE S == {m \in Nat : \E f : MergesUpTo(f, content, code, m)}
<1>1. 0 \in S
  <2> DEFINE f == [k \in 0..0 |-> <<>>]
  <2>1. MergesUpTo(f, content, code, 0)
    BY DEF MergesUpTo
  <2> QED
    BY <2>1
<1>2. ASSUME NEW m \in Nat, m \in S
      PROVE  m + 1 \in S
  <2>1. PICK f : MergesUpTo(f, content, code, m)
    BY <1>2
  <2> DEFINE at(h, i) == IF i = 0 THEN <<>> ELSE MergeAt(h[i - 1], content, code, i)
             g == [i \in 0..(m + 1) |-> IF i = m + 1 THEN at(f, i) ELSE f[i]]
  <2>2. \A i \in 0..m : f[i] = at(f, i)
    BY <2>1, MergesUpToIs
  <2>3. \A i \in 0..(m + 1) : g[i] = at(g, i)
    <3> TAKE i \in 0..(m + 1)
    <3>1. CASE i = m + 1
      <4>1. g[i - 1] = f[i - 1] /\ g[i] = at(f, i)
        BY <3>1
      <4> QED
        BY <4>1
    <3>2. CASE i \in 1..m
      <4>1. g[i - 1] = f[i - 1] /\ g[i] = f[i]
        BY <3>2
      <4> QED
        BY <2>2, <3>2, <4>1
    <3>3. CASE i = 0
      BY <2>2, <3>3
    <3> QED
      BY <3>1, <3>2, <3>3
  <2>4. g = [i \in 0..(m + 1) |-> g[i]]
    OBVIOUS
  <2> HIDE DEF g
  <2>5. MergesUpTo(g, content, code, m + 1)
    <3> DEFINE h == [i \in 0..(m + 1) |-> at(g, i)]
    <3>1. \A i \in 0..(m + 1) : g[i] = h[i]
      BY <2>3
    <3>2. g = h
      BY <2>4, <3>1
    <3> QED
      BY <3>2 DEF MergesUpTo
  <2> QED
    BY <2>5
<1> HIDE DEF S
<1>3. n \in S
  BY <1>1, <1>2, Climb
<1> QED
  BY <1>3 DEF S

LEMMA MergedAreApart ==
  ASSUME NEW content \in Seq(Emits), NEW code
  PROVE  Apart(Merged(content, code), content)
<1> DEFINE n == Len(content)
           f == CHOOSE g : MergesUpTo(g, content, code, n)
           S == {k \in Nat : k <= n => Apart(f[k], content)}
<1>0. n \in Nat
  BY LenProperties
<1>1. Merged(content, code) = f[n]
  BY DEF Merged, MergesUpTo, MergeAt, StartingAt
<1>2. MergesUpTo(f, content, code, n)
  <2>1. \E g : MergesUpTo(g, content, code, n)
    BY <1>0, SpansCanBeMerged
  <2> QED
    BY <2>1
<1> HIDE DEF f
<1>3. \A k \in 0..n : f[k] = IF k = 0 THEN <<>> ELSE MergeAt(f[k - 1], content, code, k)
  BY <1>0, <1>2, MergesUpToIs
<1>4. 0 \in S
  <2>1. f[0] = <<>>
    BY <1>0, <1>3
  <2>2. Apart(<<>>, content)
    BY DEF Apart
  <2> QED
    BY <2>1, <2>2
<1>5. ASSUME NEW k \in Nat, k \in S
      PROVE  k + 1 \in S
  <2> SUFFICES ASSUME k + 1 <= n
               PROVE  Apart(f[k + 1], content)
    OBVIOUS
  <2> HIDE DEF n
  <2>1. Apart(f[k], content)
    BY <1>0, <1>5
  <2>2. f[k + 1] = MergeAt(f[k], content, code, k + 1)
    <3>1. k + 1 \in 0..n /\ k + 1 # 0 /\ (k + 1) - 1 = k
      BY <1>0
    <3> QED
      BY <1>3, <3>1
  <2> DEFINE v == StartingAt(Vendors(content), k + 1)  l == StartingAt(Labelled(content, code), k + 1)
  <2>3. v \subseteq Spans(content) /\ l \subseteq Spans(content)
    BY CandidatesAreSpans DEF StartingAt
  <2>4. MergeAt(f[k], content, code, k + 1) = MergeAny(MergeAny(f[k], v), l)
    BY DEF MergeAt
  <2> HIDE DEF v, l
  <2>5. Apart(MergeAny(f[k], v), content)
    BY <2>1, <2>3, MergeAnyKeepsApart
  <2>6. Apart(MergeAny(MergeAny(f[k], v), l), content)
    BY <2>3, <2>5, MergeAnyKeepsApart
  <2> QED
    BY <2>2, <2>4, <2>6
<1> HIDE DEF S
<1>6. n \in S
  BY <1>0, <1>4, <1>5, Climb
<1> QED
  BY <1>0, <1>1, <1>6 DEF S

-----------------------------------------------------------------------------
(* A line once its spans are replaced.                                     *)
FlattensTo(f, seqs, m) == f = [i \in 1..m |-> IF i = 1 THEN seqs[i] ELSE f[i - 1] \o seqs[i]]

LEMMA FlattensToIs ==
  ASSUME NEW f, NEW seqs, NEW m \in Nat
  PROVE  FlattensTo(f, seqs, m) <=>
           /\ f = [i \in 1..m |-> f[i]]
           /\ \A i \in 1..m : f[i] = IF i = 1 THEN seqs[i] ELSE f[i - 1] \o seqs[i]
  BY DEF FlattensTo

LEMMA CanBeFlattened ==
  ASSUME NEW seqs, NEW n \in Nat
  PROVE  \E f : FlattensTo(f, seqs, n)
<1> DEFINE S == {m \in Nat : \E f : FlattensTo(f, seqs, m)}
<1>1. 0 \in S
  <2> DEFINE f == [i \in 1..0 |-> <<>>]
  <2>1. FlattensTo(f, seqs, 0)
    BY DEF FlattensTo
  <2> QED
    BY <2>1
<1>2. ASSUME NEW m \in Nat, m \in S
      PROVE  m + 1 \in S
  <2>1. PICK f : FlattensTo(f, seqs, m)
    BY <1>2
  <2> DEFINE at(h, i) == IF i = 1 THEN seqs[i] ELSE h[i - 1] \o seqs[i]
             g == [i \in 1..(m + 1) |-> IF i = m + 1 THEN at(f, i) ELSE f[i]]
  <2>2. \A i \in 1..m : f[i] = at(f, i)
    BY <2>1, FlattensToIs
  <2>3. \A i \in 1..(m + 1) : g[i] = at(g, i)
    <3> TAKE i \in 1..(m + 1)
    <3>1. CASE i = 1 /\ i = m + 1
      BY <3>1
    <3>2. CASE i # 1 /\ i = m + 1
      <4>1. i - 1 \in 1..m /\ i - 1 \in 1..(m + 1) /\ i - 1 # m + 1
        BY <3>2
      <4>2. g[i - 1] = f[i - 1]
        BY <4>1
      <4>3. g[i] = at(f, i)
        BY <3>2
      <4> QED
        BY <3>2, <4>2, <4>3
    <3>3. CASE i = 1 /\ i # m + 1
      <4>1. i \in 1..m /\ g[i] = f[i]
        BY <3>3
      <4> QED
        BY <2>2, <3>3, <4>1
    <3>4. CASE i # 1 /\ i # m + 1
      <4>1. i \in 1..m /\ g[i - 1] = f[i - 1] /\ g[i] = f[i]
        BY <3>4
      <4> QED
        BY <2>2, <3>4, <4>1
    <3> QED
      BY <3>1, <3>2, <3>3, <3>4
  <2>4. g = [i \in 1..(m + 1) |-> g[i]]
    OBVIOUS
  <2> HIDE DEF g
  <2>5. FlattensTo(g, seqs, m + 1)
    <3> DEFINE h == [i \in 1..(m + 1) |-> at(g, i)]
    <3>1. \A i \in 1..(m + 1) : g[i] = h[i]
      BY <2>3
    <3>2. g = h
      BY <2>4, <3>1
    <3> QED
      BY <3>2 DEF FlattensTo
  <2> QED
    BY <2>5
<1> HIDE DEF S
<1>3. n \in S
  BY <1>1, <1>2, Climb
<1> QED
  BY <1>3 DEF S

LEMMA OneMoreWord ==
  ASSUME NEW W, NEW a \in Seq(W), NEW w \in W
  PROVE  /\ Append(a, w) \in Seq(W)
         /\ HowMany(Append(a, w)) = HowMany(a) + IF w \in Markers THEN 1 ELSE 0
<1> DEFINE n == Len(a)  s == Append(a, w)
<1>1. n \in Nat /\ DOMAIN a = 1..n
  BY LenProperties
<1>2. s \in Seq(W) /\ Len(s) = n + 1 /\ s[n + 1] = w /\ \A i \in 1..n : s[i] = a[i]
  BY <1>1, AppendProperties
<1>3. DOMAIN s = 1..(n + 1)
  BY <1>2, LenProperties
<1>4. IsFiniteSet(MarkersIn(a)) /\ HowMany(a) \in Nat
  BY MarkersAreFinite
<1> HIDE DEF s, n
<1>5. CASE w \in Markers
  <2>1. MarkersIn(s) = MarkersIn(a) \cup {n + 1} /\ n + 1 \notin MarkersIn(a)
    BY <1>1, <1>2, <1>3, <1>5 DEF MarkersIn
  <2>2. Cardinality(MarkersIn(s)) = Cardinality(MarkersIn(a)) + 1
    BY <1>4, <2>1, FS_AddElement
  <2> QED
    BY <1>2, <1>5, <2>2 DEF HowMany, s
<1>6. CASE w \notin Markers
  <2>1. MarkersIn(s) = MarkersIn(a)
    BY <1>1, <1>2, <1>3, <1>6 DEF MarkersIn
  <2> QED
    BY <1>2, <1>4, <1>6, <2>1 DEF HowMany, s
<1> QED
  BY <1>5, <1>6

(* The markers a line held up to a position, the spans that began there.   *)
HeldUpTo(content, k) == {j \in 1..k : content[j] \in Markers}
BegunBy(spans, k) == {i \in 1..Len(spans) : spans[i].from <= k}
Covering(spans, k) == {m \in ToSet(spans) : m.from <= k /\ k <= m.to}
DuePlaces(content, spans, k) == Cardinality(HeldUpTo(content, k)) + Cardinality(BegunBy(spans, k))

LEMMA PlacesAreFinite ==
  ASSUME NEW content, NEW spans, Apart(spans, content), NEW k \in Nat
  PROVE  /\ IsFiniteSet(HeldUpTo(content, k)) /\ Cardinality(HeldUpTo(content, k)) \in Nat
         /\ IsFiniteSet(BegunBy(spans, k)) /\ Cardinality(BegunBy(spans, k)) \in Nat
<1>1. Len(spans) \in Nat
  BY LenProperties DEF Apart
<1>2. IsFiniteSet(1..k) /\ IsFiniteSet(1..Len(spans))
  BY <1>1, FS_Interval
<1>3. HeldUpTo(content, k) \in SUBSET (1..k) /\ BegunBy(spans, k) \in SUBSET (1..Len(spans))
  BY DEF HeldUpTo, BegunBy
<1> QED
  BY <1>2, <1>3, FS_Subset, FS_CardinalityType

LEMMA HeldOneMore ==
  ASSUME NEW content \in Seq(Emits), NEW k \in Nat, k + 1 <= Len(content)
  PROVE  HeldUpTo(content, k + 1) = HeldUpTo(content, k) \cup
           (IF content[k + 1] \in Markers THEN {k + 1} ELSE {})
         /\ k + 1 \notin HeldUpTo(content, k)
  BY DEF HeldUpTo

LEMMA CoveredBy ==
  ASSUME NEW content \in Seq(Emits), NEW spans, Apart(spans, content), NEW k \in Nat,
         NEW m \in Covering(spans, k)
  PROVE  \E i \in 1..Len(spans) : /\ m = spans[i] /\ m.from <= k /\ k <= m.to
                                  /\ \A j \in 1..Len(spans) : spans[j].from <= k /\ k <= spans[j].to => j = i
<1> DEFINE n == Len(spans)
<1>1. n \in Nat /\ DOMAIN spans = 1..n /\ \A i \in 1..n : spans[i] \in Spans(content)
  BY LenProperties DEF Apart
<1>2. \A i, j \in 1..n : i < j => spans[i].to < spans[j].from
  BY DEF Apart
<1>3. m \in ToSet(spans) /\ m.from <= k /\ k <= m.to
  BY DEF Covering
<1>4. PICK i \in 1..n : m = spans[i]
  BY <1>1, <1>3 DEF ToSet
<1>5. ASSUME NEW j \in 1..n, spans[j].from <= k, k <= spans[j].to
      PROVE  j = i
  <2> HIDE DEF n
  <2>1. /\ spans[i].from \in 1..Len(content) /\ spans[i].to \in 1..Len(content)
        /\ spans[j].from \in 1..Len(content) /\ spans[j].to \in 1..Len(content)
    BY <1>1, <1>4, SpanIs
  <2>2. ~(i < j)
    <3>1. i < j => spans[i].to < spans[j].from
      BY <1>2, <1>4
    <3> QED
      BY <1>3, <1>4, <1>5, <2>1, <3>1, LenProperties
  <2>3. ~(j < i)
    <3>1. j < i => spans[j].to < spans[i].from
      BY <1>2, <1>4
    <3> QED
      BY <1>3, <1>4, <1>5, <2>1, <3>1, LenProperties
  <2> QED
    BY <1>1, <2>2, <2>3
<1> QED
  BY <1>3, <1>4, <1>5

LEMMA EachIsDue ==
  ASSUME NEW content \in Seq(Emits), NEW spans, Apart(spans, content), NEW k \in Nat, k + 1 <= Len(content),
         NEW line \in Seq(Words), HowMany(line) = DuePlaces(content, spans, k)
  PROVE  LET e == line \o Emitted(content, k + 1, Covering(spans, k + 1))
         IN  e \in Seq(Words) /\ HowMany(e) = DuePlaces(content, spans, k + 1)
<1> DEFINE n == Len(spans)  e == Emitted(content, k + 1, Covering(spans, k + 1))
           H == Cardinality(HeldUpTo(content, k))  B == Cardinality(BegunBy(spans, k))
           H2 == Cardinality(HeldUpTo(content, k + 1))  B2 == Cardinality(BegunBy(spans, k + 1))
<1>0. n \in Nat /\ Len(content) \in Nat /\ \A i \in 1..n : spans[i] \in Spans(content)
  BY LenProperties DEF Apart
<1>1. \A i \in 1..n : /\ spans[i].from \in Nat /\ spans[i].to \in Nat /\ spans[i].from <= spans[i].to
                      /\ Markless(content, spans[i].from, spans[i].to)
  <2> TAKE i \in 1..n
  <2>1. spans[i] \in Spans(content)
    BY <1>0
  <2> HIDE DEF n
  <2>2. spans[i].from \in 1..Len(content) /\ spans[i].to \in 1..Len(content)
        /\ spans[i].from <= spans[i].to /\ Markless(content, spans[i].from, spans[i].to)
    BY <2>1, SpanIs
  <2> QED
    BY <1>0, <2>2
<1>2. H \in Nat /\ B \in Nat /\ IsFiniteSet(HeldUpTo(content, k)) /\ IsFiniteSet(BegunBy(spans, k))
  BY PlacesAreFinite
<1>3. content[k + 1] \in Words /\ "partly" \in Words /\ "masked" \in Words
      /\ "partly" \in Markers /\ "masked" \in Markers
  <2>1. content[k + 1] \in Emits
    BY <1>0, LenProperties
  <2> QED
    BY <2>1 DEF Emits, Words, Markers
<1>4. HowMany(line) = H + B
  BY DEF DuePlaces
<1>5. DuePlaces(content, spans, k + 1) = H2 + B2
  BY DEF DuePlaces
<1>6. HeldUpTo(content, k + 1) = HeldUpTo(content, k) \cup (IF content[k + 1] \in Markers THEN {k + 1} ELSE {})
      /\ k + 1 \notin HeldUpTo(content, k)
  BY HeldOneMore
<1>60. ASSUME line \o e \in Seq(Words), HowMany(line \o e) = H2 + B2
      PROVE  LET o == line \o Emitted(content, k + 1, Covering(spans, k + 1))
             IN  o \in Seq(Words) /\ HowMany(o) = DuePlaces(content, spans, k + 1)
  BY <1>5, <1>60
<1>7. CASE Covering(spans, k + 1) = {}
  <2>1. e = <<content[k + 1]>>
    BY <1>7 DEF Emitted
  <2>2. BegunBy(spans, k + 1) = BegunBy(spans, k)
    <3> SUFFICES ASSUME NEW i \in 1..n, spans[i].from <= k + 1
                 PROVE  spans[i].from <= k
      BY <1>1 DEF BegunBy
    <3>1. spans[i] \in ToSet(spans)
      BY LenProperties DEF ToSet, Apart
    <3>2. ~(k + 1 <= spans[i].to)
      BY <1>7, <3>1 DEF Covering
    <3> HIDE DEF n
    <3> QED
      BY <1>1, <3>2
  <2>3. H2 = H + IF content[k + 1] \in Markers THEN 1 ELSE 0
    <3>1. CASE content[k + 1] \in Markers
      <4>1. H2 = H + 1
        BY <1>2, <1>6, <3>1, FS_AddElement
      <4> QED
        BY <3>1, <4>1
    <3>2. CASE content[k + 1] \notin Markers
      <4>1. HeldUpTo(content, k + 1) = HeldUpTo(content, k)
        BY <1>6, <3>2
      <4>2. H2 = H
        BY <4>1
      <4> HIDE DEF H, H2
      <4> QED
        BY <1>2, <3>2, <4>2
    <3> QED
      BY <3>1, <3>2
  <2>4. B2 = B
    BY <2>2
  <2>5. line \o e = Append(line, content[k + 1])
    BY <1>3, <2>1, AppendIsConcat
  <2>6. Append(line, content[k + 1]) \in Seq(Words)
        /\ HowMany(Append(line, content[k + 1])) = HowMany(line) + IF content[k + 1] \in Markers THEN 1 ELSE 0
    BY <1>3, OneMoreWord
  <2> HIDE DEF H, B, H2, B2, e
  <2>7. HowMany(line \o e) = H2 + B2
    <3>1. CASE content[k + 1] \in Markers
      BY <1>2, <1>4, <2>3, <2>4, <2>5, <2>6, <3>1
    <3>2. CASE content[k + 1] \notin Markers
      BY <1>2, <1>4, <2>3, <2>4, <2>5, <2>6, <3>2
    <3> QED
      BY <3>1, <3>2
  <2> QED
    BY <1>60, <2>5, <2>6, <2>7
<1>8. CASE Covering(spans, k + 1) # {}
  <2> DEFINE m == CHOOSE span \in Covering(spans, k + 1) : TRUE
  <2>1. m \in Covering(spans, k + 1)
    BY <1>8
  <2>2. e = IF k + 1 > m.from THEN <<>> ELSE <<IF IsPartial(content, m) THEN "partly" ELSE "masked">>
    BY <1>8 DEF Emitted
  <2> HIDE DEF m
  <2>3. PICK i \in 1..n : /\ m = spans[i] /\ m.from <= k + 1 /\ k + 1 <= m.to
                          /\ \A j \in 1..n : spans[j].from <= k + 1 /\ k + 1 <= spans[j].to => j = i
    BY <2>1, CoveredBy
  <2>4. m.from \in Nat /\ m.to \in Nat
    BY <1>1, <2>3
  <2>5. content[k + 1] \notin Markers
    <3>1. Markless(content, m.from, m.to)
      BY <1>1, <2>3
    <3>2. k + 1 \in (m.from)..(m.to)
      BY <2>3, <2>4
    <3> QED
      BY <3>1, <3>2 DEF Markless
  <2>6. H2 = H
    BY <1>6, <2>5
  <2>7. \A j \in 1..n : spans[j].from = k + 1 => j = i
    BY <1>1, <2>3
  <2>8. CASE k + 1 > m.from
    <3>1. e = <<>>
      BY <2>2, <2>8
    <3>2. \A j \in 1..n : spans[j].from # k + 1
      BY <2>3, <2>4, <2>7, <2>8
    <3>3. BegunBy(spans, k + 1) = BegunBy(spans, k)
      <4>1. \A j \in 1..n : spans[j].from <= k + 1 <=> spans[j].from <= k
        BY <1>1, <3>2
      <4> QED
        BY <4>1 DEF BegunBy
    <3>4. B2 = B
      BY <3>3
    <3>5. line \o e = line
      BY <3>1, ConcatEmptySeq
    <3> HIDE DEF H, B, H2, B2, e
    <3> QED
      BY <1>4, <1>60, <2>6, <3>4, <3>5
  <2>9. CASE ~(k + 1 > m.from)
    <3> DEFINE w == IF IsPartial(content, m) THEN "partly" ELSE "masked"
    <3>1. e = <<w>>
      BY <2>2, <2>9
    <3>2. w \in Words /\ w \in Markers
      BY <1>3
    <3> HIDE DEF w
    <3>3. spans[i].from = k + 1
      BY <2>3, <2>4, <2>9
    <3>4. BegunBy(spans, k + 1) = BegunBy(spans, k) \cup {i} /\ i \notin BegunBy(spans, k)
      <4>1. \A j \in 1..n : spans[j].from <= k + 1 <=> (spans[j].from <= k \/ j = i)
        BY <1>1, <2>7, <3>3
      <4>2. ~(spans[i].from <= k)
        BY <3>3
      <4> QED
        BY <4>1, <4>2 DEF BegunBy
    <3>5. B2 = B + 1
      BY <1>2, <3>4, FS_AddElement
    <3>6. line \o e = Append(line, w)
      BY <3>1, <3>2, AppendIsConcat
    <3>7. Append(line, w) \in Seq(Words) /\ HowMany(Append(line, w)) = HowMany(line) + 1
      BY <3>2, OneMoreWord
    <3> HIDE DEF H, B, H2, B2, e
    <3>8. HowMany(line \o e) = H2 + B2
      BY <1>2, <1>4, <2>6, <3>5, <3>6, <3>7
    <3> QED
      BY <1>60, <3>6, <3>7, <3>8
  <2> QED
    BY <2>8, <2>9
<1> QED
  BY <1>7, <1>8

LEMMA ReplacedIsCounted ==
  ASSUME NEW content \in Seq(Emits), NEW spans, Apart(spans, content)
  PROVE  LET r == Replaced(content, spans)
         IN  r.line \in Seq(Words) /\ r.count \in Nat /\ HowMany(r.line) = HowMany(content) + r.count
<1> DEFINE n == Len(content)
           seqs == [k \in DOMAIN content |-> Emitted(content, k, Covering(spans, k))]
           f == CHOOSE g : FlattensTo(g, seqs, n)
           at(k) == IF k = 0 THEN <<>> ELSE f[k]
           S == {k \in Nat : k <= n => at(k) \in Seq(Words) /\ HowMany(at(k)) = DuePlaces(content, spans, k)}
<1>0. n \in Nat /\ DOMAIN content = 1..n /\ Len(spans) \in Nat
  BY LenProperties DEF Apart
<1>1. Len(seqs) = n
  BY <1>0
<1>2. FlattenSeq(seqs) = IF n = 0 THEN seqs ELSE f[n]
  <2> HIDE DEF seqs
  <2> QED
    BY <1>1 DEF FlattenSeq, FlattensTo
<1>3. n = 0 => seqs = <<>>
  BY <1>0
<1>4. FlattenSeq(seqs) = at(n)
  BY <1>2, <1>3
<1>5. FlattensTo(f, seqs, n)
  <2>1. \E g : FlattensTo(g, seqs, n)
    BY <1>0, CanBeFlattened
  <2> QED
    BY <2>1
<1> HIDE DEF f
<1>6. \A i \in 1..n : f[i] = IF i = 1 THEN seqs[i] ELSE f[i - 1] \o seqs[i]
  <2> HIDE DEF seqs
  <2> QED
    BY <1>0, <1>5, FlattensToIs
<1>7. 0 \in S
  <2>1. HeldUpTo(content, 0) = {}
    BY DEF HeldUpTo
  <2>2. BegunBy(spans, 0) = {}
    <3> SUFFICES ASSUME NEW i \in 1..Len(spans)
                 PROVE  ~(spans[i].from <= 0)
      BY DEF BegunBy
    <3>1. spans[i] \in Spans(content)
      BY LenProperties DEF Apart
    <3>2. spans[i].from \in 1..Len(content)
      BY <3>1, SpanIs
    <3> QED
      BY <1>0, <3>2
  <2>3. DuePlaces(content, spans, 0) = 0
    <3>1. Cardinality({}) = 0
      BY FS_EmptySet
    <3>2. Cardinality(HeldUpTo(content, 0)) = 0 /\ Cardinality(BegunBy(spans, 0)) = 0
      BY <2>1, <2>2, <3>1
    <3> QED
      BY <3>2 DEF DuePlaces
  <2>4. <<>> \in Seq(Words) /\ <<>> \in Seq(Tokens)
    OBVIOUS
  <2>5. HowMany(<<>>) = 0
    BY <2>4, NoneInTokens
  <2> QED
    BY <2>3, <2>4, <2>5
<1>8. ASSUME NEW k \in Nat, k \in S
      PROVE  k + 1 \in S
  <2> SUFFICES ASSUME k + 1 <= n
               PROVE  at(k + 1) \in Seq(Words) /\ HowMany(at(k + 1)) = DuePlaces(content, spans, k + 1)
    OBVIOUS
  <2>1. at(k) \in Seq(Words) /\ HowMany(at(k)) = DuePlaces(content, spans, k)
    BY <1>0, <1>8
  <2>2. seqs[k + 1] = Emitted(content, k + 1, Covering(spans, k + 1))
    BY <1>0
  <2> DEFINE e == Emitted(content, k + 1, Covering(spans, k + 1))
  <2>3. at(k) \o e \in Seq(Words) /\ HowMany(at(k) \o e) = DuePlaces(content, spans, k + 1)
    <3> HIDE DEF at
    <3> QED
      BY <2>1, EachIsDue
  <2> HIDE DEF seqs, e
  <2>4. at(k + 1) = at(k) \o e
    <3>1. CASE k = 0
      <4>1. at(k + 1) = seqs[1] /\ seqs[1] = e /\ at(k) = <<>>
        BY <1>0, <1>6, <2>2, <3>1 DEF e
      <4>2. <<>> \o e = e
        <5>1. e = <<>> \/ \E w : e = <<w>>
          BY DEF e, Emitted
        <5>2. CASE e = <<>>
          BY <5>2
        <5>3. ASSUME NEW w, e = <<w>>
              PROVE  <<>> \o e = e
          <6>1. e \in Seq({w})
            BY <5>3
          <6> QED
            BY <6>1, ConcatEmptySeq
        <5> QED
          BY <5>1, <5>2, <5>3
      <4> QED
        BY <4>1, <4>2
    <3>2. CASE k # 0
      <4>1. k + 1 \in 1..n /\ k + 1 # 1 /\ (k + 1) - 1 = k /\ k + 1 # 0
        BY <1>0, <3>2
      <4>2. f[k + 1] = f[k] \o seqs[k + 1]
        BY <1>6, <4>1
      <4> QED
        BY <2>2, <3>2, <4>1, <4>2 DEF e
    <3> QED
      BY <3>1, <3>2
  <2> QED
    BY <2>3, <2>4
<1> HIDE DEF S
<1>9. n \in S
  BY <1>0, <1>7, <1>8, Climb
<1>10. at(n) \in Seq(Words) /\ HowMany(at(n)) = DuePlaces(content, spans, n)
  BY <1>0, <1>9 DEF S
<1>11. HeldUpTo(content, n) = MarkersIn(content)
  BY <1>0 DEF HeldUpTo, MarkersIn
<1>12. BegunBy(spans, n) = 1..Len(spans)
  <2> SUFFICES ASSUME NEW i \in 1..Len(spans)
               PROVE  spans[i].from <= n
    BY DEF BegunBy
  <2>1. spans[i] \in Spans(content)
    BY LenProperties DEF Apart
  <2>2. spans[i].from \in 1..Len(content)
    BY <2>1, SpanIs
  <2> QED
    BY <1>0, <2>2
<1>13. Cardinality(1..Len(spans)) = Len(spans)
  <2> DEFINE l == Len(spans)
  <2>1. l \in Nat /\ 1 \in Int
    BY <1>0
  <2> HIDE DEF l
  <2>2. Cardinality(1..l) = IF 1 > l THEN 0 ELSE l - 1 + 1
    BY <2>1, FS_Interval
  <2>3. Cardinality(1..l) = l
    BY <2>1, <2>2
  <2> QED
    BY <2>3 DEF l
<1>14. DuePlaces(content, spans, n) = HowMany(content) + Len(spans)
  BY <1>11, <1>12, <1>13 DEF DuePlaces, HowMany
<1>15. Replaced(content, spans) = [line |-> FlattenSeq(seqs), count |-> Len(spans)]
  BY DEF Replaced, Covering
<1> HIDE DEF n, seqs, at
<1> QED
  BY <1>0, <1>4, <1>10, <1>14, <1>15

(* What is left of a line says how many values were replaced.              *)
LEMMA ValuesAreCounted ==
  ASSUME NEW content \in Seq(Emits), NEW code
  PROVE  LET r == RedactValues(content, code)
         IN  r.line \in Seq(Words) /\ r.count \in Nat /\ HowMany(r.line) = HowMany(content) + r.count
<1>1. Apart(Merged(content, code), content)
  BY MergedAreApart
<1> QED
  BY <1>1, ReplacedIsCounted DEF RedactValues

-----------------------------------------------------------------------------
(* What a line that is fed does to the redactor and puts out.              *)
MarkTables == UNION {[F -> Nat \ {0}] : F \in SUBSET Files}
Pendings == [kind : {"none", "withhold", "mask"}, count : Nat]
Redactors(P, B, T, W, M, N, Q) ==
  [path : P, code : B, skipping : B, open : B, touched : T, withheld : W, marks : M, inline : N, pending : Q]
RedShape == Redactors(Files \cup {NoFile}, BOOLEAN, SUBSET Files, Seq(Files), MarkTables, Int, Pendings)

HeadedAs(r, path, code, skipping, touched, pending) ==
  [r EXCEPT !.path = path, !.code = code, !.open = FALSE, !.skipping = skipping,
            !.touched = touched, !.pending = pending]
FedAs(r, open, touched, pending) == [r EXCEPT !.open = open, !.touched = touched, !.pending = pending]
SameMarks(r, red) == red.withheld = r.withheld /\ red.marks = r.marks /\ red.inline = r.inline

LEMMA RedactorHeaded ==
  ASSUME NEW r \in RedShape, NEW path \in Files \cup {NoFile}, NEW code \in BOOLEAN, NEW skipping \in BOOLEAN,
         NEW touched \in SUBSET Files, NEW pending \in Pendings
  PROVE  /\ HeadedAs(r, path, code, skipping, touched, pending) \in RedShape
         /\ HeadedAs(r, path, code, skipping, touched, pending).path = path
         /\ HeadedAs(r, path, code, skipping, touched, pending).touched = touched
         /\ HeadedAs(r, path, code, skipping, touched, pending).pending = pending
         /\ SameMarks(r, HeadedAs(r, path, code, skipping, touched, pending))
  BY DEF HeadedAs, RedShape, Redactors, SameMarks

LEMMA RedactorFed ==
  ASSUME NEW r \in RedShape, NEW open \in BOOLEAN, NEW touched \in SUBSET Files, NEW pending \in Pendings
  PROVE  /\ FedAs(r, open, touched, pending) \in RedShape
         /\ FedAs(r, open, touched, pending).path = r.path
         /\ FedAs(r, open, touched, pending).touched = touched
         /\ FedAs(r, open, touched, pending).pending = pending
         /\ SameMarks(r, FedAs(r, open, touched, pending))
  BY DEF FedAs, RedShape, Redactors, SameMarks

LEMMA RedactorIs ==
  ASSUME NEW r \in RedShape
  PROVE  /\ r.path \in Files \cup {NoFile} /\ r.touched \in SUBSET Files /\ r.withheld \in Seq(Files)
         /\ r.marks \in MarkTables /\ r.inline \in Int /\ r.pending \in Pendings /\ r.open \in BOOLEAN
         /\ r = [r EXCEPT !.touched = r.touched] /\ r = [r EXCEPT !.open = r.open]
  BY DEF RedShape, Redactors

Keeps(r, red, path) ==
  /\ red \in RedShape /\ red.path = path /\ r.touched \subseteq red.touched
  /\ SameMarks(r, red)

SaysNothingNew(fed, path) ==
  /\ fed.red.pending.kind = "none"
  /\ \/ fed.out = <<>>
     \/ \E l \in Seq(Words) : fed.out = <<l>> /\ (path \in ToSet(fed.red.withheld) \/ HowMany(l) = 0)

SaysWithheld(fed, path) ==
  /\ fed.red.pending.kind = "withhold" /\ path \in fed.red.touched
  /\ \E l \in Seq(Words) : fed.out = <<l, <<"withheld">> >> /\ HowMany(l) = 0

SaysMasked(fed, path) ==
  /\ fed.red.pending.kind = "mask" /\ fed.red.pending.count > 0 /\ path \in fed.red.touched /\ path \notin ToSet(fed.red.withheld)
  /\ \E l \in Seq(Words) : fed.out = <<l>> /\ HowMany(l) = fed.red.pending.count

SaysWhatItDid(fed, path) == SaysNothingNew(fed, path) \/ SaysWithheld(fed, path) \/ SaysMasked(fed, path)

LEMMA TokensAreWords ==
  ASSUME NEW line \in Seq(Tokens)
  PROVE  line \in Seq(Words) /\ line \in Seq(Emits) /\ HowMany(line) = 0
  BY NoneInTokens, SeqMonotonic DEF Words, Emits

LEMMA HeaderDoes ==
  ASSUME NEW r \in RedShape, NEW path \in Files, NEW line \in Lines
  PROVE  LET fed == FeedHeader(r, path, line) IN Keeps(r, fed.red, path) /\ SaysWhatItDid(fed, path)
<1> DEFINE fed == FeedHeader(r, path, line)  l == line.content  src == line.shape = "source"
           skips == line.shape = "secret"
<1>1. l \in Seq(Words) /\ HowMany(l) = 0
  <2>1. line.content \in Seq(Tokens)
    BY DEF Lines
  <2> QED
    BY <2>1, TokensAreWords
<1>2. src \in BOOLEAN /\ skips \in BOOLEAN
  OBVIOUS
<1>3. CASE line.shape = "secret"
  <2> DEFINE p == [kind |-> "withhold", count |-> 0]  t == r.touched \cup {path}
  <2>1. fed = [red |-> [r EXCEPT !.path = path, !.code = src, !.open = FALSE, !.skipping = skips,
                                !.touched = t, !.pending = p],
               out |-> <<l, <<"withheld">> >>]
    BY <1>3 DEF FeedHeader
  <2>2. p \in Pendings /\ t \in SUBSET Files
    <3>1. r.touched \in SUBSET Files
      BY RedactorIs
    <3> QED
      BY <3>1 DEF Pendings
  <2> DEFINE red == HeadedAs(r, path, src, skips, t, p)
  <2> HIDE DEF src, skips, l, p, t
  <2>8. red \in RedShape /\ red.path = path /\ red.touched = t /\ red.pending = p
        /\ SameMarks(r, red)
    BY <1>2, <2>2, RedactorHeaded
  <2>7. fed.red = red
    BY <2>1 DEF HeadedAs
  <2> HIDE DEF red
  <2>3. fed.red \in RedShape /\ fed.red.path = path /\ fed.red.touched = t /\ fed.red.pending = p
        /\ SameMarks(r, fed.red)
    BY <2>7, <2>8
  <2>4. fed.out = <<l, <<"withheld">> >>
    BY <2>1
  <2> HIDE DEF fed
  <2>5. SaysWithheld(fed, path)
    BY <1>1, <2>3, <2>4 DEF SaysWithheld, p, t
  <2>6. Keeps(r, fed.red, path)
    BY <2>3 DEF Keeps, t
  <2> QED
    BY <2>5, <2>6 DEF SaysWhatItDid, fed
<1>4. CASE line.shape # "secret"
  <2>1. fed = [red |-> [r EXCEPT !.path = path, !.code = src, !.open = FALSE, !.skipping = skips,
                                !.touched = r.touched, !.pending = NotPending],
               out |-> <<l>>]
    BY <1>4 DEF FeedHeader
  <2>2. NotPending \in Pendings /\ NotPending.kind = "none"
    BY DEF NotPending, Pendings
  <2> DEFINE red == HeadedAs(r, path, src, skips, r.touched, NotPending)
  <2> HIDE DEF src, skips, l
  <2>7. r.touched \in SUBSET Files
    BY RedactorIs
  <2>8. red \in RedShape /\ red.path = path /\ red.touched = r.touched /\ red.pending = NotPending
        /\ SameMarks(r, red)
    BY <1>2, <2>2, <2>7, RedactorHeaded
  <2>9. fed.red = red
    BY <2>1 DEF HeadedAs
  <2> HIDE DEF red
  <2>3. fed.red \in RedShape /\ fed.red.path = path /\ fed.red.touched = r.touched /\ fed.red.pending = NotPending
        /\ SameMarks(r, fed.red)
    BY <2>8, <2>9
  <2>4. fed.out = <<l>>
    BY <2>1
  <2> HIDE DEF fed
  <2>5. SaysNothingNew(fed, path)
    BY <1>1, <2>2, <2>3, <2>4 DEF SaysNothingNew
  <2>6. Keeps(r, fed.red, path)
    BY <2>3 DEF Keeps
  <2> QED
    BY <2>5, <2>6 DEF SaysWhatItDid, fed
<1> QED
  BY <1>3, <1>4

LEMMA KeysOpenOrNot ==
  ASSUME NEW content, NEW open
  PROVE  RedactKeys(content, open).open \in BOOLEAN
<1>1. Within(content).open \in BOOLEAN
  BY DEF Within
<1>2. Without(content).open \in BOOLEAN
  BY DEF Without
<1> QED
  BY <1>1, <1>2 DEF RedactKeys

LEMMA ScannedDoes ==
  ASSUME NEW r \in RedShape, NEW path \in Files, NEW line \in Lines, r.path = path, NoFile \notin Files
  PROVE  LET fed == FeedScanned(r, line) IN Keeps(r, fed.red, path) /\ SaysWhatItDid(fed, path)
<1> DEFINE fed == FeedScanned(r, line)
           keys == RedactKeys(line.content, r.open)
           code == line.shape = "body" /\ r.code
           values == RedactValues(keys.line, code)
           count == keys.count + values.count
           counts == count > 0 /\ r.path # NoFile /\ r.path \notin WithheldPaths(r)
           l == values.line
<1>1. keys.line \in Seq(Emits) /\ keys.count \in Nat /\ HowMany(keys.line) = keys.count
  <2>1. line.content \in Seq(Tokens)
    BY DEF Lines
  <2> QED
    BY <2>1, KeysAreCounted
<1>2. keys.open \in BOOLEAN
  BY KeysOpenOrNot
<1>3. fed = Counts(r, keys, values)
  BY DEF FeedScanned
<1> HIDE DEF keys, code
<1>4. values.line \in Seq(Words) /\ values.count \in Nat /\ HowMany(values.line) = HowMany(keys.line) + values.count
  BY <1>1, ValuesAreCounted
<1> HIDE DEF values
<1>5. l \in Seq(Words) /\ count \in Nat /\ HowMany(l) = count
  BY <1>1, <1>4
<1> DEFINE t == IF counts THEN r.touched \cup {path} ELSE r.touched
           p == IF counts THEN [kind |-> "mask", count |-> count] ELSE NotPending
           red == FedAs(r, keys.open, t, p)
<1>6. fed = [red |-> red, out |-> <<l>>]
  BY <1>3 DEF Counts, FedAs, RedShape, Redactors
<1>7. counts <=> count > 0 /\ path \notin ToSet(r.withheld)
  BY DEF WithheldPaths
<1> HIDE DEF count, l, counts
<1>8. p \in Pendings /\ t \in SUBSET Files /\ r.touched \subseteq t
  <2>1. r.touched \in SUBSET Files
    BY RedactorIs
  <2> QED
    BY <1>5, <2>1 DEF NotPending, Pendings
<1> HIDE DEF t, p
<1>13. red \in RedShape /\ red.path = path /\ red.touched = t /\ red.pending = p
      /\ SameMarks(r, red)
  BY <1>2, <1>8, RedactorFed
<1> HIDE DEF red
<1>9. fed.red \in RedShape /\ fed.red.path = path /\ fed.red.touched = t /\ fed.red.pending = p
      /\ SameMarks(r, fed.red) /\ fed.out = <<l>>
  BY <1>6, <1>13
<1> HIDE DEF fed
<1>10. Keeps(r, fed.red, path)
  BY <1>8, <1>9 DEF Keeps
<1>11. CASE counts
  <2>1. p.kind = "mask" /\ p.count = count /\ p.count > 0 /\ path \in t /\ path \notin ToSet(r.withheld)
    BY <1>7, <1>11 DEF p, t
  <2>2. SaysMasked(fed, path)
    BY <1>5, <1>9, <2>1 DEF SaysMasked, SameMarks
  <2> QED
    BY <1>10, <2>2 DEF SaysWhatItDid, fed
<1>12. CASE ~counts
  <2>1. p.kind = "none"
    BY <1>12 DEF p, NotPending
  <2>2. path \in ToSet(r.withheld) \/ HowMany(l) = 0
    BY <1>5, <1>7, <1>12
  <2>3. SaysNothingNew(fed, path)
    BY <1>5, <1>9, <2>1, <2>2 DEF SaysNothingNew, SameMarks
  <2> QED
    BY <1>10, <2>3 DEF SaysWhatItDid, fed
<1> QED
  BY <1>11, <1>12

LEMMA FeedDoes ==
  ASSUME NEW r \in RedShape, NEW path \in Files, NEW line \in Lines, line.shape \in Headers \/ r.path = path,
         NoFile \notin Files
  PROVE  LET fed == Feed(r, path, line) IN Keeps(r, fed.red, path) /\ SaysWhatItDid(fed, path)
<1>1. CASE line.shape \in Headers
  BY <1>1, HeaderDoes DEF Feed
<1>2. CASE line.shape \notin Headers /\ r.skipping
  <2> DEFINE fed == Feed(r, path, line)
  <2> DEFINE red == FedAs(r, r.open, r.touched, NotPending)
  <2>1. fed = [red |-> red, out |-> <<>>]
    <3>1. [r EXCEPT !.pending = NotPending] = red
      BY DEF RedShape, Redactors, FedAs
    <3> HIDE DEF red
    <3> QED
      BY <1>2, <3>1 DEF Feed
  <2>2. NotPending \in Pendings /\ NotPending.kind = "none"
    BY DEF NotPending, Pendings
  <2>3. Keeps(r, fed.red, path) /\ fed.red.pending = NotPending /\ fed.out = <<>>
    <3>1. r.open \in BOOLEAN /\ r.touched \in SUBSET Files
      BY RedactorIs
    <3>2. red \in RedShape /\ red.path = r.path /\ red.touched = r.touched /\ red.pending = NotPending
          /\ SameMarks(r, red)
      BY <2>2, <3>1, RedactorFed
    <3>3. fed.red = red /\ fed.out = <<>>
      BY <2>1
    <3> HIDE DEF red, fed
    <3> QED
      BY <1>2, <3>2, <3>3 DEF Keeps
  <2> QED
    BY <2>2, <2>3 DEF SaysWhatItDid, SaysNothingNew
<1>3. CASE line.shape \notin Headers /\ ~r.skipping /\ line.shape = "meta"
  <2> DEFINE fed == Feed(r, path, line)  l == line.content
  <2> DEFINE no == FALSE  red == FedAs(r, no, r.touched, NotPending)
  <2>1. fed = [red |-> red, out |-> <<l>>]
    <3>1. [r EXCEPT !.open = FALSE, !.pending = NotPending] = red
      BY DEF RedShape, Redactors, FedAs
    <3> HIDE DEF red
    <3> QED
      BY <1>3, <3>1 DEF Feed, FeedMeta
  <2>2. NotPending \in Pendings /\ NotPending.kind = "none"
    BY DEF NotPending, Pendings
  <2>3. Keeps(r, fed.red, path) /\ fed.red.pending = NotPending /\ fed.out = <<l>>
    <3>1. no \in BOOLEAN /\ r.touched \in SUBSET Files
      BY RedactorIs
    <3> HIDE DEF no
    <3>2. red \in RedShape /\ red.path = r.path /\ red.touched = r.touched /\ red.pending = NotPending
          /\ SameMarks(r, red)
      BY <2>2, <3>1, RedactorFed
    <3>3. fed.red = red /\ fed.out = <<l>>
      BY <2>1
    <3> HIDE DEF red, fed
    <3> QED
      BY <1>3, <3>2, <3>3 DEF Keeps
  <2>4. l \in Seq(Words) /\ HowMany(l) = 0
    <3>1. line.content \in Seq(Tokens)
      BY DEF Lines
    <3> QED
      BY <3>1, TokensAreWords
  <2> QED
    BY <2>2, <2>3, <2>4 DEF SaysWhatItDid, SaysNothingNew
<1>4. CASE line.shape \notin Headers /\ ~r.skipping /\ line.shape # "meta"
  BY <1>4, ScannedDoes DEF Feed
<1> QED
  BY <1>1, <1>2, <1>3, <1>4

-----------------------------------------------------------------------------
(* What the accumulator stored, line by line.                              *)
WithheldLine == <<"withheld">>
SentLine == [path : Files, at : Nat, line : Seq(Words) \cup {WithheldLine}]
PlacesSent(sent, files) ==
  UNION {{i} \X MarkersIn(sent[i].line) : i \in {k \in DOMAIN sent : sent[k].path \in files}}

LEMMA PlacesAre ==
  ASSUME NEW sent, NEW files
  PROVE  /\ MarkersSent(sent, files) = Cardinality(PlacesSent(sent, files))
         /\ \A p : p \in PlacesSent(sent, files) <=>
              \E i \in DOMAIN sent : sent[i].path \in files /\ p \in {i} \X MarkersIn(sent[i].line)
  BY DEF MarkersSent, PlacesSent

LEMMA WithheldLineIsNoLine ==
  /\ \A l \in Seq(Words) : l # WithheldLine
  /\ MarkersIn(WithheldLine) = {} /\ HowMany(WithheldLine) = 0
<1>1. ASSUME NEW l \in Seq(Words), l = WithheldLine
      PROVE  FALSE
  <2>1. Len(l) = 1 /\ l[1] = "withheld"
    BY <1>1 DEF WithheldLine
  <2>2. 1 \in DOMAIN l
    BY <2>1, LenProperties
  <2>3. l[1] \in Words
    BY <2>2, LenProperties
  <2> QED
    BY <2>1, <2>3, NoTokenIsMarker
<1>2. MarkersIn(WithheldLine) = {}
  BY DEF WithheldLine, MarkersIn, Markers
<1>3. HowMany(WithheldLine) = 0
  BY <1>2, FS_EmptySet DEF HowMany
<1> QED
  BY <1>1, <1>2, <1>3

LEMMA SentLineIs ==
  ASSUME NEW e \in SentLine
  PROVE  e.path \in Files /\ IsFiniteSet(MarkersIn(e.line)) /\ HowMany(e.line) \in Nat
<1>1. e.path \in Files /\ e.line \in Seq(Words) \cup {WithheldLine}
  BY DEF SentLine
<1>2. CASE e.line \in Seq(Words)
  BY <1>1, <1>2, MarkersAreFinite
<1>3. CASE e.line = WithheldLine
  BY <1>1, <1>3, WithheldLineIsNoLine, FS_EmptySet
<1> QED
  BY <1>1, <1>2, <1>3

LEMMA ApartTheyAdd ==
  ASSUME NEW a, NEW b, IsFiniteSet(a), IsFiniteSet(b), a \cap b = {}
  PROVE  IsFiniteSet(a \cup b) /\ Cardinality(a \cup b) = Cardinality(a) + Cardinality(b)
<1> DEFINE x == Cardinality(a)  y == Cardinality(b)  z == Cardinality(a \cap b)  u == Cardinality(a \cup b)
<1>1. x \in Nat /\ y \in Nat
  BY FS_CardinalityType
<1>2. z = 0
  BY FS_EmptySet
<1>3. IsFiniteSet(a \cup b) /\ u = x + y - z
  BY FS_Union
<1> HIDE DEF x, y, z, u
<1>4. u = x + y
  BY <1>1, <1>2, <1>3
<1> QED
  BY <1>3, <1>4 DEF x, y, u

LEMMA SentOneMore ==
  ASSUME NEW sent \in Seq(SentLine), NEW e \in SentLine, NEW files,
         IsFiniteSet(PlacesSent(sent, files))
  PROVE  /\ Append(sent, e) \in Seq(SentLine)
         /\ IsFiniteSet(PlacesSent(Append(sent, e), files))
         /\ e.path \notin files => PlacesSent(Append(sent, e), files) = PlacesSent(sent, files)
         /\ MarkersSent(Append(sent, e), files) =
              MarkersSent(sent, files) + IF e.path \in files THEN HowMany(e.line) ELSE 0
         /\ SentWithheld(Append(sent, e)) =
              SentWithheld(sent) \cup (IF e.line = WithheldLine THEN {e.path} ELSE {})
<1> DEFINE n == Len(sent)  s == Append(sent, e)  M == MarkersIn(e.line)
<1>1. n \in Nat /\ DOMAIN sent = 1..n
  BY LenProperties
<1>2. s \in Seq(SentLine) /\ Len(s) = n + 1 /\ s[n + 1] = e /\ \A i \in 1..n : s[i] = sent[i]
  BY <1>1, AppendProperties
<1>3. DOMAIN s = 1..(n + 1)
  BY <1>2, LenProperties
<1>4. IsFiniteSet(M) /\ Cardinality(M) \in Nat /\ HowMany(e.line) = Cardinality(M)
  BY SentLineIs DEF HowMany
<1>5. SentWithheld(s) = SentWithheld(sent) \cup (IF e.line = WithheldLine THEN {e.path} ELSE {})
  <2> HIDE DEF s, n
  <2>1. \A i \in 1..(n + 1) : i \in 1..n \/ i = n + 1
    BY <1>1
  <2>2. n + 1 \in 1..(n + 1) /\ n + 1 \notin 1..n /\ \A i \in 1..n : i \in 1..(n + 1)
    BY <1>1
  <2>3. \A p : p \in SentWithheld(s) <=> \E i \in 1..(n + 1) : s[i].line = WithheldLine /\ p = s[i].path
    BY <1>3 DEF SentWithheld, WithheldLine
  <2>4. \A p : p \in SentWithheld(sent) <=> \E i \in 1..n : sent[i].line = WithheldLine /\ p = sent[i].path
    BY <1>1 DEF SentWithheld, WithheldLine
  <2>5. ASSUME NEW p
        PROVE  p \in SentWithheld(s) <=> p \in SentWithheld(sent) \/ (e.line = WithheldLine /\ p = e.path)
    BY <1>2, <2>1, <2>2, <2>3, <2>4
  <2> QED
    BY <2>5
<1>6. IsFiniteSet(PlacesSent(sent, files)) /\ Cardinality(PlacesSent(sent, files)) \in Nat
  BY FS_CardinalityType
<1>7. CASE e.path \notin files
  <2>1. PlacesSent(s, files) = PlacesSent(sent, files)
    <3> HIDE DEF s, n
    <3>1. ASSUME NEW p
          PROVE  p \in PlacesSent(s, files) <=> p \in PlacesSent(sent, files)
      <4>1. \A i \in 1..(n + 1) : s[i].path \in files <=> i \in 1..n /\ sent[i].path \in files
        BY <1>1, <1>2, <1>7
      <4> QED
        BY <1>1, <1>2, <1>3, <4>1, PlacesAre
    <3> QED
      BY <3>1
  <2> HIDE DEF s
  <2> QED
    BY <1>2, <1>5, <1>6, <1>7, <2>1, PlacesAre DEF s
<1>8. CASE e.path \in files
  <2> DEFINE new == {n + 1} \X M  old == PlacesSent(sent, files)
  <2>1. PlacesSent(s, files) = old \cup new
    <3> HIDE DEF s, n
    <3>1. ASSUME NEW p
          PROVE  p \in PlacesSent(s, files) <=> p \in old \/ p \in new
      <4>1. \A i \in 1..(n + 1) : i \in 1..n \/ i = n + 1
        BY <1>1
      <4>2. n + 1 \in 1..(n + 1) /\ \A i \in 1..n : i \in 1..(n + 1)
        BY <1>1
      <4> QED
        BY <1>1, <1>2, <1>3, <1>8, <4>1, <4>2, PlacesAre
    <3> QED
      BY <3>1
  <2>2. old \cap new = {}
    <3> SUFFICES ASSUME NEW p \in old, p \in new
                 PROVE  FALSE
      OBVIOUS
    <3>1. PICK i \in 1..n : p \in {i} \X MarkersIn(sent[i].line)
      BY <1>1, PlacesAre
    <3>2. p[1] = i /\ p[1] = n + 1
      BY <3>1
    <3> HIDE DEF n
    <3> QED
      BY <1>1, <3>2
  <2>3. IsFiniteSet({n + 1}) /\ Cardinality({n + 1}) = 1
    BY FS_Singleton
  <2>4. IsFiniteSet(new) /\ Cardinality(new) = 1 * Cardinality(M)
    BY <1>4, <2>3, FS_Product
  <2>5. Cardinality(new) = Cardinality(M)
    BY <1>4, <2>4
  <2> HIDE DEF new, old, s, M
  <2>6. IsFiniteSet(old \cup new) /\ Cardinality(old \cup new) = Cardinality(old) + Cardinality(new)
    <3>1. IsFiniteSet(old)
      BY DEF old
    <3> QED
      BY <2>2, <2>4, <3>1, ApartTheyAdd
  <2>7. MarkersSent(s, files) = MarkersSent(sent, files) + HowMany(e.line)
    BY <1>4, <2>1, <2>5, <2>6, PlacesAre DEF old
  <2> QED
    BY <1>2, <1>5, <1>8, <2>1, <2>6, <2>7 DEF s
<1> QED
  BY <1>7, <1>8

LEMMA SentTogether ==
  ASSUME NEW sent, NEW files, NEW f, f \notin files,
         IsFiniteSet(PlacesSent(sent, files)), IsFiniteSet(PlacesSent(sent, {f}))
  PROVE  MarkersSent(sent, files \cup {f}) = MarkersSent(sent, files) + MarkersSent(sent, {f})
<1> DEFINE a == PlacesSent(sent, files)  b == PlacesSent(sent, {f})
<1>1. PlacesSent(sent, files \cup {f}) = a \cup b
  <2>1. ASSUME NEW p
        PROVE  p \in PlacesSent(sent, files \cup {f}) <=> p \in a \/ p \in b
    BY PlacesAre
  <2> QED
    BY <2>1
<1>2. a \cap b = {}
  <2> SUFFICES ASSUME NEW p \in a, p \in b
               PROVE  FALSE
    OBVIOUS
  <2>1. PICK i \in DOMAIN sent : sent[i].path \in files /\ p \in {i} \X MarkersIn(sent[i].line)
    BY PlacesAre
  <2>2. PICK j \in DOMAIN sent : sent[j].path = f /\ p \in {j} \X MarkersIn(sent[j].line)
    BY PlacesAre
  <2>3. p[1] = i /\ p[1] = j
    BY <2>1, <2>2
  <2> QED
    BY <2>1, <2>2, <2>3
<1> HIDE DEF a, b
<1>4. IsFiniteSet(a) /\ IsFiniteSet(b)
  BY DEF a, b
<1>7. Cardinality(a \cup b) = Cardinality(a) + Cardinality(b)
  BY <1>2, <1>4, ApartTheyAdd
<1> QED
  BY <1>1, <1>7, PlacesAre DEF a, b

-----------------------------------------------------------------------------
(* What the redactor says of all that was stored.                          *)
Accounts(red, sent) ==
  /\ red \in RedShape /\ sent \in Seq(SentLine) /\ IsFiniteSet(PlacesSent(sent, Files))
  /\ ToSet(red.withheld) = SentWithheld(sent)
  /\ \A f \in Files : f \notin ToSet(red.withheld) => MarkersSent(sent, {f}) = MarksOf(red, f)
  /\ ToSet(red.withheld) \cap DOMAIN red.marks = {}
  /\ red.inline = MarkersSent(sent, DOMAIN red.marks)
  /\ ToSet(red.withheld) \subseteq red.touched /\ DOMAIN red.marks \subseteq red.touched

LEMMA AccountsTheSame ==
  ASSUME NEW r, NEW sent, Accounts(r, sent), NEW red \in RedShape, SameMarks(r, red), r.touched \subseteq red.touched
  PROVE  Accounts(red, sent)
  BY DEF Accounts, SameMarks, MarksOf, MaskedPaths

LEMMA FewerPlaces ==
  ASSUME NEW sent, NEW files \in SUBSET Files, IsFiniteSet(PlacesSent(sent, Files))
  PROVE  IsFiniteSet(PlacesSent(sent, files)) /\ MarkersSent(sent, files) \in Nat
<1>1. PlacesSent(sent, files) \in SUBSET PlacesSent(sent, Files)
  <2>1. \A p : p \in PlacesSent(sent, files) => p \in PlacesSent(sent, Files)
    BY PlacesAre
  <2> QED
    BY <2>1
<1>2. IsFiniteSet(PlacesSent(sent, files))
  BY <1>1, FS_Subset
<1> QED
  BY <1>2, FS_CardinalityType, PlacesAre

LEMMA SentMore ==
  ASSUME NEW sent \in Seq(SentLine), NEW e \in SentLine, NEW files \in SUBSET Files,
         IsFiniteSet(PlacesSent(sent, Files))
  PROVE  /\ MarkersSent(sent, files) \in Nat
         /\ MarkersSent(Append(sent, e), files) =
              MarkersSent(sent, files) + IF e.path \in files THEN HowMany(e.line) ELSE 0
  BY FewerPlaces, SentOneMore

LEMMA MarksAre ==
  ASSUME NEW r \in RedShape
  PROVE  /\ DOMAIN r.marks \in SUBSET Files /\ \A f \in DOMAIN r.marks : r.marks[f] \in Nat \ {0}
         /\ \A f : MarksOf(r, f) \in Nat
<1>1. r.marks \in MarkTables
  BY RedactorIs
<1>2. DOMAIN r.marks \in SUBSET Files /\ \A f \in DOMAIN r.marks : r.marks[f] \in Nat \ {0}
  BY <1>1 DEF MarkTables
<1> QED
  BY <1>2 DEF MarksOf, MaskedPaths

LEMMA AccountsPlainly ==
  ASSUME NEW red, NEW sent, Accounts(red, sent), NEW e \in SentLine, e.line \in Seq(Words),
         e.path \in ToSet(red.withheld) \/ HowMany(e.line) = 0
  PROVE  Accounts(red, Append(sent, e))
<1> DEFINE s == Append(sent, e)
<1>1. red \in RedShape /\ sent \in Seq(SentLine) /\ IsFiniteSet(PlacesSent(sent, Files))
  BY DEF Accounts
<1>2. e.path \in Files /\ HowMany(e.line) \in Nat /\ e.line # WithheldLine
  BY SentLineIs, WithheldLineIsNoLine
<1>3. s \in Seq(SentLine) /\ IsFiniteSet(PlacesSent(s, Files)) /\ SentWithheld(s) = SentWithheld(sent)
  BY <1>1, <1>2, SentOneMore
<1>4. ASSUME NEW files \in SUBSET Files, files \cap ToSet(red.withheld) = {}
      PROVE  MarkersSent(s, files) = MarkersSent(sent, files)
  <2>1. MarkersSent(sent, files) \in Nat
        /\ MarkersSent(s, files) = MarkersSent(sent, files) + IF e.path \in files THEN HowMany(e.line) ELSE 0
    BY <1>1, SentMore
  <2>2. e.path \notin files \/ HowMany(e.line) = 0
    BY <1>4
  <2> HIDE DEF s
  <2> QED
    BY <2>1, <2>2
<1>5. \A f \in Files : f \notin ToSet(red.withheld) => MarkersSent(s, {f}) = MarksOf(red, f)
  BY <1>4 DEF Accounts
<1>6. DOMAIN red.marks \in SUBSET Files /\ DOMAIN red.marks \cap ToSet(red.withheld) = {}
  BY <1>1, MarksAre DEF Accounts
<1>7. red.inline = MarkersSent(s, DOMAIN red.marks)
  BY <1>4, <1>6 DEF Accounts
<1> HIDE DEF s
<1> QED
  BY <1>1, <1>3, <1>5, <1>7 DEF Accounts, s

(* A file is withheld.                                                     *)
LEMMA CommitsWithheld ==
  ASSUME NEW r \in RedShape, r.pending.kind = "withhold", r.path \in Files
  PROVE  LET red == CommitPending(r)
         IN  /\ red \in RedShape /\ red.touched = r.touched /\ red.path = r.path
             /\ red.withheld = Append(r.withheld, r.path) /\ red.inline = r.inline - MarksOf(r, r.path)
             /\ red.marks = [f \in DOMAIN r.marks \ {r.path} |-> r.marks[f]]
<1> DEFINE done == [r EXCEPT !.pending = NotPending]
           w == Append(r.withheld, r.path)  i == r.inline - MarksOf(r, r.path)
           m == [f \in DOMAIN r.marks \ {r.path} |-> r.marks[f]]
           red == [done EXCEPT !.withheld = w, !.inline = i, !.marks = m]
<1>1. CommitPending(r) = [done EXCEPT !.withheld = Append(@, r.path), !.inline = @ - MarksOf(r, r.path),
                                      !.marks = [f \in MaskedPaths(r) \ {r.path} |-> r.marks[f]]]
  BY DEF CommitPending
<1>2. DOMAIN r.marks \in SUBSET Files /\ \A f \in DOMAIN r.marks : r.marks[f] \in Nat \ {0}
  BY MarksAre
<1>3. MarksOf(r, r.path) \in Nat
  BY MarksAre
<1>4. w \in Seq(Files)
  <2>1. r.withheld \in Seq(Files)
    BY RedactorIs
  <2> QED
    BY <2>1, AppendProperties
<1>5. i \in Int
  <2>1. r.inline \in Int
    BY RedactorIs
  <2> QED
    BY <1>3, <2>1
<1>6. m \in MarkTables
  <2>1. m \in [DOMAIN r.marks \ {r.path} -> Nat \ {0}]
    BY <1>2
  <2> QED
    BY <1>2, <2>1 DEF MarkTables
<1>7. done.withheld = r.withheld /\ done.inline = r.inline
  BY DEF RedShape, Redactors
<1>8. CommitPending(r) = red
  <2> HIDE DEF done
  <2> QED
    BY <1>1, <1>7 DEF MaskedPaths
<1>9. NotPending \in Pendings
  BY DEF NotPending, Pendings
<1> HIDE DEF w, i, m
<1>10. red \in RedShape /\ red.touched = r.touched /\ red.path = r.path /\ red.withheld = w /\ red.inline = i
       /\ red.marks = m
  BY <1>4, <1>5, <1>6, <1>9 DEF RedShape, Redactors
<1> HIDE DEF red
<1> QED
  BY <1>8, <1>10 DEF w, i, m

LEMMA CommitsMasked ==
  ASSUME NEW r \in RedShape, r.pending.kind = "mask", r.pending.count > 0, r.path \in Files
  PROVE  LET red == CommitPending(r)
         IN  /\ red \in RedShape /\ red.touched = r.touched /\ red.path = r.path
             /\ red.withheld = r.withheld /\ red.inline = r.inline + r.pending.count
             /\ red.marks = [f \in DOMAIN r.marks \cup {r.path} |->
                               MarksOf(r, f) + IF f = r.path THEN r.pending.count ELSE 0]
<1> DEFINE done == [r EXCEPT !.pending = NotPending]
           c == r.pending.count  i == r.inline + c
           m == [f \in DOMAIN r.marks \cup {r.path} |-> MarksOf(r, f) + IF f = r.path THEN c ELSE 0]
           red == [done EXCEPT !.inline = i, !.marks = m]
<1>1. CommitPending(r) = [done EXCEPT !.inline = @ + c,
                            !.marks = [f \in MaskedPaths(r) \cup {r.path} |->
                                         MarksOf(r, f) + IF f = r.path THEN c ELSE 0]]
  BY DEF CommitPending
<1>2. DOMAIN r.marks \in SUBSET Files /\ \A f \in DOMAIN r.marks : r.marks[f] \in Nat \ {0}
  BY MarksAre
<1>3. \A f : MarksOf(r, f) \in Nat
  BY MarksAre
<1>4. c \in Nat /\ c > 0
  <2>1. r.pending \in Pendings
    BY RedactorIs
  <2> QED
    BY <2>1 DEF Pendings
<1> HIDE DEF c
<1>5. i \in Int
  <2>1. r.inline \in Int
    BY RedactorIs
  <2> QED
    BY <1>4, <2>1
<1>6. m \in MarkTables
  <2>1. \A f \in DOMAIN r.marks \cup {r.path} : MarksOf(r, f) + (IF f = r.path THEN c ELSE 0) \in Nat \ {0}
    <3> SUFFICES ASSUME NEW f \in DOMAIN r.marks \cup {r.path}
                 PROVE  MarksOf(r, f) + (IF f = r.path THEN c ELSE 0) \in Nat \ {0}
      OBVIOUS
    <3>1. MarksOf(r, f) \in Nat
      BY <1>3
    <3>2. CASE f = r.path
      BY <1>4, <3>1, <3>2
    <3>3. CASE f # r.path
      <4>1. MarksOf(r, f) \in Nat \ {0}
        BY <1>2, <3>3 DEF MarksOf, MaskedPaths
      <4> QED
        BY <3>3, <4>1
    <3> QED
      BY <3>2, <3>3
  <2>2. m \in [DOMAIN r.marks \cup {r.path} -> Nat \ {0}]
    BY <2>1
  <2>3. DOMAIN r.marks \cup {r.path} \in SUBSET Files
    BY <1>2
  <2> HIDE DEF m
  <2> QED
    BY <2>2, <2>3 DEF MarkTables
<1>7. done.inline = r.inline
  BY DEF RedShape, Redactors
<1>8. CommitPending(r) = red
  <2> HIDE DEF done
  <2> QED
    BY <1>1, <1>7 DEF MaskedPaths
<1>9. NotPending \in Pendings
  BY DEF NotPending, Pendings
<1> HIDE DEF i, m
<1>10. red \in RedShape /\ red.touched = r.touched /\ red.path = r.path /\ red.withheld = r.withheld
       /\ red.inline = i /\ red.marks = m
  BY <1>5, <1>6, <1>9 DEF RedShape, Redactors
<1> HIDE DEF red
<1> QED
  BY <1>8, <1>10 DEF i, m, c

LEMMA CommitsNothing ==
  ASSUME NEW r \in RedShape, r.pending.kind = "none"
  PROVE  LET red == CommitPending(r)
         IN  red \in RedShape /\ red.touched = r.touched /\ red.path = r.path /\ SameMarks(r, red)
<1> DEFINE red == [r EXCEPT !.pending = NotPending]
<1>1. CommitPending(r) = red
  BY DEF CommitPending
<1>2. NotPending \in Pendings
  BY DEF NotPending, Pendings
<1>3. red \in RedShape /\ red.touched = r.touched /\ red.path = r.path /\ SameMarks(r, red)
  BY <1>2 DEF RedShape, Redactors, SameMarks
<1> HIDE DEF red
<1> QED
  BY <1>1, <1>3

LEMMA LastAppended ==
  ASSUME NEW S, NEW seq \in Seq(S), NEW e \in S
  PROVE  ToSet(Append(seq, e)) = ToSet(seq) \cup {e}
<1> DEFINE n == Len(seq)  s == Append(seq, e)
<1>1. n \in Nat /\ DOMAIN seq = 1..n
  BY LenProperties
<1>2. s \in Seq(S) /\ Len(s) = n + 1 /\ s[n + 1] = e /\ \A i \in 1..n : s[i] = seq[i]
  BY <1>1, AppendProperties
<1>3. DOMAIN s = 1..(n + 1)
  BY <1>2, LenProperties
<1> HIDE DEF s, n
<1>4. \A x : x \in ToSet(s) <=> \E i \in 1..(n + 1) : x = s[i]
  BY <1>3 DEF ToSet
<1>5. \A x : x \in ToSet(seq) <=> \E i \in 1..n : x = seq[i]
  BY <1>1 DEF ToSet
<1>6. \A i \in 1..(n + 1) : i \in 1..n \/ i = n + 1
  BY <1>1
<1>7. n + 1 \in 1..(n + 1) /\ \A i \in 1..n : i \in 1..(n + 1)
  BY <1>1
<1>8. \A x : x \in ToSet(s) <=> x \in ToSet(seq) \/ x = e
  BY <1>2, <1>4, <1>5, <1>6, <1>7
<1> QED
  BY <1>8 DEF s

LEMMA AccountsWithheld ==
  ASSUME NEW r, NEW sent, Accounts(r, sent), r.pending.kind = "withhold", NEW e \in SentLine,
         r.path = e.path, e.path \in r.touched, e.line = WithheldLine
  PROVE  Accounts(CommitPending(r), Append(sent, e))
<1> DEFINE red == CommitPending(r)  s == Append(sent, e)  p == e.path  D == DOMAIN r.marks  E == D \ {p}
<1>1. r \in RedShape /\ sent \in Seq(SentLine) /\ IsFiniteSet(PlacesSent(sent, Files)) /\ p \in Files
  BY SentLineIs DEF Accounts
<1>2. red \in RedShape /\ red.touched = r.touched /\ red.withheld = Append(r.withheld, p)
      /\ red.inline = r.inline - MarksOf(r, p) /\ red.marks = [f \in E |-> r.marks[f]]
  BY <1>1, CommitsWithheld
<1>3. HowMany(e.line) = 0
  BY WithheldLineIsNoLine
<1>4. s \in Seq(SentLine) /\ IsFiniteSet(PlacesSent(s, Files)) /\ SentWithheld(s) = SentWithheld(sent) \cup {p}
  BY <1>1, SentOneMore
<1>5. ASSUME NEW files \in SUBSET Files
      PROVE  MarkersSent(s, files) = MarkersSent(sent, files) /\ MarkersSent(sent, files) \in Nat
  <2>1. MarkersSent(sent, files) \in Nat
        /\ MarkersSent(s, files) = MarkersSent(sent, files) + IF e.path \in files THEN HowMany(e.line) ELSE 0
    BY <1>1, SentMore
  <2> HIDE DEF s
  <2> QED
    BY <1>3, <2>1
<1> HIDE DEF red, s
<1>6. ToSet(red.withheld) = ToSet(r.withheld) \cup {p}
  <2>1. r.withheld \in Seq(Files)
    BY <1>1, RedactorIs
  <2> QED
    BY <1>1, <1>2, <2>1, LastAppended
<1>7. ToSet(red.withheld) = SentWithheld(s)
  BY <1>4, <1>6 DEF Accounts
<1>8. DOMAIN red.marks = E /\ \A f \in E : red.marks[f] = r.marks[f]
  BY <1>2
<1>9. \A f \in Files : f # p => MarksOf(red, f) = MarksOf(r, f)
  BY <1>8 DEF MarksOf, MaskedPaths
<1>10. \A f \in Files : f \notin ToSet(red.withheld) => MarkersSent(s, {f}) = MarksOf(red, f)
  <2> SUFFICES ASSUME NEW f \in Files, f \notin ToSet(red.withheld)
               PROVE  MarkersSent(s, {f}) = MarksOf(red, f)
    OBVIOUS
  <2>1. MarkersSent(sent, {f}) = MarksOf(r, f)
    BY <1>6 DEF Accounts
  <2> QED
    BY <1>5, <1>6, <1>9, <2>1
<1>11. D \in SUBSET Files
  BY <1>1, MarksAre
<1>12. r.inline = MarkersSent(sent, D) /\ ToSet(r.withheld) \cap D = {}
  BY DEF Accounts
<1>13. red.inline = MarkersSent(s, E)
  <2>1. MarkersSent(s, E) = MarkersSent(sent, E) /\ MarkersSent(sent, E) \in Nat
    BY <1>5, <1>11
  <2>2. CASE p \in D
    <3>1. MarksOf(r, p) = MarkersSent(sent, {p})
      BY <1>1, <1>12, <2>2 DEF Accounts
    <3>2. E \cup {p} = D /\ p \notin E
      BY <2>2
    <3>3. IsFiniteSet(PlacesSent(sent, E)) /\ IsFiniteSet(PlacesSent(sent, {p})) /\ MarkersSent(sent, {p}) \in Nat
      BY <1>1, <1>11, FewerPlaces
    <3> HIDE DEF D, E, p
    <3>4. MarkersSent(sent, D) = MarkersSent(sent, E) + MarkersSent(sent, {p})
      BY <3>2, <3>3, SentTogether
    <3> QED
      BY <1>2, <1>12, <2>1, <3>1, <3>3, <3>4
  <2>3. CASE p \notin D
    <3>1. MarksOf(r, p) = 0
      BY <2>3 DEF MarksOf, MaskedPaths
    <3>2. E = D
      BY <2>3
    <3> HIDE DEF D, E, p
    <3> QED
      BY <1>2, <1>12, <2>1, <3>1, <3>2
  <2> QED
    BY <2>2, <2>3
<1>14. ToSet(red.withheld) \subseteq red.touched /\ DOMAIN red.marks \subseteq red.touched
  BY <1>2, <1>6, <1>8 DEF Accounts
<1>15. ToSet(red.withheld) \cap DOMAIN red.marks = {}
  BY <1>6, <1>8, <1>12
<1>16. red.inline = MarkersSent(s, DOMAIN red.marks)
  BY <1>8, <1>13
<1> HIDE DEF p, D, E
<1>17. Accounts(red, s)
  BY <1>2, <1>4, <1>7, <1>10, <1>14, <1>15, <1>16 DEF Accounts
<1> QED
  BY <1>17 DEF red, s

LEMMA AccountsMasked ==
  ASSUME NEW r, NEW sent, Accounts(r, sent), r.pending.kind = "mask", r.pending.count > 0, NEW e \in SentLine,
         r.path = e.path, e.path \in r.touched, e.path \notin ToSet(r.withheld), e.line \in Seq(Words),
         HowMany(e.line) = r.pending.count
  PROVE  Accounts(CommitPending(r), Append(sent, e))
<1> DEFINE red == CommitPending(r)  s == Append(sent, e)  p == e.path  D == DOMAIN r.marks  E == D \cup {p}
           c == r.pending.count
<1>1. r \in RedShape /\ sent \in Seq(SentLine) /\ IsFiniteSet(PlacesSent(sent, Files)) /\ p \in Files
      /\ HowMany(e.line) \in Nat
  BY SentLineIs DEF Accounts
<1>2. red \in RedShape /\ red.touched = r.touched /\ red.withheld = r.withheld
      /\ red.inline = r.inline + c
      /\ red.marks = [f \in E |-> MarksOf(r, f) + IF f = p THEN c ELSE 0]
  <2>1. r.path \in Files /\ r.path = p
    BY <1>1
  <2>2. red \in RedShape /\ red.touched = r.touched /\ red.withheld = r.withheld /\ red.inline = r.inline + c
        /\ red.marks = [f \in DOMAIN r.marks \cup {r.path} |->
                          MarksOf(r, f) + IF f = r.path THEN r.pending.count ELSE 0]
    BY <1>1, <2>1, CommitsMasked
  <2> HIDE DEF red, p
  <2> QED
    BY <2>1, <2>2
<1>3. s \in Seq(SentLine) /\ IsFiniteSet(PlacesSent(s, Files)) /\ SentWithheld(s) = SentWithheld(sent)
  <2>1. e.line # WithheldLine
    BY WithheldLineIsNoLine
  <2>2. s \in Seq(SentLine) /\ IsFiniteSet(PlacesSent(s, Files))
        /\ SentWithheld(s) = SentWithheld(sent) \cup (IF e.line = WithheldLine THEN {p} ELSE {})
    BY <1>1, SentOneMore
  <2> HIDE DEF s, p
  <2>3. SentWithheld(s) = SentWithheld(sent)
    BY <2>1, <2>2
  <2> QED
    BY <2>2, <2>3
<1>4. ASSUME NEW files \in SUBSET Files
      PROVE  MarkersSent(s, files) = MarkersSent(sent, files) + (IF p \in files THEN c ELSE 0)
             /\ MarkersSent(sent, files) \in Nat
  BY <1>1, SentMore
<1>5. c \in Nat
  BY <1>1
<1> HIDE DEF red, s, c
<1>6. DOMAIN red.marks = E /\ \A f \in E : red.marks[f] = MarksOf(r, f) + IF f = p THEN c ELSE 0
  BY <1>2
<1>7. D \in SUBSET Files /\ \A f : MarksOf(r, f) \in Nat
  BY <1>1, MarksAre
<1>8. \A f \in Files : f \notin ToSet(red.withheld) => MarkersSent(s, {f}) = MarksOf(red, f)
  <2> SUFFICES ASSUME NEW f \in Files, f \notin ToSet(red.withheld)
               PROVE  MarkersSent(s, {f}) = MarksOf(red, f)
    OBVIOUS
  <2>1. MarkersSent(sent, {f}) = MarksOf(r, f)
    BY <1>2 DEF Accounts
  <2>2. MarkersSent(s, {f}) = MarkersSent(sent, {f}) + IF p \in {f} THEN c ELSE 0
    BY <1>4
  <2>3. CASE f = p
    <3>1. MarksOf(red, f) = MarksOf(r, f) + c
      BY <1>6, <2>3 DEF MarksOf, MaskedPaths
    <3>2. MarkersSent(s, {f}) = MarkersSent(sent, {f}) + c
      BY <2>2, <2>3
    <3> QED
      BY <2>1, <3>1, <3>2
  <2>4. CASE f # p
    <3>1. MarksOf(red, f) = MarksOf(r, f)
      <4>1. CASE f \in D
        <5>1. MarksOf(red, f) = MarksOf(r, f) + 0
          BY <1>6, <2>4, <4>1 DEF MarksOf, MaskedPaths
        <5> QED
          BY <1>7, <5>1
      <4>2. CASE f \notin D
        BY <1>6, <2>4, <4>2 DEF MarksOf, MaskedPaths
      <4> QED
        BY <4>1, <4>2
    <3>2. MarkersSent(s, {f}) = MarkersSent(sent, {f}) + 0
      BY <2>2, <2>4
    <3> QED
      BY <1>7, <2>1, <3>1, <3>2
  <2> QED
    BY <2>3, <2>4
<1>9. r.inline = MarkersSent(sent, D) /\ ToSet(r.withheld) \cap D = {}
  BY DEF Accounts
<1>10. red.inline = MarkersSent(s, E)
  <2>1. MarkersSent(s, E) = MarkersSent(sent, E) + c /\ MarkersSent(sent, E) \in Nat
    <3>1. E \in SUBSET Files /\ p \in E
      BY <1>1, <1>7
    <3> HIDE DEF E, D, p
    <3> QED
      BY <1>4, <3>1
  <2>2. MarkersSent(sent, E) = MarkersSent(sent, D)
    <3>1. CASE p \in D
      <4>1. E = D
        BY <3>1
      <4> QED
        BY <4>1
    <3>2. CASE p \notin D
      <4>1. MarkersSent(sent, {p}) = 0
        BY <1>1, <3>2 DEF Accounts, MarksOf, MaskedPaths
      <4>2. IsFiniteSet(PlacesSent(sent, D)) /\ IsFiniteSet(PlacesSent(sent, {p})) /\ MarkersSent(sent, D) \in Nat
        BY <1>1, <1>7, FewerPlaces
      <4>3. E = D \cup {p}
        OBVIOUS
      <4> HIDE DEF D, E, p
      <4>4. MarkersSent(sent, E) = MarkersSent(sent, D) + MarkersSent(sent, {p})
        BY <3>2, <4>2, <4>3, SentTogether
      <4> QED
        BY <4>1, <4>2, <4>4
    <3> QED
      BY <3>1, <3>2
  <2> HIDE DEF D, E, p
  <2> QED
    BY <1>2, <1>9, <2>1, <2>2
<1>11. ToSet(red.withheld) \subseteq red.touched /\ DOMAIN red.marks \subseteq red.touched
  BY <1>2, <1>6 DEF Accounts
<1>12. ToSet(red.withheld) \cap DOMAIN red.marks = {}
  BY <1>2, <1>6, <1>9
<1>13. red.inline = MarkersSent(s, DOMAIN red.marks)
  BY <1>6, <1>10
<1>14. ToSet(red.withheld) = SentWithheld(s)
  BY <1>2, <1>3 DEF Accounts
<1> HIDE DEF p, D, E
<1>15. Accounts(red, s)
  BY <1>2, <1>3, <1>8, <1>11, <1>12, <1>13, <1>14 DEF Accounts
<1> QED
  BY <1>15 DEF red, s

-----------------------------------------------------------------------------
(* The lines that fit are stored; what a redaction did counts once all of  *)
(* its lines are.                                                          *)
StoredAs(item, l) == [path |-> item.path, at |-> item.at, line |-> l]
StoredLines(item, out, q) == [k \in 1..q |-> StoredAs(item, out[k])]

StoresTheFirst(q, acc, item, fed, new) ==
  /\ acc.short # {} => q = 0
  /\ new.sent = acc.sent \o StoredLines(item, fed.out, q)
  /\ new.red = IF acc.short = {} /\ q = Len(fed.out) THEN CommitPending(fed.red) ELSE fed.red

LEMMA StoresIs ==
  ASSUME NEW S, NEW acc, NEW item, NEW fed, NEW cap \in Nat, fed.out \in Seq(S), acc.sent \in Seq(SentLine)
  PROVE  \E q \in 0..Len(fed.out) : StoresTheFirst(q, acc, item, fed, Stores(acc, item, fed, cap))
<1> DEFINE n == Len(fed.out)  room == IF acc.short = {} THEN Max({0, cap - Len(acc.sent)}) ELSE 0
           q == Min({room, n})  kept == SubSeq(fed.out, 1, q)  whole == kept = fed.out
<1>1. n \in Nat /\ Len(acc.sent) \in Nat
  BY LenProperties
<1>2. room \in Nat /\ (acc.short # {} => room = 0)
  <2> DEFINE left == cap - Len(acc.sent)
  <2>1. left \in Int
    BY <1>1
  <2> HIDE DEF left
  <2>2. Max({0, left}) = IF 0 >= left THEN 0 ELSE left
    BY <2>1, LaterOf
  <2>3. Max({0, left}) \in Nat
    BY <2>1, <2>2
  <2> QED
    BY <2>3 DEF left
<1> HIDE DEF n, room
<1>3. q \in 0..n /\ (room = 0 => q = 0)
  <2>1. {room, n} \subseteq Nat /\ {room, n} # {}
    BY <1>1, <1>2
  <2>2. q \in {room, n} /\ \A k \in {room, n} : q <= k
    BY <2>1, LeastIsLeast
  <2> HIDE DEF q
  <2> QED
    BY <1>1, <1>2, <2>2
<1> HIDE DEF q
<1>4. \A k \in 1..q : fed.out[k] \in S
  BY <1>1, <1>3, LenProperties DEF n
<1>5. q \in Nat
  BY <1>1, <1>3
<1>6. kept \in Seq(S)
  BY <1>4, <1>5, SubSeqProperties
<1>7. Len(kept) = q
  BY <1>4, <1>5, SubSeqProperties
<1>8. \A k \in 1..q : kept[k] = fed.out[k]
  BY <1>4, <1>5, SubSeqProperties
<1>9. DOMAIN kept = 1..q
  BY <1>6, <1>7, LenProperties
<1>10. Stores(acc, item, fed, cap) =
         [red |-> IF acc.short = {} /\ whole THEN CommitPending(fed.red) ELSE fed.red,
          sent |-> acc.sent \o [k \in DOMAIN kept |-> [path |-> item.path, at |-> item.at, line |-> kept[k]]],
          fed |-> acc.fed \cup {item.path},
          short |-> IF whole THEN acc.short ELSE acc.short \cup {item.path}]
  BY DEF Stores, room, q, n
<1> HIDE DEF kept
<1>11. whole <=> q = n
  <2>1. whole => q = n
    BY <1>7 DEF n
  <2>2. ASSUME q = n
        PROVE  whole
    <3>1. Len(kept) = Len(fed.out) /\ \A k \in 1..Len(kept) : kept[k] = fed.out[k]
      BY <1>7, <1>8, <2>2 DEF n
    <3> QED
      BY <1>6, <3>1, SeqEqual
  <2> QED
    BY <2>1, <2>2
<1> DEFINE lines == [k \in DOMAIN kept |-> [path |-> item.path, at |-> item.at, line |-> kept[k]]]
<1>12. lines = StoredLines(item, fed.out, q)
  <2>1. [k \in DOMAIN kept |-> [path |-> item.path, at |-> item.at, line |-> kept[k]]]
        = [k \in 1..q |-> StoredAs(item, kept[k])]
    BY <1>9 DEF StoredAs
  <2>2. \A k \in 1..q : StoredAs(item, kept[k]) = StoredAs(item, fed.out[k])
    BY <1>8
  <2>3. [k \in 1..q |-> StoredAs(item, kept[k])] = [k \in 1..q |-> StoredAs(item, fed.out[k])]
    BY <2>2
  <2> QED
    BY <2>1, <2>3 DEF StoredLines
<1>13. Stores(acc, item, fed, cap).sent = acc.sent \o StoredLines(item, fed.out, q)
  <2>1. Stores(acc, item, fed, cap).sent = acc.sent \o lines
    BY <1>10
  <2> HIDE DEF lines
  <2> QED
    BY <1>12, <2>1
<1>14. Stores(acc, item, fed, cap).red = IF acc.short = {} /\ q = n THEN CommitPending(fed.red) ELSE fed.red
  BY <1>10, <1>11
<1> HIDE DEF whole
<1>15. StoresTheFirst(q, acc, item, fed, Stores(acc, item, fed, cap))
  BY <1>2, <1>3, <1>13, <1>14 DEF n, StoresTheFirst
<1> QED
  BY <1>3, <1>15 DEF n

LEMMA StoredNone ==
  ASSUME NEW sent \in Seq(SentLine), NEW item, NEW out
  PROVE  sent \o StoredLines(item, out, 0) = sent
<1>1. StoredLines(item, out, 0) = <<>>
  BY DEF StoredLines
<1> QED
  BY <1>1, ConcatEmptySeq

LEMMA StoredOne ==
  ASSUME NEW sent \in Seq(SentLine), NEW item, NEW out, StoredAs(item, out[1]) \in SentLine
  PROVE  sent \o StoredLines(item, out, 1) = Append(sent, StoredAs(item, out[1]))
<1> DEFINE e == StoredAs(item, out[1])
<1>1. StoredLines(item, out, 1) = <<e>>
  BY DEF StoredLines
<1> HIDE DEF e
<1>2. sent \o <<e>> = Append(sent, e)
  BY AppendIsConcat DEF e
<1> QED
  BY <1>1, <1>2 DEF e

LEMMA StoredTwo ==
  ASSUME NEW sent \in Seq(SentLine), NEW item, NEW out,
         StoredAs(item, out[1]) \in SentLine, StoredAs(item, out[2]) \in SentLine
  PROVE  sent \o StoredLines(item, out, 2) = Append(Append(sent, StoredAs(item, out[1])), StoredAs(item, out[2]))
<1> DEFINE e == StoredAs(item, out[1])  g == StoredAs(item, out[2])
<1>1. StoredLines(item, out, 2) = <<e, g>>
  BY DEF StoredLines
<1> HIDE DEF e, g
<1>2. e \in SentLine /\ g \in SentLine
  BY DEF e, g
<1>3. sent \o <<e, g>> = Append(Append(sent, e), g)
  BY <1>2
<1> QED
  BY <1>1, <1>3 DEF e, g

AccountsOf(acc) == Accounts(acc.red, acc.sent)
OnFile(acc, f) == acc.red.path = f

LEMMA FeedAccounts ==
  ASSUME NEW acc, AccountsOf(acc), NEW item, NEW cap \in Nat, NoFile \notin Files,
         item.path \in Files, item.at \in Nat, item.line \in Lines,
         item.line.shape \in Headers \/ OnFile(acc, item.path)
  PROVE  AccountsOf(FeedAccumulator(acc, item, cap)) /\ OnFile(FeedAccumulator(acc, item, cap), item.path)
<1> DEFINE p == item.path  fed == Feed(acc.red, p, item.line)  out == fed.out  sent == acc.sent  r == fed.red
           new == Stores(acc, item, fed, cap)
           Good(a) == AccountsOf(a) /\ OnFile(a, p)
<1>1. FeedAccumulator(acc, item, cap) = new
  BY DEF FeedAccumulator
<1> SUFFICES Good(new)
  BY <1>1
<1>2. acc.red \in RedShape /\ sent \in Seq(SentLine) /\ Accounts(acc.red, sent)
  BY DEF AccountsOf, Accounts
<1>3. Keeps(acc.red, r, p) /\ SaysWhatItDid(fed, p)
  BY <1>2, FeedDoes DEF OnFile
<1> HIDE DEF fed
<1>4. r \in RedShape /\ r.path = p /\ Accounts(r, sent)
  <2>1. r \in RedShape /\ r.path = p /\ acc.red.touched \subseteq r.touched /\ SameMarks(acc.red, r)
    BY <1>3 DEF Keeps
  <2> QED
    BY <1>2, <2>1, AccountsTheSame
<1>5. \A l \in Seq(Words) : /\ StoredAs(item, l) \in SentLine /\ StoredAs(item, l).path = p
                            /\ StoredAs(item, l).line = l
  BY DEF StoredAs, SentLine
<1>6. StoredAs(item, WithheldLine) \in SentLine /\ StoredAs(item, WithheldLine).path = p
      /\ StoredAs(item, WithheldLine).line = WithheldLine
  BY DEF StoredAs, SentLine
<1>11. ASSUME NEW S, out \in Seq(S)
       PROVE  \E q \in 0..Len(out) :
                /\ acc.short # {} => q = 0
                /\ new.sent = sent \o StoredLines(item, out, q)
                /\ new.red = IF acc.short = {} /\ q = Len(out) THEN CommitPending(r) ELSE r
  <2>1. fed.out \in Seq(S) /\ acc.sent \in Seq(SentLine)
    BY <1>2, <1>11
  <2> HIDE DEF out, sent, r, new
  <2>2. \E q \in 0..Len(fed.out) : StoresTheFirst(q, acc, item, fed, Stores(acc, item, fed, cap))
    BY <2>1, StoresIs
  <2> QED
    BY <2>2 DEF out, sent, r, new, StoresTheFirst
<1>12. sent \in Seq(SentLine)
  BY <1>2
<1> HIDE DEF new, out, r, sent
<1>7. ASSUME new.red = r, new.sent = sent
      PROVE  Good(new)
  BY <1>4, <1>7 DEF AccountsOf, OnFile
<1>8. CASE SaysNothingNew(fed, p)
  <2>1. PICK outs : out \in Seq(outs)
    <3>1. out = <<>> \/ \E l : out = <<l>>
      BY <1>8 DEF SaysNothingNew, out, r
    <3>2. CASE out = <<>>
      <4>1. out \in Seq({})
        BY <3>2
      <4> QED
        BY <4>1
    <3>3. ASSUME NEW l, out = <<l>>
          PROVE  \E outs : out \in Seq(outs)
      <4>1. out \in Seq({l})
        BY <3>3
      <4> QED
        BY <4>1
    <3> QED
      BY <3>1, <3>2, <3>3
  <2>2. PICK q \in 0..Len(out) : /\ new.sent = sent \o StoredLines(item, out, q)
                                 /\ new.red = IF acc.short = {} /\ q = Len(out) THEN CommitPending(r) ELSE r
    BY <1>11, <2>1
  <2> DEFINE c == CommitPending(r)
  <2>3. c \in RedShape /\ c.path = p /\ Accounts(c, sent) /\ c.withheld = r.withheld
    <3>1. c \in RedShape /\ c.touched = r.touched /\ c.path = r.path /\ SameMarks(r, c)
      BY <1>4, <1>8, CommitsNothing DEF SaysNothingNew, out, r
    <3> HIDE DEF c
    <3>2. r.touched \subseteq c.touched
      BY <3>1
    <3>3. Accounts(c, sent)
      BY <1>4, <3>1, <3>2, AccountsTheSame
    <3> QED
      BY <1>4, <3>1, <3>3 DEF SameMarks
  <2>4. new.red \in {r, c}
    BY <2>2
  <2> HIDE DEF c
  <2>5. new.red.path = p /\ Accounts(new.red, sent) /\ new.red.withheld = r.withheld
    BY <1>4, <2>3, <2>4
  <2>6. CASE q = 0
    <3>1. new.sent = sent
      BY <1>12, <2>2, <2>6, StoredNone
    <3> QED
      BY <2>5, <3>1 DEF AccountsOf, OnFile
  <2>7. CASE q # 0
    <3>1. PICK l \in Seq(Words) : out = <<l>> /\ (p \in ToSet(r.withheld) \/ HowMany(l) = 0)
      BY <1>8, <2>2, <2>7 DEF SaysNothingNew, out, r
    <3>2. q = 1 /\ out[1] = l
      BY <2>2, <2>7, <3>1
    <3> DEFINE e == StoredAs(item, l)
    <3>3. new.sent = Append(sent, e)
      <4>1. StoredAs(item, out[1]) \in SentLine
        BY <1>5, <3>2
      <4> QED
        BY <1>12, <2>2, <3>2, <4>1, StoredOne
    <3>4. e \in SentLine /\ e.path = p /\ e.line = l
      BY <1>5
    <3> HIDE DEF e
    <3>5. Accounts(new.red, Append(sent, e))
      <4>1. e.path \in ToSet(new.red.withheld) \/ HowMany(e.line) = 0
        BY <2>5, <3>1, <3>4
      <4> QED
        BY <2>5, <3>4, <4>1, AccountsPlainly
    <3> QED
      BY <2>5, <3>3, <3>5 DEF AccountsOf, OnFile
  <2> QED
    BY <2>6, <2>7
<1>9. CASE SaysWithheld(fed, p)
  <2>1. PICK l \in Seq(Words) : out = <<l, WithheldLine>> /\ HowMany(l) = 0
    BY <1>9 DEF SaysWithheld, out, r, WithheldLine
  <2>2. out \in Seq({l, WithheldLine}) /\ Len(out) = 2 /\ out[1] = l /\ out[2] = WithheldLine
    BY <2>1
  <2>3. PICK q \in 0..Len(out) :
          /\ acc.short # {} => q = 0
          /\ new.sent = sent \o StoredLines(item, out, q)
          /\ new.red = IF acc.short = {} /\ q = Len(out) THEN CommitPending(r) ELSE r
    BY <1>11, <2>2
  <2> DEFINE e == StoredAs(item, l)  w == StoredAs(item, WithheldLine)
  <2>4. e \in SentLine /\ e.path = p /\ e.line = l /\ w \in SentLine /\ w.path = p /\ w.line = WithheldLine
    BY <1>5, <1>6
  <2>5. Accounts(r, Append(sent, e))
    <3> HIDE DEF e, w
    <3> QED
      BY <1>4, <2>1, <2>4, AccountsPlainly
  <2>6. CASE q = 0
    <3>1. new.sent = sent
      BY <1>12, <2>3, <2>6, StoredNone
    <3>2. new.red = r
      BY <2>2, <2>3, <2>6
    <3> QED
      BY <1>7, <3>1, <3>2
  <2>7. CASE q = 1
    <3>1. new.sent = Append(sent, e)
      BY <1>12, <2>2, <2>3, <2>4, <2>7, StoredOne
    <3>2. new.red = r
      BY <2>2, <2>3, <2>7
    <3> HIDE DEF e
    <3> QED
      BY <1>4, <2>5, <3>1, <3>2 DEF AccountsOf, OnFile
  <2>8. CASE q = 2
    <3>1. new.sent = Append(Append(sent, e), w)
      BY <1>12, <2>2, <2>3, <2>4, <2>8, StoredTwo
    <3>2. new.red = CommitPending(r)
      BY <2>2, <2>3, <2>8
    <3>3. r.pending.kind = "withhold" /\ p \in r.touched
      BY <1>9 DEF SaysWithheld, out, r
    <3> HIDE DEF e, w
    <3>4. Accounts(CommitPending(r), Append(Append(sent, e), w))
      BY <1>4, <2>4, <2>5, <3>3, AccountsWithheld
    <3>5. CommitPending(r).path = p
      BY <1>4, <3>3, CommitsWithheld
    <3> QED
      BY <3>1, <3>2, <3>4, <3>5 DEF AccountsOf, OnFile
  <2> QED
    BY <2>2, <2>3, <2>6, <2>7, <2>8
<1>10. CASE SaysMasked(fed, p)
  <2>1. PICK l \in Seq(Words) : out = <<l>> /\ HowMany(l) = r.pending.count
    BY <1>10 DEF SaysMasked, out, r
  <2>2. out \in Seq({l}) /\ Len(out) = 1 /\ out[1] = l
    BY <2>1
  <2>3. PICK q \in 0..Len(out) :
          /\ acc.short # {} => q = 0
          /\ new.sent = sent \o StoredLines(item, out, q)
          /\ new.red = IF acc.short = {} /\ q = Len(out) THEN CommitPending(r) ELSE r
    BY <1>11, <2>2
  <2> DEFINE e == StoredAs(item, l)
  <2>4. e \in SentLine /\ e.path = p /\ e.line = l
    BY <1>5
  <2>5. CASE q = 0
    <3>1. new.sent = sent
      BY <1>12, <2>3, <2>5, StoredNone
    <3>2. new.red = r
      BY <2>2, <2>3, <2>5
    <3> QED
      BY <1>7, <3>1, <3>2
  <2>6. CASE q = 1
    <3>1. new.sent = Append(sent, e)
      BY <1>12, <2>2, <2>3, <2>4, <2>6, StoredOne
    <3>2. new.red = CommitPending(r)
      BY <2>2, <2>3, <2>6
    <3>3. r.pending.kind = "mask" /\ r.pending.count > 0 /\ p \in r.touched /\ p \notin ToSet(r.withheld)
      BY <1>10 DEF SaysMasked, out, r
    <3> HIDE DEF e
    <3>4. Accounts(CommitPending(r), Append(sent, e))
      BY <1>4, <2>1, <2>4, <3>3, AccountsMasked
    <3>5. CommitPending(r).path = p
      BY <1>4, <3>3, CommitsMasked
    <3> QED
      BY <3>1, <3>2, <3>4, <3>5 DEF AccountsOf, OnFile
  <2> QED
    BY <2>2, <2>3, <2>5, <2>6
<1> QED
  BY <1>3, <1>8, <1>9, <1>10 DEF SaysWhatItDid

LEMMA PatchLines ==
  ASSUME NEW request \in RunSpec, NEW file \in Files, NEW n \in 1..Len(PatchOf(request, file))
  PROVE  LET item == PatchOf(request, file)[n]
         IN  item.path = file /\ item.at \in Nat /\ item.line \in Lines /\ (n = 1 => item.line.shape \in Headers)
<1> DEFINE text == request.text[file]  item == PatchOf(request, file)[n]
<1>1. text \in Seq(Lines)
  BY DEF RunSpec
<1> HIDE DEF text
<1>2. Len(text) \in Nat
  BY <1>1, LenProperties
<1>3. PatchOf(request, file) =
        [k \in 1..(1 + Len(text)) |->
           [path |-> file, at |-> k - 1, line |-> IF k = 1 THEN HeaderOf(request, file) ELSE text[k - 1]]]
  BY DEF PatchOf, text
<1>4. n \in 1..(1 + Len(text))
  BY <1>2, <1>3
<1>5. item = [path |-> file, at |-> n - 1, line |-> IF n = 1 THEN HeaderOf(request, file) ELSE text[n - 1]]
  BY <1>3, <1>4
<1>6. HeaderOf(request, file) \in Lines /\ HeaderOf(request, file).shape \in Headers
  <2>1. PICK shape \in Headers : HeaderOf(request, file) = [shape |-> shape, content |-> <<>>]
    BY DEF HeaderOf, LineOf, Headers
  <2>2. <<>> \in Seq(Tokens)
    OBVIOUS
  <2> QED
    BY <2>1, <2>2 DEF Lines, Shapes
<1>7. n # 1 => text[n - 1] \in Lines
  <2>1. n # 1 => n - 1 \in 1..Len(text)
    BY <1>2, <1>4
  <2> QED
    BY <1>1, <2>1, LenProperties
<1> HIDE DEF item
<1>8. item.path = file /\ item.at \in Nat /\ item.line \in Lines /\ (n = 1 => item.line.shape \in Headers)
  BY <1>2, <1>4, <1>5, <1>6, <1>7
<1> QED
  BY <1>8 DEF item

LEMMA FileAccounts ==
  ASSUME NEW request \in RunSpec, NEW acc, AccountsOf(acc), NEW file \in Files
  PROVE  AccountsOf(FedFile(request, acc, file))
<1> DEFINE patch == PatchOf(request, file)
           m == Len(patch)
           f == CHOOSE g : FeedsLines(g, request, acc, patch, m)
           S == {n \in Nat : n <= m => AccountsOf(f[n]) /\ (n # 0 => OnFile(f[n], file))}
<1>1. m \in Nat
  <2>1. Len(request.text[file]) \in Nat
    BY DEF RunSpec
  <2>2. Len(patch) = 1 + Len(request.text[file])
    BY <2>1 DEF PatchOf
  <2> QED
    BY <2>1, <2>2
<1>2. \A n \in 1..m : /\ patch[n].path = file /\ patch[n].at \in Nat /\ patch[n].line \in Lines
                      /\ (n = 1 => patch[n].line.shape \in Headers)
  BY PatchLines
<1> HIDE DEF patch
<1>3. FedFile(request, acc, file) = f[m]
  BY DEF FedFile, FeedsLines, patch
<1> HIDE DEF m
<1>4. FeedsLines(f, request, acc, patch, m)
  BY <1>1, LinesCanBeFed
<1> HIDE DEF f
<1>5. \A n \in 0..m : f[n] = IF n = 0 THEN acc ELSE FeedAccumulator(f[n - 1], patch[n], request.cap)
  BY <1>1, <1>4, FeedsLinesIs
<1>6. request.cap \in Nat /\ NoFile \notin Files
  BY RequestAssumption DEF RunSpec
<1>7. 0 \in S
  BY <1>1, <1>5
<1>8. ASSUME NEW n \in Nat, n \in S
      PROVE  n + 1 \in S
  <2> SUFFICES ASSUME n + 1 <= m
               PROVE  AccountsOf(f[n + 1]) /\ OnFile(f[n + 1], file)
    OBVIOUS
  <2>1. n + 1 \in 1..m /\ n <= m /\ n + 1 \in 0..m /\ (n + 1) - 1 = n /\ n + 1 # 0 /\ (n + 1 = 1 <=> n = 0)
    BY <1>1
  <2>2. f[n + 1] = FeedAccumulator(f[n], patch[n + 1], request.cap)
    BY <1>5, <2>1
  <2>3. AccountsOf(f[n]) /\ (n # 0 => OnFile(f[n], file))
    BY <1>8, <2>1
  <2> DEFINE item == patch[n + 1]
  <2>4. item.path = file /\ item.at \in Nat /\ item.line \in Lines /\ (n = 0 => item.line.shape \in Headers)
    BY <1>2, <2>1
  <2> HIDE DEF item, S
  <2>5. AccountsOf(FeedAccumulator(f[n], item, request.cap)) /\ OnFile(FeedAccumulator(f[n], item, request.cap), item.path)
    BY <1>6, <2>3, <2>4, FeedAccounts
  <2> QED
    BY <2>2, <2>4, <2>5 DEF item
<1> HIDE DEF S
<1>9. m \in S
  BY <1>1, <1>7, <1>8, Climb
<1> QED
  BY <1>1, <1>3, <1>9 DEF S

LEMMA FilesAccount ==
  ASSUME NEW request \in RunSpec, NEW acc, AccountsOf(acc), NEW files \in SUBSET Files
  PROVE  AccountsOf(FedFiles(request, acc, files))
<1> DEFINE order == SetToSeq(files)
           m == Cardinality(files)
           f == CHOOSE g : FeedsFiles(g, request, acc, order, m)
           S == {n \in Nat : n <= m => AccountsOf(f[n])}
<1>1. IsFiniteSet(files)
  BY RequestAssumption, FS_Subset
<1>2. m \in Nat /\ order \in [1..m -> files]
  BY <1>1, OrderNamesAll
<1>3. FedFiles(request, acc, files) = f[m]
  BY DEF FedFiles, FeedsFiles
<1> HIDE DEF order, m
<1>4. FeedsFiles(f, request, acc, order, m)
  BY <1>2, FilesCanBeFed
<1> HIDE DEF f
<1>5. \A n \in 0..m : f[n] = IF n = 0 THEN acc ELSE FedFile(request, f[n - 1], order[n])
  BY <1>2, <1>4, FeedsFilesIs
<1>6. 0 \in S
  BY <1>2, <1>5
<1>7. ASSUME NEW n \in Nat, n \in S
      PROVE  n + 1 \in S
  <2> SUFFICES ASSUME n + 1 <= m
               PROVE  AccountsOf(f[n + 1])
    OBVIOUS
  <2>1. n + 1 \in 1..m /\ n <= m /\ n + 1 \in 0..m /\ (n + 1) - 1 = n /\ n + 1 # 0
    BY <1>2
  <2>2. f[n + 1] = FedFile(request, f[n], order[n + 1])
    BY <1>5, <2>1
  <2>3. AccountsOf(f[n]) /\ order[n + 1] \in Files
    BY <1>2, <1>7, <2>1
  <2> QED
    BY <2>2, <2>3, FileAccounts
<1> HIDE DEF S
<1>8. m \in S
  BY <1>2, <1>6, <1>7, Climb
<1> QED
  BY <1>2, <1>3, <1>8 DEF S

LEMMA NothingToAccount == AccountsOf(NewAccumulator)
<1> DEFINE r == NewRedactor
<1>1. NewAccumulator.red = r /\ NewAccumulator.sent = <<>>
  BY DEF NewAccumulator
<1>2. r.withheld = <<>> /\ DOMAIN r.marks = {} /\ r.inline = 0 /\ \A f : MarksOf(r, f) = 0
  BY DEF NewRedactor, MarksOf, MaskedPaths
<1>3. r \in RedShape
  <2>1. [f \in {} |-> 0] \in MarkTables
    <3>1. [f \in {} |-> 0] \in [{} -> Nat \ {0}]
      OBVIOUS
    <3> QED
      BY <3>1 DEF MarkTables
  <2>2. NotPending \in Pendings
    BY DEF NotPending, Pendings
  <2>3. <<>> \in Seq(Files) /\ {} \in SUBSET Files
    OBVIOUS
  <2> DEFINE marks == [f \in {} |-> 0]
  <2>4. r = [path |-> NoFile, code |-> FALSE, skipping |-> FALSE, open |-> FALSE, touched |-> {},
             withheld |-> <<>>, marks |-> marks, inline |-> 0, pending |-> NotPending]
    BY DEF NewRedactor
  <2>5. marks \in MarkTables
    BY <2>1
  <2> HIDE DEF r, marks
  <2> QED
    BY <2>2, <2>3, <2>4, <2>5 DEF RedShape, Redactors
<1>4. <<>> \in Seq(SentLine)
  OBVIOUS
<1>5. \A files : PlacesSent(<<>>, files) = {}
  <2> SUFFICES ASSUME NEW files, NEW p \in PlacesSent(<<>>, files)
               PROVE  FALSE
    OBVIOUS
  <2> QED
    BY PlacesAre
<1>6. Cardinality({}) = 0 /\ IsFiniteSet({})
  BY FS_EmptySet
<1>7. \A files : MarkersSent(<<>>, files) = 0 /\ IsFiniteSet(PlacesSent(<<>>, files))
  BY <1>5, <1>6, PlacesAre
<1>8. SentWithheld(<<>>) = {} /\ ToSet(<<>>) = {}
  BY DEF SentWithheld, ToSet
<1> HIDE DEF r
<1>9. Accounts(r, <<>>)
  BY <1>2, <1>3, <1>4, <1>7, <1>8 DEF Accounts
<1> QED
  BY <1>1, <1>9 DEF AccountsOf

(* What a gather says of its redaction, as it goes on.                     *)
DisclosedInv == AccountsOf(gather.diff)

LEMMA GatherDiscloses ==
  ASSUME DisclosedInv, GatherShaped, spec \in RunSpec, Gather
  PROVE  DisclosedInv'
<1>1. ASSUME gather'.diff = gather.diff
      PROVE  DisclosedInv'
  BY <1>1 DEF DisclosedInv
<1>2. ASSUME NEW files \in SUBSET Files, gather'.diff = FedFiles(spec, gather.diff, files)
      PROVE  DisclosedInv'
  <2> DEFINE d == FedFiles(spec, gather.diff, files)
  <2>1. AccountsOf(d)
    BY FilesAccount DEF DisclosedInv
  <2> HIDE DEF d
  <2>2. gather'.diff = d
    BY <1>2 DEF d
  <2> QED
    BY <2>1, <2>2 DEF DisclosedInv
<1>3. ASSUME NEW code, GatherFails(code)
      PROVE  DisclosedInv'
  BY <1>1, <1>3 DEF GatherFails, GatherShaped
<1>4. CASE GitBreaks
  BY <1>3, <1>4 DEF GitBreaks
<1>5. CASE Pin
  <2>1. ASSUME NEW stage, NEW from, gather' = [gather EXCEPT !.at = stage, !.from = from, !.to = head]
        PROVE  DisclosedInv'
    BY <1>1, <2>1 DEF GatherShaped
  <2> QED
    BY <1>3, <1>4, <1>5, <2>1 DEF Pin
<1>6. CASE Mark
  <2>1. CASE gather' = [gather EXCEPT !.at = "counting", !.token = Token]
    BY <1>1, <2>1 DEF GatherShaped
  <2> QED
    BY <1>4, <1>6, <2>1 DEF Mark
<1>7. CASE Summary
  <2>1. CASE gather' = [gather EXCEPT !.at = "reading", !.summary = Patch]
    BY <1>1, <2>1 DEF GatherShaped
  <2> QED
    BY <1>4, <1>7, <2>1 DEF Summary
<1>8. CASE Read
  <2>1. ASSUME NEW stage, gather' = [Fed(Patch) EXCEPT !.at = stage]
        PROVE  DisclosedInv'
    <3>1. gather'.diff = FedFiles(spec, gather.diff, Patch)
      BY <2>1 DEF GatherShaped, Fed
    <3>2. Patch \in SUBSET Files
      BY DEF Patch, Differing
    <3> QED
      BY <1>2, <3>1, <3>2
  <2> QED
    BY <1>4, <1>8, <2>1 DEF Read
<1>9. CASE List
  <2>1. CASE gather' = [Fed(NewInScope) EXCEPT !.at = "remarking", !.summary = @ \cup NewInScope,
                          !.detected = Cardinality(NewInScope),
                          !.included = Cardinality(NewInScope)]
    <3>1. gather'.diff = FedFiles(spec, gather.diff, NewInScope)
      BY <2>1 DEF GatherShaped, Fed
    <3>2. NewInScope \in SUBSET Files
      BY ScopeIsFiles DEF NewInScope
    <3> QED
      BY <1>2, <3>1, <3>2
  <2>2. CASE gather' = [gather EXCEPT !.at = "remarking", !.detected = Cardinality(NewInScope)]
    BY <1>1, <2>2 DEF GatherShaped
  <2> QED
    BY <1>4, <1>9, <2>1, <2>2 DEF List
<1>10. CASE Remark
  <2>1. CASE gather' = [gather EXCEPT !.at = "rechecking", !.moved = Token # gather.token,
                          !.owed = Owed]
    BY <1>1, <2>1 DEF GatherShaped
  <2> QED
    BY <1>4, <1>10, <2>1 DEF Remark
<1>11. CASE Recheck
  <2>1. CASE gather' = [gather EXCEPT !.at = "done", !.moved = @ \/ head # gather.from,
                          !.until = moves]
    BY <1>1, <2>1 DEF GatherShaped
  <2> QED
    BY <1>4, <1>11, <2>1 DEF Recheck
<1> QED
  BY <1>5, <1>6, <1>7, <1>8, <1>9, <1>10, <1>11 DEF Gather

LEMMA DisclosedNext == DisclosedInv /\ AnswerInv /\ [Next]_vars => DisclosedInv'
<1> SUFFICES ASSUME DisclosedInv, AnswerInv, [Next]_vars
             PROVE  DisclosedInv'
  OBVIOUS
<1>1. CASE UNCHANGED gather
  BY <1>1 DEF DisclosedInv
<1>2. CASE UNCHANGED vars \/ Preflight \/ EnsureRepo \/ Plan \/ Count \/ SelectSite \/ EnterSite \/ Launch
           \/ AgentActs \/ BackendEnds \/ CancelLands \/ Fold \/ Capture \/ Leave \/ Cancel \/ Kill \/ Finished
           \/ UserActs
  <2>1. UNCHANGED gather
    BY <1>2 DEF vars, Preflight, EnsureRepo, Plan, Count, SelectSite, EnterSite, Launch, AgentActs, BackendEnds,
                CancelLands, Fold, Capture, Leave, Cancel, Kill, Finished, UserActs
  <2> QED
    BY <1>1, <2>1
<1>3. CASE Compose
  <2>1. CASE gather' = NoGather
    <3>1. gather'.diff = NewAccumulator
      BY <2>1 DEF NoGather
    <3> QED
      BY <3>1, NothingToAccount DEF DisclosedInv
  <2>2. CASE Gather
    BY <2>2, GatherDiscloses DEF AnswerInv
  <2>3. CASE gather' = [gather EXCEPT !.at = "pinning", !.since = moves]
    <3>1. gather'.diff = gather.diff
      BY <2>3 DEF AnswerInv, GatherShaped
    <3> QED
      BY <3>1 DEF DisclosedInv
  <2> QED
    BY <1>1, <1>3, <2>1, <2>2, <2>3 DEF Compose
<1> QED
  BY <1>2, <1>3 DEF Next

LEMMA DisclosedInit == Init => DisclosedInv
<1> SUFFICES ASSUME Init PROVE DisclosedInv
  OBVIOUS
<1>1. gather.diff = NewAccumulator
  BY DEF Init, NoGather
<1> QED
  BY <1>1, NothingToAccount DEF DisclosedInv

LEMMA AccountsSay ==
  ASSUME NEW r, NEW s, Accounts(r, s)
  PROVE  /\ WithheldPaths(r) = SentWithheld(s)
         /\ MaskedPaths(r) = {f \in Files : MarkersSent(s, {f}) > 0} \ SentWithheld(s)
         /\ r.inline = MarkersSent(s, MaskedPaths(r))
         /\ WithheldPaths(r) \cup MaskedPaths(r) \subseteq r.touched
<1>1. WithheldPaths(r) = ToSet(r.withheld) /\ MaskedPaths(r) = DOMAIN r.marks
  BY DEF WithheldPaths, MaskedPaths
<1>2. r \in RedShape /\ ToSet(r.withheld) = SentWithheld(s)
      /\ \A f \in Files : f \notin ToSet(r.withheld) => MarkersSent(s, {f}) = MarksOf(r, f)
  BY DEF Accounts
<1>3. DOMAIN r.marks \in SUBSET Files /\ \A f \in DOMAIN r.marks : r.marks[f] \in Nat \ {0}
  BY <1>2, MarksAre
<1>4. ASSUME NEW f \in Files
      PROVE  f \in DOMAIN r.marks <=> MarkersSent(s, {f}) > 0 /\ f \notin SentWithheld(s)
  <2>1. CASE f \in ToSet(r.withheld)
    <3>1. f \notin DOMAIN r.marks
      BY <1>1, <2>1 DEF Accounts
    <3> QED
      BY <1>2, <2>1, <3>1
  <2>2. CASE f \notin ToSet(r.withheld)
    <3>1. MarkersSent(s, {f}) = IF f \in DOMAIN r.marks THEN r.marks[f] ELSE 0
      BY <1>2, <2>2 DEF MarksOf, MaskedPaths
    <3>2. f \in DOMAIN r.marks => r.marks[f] > 0
      BY <1>3
    <3> QED
      BY <1>2, <2>2, <3>1, <3>2
  <2> QED
    BY <2>1, <2>2
<1>5. MaskedPaths(r) = {f \in Files : MarkersSent(s, {f}) > 0} \ SentWithheld(s)
  BY <1>1, <1>3, <1>4
<1>6. r.inline = MarkersSent(s, MaskedPaths(r))
  BY <1>1 DEF Accounts
<1>7. WithheldPaths(r) \subseteq r.touched /\ MaskedPaths(r) \subseteq r.touched
  BY <1>1 DEF Accounts
<1> QED
  BY <1>1, <1>2, <1>5, <1>6, <1>7

LEMMA InvDiscloses ==
  ASSUME DisclosedInv
  PROVE  RedactionIsDisclosed
<1> DEFINE r == gather.diff.red  s == gather.diff.sent
<1>1. Accounts(r, s)
  BY DEF DisclosedInv, AccountsOf
<1> HIDE DEF r, s
<1>2. /\ WithheldPaths(r) = SentWithheld(s)
      /\ MaskedPaths(r) = {f \in Files : MarkersSent(s, {f}) > 0} \ SentWithheld(s)
      /\ r.inline = MarkersSent(s, MaskedPaths(r))
      /\ WithheldPaths(r) \cup MaskedPaths(r) \subseteq r.touched
  BY <1>1, AccountsSay
<1> QED
  BY <1>2 DEF RedactionIsDisclosed, RedactedPaths, Sent, r, s

(* What a review discloses of its redaction is what the backend was sent:  *)
(* every file withheld, every file sent with a value replaced, and the     *)
(* number of markers in those, wherever the byte cap cut the patch and     *)
(* however often a file's header comes (DiffRedactor.feed, commit_pending, *)
(* _BoundedDiffAccumulator, RedactionSummary).                             *)
THEOREM RedactionsAreDisclosed == Spec => []RedactionIsDisclosed
<1>1. DisclosedInv => RedactionIsDisclosed
  BY InvDiscloses
<1> QED
  BY <1>1, DisclosedInit, DisclosedNext, PipelineInit, PipelineNext, AnswerInit, AnswerNext, PTL DEF Spec
=============================================================================
