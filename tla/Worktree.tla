------------------------------ MODULE Worktree ------------------------------
(***************************************************************************)
(* src/src/amicus/orchestration/worktree.py and isolation.py: the          *)
(* throwaway worktree an agent works in, seeded from the caller's tracked  *)
(* state, and the patch taken from it.  The caller goes on working in the  *)
(* repository between one git command and the next.                        *)
(***************************************************************************)
EXTENDS RunRequest

VARIABLE tree

TreeStages == {"none", "making", "declaring", "adding", "reading", "applying", "committing",
               "ready", "undoing", "failed"}
TreeCodes == {"none", "invalid_workspace_root", "not_a_git_repo", "worktree_error",
              "internal_error"}

(* parent: the temporary directory exists; declared: cleanup.json names    *)
(* it.  base and files are the worktree's HEAD and its files.  The last    *)
(* five are histories: what the caller's tree held when it was read,       *)
(* whether HEAD was still what the worktree was added at, the files the    *)
(* agent wrote, whether it committed, whether a removal failed.            *)
NoTree ==
  [at |-> "none", code |-> "none", parent |-> FALSE, declared |-> FALSE,
   base |-> [f \in Files |-> Absent], files |-> [f \in Files |-> Absent],
   patch |-> [f \in {} |-> <<>>], warned |-> FALSE,
   seen |-> [f \in Files |-> Absent], steady |-> TRUE, wrote |-> {}, committed |-> FALSE,
   stuck |-> FALSE]

TreeAt(stage) == tree.at = stage

(* WorktreeSite.__enter__: which error a failure of create becomes.        *)
CodeOf(code) == IF there \/ code = "internal_error" THEN code ELSE "invalid_workspace_root"

TreeFails(code) == tree' = [tree EXCEPT !.at = "failed", !.code = CodeOf(code)]

(* A failure once the parent is there is followed by remove.               *)
TreeUndone(code) == tree' = [tree EXCEPT !.at = "undoing", !.code = CodeOf(code)]

(* A git command fails, or the listing of the filters that goes before it; *)
(* a timeout of either is no WorktreeError.                                *)
CommandBreaks(Broken(_)) ==
  \/ (May("git") \/ ~there) /\ Broken("worktree_error")
  \/ May("hang") /\ Broken("internal_error")

(* remove: best effort, and what rmtree cannot delete stays.               *)
Removed ==
  {[tree EXCEPT !.parent = FALSE]} \cup
  (IF May("stuck") THEN {[tree EXCEPT !.stuck = tree.parent]} ELSE {})

-----------------------------------------------------------------------------
(* create: a repository with a commit, then the temporary parent.          *)
MakeParent ==
  /\ TreeAt("making")
  /\ \/ CommandBreaks(TreeFails)
     \/ there /\ kind = "plain" /\ TreeFails("not_a_git_repo")
     \/ there /\ kind = "unborn" /\ TreeFails("worktree_error")
     \/ Usable /\ tree' = [tree EXCEPT !.at = "declaring", !.parent = TRUE]

(* The hook writes the manifest; when it cannot, the directory goes.       *)
Declare ==
  /\ TreeAt("declaring")
  /\ \/ tree' = [tree EXCEPT !.at = "adding", !.declared = TRUE]
     \/ May("hook") /\ \E left \in Removed :
          tree' = [left EXCEPT !.at = "failed", !.code = "internal_error"]

AddTree ==
  /\ TreeAt("adding")
  /\ \/ CommandBreaks(TreeUndone)
     \/ there /\ tree' = [tree EXCEPT !.at = "reading", !.base = head, !.files = head]

(* _seed_uncommitted: the diff of the caller's tracked files against HEAD. *)
(* One that cannot be read, or does not apply, leaves a warning and the    *)
(* worktree at HEAD.                                                       *)
Unseeded == [tree EXCEPT !.at = "ready", !.warned = TRUE]

ReadLive ==
  /\ TreeAt("reading")
  /\ \/ CommandBreaks(TreeUndone)
     \/ there /\ May("git") /\ tree' = Unseeded
     \/ /\ there
        /\ LET changed == Differing(head, Tracked)
               read == [tree EXCEPT !.seen = Tracked, !.steady = head = tree.base]
           IN  tree' = IF changed = {} THEN [read EXCEPT !.at = "ready"]
                       ELSE [read EXCEPT !.at = "applying",
                                         !.patch = [f \in changed |-> <<head[f], Tracked[f]>>]]

(* git apply is all or nothing: the patch must fit the worktree's files.   *)
Applies == \A f \in DOMAIN tree.patch : tree.files[f] = tree.patch[f][1]

Patched ==
  [f \in Files |-> IF f \in DOMAIN tree.patch THEN tree.patch[f][2] ELSE tree.files[f]]

ApplyPatch ==
  /\ TreeAt("applying")
  /\ \/ CommandBreaks(TreeUndone)
     \/ there /\ (~Applies \/ May("reject")) /\ tree' = Unseeded
     \/ there /\ Applies /\ tree' = [tree EXCEPT !.at = "committing", !.files = Patched]

(* Mutant: a baseline that could not be committed is only warned about.    *)
CommitBaselineLenient ==
  /\ TreeAt("committing")
  /\ \/ CommandBreaks(LAMBDA code : tree' = Unseeded)
     \/ May("dirty") /\ tree' = Unseeded
     \/ there /\ tree' = [tree EXCEPT !.at = "ready", !.base = tree.files]

(* add, commit and a status that must be clean.                            *)
CommitBaseline ==
  /\ TreeAt("committing")
  /\ \/ CommandBreaks(TreeUndone)
     \/ May("dirty") /\ TreeUndone("worktree_error")
     \/ there /\ tree' = [tree EXCEPT !.at = "ready", !.base = tree.files]

(* Mutant: a failed creation keeps its directory.                          *)
UndoNothing == TreeAt("undoing") /\ tree' = [tree EXCEPT !.at = "failed"]

Undo == TreeAt("undoing") /\ \E left \in Removed : tree' = [left EXCEPT !.at = "failed"]

Enter ==
  MakeParent \/ Declare \/ AddTree \/ ReadLive \/ ApplyPatch \/ CommitBaseline \/ Undo

-----------------------------------------------------------------------------
(* The backend's agent, in the worktree while it runs.                     *)
AgentWrites(f) ==
  /\ TreeAt("ready") /\ f \notin tree.wrote
  /\ \E c \in {Absent, Agents} :
       tree' = [tree EXCEPT !.files[f] = c, !.wrote = @ \cup {f}]

AgentCommits ==
  /\ May("commits") /\ TreeAt("ready") /\ tree.files # tree.base
  /\ tree' = [tree EXCEPT !.base = tree.files, !.committed = TRUE]

(* capture_diff: what is staged now against the worktree's HEAD.           *)
Captured == [f \in Differing(tree.base, tree.files) |-> <<tree.base[f], tree.files[f]>>]

TreeTypeOK ==
  tree \in [at : TreeStages, code : TreeCodes, parent : BOOLEAN, declared : BOOLEAN,
            base : Snapshot, files : Snapshot,
            patch : UNION {[F -> Content \X Content] : F \in SUBSET Files}, warned : BOOLEAN,
            seen : Snapshot, steady : BOOLEAN, wrote : SUBSET Files, committed : BOOLEAN,
            stuck : BOOLEAN]
=============================================================================
