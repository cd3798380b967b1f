------------------------------- MODULE DryRun -------------------------------
(***************************************************************************)
(* The free previews of a review and of a delegate, tools/dry_run.py: the  *)
(* same preparation as the paid call and the same gather; of a worktree    *)
(* only the plan (worktree.plan), by commands of its own.                  *)
(***************************************************************************)
EXTENDS DiffGather, Worktree

NotForetold ==
  [told |-> FALSE, code |-> "none", calls |-> FALSE, diff |-> NewAccumulator,
   base |-> Nothing, replayed |-> {}, since |-> 0]

Foretells(foretold, code) == [foretold EXCEPT !.told = TRUE, !.code = code]

(* gather: an empty change is answered without a backend.                  *)
NothingGathered == gather.summary = {} /\ gather.diff.sent = <<>>

ForetellsReview(foretold) ==
  [Foretells(foretold, "ok") EXCEPT !.calls = ~NothingGathered, !.diff = gather.diff]

(* plan: what any of its commands may run into; a directory that is gone   *)
(* is looked for last.                                                     *)
PlanFailures ==
  IF ~there THEN {"invalid_workspace_root"}
  ELSE IF kind = "plain" THEN {"not_a_git_repo"}
  ELSE IF kind = "unborn" \/ May("git") \/ May("hang") THEN {"worktree_error"}
  ELSE {}

Planned(foretold) == [foretold EXCEPT !.base = head]

(* _count_uncommitted: a command that fails has counted nothing.           *)
Uncommitted == {Differing(head, Tracked)} \cup (IF May("git") THEN {{}} ELSE {})

ForetellsDelegate(foretold, changed) ==
  [Foretells(foretold, "ok") EXCEPT !.calls = TRUE, !.replayed = changed]
=============================================================================
