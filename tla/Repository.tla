----------------------------- MODULE Repository -----------------------------
(***************************************************************************)
(* The caller's repository as the git commands of the orchestration read   *)
(* it, and what its user does to it meanwhile.  External: git's own rules, *)
(* as the code's calls rely on them.  Files have contents, a commit is the *)
(* contents of its files (two commits with equal files are one).           *)
(***************************************************************************)
EXTENDS Naturals

CONSTANTS
  Files,
  MaxMoves     \* bound: how often the user changes the repository

Absent == 0
Committed == 1
Edited == 2      \* the caller's own change
Agents == 3      \* written by a backend's agent, or the caller's next version
Content == {Absent, Committed, Edited, Agents}
Snapshot == [Files -> Content]

VARIABLES
  kind,     \* "repo", "unborn" (no commit yet), "plain" (no repository)
  there,    \* whether the directory still exists
  head,     \* the commit HEAD names
  staged,   \* the index
  live,     \* the working tree
  moves     \* how often the user changed any of it

repoVars == <<kind, there, head, staged, live, moves>>

Kinds == {"repo", "unborn", "plain"}
Usable == there /\ kind = "repo"

(* What one side of a comparison shows against the other.                  *)
Changes == {"same", "added", "deleted", "modified", "untracked"}

Change(a, b) ==
  IF a = b THEN "same" ELSE IF a = Absent THEN "added" ELSE IF b = Absent THEN "deleted" ELSE "modified"

(* What a diff against a commit sees: a file git does not track is as good *)
(* as absent.                                                              *)
Tracked == [f \in Files |-> IF staged[f] = Absent THEN Absent ELSE live[f]]
Differing(from, to) == {f \in Files : from[f] # to[f]}
Untracked == {f \in Files : staged[f] = Absent /\ live[f] # Absent}

(* git status --porcelain: where a file stands, not what it says.          *)
Status(f) ==
  <<Change(head[f], staged[f]),
    IF f \in Untracked THEN "untracked" ELSE Change(staged[f], Tracked[f])>>

(* What a reviewer is owed for a file: any change, committed nowhere yet.  *)
Dirty == {f \in Files : live[f] # head[f]}

-----------------------------------------------------------------------------
Moves == moves < MaxMoves /\ moves' = moves + 1

Edit(f) ==
  /\ Usable /\ Moves
  /\ \E c \in Content \ {live[f]} : live' = [live EXCEPT ![f] = c]
  /\ UNCHANGED <<kind, there, head, staged>>

Stage(f) ==
  /\ Usable /\ staged[f] # live[f] /\ Moves
  /\ staged' = [staged EXCEPT ![f] = live[f]]
  /\ UNCHANGED <<kind, there, head, live>>

Commit ==
  /\ Usable /\ head # staged /\ Moves
  /\ head' = staged
  /\ UNCHANGED <<kind, there, staged, live>>

(* git reset --hard to the first commit.                                   *)
Reset(root) ==
  /\ Usable /\ <<head, staged, Tracked>> # <<root, root, root>> /\ Moves
  /\ head' = root /\ staged' = root
  /\ live' = [f \in Files |-> IF f \in Untracked /\ root[f] = Absent THEN live[f] ELSE root[f]]
  /\ UNCHANGED <<kind, there>>

Vanish ==
  /\ there /\ there' = FALSE
  /\ UNCHANGED <<kind, head, staged, live, moves>>

RepositoryTypeOK ==
  /\ kind \in Kinds /\ there \in BOOLEAN /\ moves \in 0..MaxMoves
  /\ head \in Snapshot /\ staged \in Snapshot /\ live \in Snapshot
=============================================================================
