----------------------------- MODULE Workspace -----------------------------
(***************************************************************************)
(* The directory a call works in: orchestration/workspace.py.  A path is   *)
(* the sequence of its names; the file system resolves its links.          *)
(***************************************************************************)
EXTENDS Naturals, Sequences, SequencesExt, FiniteSetsExt

CONSTANTS
  Links,       \* symbolic links: a path and the directory it stands for
  Directories, \* the directories there are, links resolved
  GitLinks     \* the .git of a directory: its checkout, and if both agree

NoPath == <<"none">>
Relative(path) == path # <<>> /\ path[1] = "."

(* A directory is an absolute path that goes through no link; a checkout   *)
(* that both ends name is the parent of a .git that is there.              *)
ASSUME WorkspaceAssumption ==
  /\ Directories \subseteq Seq(STRING)
  /\ \A dir \in Directories :
       ~Relative(dir) /\ dir # NoPath /\ ~\E link \in DOMAIN Links : IsPrefix(link, dir)
  /\ DOMAIN Links \subseteq Seq(STRING)
  /\ \A path \in DOMAIN Links : Links[path] \in Directories
  /\ \A dir \in DOMAIN GitLinks :
       dir \in Directories /\ (GitLinks[dir].mutual => GitLinks[dir].checkout \in Directories)

(* Path.resolve.                                                           *)
Resolved(path) ==
  LET through == {link \in DOMAIN Links : IsPrefix(link, path)}
  IN  IF through = {} THEN path
      ELSE LET link == CHOOSE l \in through : TRUE
           IN  Links[link] \o SubSeq(path, Len(link) + 1, Len(path))

IsDir(path) == path \in Directories
IsWithin(child, parent) == IsPrefix(parent, child)

(* A client's file roots by their places in its answer, if it was and      *)
(* could be asked; "/" is none.                                            *)
RootsOf(place) ==
  IF place.client # "answers" THEN <<>>
  ELSE [i \in {k \in DOMAIN place.roots : place.roots[k].file /\ place.roots[k].path # <<>>} |->
          place.roots[i].path]

Inside(path, roots) == \E i \in DOMAIN roots : IsWithin(path, Resolved(roots[i]))

(* An explicit path has to lie in one of the client's roots, if it has any. *)
Bounds(path, roots) == roots = <<>> \/ Inside(Resolved(path), roots)

Nowhere(code) == [path |-> NoPath, source |-> "none", code |-> code]
Found(path, source) == [path |-> path, source |-> source, code |-> "none"]

(* An explicit path, else the client's first root and no later one, else   *)
(* the server's own directory where that is allowed.                       *)
Resolution(place) ==
  LET roots == RootsOf(place)  asked == Resolved(place.asked)
      Checked(path, source) ==
        IF IsDir(path) THEN Found(path, source) ELSE Nowhere("invalid_workspace_root")
  IN  IF place.asked # NoPath
      THEN IF Relative(place.asked) \/ ~IsDir(asked) THEN Nowhere("invalid_workspace_root")
           ELSE IF ~Bounds(place.asked, roots) THEN Nowhere("workspace_outside_roots")
           ELSE Found(asked, "param")
      ELSE IF roots # <<>> THEN Checked(Resolved(roots[Min(DOMAIN roots)]), "roots")
      ELSE IF place.allowed THEN Checked(Resolved(place.cwd), "cwd")
      ELSE Nowhere("invalid_workspace_root")

(* linked_worktree_checkout: the nearest .git decides, and counts only if  *)
(* both ends name each other and the checkout lies in a root.              *)
Hint(path, roots) ==
  LET above == {d \in DOMAIN GitLinks : IsWithin(Resolved(path), d)}
      nearest == CHOOSE d \in above : \A other \in above : Len(other) <= Len(d)
  IN  IF above = {} \/ ~GitLinks[nearest].mutual \/ ~Inside(GitLinks[nearest].checkout, roots)
      THEN NoPath ELSE GitLinks[nearest].checkout

Places ==
  [asked : Seq(STRING), client : {"silent", "fails", "answers"},
   roots : Seq([file : BOOLEAN, path : Seq(STRING)]), cwd : Seq(STRING), allowed : BOOLEAN]
=============================================================================
