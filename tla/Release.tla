------------------------------ MODULE Release ------------------------------
(***************************************************************************)
(* How a version of amicus leaves the repository: scripts/release.py,      *)
(* check_release_state.py and record_live_gate_evidence.py, run by a       *)
(* maintainer who may do the steps between them wrongly and among other    *)
(* people's merges.  Git is a sequence of commits, each with its parents   *)
(* and its tree; a tree is the declared version, the files that do not     *)
(* follow it, the work it holds, the part of that work a dated changelog   *)
(* section lists, the version a deprecated tool or alias must be gone by,  *)
(* and the marketplace pointer users install from.  A mishap is anything   *)
(* RELEASING.md does not ask for; a run allows MaxMishaps of them.         *)
(***************************************************************************)
EXTENDS Integers, Sequences, FiniteSets

CONSTANTS
  Versions,     \* the versions there can be: 1 is out when the run begins
  MaxCommits,   \* bound on the commits of the repository
  MaxMishaps,   \* bound on the steps the procedure does not ask for
  Slips,        \* the files a commit on the release branch may spoil
  Beginnings    \* the repositories a run begins with

\* What must follow the declared version besides pyproject.toml: __version__,
\* the two plugin manifests, the .mcp.json pin, the changelog and the lock.
Files == {"names", "manifests", "pin", "changelog", "lock"}

ASSUME ReleaseBounds ==
  /\ Versions \subseteq Nat \ {0} /\ IsFiniteSet(Versions) /\ 1 \in Versions
  /\ MaxCommits \in Nat /\ MaxMishaps \in Nat
  /\ Slips \subseteq Files

VARIABLES
  commits,      \* every commit: its parents, its history, its tree
  main,         \* the commit GitHub's main is at
  tips,         \* the commits it has been at
  known,        \* the commit this clone's origin/main is at
  records,      \* every record the evidence script wrote, in order
  local,        \* the clone's release tags
  origin,       \* the release tags on GitHub
  published,    \* the versions PyPI lists files for
  pr,           \* the release pull request
  tree,         \* the release PR's worktree
  held,         \* what the last post-merge check held for
  drafts,       \* the open pointer pull requests
  mishaps       \* the mishaps so far
vars == <<commits, main, tips, known, records, local, origin, published, pr, tree, held, drafts, mishaps>>

\* Nothing is deprecated: no release is past its removal.
Forever  == Cardinality(Versions) + 1
NoTag    == [annotated |-> FALSE, commit |-> 0, record |-> 0]
NoPR     == [version |-> 0, head |-> 0, open |-> FALSE]
NoTree   == [head |-> 0, clean |-> TRUE, record |-> 0, gates |-> 0, ready |-> FALSE]
NotHeld  == [version |-> 0, tag |-> NoTag]

Ids   == DOMAIN commits
TreeOf(c) == commits[c].tree
Tip       == TreeOf(main)
Past(c)   == commits[c].past

\* What a commit holds.
Tree == [version : Versions, stale : SUBSET Files, until : Nat,
         work : SUBSET Nat, dated : SUBSET Nat, pointer : [ref : Versions, sha : Nat]]

\* The repositories that releases made as RELEASING.md asks for have left: one
\* history, whose pointer only advanced, and only to the tag of a version that
\* is on PyPI; a tag is of a commit main has merged, which declares its version
\* everywhere, and has the record its gates passed on.
Orderly(b) ==
  LET last == Len(b.commits)
      At(c) == b.commits[c]
      pointer(c) == At(c).tree.pointer
  IN  /\ b.commits \in Seq([parents : Seq(Nat), past : SUBSET Nat, tree : Tree]) /\ last > 0
      /\ \A c \in 1..last :
           /\ {1, c} \subseteq At(c).past /\ At(c).past \subseteq 1..c
           /\ \A d \in At(c).past : At(d).past \subseteq At(c).past /\ pointer(d).ref <= pointer(c).ref
           /\ pointer(c).ref \in b.published /\ b.tags[pointer(c).ref].commit = pointer(c).sha
      /\ b.records \in Seq([commit : Nat, passed : BOOLEAN]) /\ b.left \in 0..Len(b.records)
      /\ b.tags \in [Versions -> [annotated : BOOLEAN, commit : Nat, record : Nat]]
      /\ b.published \subseteq {v \in Versions : b.tags[v] # NoTag}
      /\ \A v \in Versions :
           b.tags[v] # NoTag =>
             LET c == b.tags[v].commit
             IN  /\ b.tags[v].annotated /\ b.tags[v].record \in DOMAIN b.records
                 /\ b.records[b.tags[v].record] = [commit |-> c, passed |-> TRUE]
                 /\ c \in At(last).past /\ At(c).tree.version = v /\ At(c).tree.stale = {}

ASSUME BeginningsAreOrderly == \A b \in Beginnings : Orderly(b)

(***************************************************************************)
(* Git.                                                                    *)
(***************************************************************************)
Commit(parents, content) ==
  Append(commits, [parents |-> parents, tree |-> content,
                   past |-> {Len(commits) + 1} \cup UNION {Past(parents[i]) : i \in DOMAIN parents}])

NextId == Len(commits) + 1
Room   == Len(commits) < MaxCommits

\* What work on a branch adds to a tree.
Worked(content) == [content EXCEPT !.work = @ \cup {NextId}]

MergeBase(a, b) == CHOOSE c \in Past(a) \cap Past(b) : \A d \in Past(a) \cap Past(b) : d <= c

\* Two sides changed one file in different ways.
Conflicts(base, ours, theirs) == ours # base /\ theirs # base /\ ours # theirs
Theirs(base, ours, theirs)    == IF theirs = base THEN ours ELSE theirs

Mergeable(head) ==
  LET base == TreeOf(MergeBase(main, head))
  IN  /\ head \notin Past(main)
      /\ ~Conflicts(base.version, Tip.version, TreeOf(head).version)
      /\ ~Conflicts(base.pointer, Tip.pointer, TreeOf(head).pointer)

Merged(head) ==
  LET base == TreeOf(MergeBase(main, head))
      theirs == TreeOf(head)
  IN  [version |-> Theirs(base.version, Tip.version, theirs.version),
       stale   |-> Theirs(base.stale, Tip.stale, theirs.stale),
       until   |-> Theirs(base.until, Tip.until, theirs.until),
       pointer |-> Theirs(base.pointer, Tip.pointer, theirs.pointer),
       work    |-> Tip.work \cup theirs.work,
       dated   |-> Tip.dated \cup theirs.dated]

(***************************************************************************)
(* check_release_state.py                                                  *)
(***************************************************************************)
\* check_version_literals: __version__ and both plugin manifests, and the
\* server .mcp.json pins.
LiteralsAgree(content, v) ==
  content.version = v /\ content.stale \cap {"names", "manifests", "pin"} = {}

\* check_changelog: one dated section and its links.
ChangelogRolled(content) == "changelog" \notin content.stale

\* check_lock
LockFollows(content) == "lock" \notin content.stale

\* check_deprecations and check_legacy_env: the release that removes it has.
WindowsOpen(content, v) == v < content.until

\* check_marketplace_consistency: the tag the pointer names, in this clone; of
\* its tree the manifests and the pin are read, and no other literal.
Consistent(pointer, tags) ==
  /\ tags[pointer.ref].annotated
  /\ tags[pointer.ref].commit = pointer.sha
  /\ TreeOf(pointer.sha).version = pointer.ref
  /\ TreeOf(pointer.sha).stale \cap {"manifests", "pin"} = {}

\* check_marketplace: on the tree to be tagged the pointer is older.
OlderPointer(content, v, tags) ==
  content.pointer.ref < v /\ Consistent(content.pointer, tags)

\* check_tree_pre_tag and check_tree
PreTagTree(content, v, tags) ==
  /\ LiteralsAgree(content, v)
  /\ ChangelogRolled(content)
  /\ LockFollows(content)
  /\ OlderPointer(content, v, tags)
  /\ WindowsOpen(content, v)

\* The pinned server is this release's: check_mcp_pin_tag_exists.
ReleaseTree(content, v, tags) ==
  PreTagTree(content, v, tags) /\ tags[v] # NoTag

\* validate_record, from check_tag: freshness is not asked for here.
ValidRecord(r, c) ==
  r # 0 /\ records[r].commit = c /\ records[r].passed

TagIsSound(tag, c) ==
  tag.annotated /\ tag.commit = c /\ ValidRecord(tag.record, c)

\* main() with --tag and --commit, on a tree that is commit c's.
Predicate(v, c, tags) ==
  ReleaseTree(TreeOf(c), v, tags) /\ TagIsSound(tags[v], c)

\* Mutant: never ahead, but back is allowed.
OnlyDeclared(base, head, declared) == head.ref <= declared

\* check_marketplace_transition
Forward(base, head, declared) ==
  head.ref <= declared /\ head.ref >= base.ref

\* check_pull_request, the marketplace-pointer job's check too.
PullRequestHolds(base, content, tags) ==
  /\ Consistent(content.pointer, tags)
  /\ Forward(TreeOf(base).pointer, content.pointer, content.version)

(***************************************************************************)
(* The release pull request and its worktree.                              *)
(***************************************************************************)
Begins(b) ==
  /\ commits = b.commits /\ main = Len(b.commits) /\ tips = Past(main) /\ known = main
  /\ records = b.records /\ local = b.tags /\ origin = b.tags
  /\ published = b.published
  /\ pr = NoPR /\ tree = [NoTree EXCEPT !.record = b.left] /\ held = NotHeld /\ drafts = {} /\ mishaps = 0

Init == \E b \in Beginnings : Begins(b)

Mishap == mishaps < MaxMishaps /\ mishaps' = mishaps + 1

\* _literal_edits and roll_changelog: every file follows, all work is dated.
Prepared(content, v) ==
  [content EXCEPT !.version = v, !.stale = {}, !.dated = content.work]

\* cmd_prepare on a fresh branch off origin/main, in a worktree of its own,
\* which the maintainer commits, pushes and opens as a pull request.  The
\* worktree of an earlier release still has that release's record.
Prepare(v) ==
  LET content == Prepared(TreeOf(known), v)
  IN  /\ ~pr.open /\ Room
      /\ v > TreeOf(known).version
      /\ TreeOf(known).work # TreeOf(known).dated
      /\ PreTagTree(content, v, local)
      /\ commits' = Commit(<<known>>, content)
      /\ pr' = [version |-> v, head |-> NextId, open |-> TRUE]
      /\ \E r \in {0, tree.record} :
           tree' = [NoTree EXCEPT !.head = NextId, !.record = r]
      /\ UNCHANGED <<main, tips, known, records, local, origin, published, held, drafts, mishaps>>

\* The branch gains a commit in the worktree, even while the gates run there;
\* it may leave a file behind the version.
Amend ==
  /\ tree.head # 0 /\ pr.open /\ Room /\ Mishap
  /\ \E slip \in SUBSET Slips :
       /\ Cardinality(slip) <= 1
       /\ commits' = Commit(<<tree.head>>, [Worked(TreeOf(tree.head)) EXCEPT !.stale = @ \cup slip])
  /\ tree' = [tree EXCEPT !.head = NextId, !.clean = TRUE]
  /\ UNCHANGED <<main, tips, known, records, local, origin, published, pr, held, drafts>>

PushBranch ==
  /\ pr.open /\ pr.head # tree.head /\ pr.head \in Past(tree.head)
  /\ pr' = [pr EXCEPT !.head = tree.head]
  /\ UNCHANGED <<commits, main, tips, known, records, local, origin, published, tree, held, drafts, mishaps>>

\* Another checkout pushes to the branch.
PushedElsewhere ==
  /\ pr.open /\ Room /\ Mishap
  /\ commits' = Commit(<<pr.head>>, Worked(TreeOf(pr.head)))
  /\ pr' = [pr EXCEPT !.head = NextId]
  /\ UNCHANGED <<main, tips, known, records, local, origin, published, tree, held, drafts>>

\* The worktree is at another commit of the branch, or has a change in it.
Checkout ==
  /\ tree.head # 0 /\ Mishap
  /\ \/ \E c \in Past(pr.head) \ {tree.head} :
          /\ TreeOf(c).version = pr.version
          /\ tree' = [tree EXCEPT !.head = c, !.clean = TRUE]
     \/ tree' = [tree EXCEPT !.clean = ~@]
  /\ UNCHANGED <<commits, main, tips, known, records, local, origin, published, pr, held, drafts>>

\* cmd_preflight.
PreflightHolds ==
  /\ pr.open /\ tree.head = pr.head /\ tree.clean
  /\ origin[pr.version] = NoTag /\ local[pr.version] = NoTag
  /\ PreTagTree(TreeOf(tree.head), pr.version, local)

\* The maintainer starts the evidence run once it has held, whatever has moved
\* since; the evidence script asks its own questions again.
Preflight ==
  /\ tree.head # 0
  /\ tree' = [tree EXCEPT !.ready = PreflightHolds]
  /\ UNCHANGED <<commits, main, tips, known, records, local, origin, published, pr, held, drafts, mishaps>>

\* _wrong_checkout and the dirty tree, of record_live_gate_evidence.main.
GatesMayRun ==
  tree.clean /\ TreeOf(tree.head).version = pr.version /\ local[pr.version] = NoTag

\* The commit is read before the gates run and the record written after.  Live
\* quota is spent once: not again while the record names this very commit.
StartGates ==
  /\ tree.head # 0 /\ tree.gates = 0
  /\ tree.record # 0 => records[tree.record].commit # tree.head
  /\ tree.ready /\ GatesMayRun
  /\ tree' = [tree EXCEPT !.gates = tree.head]
  /\ UNCHANGED <<commits, main, tips, known, records, local, origin, published, pr, held, drafts, mishaps>>

\* A run that failed, or that left the tree dirty, writes the failure record
\* and leaves the evidence of an earlier run as it is.
FinishGates ==
  /\ tree.gates # 0
  /\ \/ /\ tree.clean /\ UNCHANGED mishaps
        /\ records' = Append(records, [commit |-> tree.gates, passed |-> TRUE])
        /\ tree' = [tree EXCEPT !.gates = 0, !.record = Len(records) + 1]
     \/ /\ Mishap
        /\ records' = Append(records, [commit |-> tree.gates, passed |-> FALSE])
        /\ tree' = [tree EXCEPT !.gates = 0]
  /\ UNCHANGED <<commits, main, tips, known, local, origin, published, pr, held, drafts>>

\* A lightweight tag, another commit, or another release's or run's record.
MistakenTags ==
       {[annotated |-> FALSE, commit |-> tree.head, record |-> 0]}
  \cup {[annotated |-> TRUE, commit |-> c, record |-> tree.record] :
         c \in {main, pr.head} \cup Past(tree.head)}
  \cup {[annotated |-> TRUE, commit |-> tree.head, record |-> r] : r \in DOMAIN records}

\* git tag -a -F <record> <commit>, as asked for or not.
Tag ==
  /\ tree.head # 0 /\ local[pr.version] = NoTag
  /\ \/ /\ tree.record # 0 /\ UNCHANGED mishaps
        /\ local' = [local EXCEPT ![pr.version] =
                       [annotated |-> TRUE, commit |-> tree.head, record |-> tree.record]]
     \/ /\ Mishap
        /\ \E tag \in MistakenTags : local' = [local EXCEPT ![pr.version] = tag]
  /\ UNCHANGED <<commits, main, tips, known, records, origin, published, pr, tree, held, drafts>>

\* git tag -d
Untag ==
  /\ pr.version # 0 /\ local[pr.version] # NoTag /\ Mishap
  /\ local' = [local EXCEPT ![pr.version] = NoTag]
  /\ UNCHANGED <<commits, main, tips, known, records, origin, published, pr, tree, held, drafts>>

(***************************************************************************)
(* GitHub's main.                                                          *)
(***************************************************************************)
MainAt(c) == main' = c /\ tips' = tips \cup {c}

\* The release PR merged as asked, fast-forwarded, or squashed.
MergeRelease ==
  /\ pr.open /\ Mergeable(pr.head)
  /\ pr' = [pr EXCEPT !.open = FALSE]
  /\ \/ Room /\ commits' = Commit(<<main, pr.head>>, Merged(pr.head)) /\ MainAt(NextId)
        /\ UNCHANGED mishaps
     \/ main \in Past(pr.head) /\ MainAt(pr.head) /\ UNCHANGED <<commits, mishaps>>
     \/ Room /\ Mishap /\ commits' = Commit(<<main>>, Merged(pr.head)) /\ MainAt(NextId)
  /\ UNCHANGED <<known, records, local, origin, published, tree, held, drafts>>

\* Other work lands on main; it may remove what was deprecated.
OtherWork ==
  /\ Room /\ Mishap
  /\ \E until \in {Tip.until, Forever} :
       commits' = Commit(<<main>>, [Worked(Tip) EXCEPT !.until = until])
  /\ MainAt(NextId)
  /\ UNCHANGED <<known, records, local, origin, published, pr, tree, held, drafts>>

Fetch ==
  /\ known # main /\ known' = main
  /\ UNCHANGED <<commits, main, tips, records, local, origin, published, pr, tree, held, drafts, mishaps>>

(***************************************************************************)
(* post-merge, the tag push and the publish workflow.                      *)
(***************************************************************************)
\* _merge_shape
MergeShape(tip, release) ==
  \/ tip = release
  \/ /\ Len(commits[tip].parents) = 2
     /\ commits[tip].parents[2] = release

\* _tag_problems: the message is this worktree's record byte for byte.
LocalTagHolds(v, release) ==
  /\ local[v].annotated
  /\ local[v].commit = release
  /\ tree.record # 0 /\ local[v].record = tree.record

\* Mutant: main is not asked whether it holds the tagged tree alone.
PostMergeOtherTree(tip, release) ==
  /\ MergeShape(tip, release) /\ release \in Past(tip)
  /\ tree.head = release /\ tree.clean
  /\ LocalTagHolds(pr.version, release)
  /\ Predicate(pr.version, release, local)

PostMergeHolds(tip, release) ==
  /\ MergeShape(tip, release)
  /\ TreeOf(tip) = TreeOf(release)
  /\ release \in Past(tip)
  /\ tree.head = release /\ tree.clean
  /\ LocalTagHolds(pr.version, release)
  /\ Predicate(pr.version, release, local)

\* cmd_post_merge: nothing is asked of a main that could not be fetched.
Refetched == main

PostMerge ==
  /\ tree.head # 0
  /\ known' = Refetched
  /\ held' = IF PostMergeHolds(known', tree.head)
             THEN [version |-> pr.version, tag |-> local[pr.version]] ELSE NotHeld
  /\ UNCHANGED <<commits, main, tips, records, local, origin, published, pr, tree, drafts, mishaps>>

\* The maintainer pushes the tag the check held for; GitHub's ruleset lets
\* nobody move or delete it afterwards.
PushTag ==
  /\ held # NotHeld /\ origin[held.version] = NoTag
  /\ local[held.version] = held.tag
  /\ origin' = [origin EXCEPT ![held.version] = held.tag]
  /\ UNCHANGED <<commits, main, tips, known, records, local, published, pr, tree, held, drafts, mishaps>>

\* The workflow the push starts: verify, the reviewer's approval, the upload.
Publish(v) ==
  /\ origin[v] # NoTag /\ v \notin published
  /\ Predicate(v, origin[v].commit, origin)
  /\ published' = published \cup {v}
  /\ UNCHANGED <<commits, main, tips, known, records, local, origin, pr, tree, held, drafts, mishaps>>

(***************************************************************************)
(* post-publish and the pointer.                                           *)
(***************************************************************************)
\* _uvx and _server_info: the server a fresh install of a commit starts says
\* what its __version__ is.
Installs(c, v) == TreeOf(c).version = v /\ "names" \notin TreeOf(c).stale

\* Mutant: the tag's install is taken for the publication.
InstallsUnpublished(v) ==
  origin[v].annotated /\ Installs(origin[v].commit, v)

\* _pypi_problems, _remote_tag, _install_problems: a fresh install of the tag
\* answers as the version its tree declares.
PostPublishHolds(v) ==
  /\ v \in published
  /\ origin[v].annotated
  /\ Installs(origin[v].commit, v)

\* _fetched_tag_problems: a local tag that differs is never overwritten.
TagFetched(v) == local[v] \in {NoTag, origin[v]}

\* cmd_pointer, on a branch cut from origin/main as the clone knew it, and the
\* pull request the maintainer makes of what it wrote.
Pointer(v) ==
  LET content == [TreeOf(known) EXCEPT !.pointer = [ref |-> v, sha |-> origin[v].commit]]
      tags == [local EXCEPT ![v] = origin[v]]
  IN  /\ Room /\ PostPublishHolds(v) /\ TagFetched(v)
      /\ content # TreeOf(known)
      /\ PullRequestHolds(main, content, tags)
      /\ commits' = Commit(<<known>>, content)
      /\ drafts' = drafts \cup {[head |-> NextId, base |-> main]}
      /\ known' = main
      /\ local' = tags
      /\ UNCHANGED <<main, tips, records, origin, published, pr, tree, held, mishaps>>

\* The marketplace-pointer job ran when the pull request was opened, against
\* the base it had then; git merges it only where nothing conflicts.
MergePointer ==
  \E d \in drafts :
    /\ Room /\ Mergeable(d.head)
    /\ PullRequestHolds(d.base, TreeOf(d.head), origin)
    /\ commits' = Commit(<<main, d.head>>, Merged(d.head))
    /\ MainAt(NextId)
    /\ drafts' = drafts \ {d}
    /\ UNCHANGED <<known, records, local, origin, published, pr, tree, held, mishaps>>

Next ==
  \/ \E v \in Versions : Prepare(v) \/ Publish(v) \/ Pointer(v)
  \/ Amend \/ PushBranch \/ PushedElsewhere \/ Checkout
  \/ Preflight \/ StartGates \/ FinishGates \/ Tag \/ Untag
  \/ MergeRelease \/ OtherWork \/ Fetch
  \/ PostMerge \/ PushTag \/ MergePointer

Spec == Init /\ [][Next]_vars

(***************************************************************************)
(* Properties.                                                             *)
(***************************************************************************)
\* A tag on GitHub is an annotated tag of a commit that main has merged whole:
\* the commit is in main's history, declares the tag's version in every file, is
\* what the live-gate record in the tag passed on, and main once had exactly its tree.
\* However the release PR was merged, whatever landed around it and whichever
\* record the tag was made from, post-merge lets no other tag be pushed.
PushedTagIsWhatMerged ==
  \A v \in Versions : origin[v] # NoTag =>
    LET c == origin[v].commit
    IN  /\ origin[v].annotated
        /\ c \in Past(main) /\ TreeOf(c).version = v /\ TreeOf(c).stale = {}
        /\ \E t \in tips : TreeOf(t) = TreeOf(c)
        /\ origin[v].record # 0
        /\ records[origin[v].record] = [commit |-> c, passed |-> TRUE]

\* What users install is a finished release: the pointer on main names a tag
\* GitHub has, at the commit it peels to, of a version that is on PyPI and
\* installs as itself.
PointerIsProven ==
  LET p == Tip.pointer
  IN  /\ origin[p.ref] # NoTag /\ origin[p.ref].commit = p.sha
      /\ p.sha \in Past(main) /\ Installs(p.sha, p.ref)
      /\ p.ref \in published

\* Users never go back a release: whatever order pointer pull requests are
\* made and merged in, the pointer on main only advances.
PointerOnlyAdvances ==
  [][Tip.pointer.ref <= Tip'.pointer.ref]_vars
=============================================================================
