------------------------- MODULE MaintenanceProofs -------------------------
(***************************************************************************)
(* Proofs about the maintainers' tools.                                    *)
(*                                                                         *)
(* Release, for every finite set of versions, every bound on commits and   *)
(* mishaps, every set of slips and every orderly repository.               *)
(* The pointer on main is whatever a merge makes of two commits', so that  *)
(* what is inductive is about every commit: each points at a finished      *)
(* release, and no commit points at an older one than its history did.     *)
(* A tag that is pushed is the one post-merge held for, and what it held   *)
(* for stays so: commits and records are only added, main only grows.      *)
(*                                                                         *)
(* UpstreamWatch, for any streams, releases and faults.  What a run knows  *)
(* of the issues is late in one direction only: an issue it takes for      *)
(* closed is closed, a minor's title never changes, and no issue is missed *)
(* by the title search and by the newest issues both.  That success means  *)
(* tracked takes two invariants: until a release is withdrawn titles only  *)
(* advance, so that a late title is no newer than the true one; after that *)
(* a late title is still one the issue was filed for or told of.           *)
(***************************************************************************)
EXTENDS Maintenance, SequenceTheorems, FiniteSetTheorems, WellFoundedInduction, TLAPS

(***************************************************************************)
(* The release.                                                            *)
(***************************************************************************)
CommitType == [parents : Seq(Nat), past : SUBSET Nat, tree : Tree]
TagType    == [annotated : BOOLEAN, commit : 0..Len(commits), record : 0..Len(records)]
PrType     == [version : Nat, head : 0..Len(commits), open : BOOLEAN]
WorktreeType ==
  [head : 0..Len(commits), clean : BOOLEAN, record : 0..Len(records), gates : 0..Len(commits),
   ready : BOOLEAN]
Ref(c)     == TreeOf(c).pointer.ref

Typed ==
  /\ commits \in Seq(CommitType) /\ records \in Seq([commit : Nat, passed : BOOLEAN])
  /\ tips \subseteq Ids /\ main \in tips /\ known \in tips
  /\ local \in [Versions -> TagType] /\ origin \in [Versions -> TagType]
  /\ published \subseteq Versions
  /\ pr \in PrType /\ tree \in WorktreeType /\ held \in [version : Nat, tag : TagType]
  /\ drafts \subseteq [head : Ids, base : Ids]

\* There is a worktree once there is a release pull request.
Paired ==
  /\ tree.head # 0 <=> pr.head # 0
  /\ pr.head # 0 => pr.version \in Versions
  /\ pr.open => pr.head # 0

\* One history, in which the pointer never goes back.
History ==
  \A c \in Ids :
    /\ Past(c) \subseteq 1..c /\ 1 \in Past(c) /\ c \in Past(c)
    /\ \A d \in Past(c) : Past(d) \subseteq Past(c) /\ Ref(d) <= Ref(c)

\* What PushedTagIsWhatMerged says of the tag of a version, and PointerIsProven
\* of a pointer.
SoundTag(v, tag) ==
  LET c == tag.commit
  IN  /\ tag.annotated
      /\ c \in Past(main) /\ TreeOf(c).version = v /\ TreeOf(c).stale = {}
      /\ \E t \in tips : TreeOf(t) = TreeOf(c)
      /\ tag.record # 0
      /\ records[tag.record] = [commit |-> c, passed |-> TRUE]

Proven(p) ==
  /\ p.ref \in published /\ origin[p.ref] # NoTag /\ origin[p.ref].commit = p.sha
  /\ p.sha \in Past(main) /\ Installs(p.sha, p.ref)

Tags ==
  /\ \A v \in Versions : origin[v] # NoTag => SoundTag(v, origin[v])
  /\ held # NotHeld => held.version \in Versions /\ SoundTag(held.version, held.tag)
  /\ \A v \in published : origin[v] # NoTag

RInv ==
  /\ Typed /\ Paired /\ History /\ Tags
  /\ tips \subseteq Past(main)
  /\ \A c \in Ids : Proven(TreeOf(c).pointer)

-----------------------------------------------------------------------------
(* Git.  Two commits of one history have a newest common ancestor.         *)
LEMMA BoundedHasMax ==
  ASSUME NEW n \in Nat, NEW S \in SUBSET (0..n), S # {}
  PROVE  \E x \in S : \A y \in S : y <= x
  <1> DEFINE T == {n - x : x \in S}
             R == OpToRel(<, Nat)
  <1>1. T \subseteq Nat /\ T # {}
    <2> HIDE DEF R
    <2>1. \A x \in S : n - x \in Nat /\ n - x \in T
      OBVIOUS
    <2> QED BY <2>1
  <1>2. PICK m \in T : \A k \in T : <<k, m>> \notin R
    <2> HIDE DEF T, R
    <2>1. IsWellFoundedOn(R, Nat)
      BY NatLessThanWellFounded DEF R
    <2> QED BY <1>1, <2>1, WFMin
  <1>3. \A k, i \in Nat : k < i => <<k, i>> \in R
    <2>1. R = {ss \in Nat \X Nat : ss[1] < ss[2]}
      BY DEF OpToRel
    <2>2. ASSUME NEW k \in Nat, NEW i \in Nat, k < i PROVE <<k, i>> \in R
      BY <2>1, <2>2
    <2> QED BY <2>2
  <1>4. \A k \in T : k \in Nat /\ m \in Nat /\ ~(k < m)
    <2> HIDE DEF T, R
    <2> QED BY <1>1, <1>2, <1>3
  <1>5. PICK x \in S : m = n - x
    OBVIOUS
  <1>6. ASSUME NEW y \in S PROVE y <= x
    <2>1. n - y \in T
      OBVIOUS
    <2>2. ~(n - y < n - x) /\ x \in 0..n /\ y \in 0..n
      BY <1>4, <1>5, <2>1
    <2> QED BY <2>2
  <1> QED BY <1>6

LEMMA MergeBaseIsCommon ==
  ASSUME Typed, History, NEW a \in Ids, NEW b \in Ids
  PROVE  MergeBase(a, b) \in Past(a) /\ MergeBase(a, b) \in Past(b) /\ MergeBase(a, b) \in Ids
  <1> DEFINE S == Past(a) \cap Past(b)
  <1>1. Len(commits) \in Nat /\ Ids = 1..Len(commits)
    BY LenProperties DEF Typed, Ids
  <1>2. S \in SUBSET (0..Len(commits)) /\ S \subseteq Ids /\ S # {}
    BY <1>1 DEF History
  <1>3. \E x \in S : \A y \in S : y <= x
    <2> HIDE DEF S
    <2> QED BY <1>1, <1>2, BoundedHasMax
  <1>4. MergeBase(a, b) = CHOOSE c \in S : \A d \in S : d <= c
    BY DEF MergeBase
  <1>5. MergeBase(a, b) \in S
    <2> HIDE DEF S
    <2> QED BY <1>3, <1>4
  <1> QED BY <1>2, <1>5

\* A merge takes one side's pointer, and never the older one.
LEMMA MergedTree ==
  ASSUME RInv, NEW head \in Ids, Mergeable(head)
  PROVE  /\ Merged(head) \in Tree
         /\ Merged(head).pointer \in {Tip.pointer, TreeOf(head).pointer}
         /\ Ref(main) <= Merged(head).pointer.ref /\ Ref(head) <= Merged(head).pointer.ref
  <1> DEFINE b == MergeBase(main, head)
  <1>1. main \in Ids /\ Typed /\ History
    BY DEF RInv, Typed
  <1>2. b \in Past(main) /\ b \in Past(head) /\ b \in Ids
    BY <1>1, MergeBaseIsCommon
  <1> HIDE DEF b
  <1>3. Ref(b) <= Ref(main) /\ Ref(b) <= Ref(head)
    BY <1>1, <1>2 DEF History
  <1>4. \A c \in Ids : TreeOf(c) \in Tree
    <2>1. \A c \in Ids : commits[c] \in CommitType
      BY <1>1, ElementOfSeq, LenProperties DEF Typed, Ids
    <2> QED BY <2>1 DEF TreeOf, CommitType
  <1>5. /\ Merged(head).version \in {Tip.version, TreeOf(head).version}
        /\ Merged(head).stale \in {Tip.stale, TreeOf(head).stale}
        /\ Merged(head).until \in {Tip.until, TreeOf(head).until}
        /\ Merged(head).work = Tip.work \cup TreeOf(head).work
        /\ Merged(head).dated = Tip.dated \cup TreeOf(head).dated
        /\ Merged(head).pointer = Theirs(TreeOf(b).pointer, Tip.pointer, TreeOf(head).pointer)
    BY DEF Merged, Theirs, b
  <1>6. Merged(head) = [version |-> Merged(head).version, stale |-> Merged(head).stale,
                        until |-> Merged(head).until, pointer |-> Merged(head).pointer,
                        work |-> Merged(head).work, dated |-> Merged(head).dated]
    BY DEF Merged
  <1>7. Merged(head).pointer \in {Tip.pointer, TreeOf(head).pointer}
    BY <1>5 DEF Theirs
  <1>8. Merged(head) \in Tree
    <2>1. Tip \in Tree /\ TreeOf(head) \in Tree
      BY <1>1, <1>4 DEF Tip
    <2> DEFINE m == Merged(head)
    <2> HIDE DEF m
    <2>2. /\ m.version \in Versions /\ m.stale \in SUBSET Files
          /\ m.until \in Nat /\ m.work \in SUBSET Nat /\ m.dated \in SUBSET Nat
          /\ m.pointer \in [ref : Versions, sha : Nat]
      BY <1>5, <1>7, <2>1 DEF Tree, m
    <2> QED BY <1>6, <2>2 DEF Tree, m
  <1>9. ~Conflicts(TreeOf(b).pointer, Tip.pointer, TreeOf(head).pointer)
    BY DEF Mergeable, b
  <1>10. /\ Ref(main) = Tip.pointer.ref /\ Ref(main) \in Nat /\ Ref(head) \in Nat /\ Ref(b) \in Nat
    BY <1>1, <1>2, <1>4, ReleaseBounds DEF Ref, Tip, Tree
  <1>11. \/ TreeOf(b).pointer = TreeOf(head).pointer /\ Merged(head).pointer = Tip.pointer
         \/ TreeOf(b).pointer = Tip.pointer /\ Merged(head).pointer = TreeOf(head).pointer
         \/ Tip.pointer = TreeOf(head).pointer /\ Merged(head).pointer = Tip.pointer
    BY <1>5, <1>9 DEF Conflicts, Theirs
  <1> QED BY <1>3, <1>7, <1>8, <1>10, <1>11 DEF Ref

-----------------------------------------------------------------------------
\* A commit is added; what there was stays.
LEMMA NewCommit ==
  ASSUME RInv, NEW ps \in Seq(Ids), 1 \in DOMAIN ps, NEW content \in Tree,
         commits' = Commit(ps, content),
         \A i \in DOMAIN ps : Ref(ps[i]) <= content.pointer.ref
  PROVE  /\ commits' \in Seq(CommitType) /\ Len(commits') = Len(commits) + 1
         /\ Ids' = Ids \cup {NextId} /\ NextId \in Nat /\ Ids \subseteq 1..Len(commits)
         /\ \A c \in Ids : commits'[c] = commits[c]
         /\ commits'[NextId].tree = content
         /\ \A i \in DOMAIN ps : Past(ps[i]) \subseteq commits'[NextId].past
         /\ NextId \in commits'[NextId].past
         /\ History'
  <1> DEFINE U == UNION {Past(ps[i]) : i \in DOMAIN ps}
             n == NextId
             new == [parents |-> ps, tree |-> content, past |-> {n} \cup U]
  <1>1. Typed /\ History
    BY DEF RInv
  <1>2. commits \in Seq(CommitType) /\ Len(commits) \in Nat /\ Ids = 1..Len(commits)
        /\ n = Len(commits) + 1
    BY <1>1, LenProperties DEF Typed, Ids, NextId
  <1>3. \A i \in DOMAIN ps : ps[i] \in Ids
    BY ElementOfSeq, LenProperties
  <1>4. /\ \A i \in DOMAIN ps : Past(ps[i]) \subseteq U
        /\ \A d \in U : \E i \in DOMAIN ps : d \in Past(ps[i])
    OBVIOUS
  <1> HIDE DEF U
  <1>5. commits' = Append(commits, new)
    BY DEF Commit, U, NextId
  <1>6. U \subseteq Ids /\ 1 \in U
    BY <1>1, <1>2, <1>3, <1>4 DEF History
  <1>7. ASSUME NEW d \in U
        PROVE  Past(d) \subseteq U /\ Ref(d) <= content.pointer.ref
    <2>1. PICK i \in DOMAIN ps : d \in Past(ps[i])
      BY <1>4
    <2>2. Past(d) \subseteq Past(ps[i]) /\ Ref(d) <= Ref(ps[i]) /\ Ref(ps[i]) <= content.pointer.ref
      BY <1>1, <1>3, <2>1 DEF History
    <2>3. Ref(d) \in Nat /\ Ref(ps[i]) \in Nat /\ content.pointer.ref \in Nat
      <3>1. commits[d] \in CommitType /\ commits[ps[i]] \in CommitType
        BY <1>2, <1>3, <1>6, ElementOfSeq
      <3> QED BY <3>1, ReleaseBounds DEF Ref, TreeOf, CommitType, Tree
    <2> QED BY <1>4, <2>2, <2>3
  <1>8. ps \in Seq(Nat)
    BY <1>2, SeqMonotonic
  <1>9. new \in CommitType
    <2> HIDE DEF n
    <2>1. ASSUME NEW x \in U PROVE x \in 1..n /\ x \in Nat
      <3>1. x \in 1..Len(commits)
        BY <1>2, <1>6
      <3> QED BY <1>2, <3>1
    <2>2. n \in Nat /\ n \in 1..n
      BY <1>2
    <2>3. {n} \cup U \in SUBSET Nat
      BY <2>1, <2>2
    <2> QED BY <1>8, <2>3 DEF CommitType
  <1>10. new.tree = content /\ new.past = {n} \cup U
    OBVIOUS
  <1> HIDE DEF new
  <1>11. /\ commits' \in Seq(CommitType) /\ Len(commits') = n
         /\ \A c \in Ids : commits'[c] = commits[c]
         /\ commits'[n] = new
    BY <1>2, <1>5, <1>9, AppendProperties
  <1> DEFINE NP(c) == commits'[c].past
             NR(c) == commits'[c].tree.pointer.ref
  <1>12. Ids' = Ids \cup {n}
    BY <1>2, <1>11, LenProperties DEF Ids
  <1>13. /\ \A c \in Ids : NP(c) = Past(c) /\ NR(c) = Ref(c)
         /\ NP(n) = {n} \cup U /\ NR(n) = content.pointer.ref
    BY <1>10, <1>11 DEF Past, Ref, TreeOf
  <1> HIDE DEF n, NP, NR
  <1>14. \A c \in Ids : Past(c) \subseteq Ids /\ c \in Nat
    BY <1>1, <1>2 DEF History
  <1>15. ASSUME NEW c \in Ids
         PROVE  /\ NP(c) \subseteq 1..c /\ 1 \in NP(c) /\ c \in NP(c)
                /\ \A d \in NP(c) : NP(d) \subseteq NP(c) /\ NR(d) <= NR(c)
    BY <1>1, <1>13, <1>14 DEF History
  <1>16. /\ NP(n) \subseteq 1..n /\ 1 \in NP(n) /\ n \in NP(n)
         /\ \A d \in NP(n) : NP(d) \subseteq NP(n) /\ NR(d) <= NR(n)
    <2>1. NP(n) \subseteq 1..n /\ 1 \in NP(n) /\ n \in NP(n)
      <3>1. ASSUME NEW x \in U PROVE x \in 1..n
        <4>1. x \in 1..Len(commits)
          BY <1>2, <1>6
        <4> QED BY <1>2, <4>1
      <3>2. n \in 1..n
        BY <1>2
      <3> QED BY <1>6, <1>13, <3>1, <3>2
    <2>2. NR(n) \in Nat
      BY <1>13, ReleaseBounds DEF Tree
    <2>3. ASSUME NEW d \in U PROVE NP(d) \subseteq NP(n) /\ NR(d) <= NR(n)
      BY <1>6, <1>7, <1>13
    <2> QED BY <1>13, <2>1, <2>2, <2>3
  <1>17. History'
    BY <1>12, <1>15, <1>16 DEF History, Past, Ref, TreeOf, NP, NR
  <1> QED BY <1>2, <1>4, <1>10, <1>11, <1>12, <1>17 DEF n

\* What does not go away: every step is of this kind.
Grows ==
  /\ Ids \subseteq Ids' /\ \A c \in Ids : commits'[c] = commits[c]
  /\ DOMAIN records \subseteq DOMAIN records' /\ \A r \in DOMAIN records : records'[r] = records[r]
  /\ tips \subseteq tips'
  /\ Past(main) \subseteq Past(main)'
  /\ published \subseteq published'
  /\ \A v \in Versions : origin[v] # NoTag => origin'[v] = origin[v]

LEMMA MainHistory ==
  ASSUME RInv
  PROVE  /\ Ids = 1..Len(commits) /\ Len(commits) \in Nat /\ main \in Ids /\ main \in Nat
         /\ Past(main) \subseteq Ids
  <1>1. Ids = 1..Len(commits) /\ Len(commits) \in Nat /\ main \in Ids
    BY LenProperties DEF RInv, Typed, Ids
  <1>2. Past(main) \subseteq 1..main
    BY <1>1 DEF RInv, History
  <1> QED BY <1>1, <1>2

LEMMA SoundStays ==
  ASSUME RInv, Grows, NEW v, NEW tag \in TagType, SoundTag(v, tag)
  PROVE  SoundTag(v, tag)'
  <1>1. tips \subseteq Ids /\ DOMAIN records = 1..Len(records) /\ Len(records) \in Nat /\ main \in Ids
    BY LenProperties DEF RInv, Typed
  <1>2. tag.commit \in Ids
    BY MainHistory DEF SoundTag
  <1>3. tag.record \in DOMAIN records
    BY <1>1 DEF SoundTag, TagType
  <1>4. \A c \in Ids : TreeOf(c)' = TreeOf(c)
    BY DEF Grows, TreeOf
  <1> QED BY <1>1, <1>2, <1>3, <1>4 DEF SoundTag, Grows

LEMMA ProvenStays ==
  ASSUME RInv, Grows, NEW p, p.ref \in Versions, Proven(p)
  PROVE  Proven(p)'
  <1>1. p.sha \in Ids
    BY MainHistory DEF Proven
  <1> QED BY <1>1 DEF Proven, Grows, Installs, TreeOf

\* What is there stays in the types, as they grow.
LEMMA TypesGrow ==
  ASSUME RInv, Len(commits') \in Nat, Len(commits) <= Len(commits'),
         Len(records') \in Nat, Len(records) <= Len(records')
  PROVE  /\ TagType \subseteq TagType' /\ PrType \subseteq PrType' /\ WorktreeType \subseteq WorktreeType'
         /\ [version : Nat, tag : TagType] \subseteq [version : Nat, tag : TagType']
         /\ DOMAIN commits \subseteq 1..Len(commits') /\ DOMAIN commits = 1..Len(commits)
         /\ DOMAIN records \subseteq 1..Len(records') /\ DOMAIN records = 1..Len(records)
         /\ Len(commits) \in Nat /\ Len(records) \in Nat
  <1>1. /\ DOMAIN commits = 1..Len(commits) /\ Len(commits) \in Nat
        /\ DOMAIN records = 1..Len(records) /\ Len(records) \in Nat
    BY LenProperties DEF RInv, Typed
  <1>2. 0..Len(commits) \subseteq 0..Len(commits') /\ 0..Len(records) \subseteq 0..Len(records')
    BY <1>1
  <1>3. TagType \subseteq TagType'
    BY <1>2 DEF TagType
  <1>4. PrType \subseteq PrType' /\ WorktreeType \subseteq WorktreeType'
    BY <1>2 DEF PrType, WorktreeType
  <1>5. [version : Nat, tag : TagType] \subseteq [version : Nat, tag : TagType']
    BY <1>3
  <1> QED BY <1>1, <1>3, <1>4, <1>5

-----------------------------------------------------------------------------
(* The steps that change neither git, the records, GitHub nor PyPI.        *)
LEMMA NothingPushed ==
  ASSUME RInv, UNCHANGED <<commits, main, tips, records, origin, published, held>>,
         known' \in tips, local' \in [Versions -> TagType], pr' \in PrType, tree' \in WorktreeType,
         drafts' = drafts, Paired'
  PROVE  RInv'
  <1>1. Typed'
    BY DEF RInv, Typed, Ids, TagType, PrType, WorktreeType
  <1>2. History'
    BY DEF RInv, History, Ids, Past, Ref, TreeOf
  <1>3. Tags'
    BY DEF RInv, Tags, SoundTag, Past, TreeOf
  <1>4. \A c \in Ids' : Proven(TreeOf(c).pointer)'
    BY DEF RInv, Proven, Installs, Ids, Past, TreeOf
  <1>5. tips' \subseteq Past(main)'
    BY DEF RInv, Past
  <1> QED BY <1>1, <1>2, <1>3, <1>4, <1>5 DEF RInv

LEMMA TagWrites ==
  ASSUME RInv, Tag
  PROVE  local' \in [Versions -> TagType]
  <1>1. /\ local \in [Versions -> TagType] /\ tree \in WorktreeType /\ pr \in PrType /\ main \in Ids
        /\ DOMAIN records = 1..Len(records) /\ Len(records) \in Nat /\ tree.head # 0
    BY LenProperties DEF RInv, Typed, Tag
  <1>2. Ids = 1..Len(commits) /\ Len(commits) \in Nat
    BY MainHistory
  <1>3. tree.head \in 0..Len(commits) /\ tree.record \in 0..Len(records) /\ pr.head \in 0..Len(commits)
    BY <1>1 DEF WorktreeType, PrType
  <1>4. main \in 0..Len(commits) /\ Past(tree.head) \subseteq 0..Len(commits)
    <2>1. tree.head \in Ids
      BY <1>1, <1>2, <1>3
    <2>2. Past(tree.head) \subseteq 1..tree.head
      BY <2>1 DEF RInv, History
    <2>3. \A x \in 1..tree.head : x \in 0..Len(commits)
      BY <1>2, <1>3
    <2>4. main \in 0..Len(commits)
      BY <1>1, <1>2
    <2> QED BY <2>2, <2>3, <2>4
  <1>5. ASSUME NEW tag \in MistakenTags PROVE tag \in TagType
    <2>1. CASE tag = [annotated |-> FALSE, commit |-> tree.head, record |-> 0]
      BY <1>1, <1>3, <2>1 DEF TagType
    <2>2. CASE \E c \in {main, pr.head} \cup Past(tree.head) :
                 tag = [annotated |-> TRUE, commit |-> c, record |-> tree.record]
      BY <1>3, <1>4, <2>2 DEF TagType
    <2>3. CASE \E r \in DOMAIN records : tag = [annotated |-> TRUE, commit |-> tree.head, record |-> r]
      BY <1>1, <1>3, <2>3 DEF TagType
    <2> QED BY <2>1, <2>2, <2>3 DEF MistakenTags
  <1>6. [annotated |-> TRUE, commit |-> tree.head, record |-> tree.record] \in TagType
    BY <1>3 DEF TagType
  <1> QED BY <1>1, <1>5, <1>6 DEF Tag

LEMMA NoTagType ==
  ASSUME RInv PROVE NoTag \in TagType
  <1>1. Len(records) \in Nat /\ Len(commits) \in Nat
    BY LenProperties DEF RInv, Typed
  <1> QED BY <1>1 DEF NoTag, TagType

LEMMA WorktreeSteps ==
  ASSUME RInv, PushBranch \/ Checkout \/ Preflight \/ StartGates \/ Tag \/ Untag \/ Fetch
  PROVE  RInv'
  <1>1. /\ UNCHANGED <<commits, main, tips, records, origin, published, held>> /\ drafts' = drafts
        /\ local \in [Versions -> TagType] /\ tree \in WorktreeType /\ pr \in PrType
        /\ known \in tips /\ main \in tips /\ Paired
    BY DEF RInv, Typed, PushBranch, Checkout, Preflight, StartGates, Tag, Untag, Fetch
  <1>2. TagType' = TagType /\ PrType' = PrType /\ WorktreeType' = WorktreeType
    BY <1>1 DEF TagType, PrType, WorktreeType
  <1>3. tree.head \in 0..Len(commits) /\ pr.head \in 0..Len(commits)
    BY <1>1 DEF WorktreeType, PrType
  <1>4. CASE PushBranch
    <2>1. pr' = [pr EXCEPT !.head = tree.head] /\ UNCHANGED <<known, local, tree>> /\ pr.open
      BY <1>4 DEF PushBranch
    <2>2. pr' \in PrType /\ pr'.head = tree.head /\ pr'.version = pr.version /\ pr'.open = pr.open
      BY <1>1, <1>3, <2>1 DEF PrType
    <2>3. Paired'
      BY <1>1, <2>1, <2>2 DEF Paired
    <2> QED BY <1>1, <2>1, <2>2, <2>3, NothingPushed
  <1>5. CASE Checkout
    <2>1. tree.head # 0 /\ UNCHANGED <<known, local, pr>> /\ pr.head # 0
      BY <1>1, <1>5 DEF Checkout, Paired
    <2>2. CASE \E c \in Past(pr.head) \ {tree.head} : tree' = [tree EXCEPT !.head = c, !.clean = TRUE]
      <3>1. PICK c \in Past(pr.head) : tree' = [tree EXCEPT !.head = c, !.clean = TRUE]
        BY <2>2
      <3>2. c \in 0..Len(commits) /\ c # 0
        <4>1. Ids = 1..Len(commits) /\ Len(commits) \in Nat /\ pr.head \in Ids
          BY <1>3, <2>1, MainHistory
        <4>2. c \in 1..pr.head
          BY <3>1, <4>1 DEF RInv, History
        <4> QED BY <4>1, <4>2
      <3>3. tree' \in WorktreeType /\ tree'.head = c
        <4> DEFINE top == 0..Len(commits)
        <4>1. c \in top /\ tree \in [head : top, clean : BOOLEAN, record : 0..Len(records), gates : top,
                                     ready : BOOLEAN]
          BY <1>1, <3>2 DEF WorktreeType
        <4> HIDE DEF top
        <4>2. tree' \in [head : top, clean : BOOLEAN, record : 0..Len(records), gates : top, ready : BOOLEAN]
              /\ tree'.head = c
          BY <3>1, <4>1
        <4> QED BY <4>2 DEF WorktreeType, top
      <3>4. Paired'
        BY <1>1, <2>1, <3>2, <3>3 DEF Paired
      <3> QED BY <1>1, <2>1, <3>3, <3>4, NothingPushed
    <2>3. CASE tree' = [tree EXCEPT !.clean = ~@]
      <3>1. tree' \in WorktreeType /\ tree'.head = tree.head
        BY <1>1, <2>3 DEF WorktreeType
      <3>2. Paired'
        BY <1>1, <2>1, <3>1 DEF Paired
      <3> QED BY <1>1, <2>1, <3>1, <3>2, NothingPushed
    <2> QED BY <1>5, <2>2, <2>3 DEF Checkout
  <1>6. CASE Preflight \/ StartGates
    <2>1. UNCHANGED <<known, local, pr>>
      BY <1>6 DEF Preflight, StartGates
    <2>2. tree' \in WorktreeType /\ tree'.head = tree.head
      <3>1. CASE Preflight
        <4>1. PreflightHolds \in BOOLEAN
          BY DEF PreflightHolds
        <4> HIDE DEF PreflightHolds
        <4> QED BY <1>1, <3>1, <4>1 DEF Preflight, WorktreeType
      <3>2. CASE StartGates
        BY <1>1, <1>3, <3>2 DEF StartGates, WorktreeType
      <3> QED BY <1>6, <3>1, <3>2
    <2>3. Paired'
      BY <1>1, <2>1, <2>2 DEF Paired
    <2> QED BY <1>1, <2>1, <2>2, <2>3, NothingPushed
  <1>7. CASE Tag \/ Untag
    <2>1. UNCHANGED <<known, pr, tree>>
      BY <1>7 DEF Tag, Untag
    <2>2. local' \in [Versions -> TagType]
      BY <1>1, <1>7, TagWrites, NoTagType DEF Untag
    <2>3. Paired'
      BY <1>1, <2>1 DEF Paired
    <2> QED BY <1>1, <2>1, <2>2, <2>3, NothingPushed
  <1>8. CASE Fetch
    <2>1. UNCHANGED <<local, pr, tree>> /\ known' = main
      BY <1>8 DEF Fetch
    <2>2. Paired'
      BY <1>1, <2>1 DEF Paired
    <2> QED BY <1>1, <2>1, <2>2, NothingPushed
  <1> QED BY <1>4, <1>5, <1>6, <1>7, <1>8

-----------------------------------------------------------------------------
(* The steps that do: what a step adds is sound when it is added.          *)
LEMMA Accumulates ==
  ASSUME RInv, Grows, Typed', Paired', History', tips' \subseteq commits'[main'].past,
         \A v \in Versions : \/ origin'[v] = origin[v]
                             \/ SoundTag(v, origin'[v]) /\ origin'[v] \in TagType,
         \/ held' = held \/ held' = NotHeld
         \/ held'.version \in Versions /\ held'.tag \in TagType /\ SoundTag(held'.version, held'.tag),
         \A v \in published' : v \in published \/ origin[v] # NoTag,
         \A c \in Ids' : \/ c \in Ids
                         \/ /\ commits'[c].tree.pointer.ref \in Versions
                            /\ Proven(commits'[c].tree.pointer)
  PROVE  RInv'
  <1>1. origin \in [Versions -> TagType] /\ held \in [version : Nat, tag : TagType] /\ published' \subseteq Versions
        /\ origin' \in [Versions -> TagType'] /\ Tags
    BY DEF RInv, Typed
  <1> DEFINE NewSound(v, tag) ==
               /\ tag.annotated
               /\ tag.commit \in commits'[main'].past
               /\ commits'[tag.commit].tree.version = v /\ commits'[tag.commit].tree.stale = {}
               /\ \E t \in tips' : commits'[t].tree = commits'[tag.commit].tree
               /\ tag.record # 0
               /\ records'[tag.record] = [commit |-> tag.commit, passed |-> TRUE]
  <1>20. ASSUME NEW v \in Versions, NEW tag \in TagType, SoundTag(v, tag) PROVE NewSound(v, tag)
    <2>1. SoundTag(v, tag)'
      BY <1>20, SoundStays
    <2> QED BY <2>1 DEF SoundTag, TreeOf, Past
  <1>21. (\A v \in Versions : origin'[v] # NoTag => NewSound(v, origin'[v]))
         /\ (held' # NotHeld => held'.version \in Versions /\ NewSound(held'.version, held'.tag))
         /\ (\A v \in published' : origin'[v] # NoTag)
         => Tags'
    BY DEF Tags, SoundTag, TreeOf, Past
  <1> HIDE DEF NewSound
  <1>2. ASSUME NEW v \in Versions, origin'[v] # NoTag PROVE NewSound(v, origin'[v])
    <2>1. origin'[v] \in TagType /\ SoundTag(v, origin'[v])
      BY <1>1, <1>2 DEF Tags
    <2> QED BY <1>20, <2>1
  <1>3. ASSUME held' # NotHeld PROVE held'.version \in Versions /\ NewSound(held'.version, held'.tag)
    <2>1. held'.version \in Versions /\ held'.tag \in TagType /\ SoundTag(held'.version, held'.tag)
      BY <1>1, <1>3 DEF Tags
    <2> QED BY <1>20, <2>1
  <1>4. \A v \in published' : origin'[v] # NoTag
    BY <1>1 DEF Tags, Grows
  <1>5. Tags'
    BY <1>2, <1>3, <1>4, <1>21
  <1>6. ASSUME NEW c \in Ids' PROVE Proven(TreeOf(c).pointer)'
    <2>1. commits'[c].tree.pointer.ref \in Versions /\ Proven(commits'[c].tree.pointer)
      <3>1. CASE c \in Ids
        <4>1. commits'[c] = commits[c] /\ Proven(TreeOf(c).pointer)
          BY <3>1 DEF RInv, Grows
        <4>2. published \subseteq Versions
          BY DEF RInv, Typed
        <4> QED BY <4>1, <4>2 DEF TreeOf, Proven
      <3>2. CASE c \notin Ids
        BY <3>2
      <3> QED BY <3>1, <3>2
    <2>2. PICK p : p = commits'[c].tree.pointer
      OBVIOUS
    <2>3. Proven(p)'
      BY <2>1, <2>2, ProvenStays
    <2> QED BY <2>2, <2>3 DEF TreeOf, Proven
  <1>7. tips' \subseteq Past(main)'
    BY DEF Past
  <1> QED BY <1>5, <1>6, <1>7 DEF RInv

LEMMA RecordsAdded ==
  ASSUME RInv, FinishGates
  PROVE  RInv'
  <1>1. /\ UNCHANGED <<commits, main, tips, known, local, origin, published, pr, held, drafts>>
        /\ tree \in WorktreeType /\ records \in Seq([commit : Nat, passed : BOOLEAN])
        /\ Typed /\ Paired
    BY DEF RInv, Typed, FinishGates
  <1>2. /\ Ids = 1..Len(commits) /\ Len(commits) \in Nat /\ main \in Ids
        /\ Len(records) \in Nat /\ DOMAIN records = 1..Len(records)
    BY <1>1, MainHistory, LenProperties
  <1>3. tree.gates \in Nat /\ tree.gates \in 0..Len(commits)
    BY <1>1, <1>2 DEF WorktreeType
  <1>4. PICK passed \in BOOLEAN : records' = Append(records, [commit |-> tree.gates, passed |-> passed])
    BY DEF FinishGates
  <1>5. /\ records' \in Seq([commit : Nat, passed : BOOLEAN]) /\ Len(records') = Len(records) + 1
        /\ \A r \in DOMAIN records : records'[r] = records[r]
    BY <1>1, <1>2, <1>3, <1>4, AppendProperties
  <1>6. /\ TagType \subseteq TagType' /\ PrType \subseteq PrType' /\ WorktreeType \subseteq WorktreeType'
        /\ [version : Nat, tag : TagType] \subseteq [version : Nat, tag : TagType']
    BY <1>1, <1>2, <1>5, TypesGrow
  <1>7. tree' \in WorktreeType' /\ tree'.head = tree.head
    <2>1. CASE tree' = [tree EXCEPT !.gates = 0]
      <3>1. tree' \in WorktreeType /\ tree'.head = tree.head
        BY <1>1, <1>2, <2>1 DEF WorktreeType
      <3> QED BY <1>6, <3>1
    <2>2. CASE tree' = [tree EXCEPT !.gates = 0, !.record = Len(records) + 1]
      <3> DEFINE ids == 0..Len(commits)
                 rs == 0..Len(records')
      <3>1. Len(records) + 1 \in rs /\ 0 \in ids
        BY <1>2, <1>5
      <3>2. tree \in [head : ids, clean : BOOLEAN, record : rs, gates : ids, ready : BOOLEAN]
        BY <1>1, <1>6 DEF WorktreeType
      <3> HIDE DEF ids, rs
      <3>3. tree' \in [head : ids, clean : BOOLEAN, record : rs, gates : ids, ready : BOOLEAN]
            /\ tree'.head = tree.head
        BY <2>2, <3>1, <3>2
      <3> QED BY <1>1, <3>3 DEF WorktreeType, ids, rs
    <2> QED BY <2>1, <2>2 DEF FinishGates
  <1>8. Typed'
    <2>1. local' \in [Versions -> TagType'] /\ origin' \in [Versions -> TagType']
      BY <1>1, <1>6 DEF Typed
    <2>2. pr' \in PrType' /\ held' \in [version : Nat, tag : TagType']
      BY <1>1, <1>6 DEF Typed
    <2> QED BY <1>1, <1>5, <1>7, <2>1, <2>2 DEF Typed, Ids
  <1>9. Paired' /\ History'
    BY <1>1, <1>7 DEF RInv, Paired, History, Ids, Past, Ref, TreeOf
  <1>10. Grows
    BY <1>1, <1>2, <1>5, LenProperties DEF Grows, Ids, Past
  <1>11. tips' \subseteq commits'[main'].past /\ Ids' = Ids
    BY <1>1 DEF RInv, Past, Ids
  <1> QED BY <1>1, <1>8, <1>9, <1>10, <1>11, Accumulates

LEMMA StaleIsEmpty ==
  ASSUME NEW content \in Tree, NEW v, LiteralsAgree(content, v), ChangelogRolled(content), LockFollows(content)
  PROVE  content.version = v /\ content.stale = {}
  BY DEF Tree, Files, LiteralsAgree, ChangelogRolled, LockFollows

LEMMA HeldIsSound ==
  ASSUME RInv, PostMerge, held' # NotHeld
  PROVE  held'.version \in Versions /\ held'.tag \in TagType /\ SoundTag(held'.version, held'.tag)
  <1> DEFINE release == tree.head
             v == pr.version
             tag == local[v]
  <1>1. /\ Typed /\ Paired /\ release # 0 /\ local \in [Versions -> TagType]
        /\ main \in Ids /\ main \in tips /\ Ids = 1..Len(commits) /\ Len(commits) \in Nat
    BY MainHistory DEF RInv, Typed, PostMerge
  <1>2. v \in Versions /\ tag \in TagType
    BY <1>1 DEF Paired
  <1>3. PostMergeHolds(main, release) /\ held' = [version |-> v, tag |-> tag]
    BY DEF PostMerge, Refetched
  <1>4. /\ TreeOf(main) = TreeOf(release) /\ release \in Past(main)
        /\ tag.annotated /\ tag.commit = release /\ Predicate(v, release, local)
    BY <1>3 DEF PostMergeHolds, LocalTagHolds
  <1>5. /\ LiteralsAgree(TreeOf(release), v) /\ ChangelogRolled(TreeOf(release)) /\ LockFollows(TreeOf(release))
        /\ ValidRecord(tag.record, release)
    BY <1>4 DEF Predicate, ReleaseTree, PreTagTree, TagIsSound
  <1>6. TreeOf(release) \in Tree
    <2>1. release \in Ids
      BY <1>1, <1>4, MainHistory
    <2>2. commits[release] \in CommitType
      BY <1>1, <2>1, ElementOfSeq DEF Typed
    <2> QED BY <2>2 DEF TreeOf, CommitType
  <1>7. TreeOf(release).version = v /\ TreeOf(release).stale = {}
    BY <1>5, <1>6, StaleIsEmpty
  <1>8. tag.record # 0 /\ records[tag.record] = [commit |-> release, passed |-> TRUE]
    <2>1. tag.record # 0 /\ records[tag.record].commit = release /\ records[tag.record].passed
      BY <1>5 DEF ValidRecord
    <2>2. tag.record \in 1..Len(records) /\ records \in Seq([commit : Nat, passed : BOOLEAN])
      <3>1. Len(records) \in Nat /\ tag.record \in 0..Len(records)
        BY <1>1, <1>2, LenProperties DEF Typed, TagType
      <3> QED BY <1>1, <2>1, <3>1 DEF Typed
    <2>3. records[tag.record] \in [commit : Nat, passed : BOOLEAN]
      BY <2>2, ElementOfSeq
    <2> QED BY <2>1, <2>3
  <1> HIDE DEF release, v, tag
  <1>9. held'.version = v /\ held'.tag = tag
    BY <1>3
  <1>10. SoundTag(v, tag)
    BY <1>1, <1>4, <1>7, <1>8 DEF SoundTag
  <1>11. SoundTag(held'.version, held'.tag)
    BY <1>9, <1>10
  <1> QED BY <1>2, <1>9, <1>11

LEMMA ReleaseSteps ==
  ASSUME RInv, PostMerge \/ PushTag \/ \E v \in Versions : Publish(v)
  PROVE  RInv'
  <1>1. /\ UNCHANGED <<commits, main, tips, records, local, pr, tree, drafts>>
        /\ known' \in {known, main} /\ Typed /\ Paired
    BY DEF RInv, PostMerge, PushTag, Publish, Refetched
  <1>2. TagType' = TagType /\ PrType' = PrType /\ WorktreeType' = WorktreeType /\ Ids' = Ids
    BY <1>1 DEF TagType, PrType, WorktreeType, Ids
  <1>3. Paired' /\ History' /\ tips' \subseteq commits'[main'].past
    BY <1>1 DEF RInv, Paired, History, Ids, Past, Ref, TreeOf
  <1>4. held \in [version : Nat, tag : TagType] /\ origin \in [Versions -> TagType] /\ published \subseteq Versions
    BY <1>1 DEF Typed
  <1>5. ASSUME held' \in [version : Nat, tag : TagType], origin' \in [Versions -> TagType], published' \subseteq Versions
        PROVE  Typed'
    BY <1>1, <1>2, <1>5 DEF Typed
  <1>6. ASSUME origin' = origin, published \subseteq published' PROVE Grows
    BY <1>1, <1>2, <1>6 DEF Grows, Past
  <1>7. CASE PostMerge
    <2>1. origin' = origin /\ published' = published
      BY <1>7 DEF PostMerge
    <2>2. held' \in [version : Nat, tag : TagType]
      <3>1. pr.version \in Nat /\ NotHeld \in [version : Nat, tag : TagType]
        BY <1>1, NoTagType DEF NotHeld, Typed, PrType
      <3>2. tree.head # 0 => pr.version \in Versions
        BY <1>1 DEF Paired
      <3> QED BY <1>1, <1>7, <3>1, <3>2 DEF PostMerge, Typed
    <2> QED BY <1>2, <1>3, <1>4, <1>5, <1>6, <1>7, <2>1, <2>2, HeldIsSound, Accumulates
  <1>8. CASE PushTag
    <2>1. held # NotHeld /\ origin[held.version] = NoTag /\ published' = published /\ held' = held
          /\ origin' = [origin EXCEPT ![held.version] = held.tag]
      BY <1>8 DEF PushTag
    <2>2. held.tag \in TagType /\ held.version \in Versions /\ SoundTag(held.version, held.tag)
      BY <1>4, <2>1 DEF RInv, Tags
    <2>3. origin' \in [Versions -> TagType]
          /\ \A v \in Versions : origin'[v] = IF v = held.version THEN held.tag ELSE origin[v]
      BY <1>4, <2>1, <2>2
    <2>4. Grows
      BY <1>1, <1>2, <2>1, <2>2, <2>3 DEF Grows, Past
    <2> QED BY <1>2, <1>3, <1>4, <1>5, <2>1, <2>2, <2>3, <2>4, Accumulates
  <1>9. ASSUME NEW v \in Versions, Publish(v) PROVE RInv'
    <2>1. origin[v] # NoTag /\ published' = published \cup {v} /\ origin' = origin /\ held' = held
      BY <1>9 DEF Publish
    <2> QED BY <1>2, <1>3, <1>4, <1>5, <1>6, <2>1, Accumulates
  <1> QED BY <1>7, <1>8, <1>9

-----------------------------------------------------------------------------
(* The steps that add a commit.                                            *)
LEMMA EachCommit ==
  ASSUME RInv, NEW c \in Ids
  PROVE  /\ TreeOf(c) \in Tree /\ Ref(c) \in Nat /\ Proven(TreeOf(c).pointer)
         /\ Ref(c) = TreeOf(c).pointer.ref
  <1>1. commits[c] \in CommitType
    BY ElementOfSeq, LenProperties DEF RInv, Typed, Ids
  <1> QED BY <1>1, ReleaseBounds DEF RInv, TreeOf, CommitType, Tree, Ref

\* A commit whose pointer is proven and is not behind any of its parents', on a
\* branch or as the new main.
LEMMA CommitAdded ==
  ASSUME RInv, NEW ps \in Seq(Ids), 1 \in DOMAIN ps, NEW content \in Tree,
         commits' = Commit(ps, content), Proven(content.pointer),
         \A i \in DOMAIN ps : Ref(ps[i]) <= content.pointer.ref,
         UNCHANGED <<records, origin, published, held>>,
         \/ main' = main /\ tips' = tips
         \/ main' = NextId /\ tips' = tips \cup {NextId} /\ main = ps[1],
         known' \in tips, local' \in [Versions -> TagType], Paired',
         pr' \in PrType', tree' \in WorktreeType', drafts' \subseteq [head : Ids', base : Ids']
  PROVE  RInv'
  <1> DEFINE n == NextId
  <1>1. Typed /\ Tags /\ tips \subseteq Past(main)
    BY DEF RInv
  <1>2. /\ commits' \in Seq(CommitType) /\ Len(commits') = Len(commits) + 1
        /\ Ids' = Ids \cup {n} /\ \A c \in Ids : commits'[c] = commits[c]
        /\ commits'[n].tree = content
        /\ Past(ps[1]) \subseteq commits'[n].past /\ n \in commits'[n].past
        /\ History'
    BY NewCommit
  <1> HIDE DEF n
  <1>3. Len(commits) \in Nat /\ Len(records) \in Nat /\ main \in Ids
    BY <1>1, LenProperties DEF Typed
  <1>4. /\ TagType \subseteq TagType' /\ [version : Nat, tag : TagType] \subseteq [version : Nat, tag : TagType']
    <2>1. Len(commits') \in Nat /\ Len(commits) <= Len(commits') /\ Len(records') = Len(records)
      BY <1>2, <1>3
    <2>2. Len(records') \in Nat /\ Len(records) <= Len(records')
      BY <1>3, <2>1
    <2> QED BY <2>1, <2>2, TypesGrow
  <1>5. tips' \subseteq Ids' /\ main' \in tips' /\ known' \in tips' /\ tips \subseteq tips'
    BY <1>1, <1>2 DEF Typed, n
  <1>6. Typed'
    <2>1. local' \in [Versions -> TagType'] /\ origin' \in [Versions -> TagType']
          /\ held' \in [version : Nat, tag : TagType']
      BY <1>1, <1>4 DEF Typed
    <2> QED BY <1>1, <1>2, <1>5, <2>1 DEF Typed
  <1>7. Past(main) \subseteq commits'[main'].past /\ tips' \subseteq commits'[main'].past
    <2>1. CASE main' = main /\ tips' = tips
      BY <1>1, <1>2, <1>3, <2>1 DEF Past
    <2>2. CASE main' = n /\ tips' = tips \cup {n} /\ main = ps[1]
      BY <1>1, <1>2, <2>2
    <2> QED BY <2>1, <2>2 DEF n
  <1>8. Grows
    BY <1>2, <1>5, <1>7 DEF Grows, Past
  <1>9. /\ \A c \in Ids' : \/ c \in Ids
                           \/ /\ commits'[c].tree.pointer.ref \in Versions
                              /\ Proven(commits'[c].tree.pointer)
    BY <1>2 DEF Tree
  <1> QED BY <1>1, <1>2, <1>6, <1>7, <1>8, <1>9, Accumulates DEF Tags

\* What a branch's commits are: the release as it is prepared, work, the pointer.
LEMMA BranchTrees ==
  ASSUME RInv, NEW content \in Tree
  PROVE  /\ \A v \in Versions : /\ Prepared(content, v) \in Tree
                                /\ Prepared(content, v).pointer = content.pointer
         /\ Worked(content) \in Tree /\ Worked(content).pointer = content.pointer
         /\ \A slip \in SUBSET Slips :
              /\ [Worked(content) EXCEPT !.stale = @ \cup slip] \in Tree
              /\ [Worked(content) EXCEPT !.stale = @ \cup slip].pointer = content.pointer
         /\ \A until \in Nat :
              /\ [Worked(content) EXCEPT !.until = until] \in Tree
              /\ [Worked(content) EXCEPT !.until = until].pointer = content.pointer
         /\ \A v \in Versions, c \in Nat :
              /\ [content EXCEPT !.pointer = [ref |-> v, sha |-> c]] \in Tree
              /\ [content EXCEPT !.pointer = [ref |-> v, sha |-> c]].pointer = [ref |-> v, sha |-> c]
  <1>1. ASSUME NEW v \in Versions
        PROVE  /\ Prepared(content, v) \in Tree
               /\ Prepared(content, v).pointer = content.pointer
    BY <1>1 DEF Prepared, Tree
  <1>2. NextId \in Nat
    BY MainHistory DEF NextId
  <1>3. Worked(content) \in Tree /\ Worked(content).pointer = content.pointer
    <2>1. content.work \cup {NextId} \in SUBSET Nat
      BY <1>2 DEF Tree
    <2> QED BY <2>1 DEF Worked, Tree
  <1>4. ASSUME NEW slip \in SUBSET Slips
        PROVE  /\ [Worked(content) EXCEPT !.stale = @ \cup slip] \in Tree
               /\ [Worked(content) EXCEPT !.stale = @ \cup slip].pointer = content.pointer
    <2>1. Worked(content).stale \cup slip \in SUBSET Files
      BY <1>3, ReleaseBounds DEF Tree
    <2> QED BY <1>3, <2>1 DEF Tree
  <1>5. ASSUME NEW until \in Nat
        PROVE  /\ [Worked(content) EXCEPT !.until = until] \in Tree
               /\ [Worked(content) EXCEPT !.until = until].pointer = content.pointer
    BY <1>3, <1>5 DEF Tree
  <1>6. ASSUME NEW v \in Versions, NEW c \in Nat
        PROVE  /\ [content EXCEPT !.pointer = [ref |-> v, sha |-> c]] \in Tree
               /\ [content EXCEPT !.pointer = [ref |-> v, sha |-> c]].pointer = [ref |-> v, sha |-> c]
    BY <1>6 DEF Tree
  <1> QED BY <1>1, <1>3, <1>4, <1>5, <1>6

LEMMA BranchSteps ==
  ASSUME RInv, Amend \/ PushedElsewhere \/ \E v \in Versions : Prepare(v)
  PROVE  RInv'
  <1> DEFINE n == NextId
  <1>1. /\ Typed /\ Paired /\ Len(commits) \in Nat /\ Ids = 1..Len(commits) /\ n = Len(commits) + 1
        /\ UNCHANGED <<main, tips, known, records, local, origin, published, held, drafts>>
    BY MainHistory DEF RInv, Amend, PushedElsewhere, Prepare, NextId
  <1>2. /\ pr \in PrType /\ tree \in WorktreeType /\ known \in Ids /\ known \in tips
        /\ local \in [Versions -> TagType] /\ drafts \subseteq [head : Ids, base : Ids]
    BY <1>1 DEF Typed
  <1>3. Len(records) \in Nat
    BY <1>1, LenProperties DEF Typed
  \* The branch gains a commit on parent; what is said of the worktree and the
  \* pull request is what the three steps differ in.
  <1>4. ASSUME NEW parent \in Ids, NEW content \in Tree, content.pointer = TreeOf(parent).pointer,
               commits' = Commit(<<parent>>, content)
        PROVE  /\ n \in 0..Len(commits') /\ Len(commits') \in Nat
               /\ pr \in PrType' /\ tree \in WorktreeType'
               /\ pr' \in PrType' /\ tree' \in WorktreeType' /\ Paired' => RInv'
    <2>1. <<parent>> \in Seq(Ids) /\ 1 \in DOMAIN <<parent>> /\ \A i \in DOMAIN <<parent>> : <<parent>>[i] = parent
      OBVIOUS
    <2>2. Ref(parent) <= content.pointer.ref /\ Proven(content.pointer)
      BY <1>4, EachCommit
    <2>3. \A i \in DOMAIN <<parent>> : Ref(<<parent>>[i]) <= content.pointer.ref
      BY <2>1, <2>2
    <2>4. Len(commits') = Len(commits) + 1 /\ Ids' = Ids \cup {n}
      BY <1>4, <2>1, <2>3, NewCommit
    <2>5. /\ n \in 0..Len(commits') /\ Len(commits') \in Nat
          /\ PrType \subseteq PrType' /\ WorktreeType \subseteq WorktreeType'
      <3>1. Len(commits') \in Nat /\ Len(commits) <= Len(commits') /\ n \in 0..Len(commits')
        BY <1>1, <2>4
      <3>2. Len(records') \in Nat /\ Len(records) <= Len(records')
        BY <1>1, <1>3
      <3> QED BY <3>1, <3>2, TypesGrow
    <2>6. drafts' \subseteq [head : Ids', base : Ids']
      BY <1>1, <1>2, <2>4
    <2>7. pr' \in PrType' /\ tree' \in WorktreeType' /\ Paired' => RInv'
      <3> HIDE DEF n
      <3> QED BY <1>1, <1>2, <1>4, <2>1, <2>2, <2>3, <2>6, CommitAdded
    <2> QED BY <1>2, <2>5, <2>7
  <1>5. CASE Amend
    <2> DEFINE h == tree.head
    <2>1. h # 0 /\ pr' = pr /\ h \in Ids /\ tree' = [tree EXCEPT !.head = n, !.clean = TRUE]
      <3>1. h \in 0..Len(commits) /\ h # 0
        BY <1>2, <1>5 DEF WorktreeType, Amend
      <3> QED BY <1>1, <1>5, <3>1 DEF Amend
    <2>2. PICK slip \in SUBSET Slips :
            commits' = Commit(<<h>>, [Worked(TreeOf(h)) EXCEPT !.stale = @ \cup slip])
      BY <1>5 DEF Amend
    <2>3. TreeOf(h) \in Tree
      BY <2>1, EachCommit
    <2>4. PICK content \in Tree : content.pointer = TreeOf(h).pointer /\ commits' = Commit(<<h>>, content)
      BY <2>2, <2>3, BranchTrees
    <2> HIDE DEF n, h
    <2>5. tree' \in WorktreeType' /\ tree'.head = n /\ pr' \in PrType'
      <3>1. n \in 0..Len(commits') /\ pr \in PrType' /\ tree \in WorktreeType'
        BY <1>4, <2>1, <2>4
      <3> DEFINE ids == 0..Len(commits')
                 rs == 0..Len(records')
      <3>2. n \in ids /\ tree \in [head : ids, clean : BOOLEAN, record : rs, gates : ids, ready : BOOLEAN]
        BY <3>1 DEF WorktreeType
      <3> HIDE DEF ids, rs
      <3>3. tree' \in [head : ids, clean : BOOLEAN, record : rs, gates : ids, ready : BOOLEAN] /\ tree'.head = n
        BY <2>1, <3>2
      <3> QED BY <2>1, <3>1, <3>3 DEF WorktreeType, ids, rs
    <2>6. Paired'
      BY <1>1, <2>1, <2>5 DEF Paired, h
    <2> QED BY <1>4, <2>1, <2>4, <2>5, <2>6
  <1>6. CASE PushedElsewhere
    <2> DEFINE h == pr.head
    <2>1. h # 0 /\ tree' = tree /\ h \in Ids /\ pr' = [pr EXCEPT !.head = n]
      <3>1. h \in 0..Len(commits) /\ h # 0
        BY <1>1, <1>2, <1>6 DEF PrType, Paired, PushedElsewhere
      <3> QED BY <1>1, <1>6, <3>1 DEF PushedElsewhere
    <2>2. TreeOf(h) \in Tree
      BY <2>1, EachCommit
    <2>3. PICK content \in Tree : content.pointer = TreeOf(h).pointer /\ commits' = Commit(<<h>>, content)
      BY <1>6, <2>2, BranchTrees DEF PushedElsewhere
    <2> HIDE DEF n, h
    <2>4. /\ pr' \in PrType' /\ pr'.head = n /\ pr'.version = pr.version /\ pr'.open = pr.open
          /\ tree' \in WorktreeType'
      <3>1. n \in 0..Len(commits') /\ pr \in PrType' /\ tree \in WorktreeType'
        BY <1>4, <2>1, <2>3
      <3> QED BY <2>1, <3>1 DEF PrType
    <2>5. Paired'
      BY <1>1, <2>1, <2>4 DEF Paired, h, n
    <2> QED BY <1>4, <2>1, <2>3, <2>4, <2>5
  <1>7. ASSUME NEW v \in Versions, Prepare(v) PROVE RInv'
    <2>1. TreeOf(known) \in Tree
      BY <1>2, EachCommit
    <2>2. PICK content \in Tree : content.pointer = TreeOf(known).pointer /\ commits' = Commit(<<known>>, content)
      BY <1>7, <2>1, BranchTrees DEF Prepare
    <2>3. PICK r \in {0, tree.record} : tree' = [NoTree EXCEPT !.head = n, !.record = r]
      BY <1>7 DEF Prepare
    <2>4. pr' = [version |-> v, head |-> n, open |-> TRUE]
      BY <1>7 DEF Prepare
    <2> HIDE DEF n
    <2>5. /\ pr' \in PrType' /\ tree' \in WorktreeType' /\ tree'.head = n
      <3>1. n \in 0..Len(commits') /\ tree \in WorktreeType' /\ Len(commits') \in Nat
        BY <1>2, <1>4, <2>2
      <3>2. v \in Nat
        BY ReleaseBounds
      <3>3. pr' \in PrType'
        BY <2>4, <3>1, <3>2 DEF PrType
      <3> DEFINE ids == 0..Len(commits')
                 rs == 0..Len(records')
      <3>4. 0 \in ids /\ 0 \in rs
        <4>1. Len(records') = Len(records)
          BY <1>1
        <4> QED BY <1>3, <3>1, <4>1
      <3>5. r \in rs /\ n \in ids
        <4>1. tree.record \in rs
          BY <3>1 DEF WorktreeType
        <4> QED BY <3>1, <3>4, <4>1
      <3> HIDE DEF ids, rs
      <3>6. tree' \in [head : ids, clean : BOOLEAN, record : rs, gates : ids, ready : BOOLEAN] /\ tree'.head = n
        BY <2>3, <3>4, <3>5 DEF NoTree
      <3> QED BY <3>3, <3>6 DEF WorktreeType, ids, rs
    <2>6. Paired'
      BY <1>1, <2>4, <2>5 DEF Paired, n
    <2> QED BY <1>2, <1>4, <2>2, <2>5, <2>6
  <1> QED BY <1>5, <1>6, <1>7

LEMMA PointerStep ==
  ASSUME RInv, NEW v \in Versions, Pointer(v)
  PROVE  RInv'
  <1> DEFINE n == NextId
             p == [ref |-> v, sha |-> origin[v].commit]
             content == [TreeOf(known) EXCEPT !.pointer = p]
  <1>1. /\ Typed /\ Paired /\ Len(commits) \in Nat /\ Ids = 1..Len(commits) /\ n = Len(commits) + 1
        /\ UNCHANGED <<main, tips, records, origin, published, held, pr, tree>>
        /\ known' = main /\ drafts' = drafts \cup {[head |-> n, base |-> main]}
        /\ commits' = Commit(<<known>>, content)
        /\ local' = [local EXCEPT ![v] = origin[v]]
        /\ PostPublishHolds(v) /\ PullRequestHolds(main, content, [local EXCEPT ![v] = origin[v]])
    BY MainHistory DEF RInv, Pointer, NextId
  <1>2. /\ pr \in PrType /\ tree \in WorktreeType /\ known \in Ids /\ main \in Ids /\ main \in tips
        /\ local \in [Versions -> TagType] /\ origin \in [Versions -> TagType]
        /\ drafts \subseteq [head : Ids, base : Ids] /\ Len(records) \in Nat
    BY <1>1, LenProperties DEF Typed
  <1>3. p.sha \in Nat /\ p.ref = v
    BY <1>1, <1>2 DEF TagType
  <1>4. content \in Tree /\ content.pointer = p
    <2> DEFINE c == origin[v].commit
    <2>1. TreeOf(known) \in Tree /\ c \in Nat
      BY <1>2, <1>3, EachCommit
    <2> HIDE DEF c
    <2>2. /\ [TreeOf(known) EXCEPT !.pointer = [ref |-> v, sha |-> c]] \in Tree
          /\ [TreeOf(known) EXCEPT !.pointer = [ref |-> v, sha |-> c]].pointer = [ref |-> v, sha |-> c]
      BY <2>1, BranchTrees
    <2> QED BY <2>2 DEF c
  <1> HIDE DEF content, n
  <1>5. Proven(content.pointer)
    <2>1. v \in published /\ Installs(origin[v].commit, v)
      BY <1>1 DEF PostPublishHolds
    <2>2. origin[v] # NoTag /\ SoundTag(v, origin[v])
      BY <2>1 DEF RInv, Tags
    <2> QED BY <1>3, <1>4, <2>1, <2>2 DEF Proven, SoundTag
  <1>6. Ref(known) <= content.pointer.ref
    <2>1. Ref(main) <= content.pointer.ref
      BY <1>1, <1>2, EachCommit DEF PullRequestHolds, Forward
    <2>2. Ref(known) <= Ref(main)
      BY <1>1, <1>2 DEF RInv, History, Typed
    <2>3. Ref(known) \in Nat /\ Ref(main) \in Nat /\ content.pointer.ref \in Nat
      BY <1>2, <1>3, <1>4, EachCommit, ReleaseBounds
    <2> QED BY <2>1, <2>2, <2>3
  <1>7. /\ <<known>> \in Seq(Ids) /\ 1 \in DOMAIN <<known>>
        /\ \A i \in DOMAIN <<known>> : Ref(<<known>>[i]) <= content.pointer.ref
    BY <1>2, <1>6
  <1>8. Len(commits') = Len(commits) + 1 /\ Ids' = Ids \cup {n}
    BY <1>1, <1>4, <1>7, NewCommit DEF n
  <1>9. pr' \in PrType' /\ tree' \in WorktreeType'
    <2>1. Len(commits') \in Nat /\ Len(commits) <= Len(commits')
      BY <1>1, <1>8
    <2>2. Len(records') \in Nat /\ Len(records) <= Len(records')
      BY <1>1, <1>2
    <2>3. PrType \subseteq PrType' /\ WorktreeType \subseteq WorktreeType'
      BY <2>1, <2>2, TypesGrow
    <2> QED BY <1>1, <1>2, <2>3
  <1>10. drafts' \subseteq [head : Ids', base : Ids']
    BY <1>1, <1>2, <1>8
  <1>11. Paired' /\ local' \in [Versions -> TagType] /\ known' \in tips
    BY <1>1, <1>2 DEF Paired
  <1> QED BY <1>1, <1>4, <1>5, <1>7, <1>9, <1>10, <1>11, CommitAdded

-----------------------------------------------------------------------------
(* The steps that move main.                                               *)
\* A commit on main, with main its first parent, that leaves the worktree alone.
LEMMA MainGains ==
  ASSUME RInv, NEW ps \in Seq(Ids), 1 \in DOMAIN ps, ps[1] = main, NEW content \in Tree,
         commits' = Commit(ps, content), Proven(content.pointer), MainAt(NextId),
         \A i \in DOMAIN ps : Ref(ps[i]) <= content.pointer.ref,
         UNCHANGED <<known, records, local, origin, published, tree, held>>,
         drafts' \subseteq drafts, pr' \in PrType, Paired'
  PROVE  RInv'
  <1>1. /\ Typed /\ Len(commits) \in Nat /\ main \in Ids
    BY MainHistory DEF RInv
  <1>2. /\ tree \in WorktreeType /\ known \in tips /\ local \in [Versions -> TagType]
        /\ drafts \subseteq [head : Ids, base : Ids] /\ Len(records) \in Nat
    BY <1>1, LenProperties DEF Typed
  <1>3. Len(commits') = Len(commits) + 1 /\ Ids \subseteq Ids'
    BY NewCommit
  <1>4. pr' \in PrType' /\ tree' \in WorktreeType'
    <2>1. Len(commits') \in Nat /\ Len(commits) <= Len(commits')
      BY <1>1, <1>3
    <2>2. Len(records') \in Nat /\ Len(records) <= Len(records')
      BY <1>2
    <2>3. PrType \subseteq PrType' /\ WorktreeType \subseteq WorktreeType'
      BY <2>1, <2>2, TypesGrow
    <2> QED BY <1>2, <2>3
  <1>5. drafts' \subseteq [head : Ids', base : Ids']
    BY <1>2, <1>3
  <1>6. main' = NextId /\ tips' = tips \cup {NextId} /\ local' \in [Versions -> TagType] /\ known' \in tips
    BY <1>2 DEF MainAt
  <1> QED BY <1>4, <1>5, <1>6, CommitAdded

LEMMA MergedProven ==
  ASSUME RInv, NEW head \in Ids, Mergeable(head)
  PROVE  /\ Merged(head) \in Tree /\ Proven(Merged(head).pointer)
         /\ Ref(main) <= Merged(head).pointer.ref /\ Ref(head) <= Merged(head).pointer.ref
  <1>1. Proven(Tip.pointer) /\ Proven(TreeOf(head).pointer)
    BY MainHistory, EachCommit DEF Tip
  <1> QED BY <1>1, MergedTree

LEMMA FastForward ==
  ASSUME RInv, pr.open, main \in Past(pr.head), MainAt(pr.head), pr' = [pr EXCEPT !.open = FALSE],
         UNCHANGED <<commits, known, records, local, origin, published, tree, held, drafts>>
  PROVE  RInv' /\ Ref(main) <= Ref(pr.head) /\ pr.head \in Ids
  <1>1. /\ Typed /\ Paired /\ History /\ Ids = 1..Len(commits) /\ Len(commits) \in Nat /\ main \in Ids
        /\ tips \subseteq Past(main) /\ Tags
    BY MainHistory DEF RInv
  <1>2. pr.head \in Ids /\ pr \in PrType
    <2>1. pr \in PrType /\ pr.head # 0
      BY <1>1 DEF Typed, Paired
    <2> QED BY <1>1, <2>1 DEF PrType
  <1>3. Past(main) \subseteq Past(pr.head) /\ Ref(main) <= Ref(pr.head) /\ pr.head \in Past(pr.head)
    BY <1>1, <1>2 DEF History
  <1>4. main' = pr.head /\ tips' = tips \cup {pr.head}
    BY DEF MainAt
  <1>5. pr' \in PrType /\ pr'.head = pr.head /\ pr'.version = pr.version /\ ~pr'.open
    BY <1>2 DEF PrType
  <1>6. Typed'
    <2>1. TagType' = TagType /\ PrType' = PrType /\ WorktreeType' = WorktreeType /\ Ids' = Ids
      BY DEF TagType, PrType, WorktreeType, Ids
    <2> QED BY <1>1, <1>2, <1>4, <1>5, <2>1 DEF Typed
  <1>7. Paired' /\ History'
    BY <1>1, <1>5 DEF Paired, History, Ids, Past, Ref, TreeOf
  <1>8. Grows
    BY <1>3, <1>4 DEF Grows, Ids, Past
  <1>9. tips' \subseteq commits'[main'].past /\ Ids' = Ids
    BY <1>1, <1>3, <1>4 DEF Past, Ids
  <1> QED BY <1>1, <1>2, <1>3, <1>6, <1>7, <1>8, <1>9, Accumulates DEF Tags

\* The three ways the release pull request is merged.
LEMMA MergeReleaseStep ==
  ASSUME RInv, MergeRelease
  PROVE  RInv' /\ Ref(main) <= commits'[main'].tree.pointer.ref
  <1> DEFINE h == pr.head
             m == Merged(h)
  <1>1. /\ Typed /\ Paired /\ pr.open /\ Mergeable(h) /\ main \in Ids
        /\ Ids = 1..Len(commits) /\ Len(commits) \in Nat /\ pr' = [pr EXCEPT !.open = FALSE]
        /\ UNCHANGED <<known, records, local, origin, published, tree, held, drafts>>
    BY MainHistory DEF RInv, MergeRelease
  <1>2. pr \in PrType /\ h \in Ids
    <2>1. pr \in PrType /\ pr.head # 0
      BY <1>1 DEF Typed, Paired
    <2> QED BY <1>1, <2>1 DEF PrType
  <1>3. m \in Tree /\ Proven(m.pointer) /\ Ref(main) <= m.pointer.ref /\ Ref(h) <= m.pointer.ref
    BY <1>1, <1>2, MergedProven
  <1>4. /\ pr' \in PrType /\ Paired'
    <2>1. pr' \in PrType /\ pr'.head = pr.head /\ pr'.version = pr.version /\ ~pr'.open
      BY <1>1, <1>2 DEF PrType
    <2> QED BY <1>1, <2>1 DEF Paired
  <1> HIDE DEF m
  <1>5. ASSUME NEW ps \in Seq(Ids), 1 \in DOMAIN ps, ps[1] = main, commits' = Commit(ps, m), MainAt(NextId),
               \A i \in DOMAIN ps : ps[i] \in {main, h}
        PROVE  RInv' /\ Ref(main) <= commits'[main'].tree.pointer.ref
    <2>1. \A i \in DOMAIN ps : Ref(ps[i]) <= m.pointer.ref
      BY <1>3, <1>5
    <2>2. commits'[NextId].tree = m
      BY <1>3, <1>5, <2>1, NewCommit
    <2>3. main' = NextId
      BY <1>5 DEF MainAt
    <2>4. RInv'
      BY <1>1, <1>3, <1>4, <1>5, <2>1, MainGains
    <2> QED BY <1>3, <2>2, <2>3, <2>4
  <1>6. CASE commits' = Commit(<<main, h>>, m) /\ MainAt(NextId)
    <2> DEFINE ps == <<main, h>>
    <2>1. ps \in Seq(Ids) /\ 1 \in DOMAIN ps /\ ps[1] = main /\ \A i \in DOMAIN ps : ps[i] \in {main, h}
      BY <1>1, <1>2
    <2> HIDE DEF ps
    <2>2. commits' = Commit(ps, m)
      BY <1>6 DEF ps
    <2> QED BY <1>5, <1>6, <2>1, <2>2
  <1>7. CASE commits' = Commit(<<main>>, m) /\ MainAt(NextId)
    <2> DEFINE ps == <<main>>
    <2>1. ps \in Seq(Ids) /\ 1 \in DOMAIN ps /\ ps[1] = main /\ \A i \in DOMAIN ps : ps[i] \in {main, h}
      BY <1>1
    <2> HIDE DEF ps
    <2>2. commits' = Commit(ps, m)
      BY <1>7 DEF ps
    <2> QED BY <1>5, <1>7, <2>1, <2>2
  <1>8. CASE main \in Past(h) /\ MainAt(h) /\ UNCHANGED commits
    <2>1. RInv' /\ Ref(main) <= Ref(h)
      BY <1>1, <1>8, FastForward
    <2>2. main' = h
      BY <1>8 DEF MainAt
    <2> QED BY <1>8, <2>1, <2>2 DEF Ref, TreeOf
  <1> QED BY <1>6, <1>7, <1>8 DEF MergeRelease, m

LEMMA OtherWorkStep ==
  ASSUME RInv, OtherWork
  PROVE  RInv' /\ Ref(main) <= commits'[main'].tree.pointer.ref
  <1>1. /\ main \in Ids /\ MainAt(NextId) /\ Paired /\ pr \in PrType
        /\ UNCHANGED <<known, records, local, origin, published, pr, tree, held, drafts>>
    BY MainHistory DEF RInv, Typed, OtherWork
  <1>2. TreeOf(main) \in Tree /\ Proven(TreeOf(main).pointer)
        /\ Ref(main) = TreeOf(main).pointer.ref /\ Ref(main) \in Nat
    BY <1>1, EachCommit
  <1>3. Forever \in Nat
    BY ReleaseBounds, FS_CardinalityType DEF Forever
  <1>4. PICK until \in Nat : commits' = Commit(<<main>>, [Worked(Tip) EXCEPT !.until = until])
    <2>1. Tip.until \in Nat
      BY <1>2 DEF Tip, Tree
    <2> QED BY <1>3, <2>1 DEF OtherWork
  <1>5. PICK content \in Tree : commits' = Commit(<<main>>, content) /\ content.pointer = TreeOf(main).pointer
    BY <1>2, <1>4, BranchTrees DEF Tip
  <1> DEFINE ps == <<main>>
  <1>6. ps \in Seq(Ids) /\ 1 \in DOMAIN ps /\ ps[1] = main /\ \A i \in DOMAIN ps : Ref(ps[i]) <= content.pointer.ref
    BY <1>1, <1>2, <1>5
  <1> HIDE DEF ps
  <1>7. commits' = Commit(ps, content) /\ Proven(content.pointer)
    BY <1>2, <1>5 DEF ps
  <1>8. Paired' /\ pr' \in PrType /\ drafts' \subseteq drafts
    BY <1>1 DEF Paired
  <1>9. RInv'
    BY <1>1, <1>6, <1>7, <1>8, MainGains
  <1>10. main' = NextId /\ commits'[NextId].tree = content
    BY <1>1, <1>6, <1>7, NewCommit DEF MainAt
  <1> QED BY <1>2, <1>5, <1>9, <1>10

LEMMA MergePointerStep ==
  ASSUME RInv, MergePointer
  PROVE  RInv' /\ Ref(main) <= commits'[main'].tree.pointer.ref
  <1>1. PICK d \in drafts : /\ Mergeable(d.head) /\ commits' = Commit(<<main, d.head>>, Merged(d.head))
                            /\ drafts' = drafts \ {d} /\ MainAt(NextId)
                            /\ UNCHANGED <<known, records, local, origin, published, pr, tree, held>>
    BY DEF MergePointer
  <1> DEFINE h == d.head
             m == Merged(h)
             ps == <<main, h>>
  <1>2. main \in Ids /\ h \in Ids /\ Paired /\ pr \in PrType
    BY MainHistory DEF RInv, Typed
  <1>3. m \in Tree /\ Proven(m.pointer) /\ Ref(main) <= m.pointer.ref /\ Ref(h) <= m.pointer.ref
    BY <1>1, <1>2, MergedProven
  <1> HIDE DEF m
  <1>4. ps \in Seq(Ids) /\ 1 \in DOMAIN ps /\ ps[1] = main /\ \A i \in DOMAIN ps : Ref(ps[i]) <= m.pointer.ref
    BY <1>2, <1>3
  <1>5. commits' = Commit(ps, m)
    BY <1>1 DEF m
  <1> HIDE DEF ps
  <1>6. Paired' /\ pr' \in PrType /\ drafts' \subseteq drafts
    BY <1>1, <1>2 DEF Paired
  <1>7. RInv'
    BY <1>1, <1>3, <1>4, <1>5, <1>6, MainGains
  <1>8. main' = NextId /\ commits'[NextId].tree = m
    BY <1>1, <1>3, <1>4, <1>5, NewCommit DEF MainAt
  <1> QED BY <1>3, <1>7, <1>8

-----------------------------------------------------------------------------
(* The invariant.                                                          *)
LEMMA OrderlyBegins ==
  ASSUME Init
  PROVE  RInv
  <1>1. PICK b \in Beginnings : Begins(b)
    BY DEF Init
  <1> DEFINE last == Len(b.commits)
  <1>2. /\ Orderly(b) /\ commits = b.commits /\ main = last /\ tips = Past(main) /\ known = main
        /\ records = b.records /\ local = b.tags /\ origin = b.tags /\ published = b.published
        /\ pr = NoPR /\ tree = [NoTree EXCEPT !.record = b.left] /\ held = NotHeld /\ drafts = {}
    BY <1>1, BeginningsAreOrderly DEF Begins
  <1>3. commits \in Seq(CommitType) /\ last > 0 /\ last = Len(commits)
    BY <1>2 DEF Orderly, CommitType
  <1>4. Ids = 1..Len(commits) /\ Len(commits) \in Nat /\ main \in Ids
    BY <1>2, <1>3, LenProperties DEF Ids
  <1>5. \A c \in Ids :
          /\ {1, c} \subseteq Past(c) /\ Past(c) \subseteq 1..c
          /\ \A d \in Past(c) : Past(d) \subseteq Past(c) /\ Ref(d) <= Ref(c)
          /\ Ref(c) \in published /\ origin[Ref(c)].commit = TreeOf(c).pointer.sha
    BY <1>2, <1>4 DEF Orderly, Past, Ref, TreeOf
  <1>6. ASSUME NEW v \in Versions, origin[v] # NoTag
        PROVE  LET c == origin[v].commit
               IN  /\ origin[v].annotated /\ origin[v].record \in DOMAIN records
                   /\ records[origin[v].record] = [commit |-> c, passed |-> TRUE]
                   /\ c \in Past(main) /\ TreeOf(c).version = v /\ TreeOf(c).stale = {}
    BY <1>2, <1>6 DEF Orderly, Past, TreeOf
  <1>7. /\ records \in Seq([commit : Nat, passed : BOOLEAN]) /\ b.left \in 0..Len(records)
        /\ origin \in [Versions -> [annotated : BOOLEAN, commit : Nat, record : Nat]]
        /\ published \subseteq {v \in Versions : origin[v] # NoTag}
    BY <1>2 DEF Orderly
  <1>8. Len(records) \in Nat /\ DOMAIN records = 1..Len(records)
    BY <1>7, LenProperties
  <1>9. History
    BY <1>5 DEF History
  <1>10. Past(main) \subseteq Ids
    BY <1>4, <1>5
  <1>11. ASSUME NEW v \in Versions PROVE origin[v] \in TagType
    <2>1. CASE origin[v] = NoTag
      BY <1>4, <1>8, <2>1 DEF NoTag, TagType
    <2>2. CASE origin[v] # NoTag
      <3>1. PICK c, r : c = origin[v].commit /\ r = origin[v].record /\ c \in Ids /\ r \in DOMAIN records
        BY <1>6, <1>10, <2>2
      <3>2. c \in 0..Len(commits) /\ r \in 0..Len(records)
        BY <1>4, <1>8, <3>1
      <3>3. origin[v] \in [annotated : BOOLEAN, commit : Nat, record : Nat]
        BY <1>7
      <3> QED BY <3>1, <3>2, <3>3 DEF TagType
    <2> QED BY <2>1, <2>2
  <1>12. ASSUME NEW v \in Versions, origin[v] # NoTag PROVE SoundTag(v, origin[v])
    <2>1. PICK r : r = origin[v].record /\ r \in DOMAIN records
      BY <1>6, <1>12
    <2>2. r # 0
      BY <1>8, <2>1
    <2> QED BY <1>2, <1>6, <1>12, <2>1, <2>2 DEF SoundTag
  <1>13. Typed
    <2>1. origin \in [Versions -> TagType] /\ local = origin
      BY <1>2, <1>7, <1>11
    <2>2. pr \in PrType
      BY <1>2, <1>4 DEF NoPR, PrType
    <2>3. tree \in WorktreeType
      <3> DEFINE ids == 0..Len(commits)
                 rs == 0..Len(records)
      <3>1. 0 \in ids /\ 0 \in rs /\ b.left \in rs
        BY <1>4, <1>7, <1>8
      <3> HIDE DEF ids, rs
      <3>2. tree \in [head : ids, clean : BOOLEAN, record : rs, gates : ids, ready : BOOLEAN]
        BY <1>2, <3>1 DEF NoTree
      <3> QED BY <3>2 DEF WorktreeType, ids, rs
    <2>4. held \in [version : Nat, tag : TagType]
      BY <1>2, <1>4, <1>8 DEF NotHeld, NoTag, TagType
    <2>5. tips \subseteq Ids /\ main \in tips /\ known \in tips
      BY <1>2, <1>4, <1>5, <1>10
    <2> QED BY <1>2, <1>3, <1>7, <2>1, <2>2, <2>3, <2>4, <2>5 DEF Typed
  <1>14. Tags
    BY <1>2, <1>7, <1>12 DEF Tags
  <1>15. ASSUME NEW c \in Ids PROVE Proven(TreeOf(c).pointer)
    <2>1. Ref(c) \in Versions /\ origin[Ref(c)] # NoTag /\ Ref(c) \in published
          /\ origin[Ref(c)].commit = TreeOf(c).pointer.sha /\ Ref(c) = TreeOf(c).pointer.ref
      BY <1>5, <1>7 DEF Ref
    <2>2. SoundTag(Ref(c), origin[Ref(c)])
      BY <1>12, <2>1
    <2> QED BY <2>1, <2>2 DEF Proven, SoundTag, Installs
  <1>16. Paired
    BY <1>2 DEF Paired, NoPR, NoTree
  <1> QED BY <1>2, <1>9, <1>13, <1>14, <1>15, <1>16 DEF RInv

LEMMA CommitsStay ==
  ASSUME RInv, NEW ps, NEW content, commits' = Commit(ps, content)
  PROVE  Ids \subseteq Ids' /\ \A c \in Ids : commits'[c] = commits[c]
  <1>1. commits \in Seq(CommitType) /\ Ids = DOMAIN commits
    BY DEF RInv, Typed, Ids
  <1>2. PICK new : commits' = Append(commits, new)
    BY DEF Commit
  <1> QED BY <1>1, <1>2 DEF Ids

LEMMA RInvStep ==
  ASSUME RInv, [Next]_vars
  PROVE  RInv' /\ Ref(main) <= commits'[main'].tree.pointer.ref
  <1>1. /\ main \in Ids /\ Ref(main) \in Nat
    BY MainHistory, EachCommit
  <1>2. ASSUME UNCHANGED main, Ids \subseteq Ids', \A c \in Ids : commits'[c] = commits[c]
        PROVE  Ref(main) <= commits'[main'].tree.pointer.ref
    BY <1>1, <1>2 DEF Ref, TreeOf
  <1>3. CASE UNCHANGED vars
    <2>1. UNCHANGED <<commits, main>>
      BY <1>3 DEF vars
    <2>2. Paired' /\ local' \in [Versions -> TagType] /\ known' \in tips /\ pr' \in PrType /\ tree' \in WorktreeType
      BY <1>3 DEF vars, RInv, Typed, Paired
    <2>3. RInv'
      BY <1>3, <2>2, NothingPushed DEF vars
    <2> QED BY <1>2, <2>1, <2>3 DEF Ids
  <1>4. CASE PushBranch \/ Checkout \/ Preflight \/ StartGates \/ Tag \/ Untag \/ Fetch
    <2>1. UNCHANGED <<commits, main>>
      BY <1>4 DEF PushBranch, Checkout, Preflight, StartGates, Tag, Untag, Fetch
    <2>2. RInv'
      BY <1>4, WorktreeSteps
    <2> QED BY <1>2, <2>1, <2>2 DEF Ids
  <1>5. CASE FinishGates
    <2>1. UNCHANGED <<commits, main>>
      BY <1>5 DEF FinishGates
    <2>2. RInv'
      BY <1>5, RecordsAdded
    <2> QED BY <1>2, <2>1, <2>2 DEF Ids
  <1>6. CASE PostMerge \/ PushTag \/ \E v \in Versions : Publish(v)
    <2>1. UNCHANGED <<commits, main>>
      BY <1>6 DEF PostMerge, PushTag, Publish
    <2>2. RInv'
      BY <1>6, ReleaseSteps
    <2> QED BY <1>2, <2>1, <2>2 DEF Ids
  <1>7. CASE Amend \/ PushedElsewhere \/ \E v \in Versions : Prepare(v)
    <2>1. UNCHANGED main
      BY <1>7 DEF Amend, PushedElsewhere, Prepare
    <2>2. RInv'
      BY <1>7, BranchSteps
    <2>3. PICK ps, content : commits' = Commit(ps, content)
      BY <1>7 DEF Amend, PushedElsewhere, Prepare
    <2> QED BY <1>2, <2>1, <2>2, <2>3, CommitsStay
  <1>8. ASSUME NEW v \in Versions, Pointer(v) PROVE RInv' /\ Ref(main) <= commits'[main'].tree.pointer.ref
    <2>1. UNCHANGED main
      BY <1>8 DEF Pointer
    <2>2. RInv'
      BY <1>8, PointerStep
    <2>3. PICK ps, content : commits' = Commit(ps, content)
      BY <1>8 DEF Pointer
    <2> QED BY <1>2, <2>1, <2>2, <2>3, CommitsStay
  <1> QED BY <1>3, <1>4, <1>5, <1>6, <1>7, <1>8, MergeReleaseStep, OtherWorkStep, MergePointerStep DEF Next

LEMMA RInvHolds == Spec => []RInv
  <1>1. Init => RInv
    BY OrderlyBegins
  <1>2. RInv /\ [Next]_vars => RInv'
    BY RInvStep
  <1> QED BY <1>1, <1>2, PTL DEF Spec

\* Every tag on GitHub is an annotated tag of a commit main has merged whole,
\* that declares its version in every file and has the record its live gates
\* passed on.  Nothing may be assumed of the maintainer's order of steps: the
\* argument is that cmd_post_merge asks for all of it of the very tag that is
\* pushed, and that git and the records only grow after.
THEOREM TagsAreSound == Spec => []PushedTagIsWhatMerged
  <1>1. RInv => PushedTagIsWhatMerged
    BY DEF RInv, Tags, SoundTag, PushedTagIsWhatMerged
  <1> QED BY <1>1, RInvHolds, PTL

\* The pointer on main names a tag GitHub has, of a version that is on PyPI and
\* installs as itself, since every commit's pointer does: only cmd_pointer writes
\* one, of a release post-publish held for, and a merge only copies one.
THEOREM PointersAreProven == Spec => []PointerIsProven
  <1>1. RInv => PointerIsProven
    <2> SUFFICES ASSUME RInv PROVE PointerIsProven
      OBVIOUS
    <2>1. Proven(TreeOf(main).pointer)
      BY MainHistory, EachCommit
    <2> QED BY <2>1 DEF PointerIsProven, Proven, Tip
  <1> QED BY <1>1, RInvHolds, PTL

\* No step takes users back a release: no commit's pointer is older than its
\* ancestors', and three-way merges take the side that moved.
THEOREM PointersAdvance == Spec => PointerOnlyAdvances
  <1>1. RInv /\ [Next]_vars => [Tip.pointer.ref <= Tip'.pointer.ref]_vars
    <2> SUFFICES ASSUME RInv, [Next]_vars PROVE Tip.pointer.ref <= Tip'.pointer.ref
      OBVIOUS
    <2>1. Ref(main) <= commits'[main'].tree.pointer.ref
      BY RInvStep
    <2> QED BY <2>1 DEF Ref, Tip, TreeOf
  <1> QED BY <1>1, RInvHolds, PTL DEF Spec, PointerOnlyAdvances

(***************************************************************************)
(* The upstream watch.                                                     *)
(***************************************************************************)

\* No release of the stream that rolls is withdrawn by this step.
Advances == "claude" \in Streams => upstream["claude"] <= upstream'["claude"]

Watched == {"kimi", "claude", "mcp"}
Places == {"next", "search", "list", "view", "create", "comment", "edit"}

IssueType == [stream : Watched \cup {"other"}, key : Nat, open : BOOLEAN, born : Nat,
              notes : Seq([from : Nat, to : Nat])]
RowType == [stream : Watched, key : Nat, open : BOOLEAN]
RunType(w) ==
  [at : Places \cup {"idle", "done"}, read : {w.read}, todo : SUBSET Streams, asks : BOOLEAN,
   found : {w.found}, issue : Nat, from : Nat, failed : BOOLEAN]

WatchTyped ==
  /\ Streams \subseteq Watched
  /\ upstream \in [Streams -> Nat \ {0}] /\ baseline \in [Streams -> SUBSET Int]
  /\ issues \in Seq(IssueType)
  /\ watch \in RunType(watch)
  /\ watch.at # "idle" => watch.read \in [Streams -> Nat]

\* What was read of issues: late, perhaps, about what closed or was retitled.
Faithful(rows) ==
  \A i \in DOMAIN rows :
    /\ rows[i] \in RowType
    /\ i \in DOMAIN issues /\ issues[i].stream = rows[i].stream
    /\ issues[i].open => rows[i].open
    /\ rows[i].stream # "claude" => issues[i].key = rows[i].key

\* The title search and the newest issues together miss none.
NoneMissed == \A i \in DOMAIN issues : i \in DOMAIN index \cup Of("other") \/ Recent(i)

Asking == watch.at \in {"search", "list"} /\ watch.asks
Rolling == watch.at \in {"view", "comment", "edit"}

\* A lookup, a note and an edit are for a stream still to be filed; the last two
\* only for the one that rolls, on an issue of its own.
Running ==
  /\ watch.at \in Places \ {"next"} => watch.todo # {}
  /\ watch.at = "done" => watch.todo = {}
  /\ watch.at \in {"search", "list"} /\ ~watch.asks => Stream = "claude"
  /\ Rolling => Stream = "claude" /\ watch.issue \in Of("claude")

\* Between the two readings what was found misses none that may be open, or none
\* at all when all were asked for.  After them a minor's title is free and the
\* rolling stream has no open issue; both stay so, as only the watch files.
Looked ==
  /\ watch.at = "list" =>
       /\ Faithful(watch.found)
       /\ \A i \in DOMAIN watch.found : watch.found[i].stream = Stream
       /\ \A i \in Of(Stream) : \/ Recent(i) \/ i \in DOMAIN watch.found
                                \/ ~watch.asks /\ ~issues[i].open
  /\ (Asking \/ watch.at = "create") /\ Stream = "claude" =>
       \A i \in Of("claude") : ~issues[i].open
  /\ watch.at = "create" /\ Stream # "claude" => \A i \in Of(Stream) : issues[i].key # Target

\* The notice of this very move is given before the title moves, and once.
Noted ==
  /\ watch.at = "comment" => ~NoteGiven
  /\ watch.at = "edit" => NoteGiven

WatchInv == WatchTyped /\ Faithful(index) /\ NoneMissed /\ Running /\ Looked /\ Noted /\ IssuesAreFiledOnce

\* What was read of a title is no newer than the title, as titles only advance.
Behind(rows) == \A i \in DOMAIN rows : rows[i].key <= issues[i].key

\* No title is ahead of upstream, nor of what the run under way has read.
OnlyForward ==
  /\ \A s \in watch.todo : watch.read[s] # Unknown
  /\ "claude" \in Streams =>
       /\ \A i \in Of("claude") : issues[i].key <= upstream["claude"]
       /\ watch.at # "idle" =>
            /\ watch.read["claude"] <= upstream["claude"]
            /\ watch.read["claude"] # Unknown =>
                 \A i \in Of("claude") : issues[i].key <= watch.read["claude"]

IssueFor(s) == \E i \in Of(s) : IF s = "claude" THEN issues[i].key >= watch.read[s]
                                ELSE issues[i].key = Key(s, watch.read[s])

\* Of a run that has not failed so far: each stream was read, and is supported,
\* has its issue, or is still to be filed.
Told == watch.at # "idle" /\ ~watch.failed =>
  \A s \in Streams : /\ watch.read[s] # Unknown
                     /\ s \in watch.todo \/ Supports(s, watch.read[s]) \/ IssueFor(s)

TrackInv ==
  /\ WatchInv
  /\ Behind(index) /\ (watch.at = "list" => Behind(watch.found)) /\ OnlyForward
  /\ Told

-----------------------------------------------------------------------------
LEMMA StreamStays ==
  ASSUME watch'.todo = watch.todo
  PROVE  Stream' = Stream
  BY DEF Stream

LEMMA StreamIsDue ==
  ASSUME watch.todo # {}
  PROVE  Stream \in watch.todo
  BY DEF Stream

LEMMA KeyIsNat ==
  ASSUME NEW s, NEW v \in Nat
  PROVE  Key(s, v) \in Nat
<1>1. (v + 1) \div 2 \in Nat
  OBVIOUS
<1> QED
  BY <1>1 DEF Key, Min

LEMMA DueIsWatched ==
  ASSUME WatchTyped, watch.at # "idle", watch.todo # {}
  PROVE  /\ Stream \in Streams /\ Stream \in Watched /\ Stream # "other"
         /\ watch.read[Stream] \in Nat /\ Target \in Nat
<1>1. Stream \in Streams
  BY StreamIsDue DEF WatchTyped, RunType
<1>2. watch.read[Stream] \in Nat
  BY <1>1 DEF WatchTyped
<1> QED
  BY <1>1, <1>2, KeyIsNat DEF WatchTyped, Watched, Target

LEMMA FiledLeaves ==
  ASSUME WatchTyped, NEW w \in {Filed(watch), FailedFiling(watch)}
  PROVE  /\ w \in RunType(w)
         /\ w.at = "next" /\ w.read = watch.read /\ w.todo = watch.todo \ {Stream}
         /\ w.found = <<>>
         /\ w = Filed(watch) => w.failed = watch.failed
         /\ w = FailedFiling(watch) => w.failed
<1>1. watch \in RunType(watch)
  BY DEF WatchTyped
<1>2. /\ Filed(watch) \in RunType(Filed(watch)) /\ Filed(watch).at = "next"
      /\ Filed(watch).read = watch.read /\ Filed(watch).todo = watch.todo \ {Stream}
      /\ Filed(watch).found = <<>> /\ Filed(watch).failed = watch.failed
  BY <1>1 DEF Filed, RunType, Places
<1>3. /\ FailedFiling(watch) \in RunType(FailedFiling(watch)) /\ FailedFiling(watch).at = "next"
      /\ FailedFiling(watch).read = watch.read /\ FailedFiling(watch).todo = watch.todo \ {Stream}
      /\ FailedFiling(watch).found = <<>> /\ FailedFiling(watch).failed
  BY <1>2 DEF FailedFiling, RunType
<1>4. Filed(watch) = FailedFiling(watch) => watch.failed
  BY <1>2, <1>3
<1> QED
  BY <1>2, <1>3, <1>4

\* What everybody else does to the issues and to a run.
Apart(extra) ==
  /\ watch' = watch /\ DOMAIN upstream' = Streams
  /\ DOMAIN issues \subseteq DOMAIN issues' /\ Len(issues') = Len(issues) + extra
  /\ \A i \in DOMAIN issues :
       /\ issues'[i].stream = issues[i].stream /\ issues'[i].key = issues[i].key
       /\ issues'[i].born = issues[i].born /\ issues'[i].notes = issues[i].notes
       /\ issues'[i].open => issues[i].open
  /\ \A i \in DOMAIN issues' \ DOMAIN issues : issues'[i].stream = "other"

LEMMA ClosedIsApart ==
  ASSUME WatchTyped, NEW i \in DOMAIN issues, Closed(i)
  PROVE  Apart(0) /\ issues' \in Seq(IssueType)
<1>1. issues \in Seq(IssueType) /\ upstream \in [Streams -> Nat \ {0}]
  BY DEF WatchTyped
<1>2. issues' = [issues EXCEPT ![i].open = FALSE] /\ UNCHANGED <<watch, upstream>>
  BY DEF Closed
<1>3. \A k \in DOMAIN issues : issues[k] \in IssueType
  BY <1>1
<1>4. \A k \in DOMAIN issues :
        /\ issues'[k] \in IssueType
        /\ issues'[k].stream = issues[k].stream /\ issues'[k].key = issues[k].key
        /\ issues'[k].born = issues[k].born /\ issues'[k].notes = issues[k].notes
        /\ issues'[k].open => issues[k].open
  BY <1>1, <1>2, <1>3 DEF IssueType
<1>5. issues' \in Seq(IssueType) /\ Len(issues') = Len(issues) /\ DOMAIN issues' = DOMAIN issues
  <2> DEFINE e == [issues[i] EXCEPT !.open = FALSE]
  <2>1. issues' = [issues EXCEPT ![i] = e]
    BY <1>2
  <2>2. e \in IssueType
    BY <1>4, <1>1, <2>1
  <2> HIDE DEF e
  <2> QED
    BY <1>1, <2>1, <2>2, ExceptSeq
<1> QED
  BY <1>2, <1>4, <1>5 DEF Apart, Streams

LEMMA OtherIsApart ==
  ASSUME WatchTyped, OtherIssue
  PROVE  Apart(1) /\ issues' \in Seq(IssueType)
<1>1. issues \in Seq(IssueType)
  BY DEF WatchTyped
<1> DEFINE o == [stream |-> "other", key |-> 0, open |-> FALSE, born |-> 0, notes |-> <<>>]
<1>2. o \in IssueType /\ o.stream = "other"
  BY DEF IssueType
<1>3. issues' = Append(issues, o) /\ UNCHANGED <<watch, upstream>>
  BY DEF OtherIssue
<1> HIDE DEF o
<1>4. /\ issues' \in Seq(IssueType) /\ Len(issues') = Len(issues) + 1
      /\ DOMAIN issues = 1 .. Len(issues) /\ DOMAIN issues' = 1 .. Len(issues) + 1
      /\ \A i \in DOMAIN issues : issues'[i] = issues[i]
      /\ issues'[Len(issues) + 1] = o
  BY <1>1, <1>2, <1>3
<1>5. \A i \in DOMAIN issues' \ DOMAIN issues : i = Len(issues) + 1
  BY <1>1, <1>4
<1>6. DOMAIN issues \subseteq DOMAIN issues'
  BY <1>1, <1>4
<1> QED
  BY <1>2, <1>3, <1>4, <1>5, <1>6 DEF Apart, Streams

LEMMA OthersApart ==
  ASSUME WatchTyped,
         \/ \E s \in Streams : (\E v \in Releases : UpstreamMoves(s, v)) \/ Supported(s)
         \/ \E i \in DOMAIN issues : Closed(i) \/ Indexed(i)
         \/ OtherIssue
  PROVE  /\ Apart(0) \/ (Apart(1) /\ IndexKeepsUp /\ watch.at # "list")
         /\ issues' \in Seq(IssueType)
<1>1. issues \in Seq(IssueType) /\ upstream \in [Streams -> Nat \ {0}] /\ Len(issues) \in Nat
  BY DEF WatchTyped
<1>2. ASSUME issues' = issues, watch' = watch, DOMAIN upstream' = DOMAIN upstream
      PROVE  Apart(0) /\ issues' \in Seq(IssueType)
  BY <1>1, <1>2 DEF Apart, Streams
<1>3. ASSUME NEW s \in Streams, NEW v \in Releases, UpstreamMoves(s, v)
      PROVE  issues' = issues /\ watch' = watch /\ DOMAIN upstream' = DOMAIN upstream
  BY <1>1, <1>3 DEF UpstreamMoves
<1>4. ASSUME NEW s \in Streams, Supported(s)
      PROVE  issues' = issues /\ watch' = watch /\ DOMAIN upstream' = DOMAIN upstream
  BY <1>4 DEF Supported
<1>5. ASSUME NEW i \in DOMAIN issues, Indexed(i)
      PROVE  issues' = issues /\ watch' = watch /\ DOMAIN upstream' = DOMAIN upstream
  BY <1>5 DEF Indexed
<1>6. OtherIssue => IndexKeepsUp /\ watch.at # "list"
  BY DEF OtherIssue
<1> HIDE DEF IndexKeepsUp
<1> QED
  BY <1>2, <1>3, <1>4, <1>5, <1>6, ClosedIsApart, OtherIsApart

-----------------------------------------------------------------------------
LEMMA ApartOf ==
  ASSUME WatchTyped, NEW extra \in {0, 1}, Apart(extra), NEW s, s # "other"
  PROVE  Of(s)' = Of(s)
  BY DEF Apart, Of

LEMMA ApartStream ==
  ASSUME NEW extra \in {0, 1}, Apart(extra)
  PROVE  Stream' = Stream /\ Target' = Target /\ Streams' = Streams
<1>1. watch' = watch
  BY DEF Apart
<1>2. Stream' = Stream
  BY <1>1 DEF Stream
<1> QED
  BY <1>1, <1>2 DEF Target, Key, Apart, Streams, Min

LEMMA ApartFaithful ==
  ASSUME WatchTyped, NEW extra \in {0, 1}, Apart(extra), NEW rows, Faithful(rows)
  PROVE  Faithful(rows)'
  BY DEF Apart, Faithful

LEMMA ApartRunning ==
  ASSUME WatchTyped, NEW extra \in {0, 1}, Apart(extra), Running
  PROVE  Running'
  BY ApartOf, ApartStream DEF Running, Rolling, Apart

LEMMA ApartNoted ==
  ASSUME WatchTyped, NEW extra \in {0, 1}, Apart(extra), Running, Noted
  PROVE  Noted'
<1>1. Rolling => watch.issue \in DOMAIN issues /\ issues'[watch.issue].notes = issues[watch.issue].notes
  BY DEF Running, Of, Apart
<1>2. watch' = watch /\ Target' = Target
  BY ApartStream DEF Apart
<1> QED
  BY <1>1, <1>2 DEF Noted, NoteGiven, Note, Rolling

LEMMA ApartFiled ==
  ASSUME WatchTyped, NEW extra \in {0, 1}, Apart(extra), IssuesAreFiledOnce
  PROVE  IssuesAreFiledOnce'
<1>1. Streams' = Streams
  BY ApartStream
<1>2. Of("claude")' = Of("claude")
  BY ApartOf
<1>3. ASSUME NEW s \in Streams \ {"claude"}
      PROVE  Of(s)' = Of(s)
  BY <1>3, ApartOf DEF WatchTyped, Watched
<1>4. \A s : \A i \in Of(s) : i \in DOMAIN issues
  BY DEF Of
<1>5. \A i \in DOMAIN issues :
        /\ issues'[i].stream = issues[i].stream /\ issues'[i].key = issues[i].key
        /\ issues'[i].born = issues[i].born /\ issues'[i].notes = issues[i].notes
        /\ issues'[i].open => issues[i].open
  BY DEF Apart
<1>6. ASSUME NEW s \in Streams \ {"claude"}, NEW i \in Of(s), NEW j \in Of(s),
             issues'[i].key = issues'[j].key
      PROVE  i = j
  BY <1>4, <1>5, <1>6 DEF IssuesAreFiledOnce
<1>7. \A i, j \in Of("claude") : issues'[i].open /\ issues'[j].open => i = j
  BY <1>4, <1>5 DEF IssuesAreFiledOnce
<1>8. ASSUME NEW i \in Of("claude")
      PROVE  LET notes == issues'[i].notes
             IN  /\ \A a, b \in DOMAIN notes : notes[a] = notes[b] => a = b
                 /\ issues'[i].key \in {issues'[i].born} \cup {notes[n].to : n \in DOMAIN notes}
  BY <1>4, <1>5, <1>8 DEF IssuesAreFiledOnce
<1> QED
  BY <1>1, <1>2, <1>3, <1>6, <1>7, <1>8 DEF IssuesAreFiledOnce

LEMMA ApartLooked ==
  ASSUME WatchTyped, Running, Looked,
         Apart(0) \/ (Apart(1) /\ IndexKeepsUp /\ watch.at # "list")
  PROVE  Looked'
<1>1. PICK extra \in {0, 1} : Apart(extra) /\ (extra = 0 \/ watch.at # "list")
  OBVIOUS
<1>2. Stream' = Stream /\ Target' = Target /\ watch' = watch
  BY <1>1, ApartStream DEF Apart
<1>3. watch.at \in Places \ {"next"} => Of(Stream)' = Of(Stream)
  BY <1>1, <1>2, ApartOf, DueIsWatched DEF Running, Places
<1>4. Of("claude")' = Of("claude")
  BY <1>1, ApartOf
<1>5. \A s : \A i \in Of(s) : i \in DOMAIN issues
  BY DEF Of
<1>6. \A i \in DOMAIN issues :
        /\ issues'[i].stream = issues[i].stream /\ issues'[i].key = issues[i].key
        /\ issues'[i].open => issues[i].open
  BY <1>1 DEF Apart
<1>7. watch.at = "list" => \A i : Recent(i)' <=> Recent(i)
  <2> SUFFICES ASSUME watch.at = "list" PROVE \A i : Recent(i)' <=> Recent(i)
    OBVIOUS
  <2>1. Len(issues') = Len(issues) + 0 /\ Len(issues) \in Nat
    BY <1>1 DEF Apart, WatchTyped
  <2> QED
    BY <2>1 DEF Recent
<1>8. watch.at = "list" => Faithful(watch.found)'
  BY <1>1, <1>2, ApartFaithful DEF Looked
<1>9. watch.at = "list" =>
        /\ Faithful(watch.found)'
        /\ \A i \in DOMAIN watch'.found : watch'.found[i].stream = Stream'
        /\ \A i \in Of(Stream)' : \/ Recent(i)' \/ i \in DOMAIN watch'.found
                                  \/ ~watch'.asks /\ ~issues'[i].open
  <2> SUFFICES ASSUME watch.at = "list"
               PROVE  /\ \A i \in DOMAIN watch.found : watch.found[i].stream = Stream
                      /\ \A i \in Of(Stream) : \/ Recent(i) \/ i \in DOMAIN watch.found
                                               \/ ~watch.asks /\ ~issues'[i].open
    BY <1>2, <1>3, <1>7, <1>8 DEF Places
  <2> QED
    BY <1>5, <1>6 DEF Looked
<1>10. (Asking \/ watch.at = "create") /\ Stream = "claude" => \A i \in Of("claude") : ~issues'[i].open
  BY <1>5, <1>6 DEF Looked
<1>11. watch.at = "create" /\ Stream # "claude" => \A i \in Of(Stream)' : issues'[i].key # Target
  BY <1>3, <1>5, <1>6 DEF Looked, Places
<1>12. Asking' = Asking
  BY <1>2 DEF Asking
<1> QED
  BY <1>2, <1>4, <1>9, <1>10, <1>11, <1>12 DEF Looked

LEMMA OthersKeep ==
  ASSUME WatchInv,
         \/ \E s \in Streams : (\E v \in Releases : UpstreamMoves(s, v)) \/ Supported(s)
         \/ \E i \in DOMAIN issues : Closed(i) \/ Indexed(i)
         \/ OtherIssue
  PROVE  WatchInv'
<1>1. WatchTyped /\ Faithful(index) /\ NoneMissed /\ Running /\ Looked /\ Noted /\ IssuesAreFiledOnce
  BY DEF WatchInv
<1>2. Apart(0) \/ (Apart(1) /\ IndexKeepsUp /\ watch.at # "list")
  BY <1>1, OthersApart
<1>3. PICK extra \in {0, 1} : Apart(extra) /\ (extra = 1 => IndexKeepsUp)
  BY <1>2
<1>4. WatchTyped'
  <2>1. issues' \in Seq(IssueType) /\ watch' = watch /\ DOMAIN upstream' = Streams
    BY <1>1, <1>3, OthersApart DEF Apart
  <2>2. upstream' \in [Streams -> Nat \ {0}] /\ baseline' \in [Streams -> SUBSET Int]
    <3>1. upstream \in [Streams -> Nat \ {0}] /\ baseline \in [Streams -> SUBSET Int]
      BY <1>1 DEF WatchTyped
    <3>2. ASSUME NEW s \in Streams, NEW v \in Releases, UpstreamMoves(s, v)
          PROVE  upstream' \in [Streams -> Nat \ {0}] /\ baseline' \in [Streams -> SUBSET Int]
      BY <3>1, <3>2, WatchBounds DEF UpstreamMoves
    <3>3. ASSUME NEW s \in Streams, Supported(s)
          PROVE  upstream' \in [Streams -> Nat \ {0}] /\ baseline' \in [Streams -> SUBSET Int]
      <4>1. upstream[s] \in Nat /\ Min(upstream[s]) \in Int
        BY <3>1, <3>3 DEF Min
      <4>2. Key(s, upstream[s]) \in Int
        BY <4>1 DEF Key
      <4> QED
        BY <3>1, <3>3, <4>1, <4>2 DEF Supported
    <3> QED
      BY <3>1, <3>2, <3>3 DEF Closed, Indexed, OtherIssue
  <2>3. Streams' = Streams
    BY <2>1 DEF Streams
  <2>4. watch' \in RunType(watch)' /\ Streams' \subseteq Watched
    BY <1>1, <2>1, <2>3 DEF WatchTyped, RunType
  <2> QED
    BY <1>1, <2>1, <2>2, <2>3, <2>4 DEF WatchTyped
<1>5. Faithful(index)'
  <2>1. CASE index' = index
    BY <1>1, <1>3, <2>1, ApartFaithful DEF Faithful, Apart
  <2>2. CASE \E i \in DOMAIN issues : Indexed(i)
    <3>1. PICK i \in DOMAIN issues : Indexed(i)
      BY <2>2
    <3>2. issues[i] \in IssueType /\ issues[i].stream # "other" /\ issues' = issues
      BY <1>1, <3>1 DEF WatchTyped, Indexed
    <3>3. Row(i) \in RowType /\ Row(i).stream = issues[i].stream /\ Row(i).open = issues[i].open
          /\ Row(i).key = issues[i].key
      BY <3>2 DEF Row, RowType, IssueType
    <3> HIDE DEF Row
    <3>4. DOMAIN index' = DOMAIN index \cup {i} /\ index'[i] = Row(i)
          /\ \A k \in DOMAIN index \ {i} : index'[k] = index[k]
      BY <3>1 DEF Indexed
    <3> QED
      BY <1>1, <3>2, <3>3, <3>4 DEF Faithful
  <2> QED
    BY <2>1, <2>2 DEF UpstreamMoves, Supported, Closed, OtherIssue
<1>6. NoneMissed'
  <2>1. Len(issues) \in Nat /\ Len(issues') = Len(issues) + extra /\ RecentIssues \in Nat
    BY <1>1, <1>3, WatchBounds DEF WatchTyped, Apart
  <2>2. DOMAIN index \subseteq DOMAIN index'
    BY DEF UpstreamMoves, Supported, Closed, OtherIssue, Indexed
  <2>3. ASSUME NEW i \in DOMAIN issues'
        PROVE  i \in DOMAIN index' \/ issues'[i].stream = "other" \/ Recent(i)'
    <3>1. CASE i \notin DOMAIN issues
      BY <1>3, <2>3, <3>1 DEF Apart
    <3>2. CASE i \in DOMAIN issues
      <4>1. issues'[i].stream = issues[i].stream /\ i \in Nat
        BY <1>1, <1>3, <3>2 DEF Apart, WatchTyped
      <4>2. CASE i \in DOMAIN index \/ issues[i].stream = "other"
        BY <2>2, <4>1, <4>2
      <4>3. CASE ~(i \in DOMAIN index \/ issues[i].stream = "other")
        <5>1. i \notin Of("other")
          BY <4>3 DEF Of
        <5>2. Recent(i) /\ (extra = 1 => i > Len(issues) + 1 - RecentIssues)
          BY <1>1, <1>3, <3>2, <4>3, <5>1 DEF NoneMissed, IndexKeepsUp
        <5> QED
          BY <2>1, <4>1, <5>2 DEF Recent
      <4> QED
        BY <4>2, <4>3
    <3> QED
      BY <3>1, <3>2
  <2> QED
    BY <2>3 DEF NoneMissed, Of
<1>7. Running' /\ Noted' /\ IssuesAreFiledOnce'
  BY <1>1, <1>3, ApartRunning, ApartNoted, ApartFiled
<1>8. Looked'
  BY <1>1, <1>2, ApartLooked
<1> QED
  BY <1>4, <1>5, <1>6, <1>7, <1>8 DEF WatchInv

-----------------------------------------------------------------------------
\* Nothing is asked of a run that rests.
LEMMA Resting ==
  ASSUME watch'.at \in {"idle", "next", "done"}, watch'.at = "done" => watch'.todo = {}
  PROVE  Running' /\ Looked' /\ Noted'
  BY DEF Running, Looked, Noted, Places, Rolling, Asking

\* A step of a run that only reads.
Readings == UNCHANGED <<issues, index, upstream, baseline>>

LEMMA ReadingsKeep ==
  ASSUME WatchInv, Readings,
         watch' \in RunType(watch'), watch'.at # "idle" => watch'.read \in [Streams -> Nat],
         Running', Looked', Noted'
  PROVE  WatchInv'
<1>1. WatchTyped /\ Faithful(index) /\ NoneMissed /\ IssuesAreFiledOnce
  BY DEF WatchInv
<1>2. UNCHANGED <<issues, index, upstream, baseline, Streams>>
  BY DEF Readings, Streams
<1>3. WatchTyped'
  BY <1>1, <1>2 DEF WatchTyped, RunType
<1>4. Faithful(index)' /\ NoneMissed'
  BY <1>1, <1>2 DEF Faithful, NoneMissed, Recent, Of
<1>5. IssuesAreFiledOnce'
  BY <1>1, <1>2 DEF IssuesAreFiledOnce, Of
<1> QED
  BY <1>3, <1>4, <1>5 DEF WatchInv

LEMMA StartKeeps ==
  ASSUME WatchInv, NEW unread \in SUBSET Streams, StartWatch(unread)
  PROVE  WatchInv' /\ watch'.at = "next" /\ watch'.read = Reads(unread)
         /\ watch'.todo = {s \in Streams \ unread : ~Supports(s, Reads(unread)[s])}
         /\ watch'.failed = (unread # {})
<1> DEFINE due == {s \in Streams \ unread : ~Supports(s, Reads(unread)[s])}
<1>1. watch' = [NoWatch EXCEPT !.at = "next", !.read = Reads(unread), !.todo = due, !.failed = unread # {}]
  BY DEF StartWatch
<1>2. due \subseteq Streams
  OBVIOUS
<1>3. Reads(unread) \in [Streams -> Nat]
  BY DEF Reads, WatchInv, WatchTyped, Unknown
<1> HIDE DEF due
<1>4. /\ watch'.at = "next" /\ watch'.read = Reads(unread) /\ watch'.todo = due
      /\ watch'.failed = (unread # {}) /\ watch' \in RunType(watch')
  BY <1>1, <1>2, Zenon DEF NoWatch, RunType, Places
<1>5. Running' /\ Looked' /\ Noted'
  BY <1>4, Resting
<1>6. WatchInv'
  BY <1>3, <1>4, <1>5, ReadingsKeep DEF StartWatch, Readings
<1> QED
  BY <1>4, <1>6 DEF due

LEMMA ReadIsTyped ==
  ASSUME WatchInv, watch.at # "idle", watch'.read = watch.read
  PROVE  watch'.read \in [Streams -> Nat]
  BY DEF WatchInv, WatchTyped

LEMMA NextKeeps ==
  ASSUME WatchInv, NextStream
  PROVE  WatchInv'
<1>1. watch \in RunType(watch) /\ watch.at = "next"
  BY DEF WatchInv, WatchTyped, NextStream
<1>2. Readings
  BY DEF NextStream, Readings
<1>3. CASE watch.todo = {}
  <2>1. watch' = [watch EXCEPT !.at = "done"]
    BY <1>3 DEF NextStream
  <2>2. watch'.at = "done" /\ watch'.todo = {} /\ watch'.read = watch.read /\ watch' \in RunType(watch')
    BY <1>1, <1>3, <2>1 DEF RunType
  <2> QED
    BY <1>1, <1>2, <2>2, Resting, ReadIsTyped, ReadingsKeep
<1>4. CASE watch.todo # {}
  <2>1. watch' = [watch EXCEPT !.at = "search", !.asks = Stream # "claude"]
    BY <1>4 DEF NextStream
  <2>2. watch'.at = "search" /\ watch'.todo = watch.todo /\ watch'.read = watch.read
        /\ watch' \in RunType(watch')
    BY <1>1, <2>1 DEF RunType, Places
  <2>3. watch'.asks = (Stream # "claude")
    BY <1>1, <2>1 DEF RunType
  <2>4. Stream' = Stream
    BY <2>2, StreamStays
  <2>5. Running' /\ Looked' /\ Noted'
    BY <1>4, <2>2, <2>3, <2>4 DEF Running, Looked, Noted, Places, Rolling, Asking
  <2> QED
    BY <1>1, <1>2, <2>2, <2>5, ReadIsTyped, ReadingsKeep
<1> QED
  BY <1>3, <1>4

LEMMA SearchKeeps ==
  ASSUME WatchInv, SearchTitles
  PROVE  WatchInv' /\ (\A i \in DOMAIN watch'.found : i \in DOMAIN index /\ watch'.found[i] = index[i])
<1> DEFINE seen == {i \in DOMAIN index : index[i].stream = Stream /\ (watch.asks \/ index[i].open)}
           rows == [i \in seen |-> index[i]]
<1>1. watch \in RunType(watch) /\ watch.at = "search" /\ Readings
      /\ watch' = [watch EXCEPT !.at = "list", !.found = rows]
  BY DEF WatchInv, WatchTyped, SearchTitles, Readings
<1>2. watch.todo # {} /\ Stream # "other"
  BY <1>1, DueIsWatched DEF WatchInv, Running, Places
<1>3. DOMAIN rows = seen /\ seen \subseteq DOMAIN index /\ \A i \in seen : rows[i] = index[i]
  OBVIOUS
<1>4. \A i \in seen : index[i].stream = Stream
  OBVIOUS
<1>5. \A i \in DOMAIN index \ seen : index[i].stream = Stream => ~watch.asks /\ ~index[i].open
  OBVIOUS
<1> HIDE DEF seen, rows
<1>6. watch'.at = "list" /\ watch'.found = rows /\ watch'.todo = watch.todo /\ watch'.read = watch.read
      /\ watch'.asks = watch.asks /\ watch' \in RunType(watch')
  BY <1>1 DEF RunType, Places
<1>7. Stream' = Stream /\ issues' = issues
  BY <1>1, <1>6, StreamStays DEF Readings
<1>8. Faithful(index) /\ NoneMissed
  BY DEF WatchInv
<1>9. Faithful(rows)
  BY <1>3, <1>8 DEF Faithful
<1>10. \A i \in Of(Stream) : Recent(i) \/ i \in seen \/ (~watch.asks /\ ~issues[i].open)
  BY <1>2, <1>5, <1>8 DEF Faithful, NoneMissed, Of
<1>11. (watch.asks /\ Stream = "claude" => \A i \in Of("claude") : ~issues[i].open)
       /\ (~watch.asks => Stream = "claude")
  BY <1>1 DEF WatchInv, Looked, Asking, Running
<1>12. Looked'
  BY <1>3, <1>4, <1>6, <1>7, <1>9, <1>10, <1>11 DEF Looked, Faithful, Of, Recent, Asking
<1>13. Running' /\ Noted'
  BY <1>2, <1>6, <1>7, <1>11 DEF Running, Noted, Rolling, Places
<1>14. WatchInv'
  BY <1>1, <1>6, <1>12, <1>13, ReadIsTyped, ReadingsKeep
<1> QED
  BY <1>3, <1>6, <1>14

\* The rows of one lookup: each is of the stream; every issue of it that may be
\* open has one, and every issue when all were asked for.
LEMMA RowsAreFaithful ==
  ASSUME WatchInv, watch.at = "list"
  PROVE  /\ Faithful(Candidates)
         /\ \A i \in DOMAIN Candidates : i \in Of(Stream)
         /\ \A i \in Of(Stream) : i \in DOMAIN Candidates \/ (~watch.asks /\ ~issues[i].open)
         /\ \A i \in DOMAIN Candidates :
              \/ Candidates[i].key = issues[i].key
              \/ i \in DOMAIN watch.found /\ Candidates[i] = watch.found[i]
<1> DEFINE dom == DOMAIN watch.found \cup {j \in DOMAIN issues : Recent(j) /\ issues[j].stream = Stream}
<1>1. DOMAIN Candidates = dom
      /\ \A i \in dom : Candidates[i] = IF Recent(i) THEN Row(i) ELSE watch.found[i]
  BY DEF Candidates
<1>2. /\ Faithful(watch.found)
      /\ \A i \in DOMAIN watch.found : watch.found[i].stream = Stream
      /\ \A i \in Of(Stream) : \/ Recent(i) \/ i \in DOMAIN watch.found
                               \/ ~watch.asks /\ ~issues[i].open
  BY DEF WatchInv, Looked
<1>3. issues \in Seq(IssueType) /\ WatchTyped
  BY DEF WatchInv, WatchTyped
<1>4. Stream # "other"
  BY <1>3, DueIsWatched DEF WatchInv, Running, Places
<1>5. \A i \in dom : i \in DOMAIN issues /\ issues[i].stream = Stream
  BY <1>2 DEF Faithful
<1>6. \A i \in dom : i \in Of(Stream)
  BY <1>5 DEF Of
<1>7. ASSUME NEW i \in dom
      PROVE  /\ Candidates[i] \in RowType
             /\ issues[i].stream = Candidates[i].stream
             /\ issues[i].open => Candidates[i].open
             /\ Candidates[i].stream # "claude" => issues[i].key = Candidates[i].key
             /\ \/ Candidates[i].key = issues[i].key
                \/ i \in DOMAIN watch.found /\ Candidates[i] = watch.found[i]
  <2>1. CASE Recent(i)
    <3>1. Candidates[i] = Row(i)
      BY <1>1, <2>1
    <3>2. issues[i] \in IssueType /\ issues[i].stream # "other"
      BY <1>3, <1>4, <1>5, <1>7
    <3> QED
      BY <3>1, <3>2 DEF Row, RowType, IssueType
  <2>2. CASE ~Recent(i)
    <3>1. Candidates[i] = watch.found[i] /\ i \in DOMAIN watch.found
      BY <1>1, <1>7, <2>2
    <3> QED
      BY <1>2, <3>1 DEF Faithful
  <2> QED
    BY <2>1, <2>2
<1>8. \A i \in Of(Stream) : i \in dom \/ (~watch.asks /\ ~issues[i].open)
  BY <1>2 DEF Of
<1> QED
  BY <1>1, <1>5, <1>6, <1>7, <1>8 DEF Faithful

\* What comes of the second reading.
AlreadyThere ==
  /\ watch' = Filed(watch)
  /\ \E i \in DOMAIN Candidates :
       IF watch.asks THEN Candidates[i].key = Target
       ELSE Candidates[i].key \in Nat /\ Candidates[i].key >= Target
TooMany == watch' = FailedFiling(watch)
AsksAgain ==
  /\ watch' = [watch EXCEPT !.at = "search", !.asks = TRUE, !.found = <<>>]
  /\ ~watch.asks /\ \A i \in DOMAIN Candidates : ~Candidates[i].open
Rolls ==
  /\ ~watch.asks
  /\ \E one \in DOMAIN Candidates :
       /\ watch' = [watch EXCEPT !.at = "view", !.found = <<>>, !.issue = one, !.from = Candidates[one].key]
       /\ Candidates[one].key < Target
Creates ==
  /\ watch.asks /\ watch' = [watch EXCEPT !.at = "create", !.found = <<>>]
  /\ \A i \in DOMAIN Candidates : Candidates[i].key # Target

LEMMA ListOutcomes ==
  ASSUME WatchInv, ListRecent
  PROVE  AlreadyThere \/ TooMany \/ AsksAgain \/ Rolls \/ Creates
<1>1. watch' = IF ~watch.asks THEN Rolled(Candidates)
               ELSE IF TitleTaken(Candidates) THEN Filed(watch)
               ELSE [watch EXCEPT !.at = "create", !.found = <<>>]
  BY DEF ListRecent
<1>2. watch.at = "list" /\ WatchTyped
  BY DEF ListRecent, WatchInv
<1>3. CASE watch.asks
  BY <1>1, <1>3 DEF AlreadyThere, Creates, TitleTaken
<1>4. CASE ~watch.asks
  <2> DEFINE open == {i \in DOMAIN Candidates : Candidates[i].open}
             one  == CHOOSE i \in open : TRUE
  <2>1. CASE open = {}
    BY <1>1, <1>4, <2>1 DEF AsksAgain, Rolled
  <2>2. CASE open # {}
    <3>1. one \in DOMAIN Candidates
      BY <2>2
    <3>2. Candidates[one].key \in Nat /\ Target \in Nat
      <4>1. watch.todo # {} /\ watch.at # "idle"
        BY <1>2 DEF WatchInv, Running, Places
      <4>2. Target \in Nat
        BY <1>2, <4>1, DueIsWatched
      <4>3. Candidates[one] \in RowType
        BY <1>2, <3>1, RowsAreFaithful DEF Faithful
      <4> QED
        BY <4>2, <4>3 DEF RowType
    <3>3. watch' = IF Cardinality(open) > 1 THEN FailedFiling(watch)
                   ELSE IF Candidates[one].key >= Target THEN Filed(watch)
                   ELSE [watch EXCEPT !.at = "view", !.found = <<>>, !.issue = one, !.from = Candidates[one].key]
      BY <1>1, <1>4, <2>2 DEF Rolled
    <3> HIDE DEF open, one
    <3>4. CASE Cardinality(open) > 1
      BY <3>3, <3>4 DEF TooMany
    <3>5. CASE ~(Cardinality(open) > 1) /\ Candidates[one].key >= Target
      BY <1>4, <3>1, <3>2, <3>3, <3>5 DEF AlreadyThere
    <3>6. CASE ~(Cardinality(open) > 1) /\ ~(Candidates[one].key >= Target)
      <4>1. Candidates[one].key < Target
        BY <3>2, <3>6
      <4> QED
        BY <1>4, <3>1, <3>3, <3>6, <4>1 DEF Rolls
    <3> QED
      BY <3>4, <3>5, <3>6
  <2> QED
    BY <2>1, <2>2
<1> QED
  BY <1>3, <1>4

LEMMA ListKeeps ==
  ASSUME WatchInv, ListRecent
  PROVE  WatchInv'
<1>1. watch \in RunType(watch) /\ watch.at = "list" /\ Readings /\ WatchTyped
  BY DEF WatchInv, WatchTyped, ListRecent, Readings
<1>2. watch.todo # {} /\ Stream \in Streams /\ Target \in Nat
  BY <1>1, DueIsWatched DEF WatchInv, Running, Places
<1>3. /\ Faithful(Candidates)
      /\ \A i \in DOMAIN Candidates : i \in Of(Stream)
      /\ \A i \in Of(Stream) : i \in DOMAIN Candidates \/ (~watch.asks /\ ~issues[i].open)
  BY <1>1, RowsAreFaithful
<1>4. issues' = issues /\ (~watch.asks => Stream = "claude")
      /\ (watch.asks /\ Stream = "claude" => \A i \in Of("claude") : ~issues[i].open)
  BY <1>1 DEF Readings, WatchInv, Running, Looked, Asking
<1>5. \A i \in DOMAIN Candidates :
        /\ i \in DOMAIN issues
        /\ issues[i].open => Candidates[i].open
        /\ Candidates[i].stream = issues[i].stream
        /\ Candidates[i].stream # "claude" => issues[i].key = Candidates[i].key
        /\ Candidates[i].key \in Nat
  BY <1>3 DEF Faithful, RowType
<1>6. CASE AlreadyThere \/ TooMany
  <2>1. watch' \in RunType(watch') /\ watch'.at = "next" /\ watch'.read = watch.read
    BY <1>1, <1>6, FiledLeaves DEF AlreadyThere, TooMany
  <2> QED
    BY <1>1, <2>1, Resting, ReadIsTyped, ReadingsKeep
<1>7. CASE AsksAgain
  <2>1. watch' = [watch EXCEPT !.at = "search", !.asks = TRUE, !.found = <<>>]
    BY <1>7 DEF AsksAgain
  <2>2. watch'.at = "search" /\ watch'.asks /\ watch'.todo = watch.todo /\ watch'.read = watch.read
        /\ watch' \in RunType(watch')
    BY <1>1, <2>1 DEF RunType, Places
  <2>3. Stream' = Stream
    BY <2>2, StreamStays
  <2>4. ASSUME NEW i \in Of(Stream)
        PROVE  ~issues[i].open
    <3>1. CASE i \in DOMAIN Candidates
      <4>1. ~Candidates[i].open
        BY <1>7, <3>1 DEF AsksAgain
      <4> QED
        BY <1>5, <3>1, <4>1
    <3>2. CASE i \notin DOMAIN Candidates
      BY <1>3, <3>2
    <3> QED
      BY <3>1, <3>2
  <2>5. Of("claude")' = Of("claude")
    BY <1>4 DEF Of
  <2>6. Running' /\ Looked' /\ Noted'
    BY <1>2, <1>4, <2>2, <2>3, <2>4, <2>5 DEF Running, Looked, Noted, Places, Rolling, Asking
  <2> QED
    BY <1>1, <2>2, <2>6, ReadIsTyped, ReadingsKeep
<1>8. CASE Rolls
  <2>1. PICK one \in DOMAIN Candidates :
          watch' = [watch EXCEPT !.at = "view", !.found = <<>>, !.issue = one, !.from = Candidates[one].key]
    BY <1>8 DEF Rolls
  <2>2. one \in Nat /\ Candidates[one].key \in Nat /\ one \in Of("claude")
    <3>1. Stream = "claude"
      BY <1>4, <1>8 DEF Rolls
    <3>2. one \in Of("claude")
      BY <1>3, <3>1
    <3>3. Candidates[one].key \in Nat /\ one \in DOMAIN issues
      BY <1>5
    <3>4. issues \in Seq(IssueType)
      BY <1>1 DEF WatchTyped
    <3> QED
      BY <3>2, <3>3, <3>4
  <2>3. watch'.at = "view" /\ watch'.todo = watch.todo /\ watch'.read = watch.read
        /\ watch'.issue = one /\ watch' \in RunType(watch')
    BY <1>1, <2>1, <2>2 DEF RunType, Places
  <2>4. Stream' = Stream /\ Stream = "claude"
    BY <1>4, <1>8, <2>3, StreamStays DEF Rolls
  <2>5. Of("claude")' = Of("claude")
    BY <1>4 DEF Of
  <2>6. Running' /\ Looked' /\ Noted'
    BY <1>2, <2>2, <2>3, <2>4, <2>5 DEF Running, Looked, Noted, Places, Rolling, Asking
  <2> QED
    BY <1>1, <2>3, <2>6, ReadIsTyped, ReadingsKeep
<1>9. CASE Creates
  <2>1. watch' = [watch EXCEPT !.at = "create", !.found = <<>>] /\ watch.asks
    BY <1>9 DEF Creates
  <2>2. watch'.at = "create" /\ watch'.todo = watch.todo /\ watch'.read = watch.read
        /\ watch' \in RunType(watch')
    BY <1>1, <2>1 DEF RunType, Places
  <2>3. Stream' = Stream /\ Streams' = Streams
    BY <1>1, <2>2, StreamStays DEF Readings, Streams
  <2>4. Target' = Target
    BY <2>2, <2>3 DEF Target, Key, Min
  <2>5. ASSUME Stream # "claude", NEW i \in Of(Stream)
        PROVE  issues[i].key # Target
    <3>1. i \in DOMAIN Candidates
      BY <1>3, <2>1, <2>5
    <3>2. Candidates[i].key # Target
      BY <1>9, <3>1 DEF Creates
    <3>3. issues[i].stream = Stream
      BY <2>5 DEF Of
    <3> QED
      BY <1>5, <2>5, <3>1, <3>2, <3>3
  <2>6. \A s : Of(s)' = Of(s)
    BY <1>4 DEF Of
  <2>7. Running' /\ Looked' /\ Noted'
    BY <1>2, <1>4, <2>1, <2>2, <2>3, <2>4, <2>5, <2>6 DEF Running, Looked, Noted, Places, Rolling, Asking
  <2> QED
    BY <1>1, <2>2, <2>7, ReadIsTyped, ReadingsKeep
<1> QED
  BY <1>6, <1>7, <1>8, <1>9, ListOutcomes

LEMMA ViewKeeps ==
  ASSUME WatchInv, ViewComments
  PROVE  WatchInv'
<1>1. watch \in RunType(watch) /\ watch.at = "view" /\ Readings /\ WatchTyped
      /\ watch' = [watch EXCEPT !.at = IF NoteGiven THEN "edit" ELSE "comment"]
  BY DEF WatchInv, WatchTyped, ViewComments, Readings
<1>2. watch'.at = (IF NoteGiven THEN "edit" ELSE "comment") /\ watch'.todo = watch.todo
      /\ watch'.read = watch.read /\ watch'.issue = watch.issue /\ watch'.from = watch.from
      /\ watch' \in RunType(watch')
  BY <1>1 DEF RunType, Places
<1>3. Stream' = Stream /\ issues' = issues /\ watch.todo # {} /\ Stream = "claude"
      /\ watch.issue \in Of("claude")
  BY <1>1, <1>2, StreamStays DEF Readings, WatchInv, Running, Places, Rolling
<1>4. Target' = Target
  BY <1>2, <1>3 DEF Target, Key, Min
<1>5. NoteGiven' = NoteGiven /\ Of("claude")' = Of("claude")
  BY <1>2, <1>3, <1>4 DEF NoteGiven, Note, Of
<1>6. Running' /\ Looked' /\ Noted'
  BY <1>2, <1>3, <1>5 DEF Running, Looked, Noted, Places, Rolling, Asking
<1> QED
  BY <1>1, <1>2, <1>6, ReadIsTyped, ReadingsKeep

LEMMA BreaksKeep ==
  ASSUME WatchInv, CallFails \/ Killed
  PROVE  WatchInv'
<1>1. Readings /\ WatchTyped
  BY DEF WatchInv, CallFails, Killed, Readings
<1>2. CASE CallFails
  <2>1. watch' \in RunType(watch') /\ watch'.at = "next" /\ watch'.read = watch.read /\ watch.at # "idle"
    BY <1>1, <1>2, FiledLeaves DEF CallFails
  <2> QED
    BY <1>1, <2>1, Resting, ReadIsTyped, ReadingsKeep
<1>3. CASE Killed
  <2>1. watch'.at = "idle" /\ watch' \in RunType(watch')
    BY <1>3 DEF Killed, NoWatch, RunType
  <2> QED
    BY <1>1, <2>1, Resting, ReadingsKeep
<1> QED
  BY <1>2, <1>3

-----------------------------------------------------------------------------
\* The run after a write: on to the rest, or from the note to the title.
LEMMA WritesGoOn ==
  ASSUME WatchInv, NEW answered \in BOOLEAN, Writes(answered)
  PROVE  /\ UNCHANGED <<index, upstream, baseline, Streams>>
         /\ watch' \in RunType(watch') /\ watch'.read = watch.read /\ watch.at # "idle"
         /\ \/ watch' = Filed(watch) /\ watch'.at = "next" /\ watch.at \in {"create", "edit"}
            \/ watch' = FailedFiling(watch) /\ watch'.at = "next"
            \/ /\ watch' = [watch EXCEPT !.at = "edit"] /\ watch'.at = "edit"
               /\ watch.at = "comment" /\ watch'.todo = watch.todo
               /\ watch'.issue = watch.issue /\ watch'.from = watch.from
<1>1. watch \in RunType(watch) /\ WatchTyped /\ UNCHANGED <<index, upstream, baseline, Streams>>
      /\ watch.at \in {"create", "comment", "edit"}
  BY DEF WatchInv, WatchTyped, Writes, Streams
<1>2. CASE ~answered
  <2>1. watch' = FailedFiling(watch)
    BY <1>2 DEF Writes
  <2> QED
    BY <1>1, <2>1, FiledLeaves
<1>3. CASE answered /\ watch.at = "comment"
  <2>1. watch' = [watch EXCEPT !.at = "edit"]
    BY <1>3 DEF Writes
  <2>2. /\ watch'.at = "edit" /\ watch'.todo = watch.todo /\ watch'.read = watch.read
        /\ watch'.issue = watch.issue /\ watch'.from = watch.from /\ watch' \in RunType(watch')
    BY <1>1, <2>1 DEF RunType, Places
  <2> QED
    BY <1>1, <1>3, <2>1, <2>2
<1>4. CASE answered /\ watch.at # "comment"
  <2>1. watch' = Filed(watch)
    BY <1>4 DEF Writes
  <2> QED
    BY <1>1, <1>4, <2>1, FiledLeaves
<1> QED
  BY <1>2, <1>3, <1>4

LEMMA CreateKeeps ==
  ASSUME WatchInv, watch.at = "create", Create
  PROVE  /\ issues' \in Seq(IssueType) /\ Len(issues') = Len(issues) + 1
         /\ \A i \in DOMAIN issues : i \in DOMAIN issues' /\ issues'[i] = issues[i]
         /\ \A i \in DOMAIN issues' : i = Len(issues') \/ i \in DOMAIN issues
         /\ Len(issues') \in DOMAIN issues'
         /\ issues'[Len(issues')].stream = Stream /\ issues'[Len(issues')].key = Target
         /\ issues'[Len(issues')].notes = <<>> /\ issues'[Len(issues')].born = Target
<1> DEFINE n == [stream |-> Stream, key |-> Target, open |-> TRUE, born |-> Target, notes |-> <<>>]
<1>1. issues \in Seq(IssueType) /\ Stream \in Watched /\ Target \in Nat
  BY DueIsWatched DEF WatchInv, WatchTyped, Running, Places
<1>2. n \in IssueType /\ n.stream = Stream /\ n.key = Target /\ n.notes = <<>> /\ n.born = Target
  BY <1>1 DEF IssueType
<1>3. issues' = Append(issues, n)
  BY DEF Create
<1> HIDE DEF n
<1>4. /\ issues' \in Seq(IssueType) /\ Len(issues') = Len(issues) + 1 /\ Len(issues) \in Nat
      /\ DOMAIN issues = 1 .. Len(issues) /\ DOMAIN issues' = 1 .. Len(issues) + 1
      /\ \A i \in 1 .. Len(issues) : issues'[i] = issues[i]
      /\ issues'[Len(issues) + 1] = n
  BY <1>1, <1>2, <1>3
<1>5. issues'[Len(issues')] = n
  BY <1>4
<1> QED
  BY <1>2, <1>4, <1>5

LEMMA CreateFilesOnce ==
  ASSUME WatchInv, watch.at = "create", Create, Streams' = Streams
  PROVE  IssuesAreFiledOnce'
<1> DEFINE new == Len(issues')
<1>1. /\ \A i \in DOMAIN issues : i \in DOMAIN issues' /\ issues'[i] = issues[i]
      /\ \A i \in DOMAIN issues' : i = new \/ i \in DOMAIN issues
      /\ issues'[new].stream = Stream /\ issues'[new].key = Target
      /\ issues'[new].notes = <<>> /\ issues'[new].born = Target
  BY CreateKeeps
<1> HIDE DEF new
<1>2. ASSUME NEW s, NEW i \in Of(s)'
      PROVE  (i = new /\ s = Stream) \/ (i \in Of(s) /\ issues'[i] = issues[i])
  BY <1>1, <1>2 DEF Of
<1>3. IssuesAreFiledOnce /\ Looked
  BY DEF WatchInv
<1>4. ASSUME NEW s \in Streams \ {"claude"}, NEW i \in Of(s)', NEW j \in Of(s)',
             issues'[i].key = issues'[j].key
      PROVE  i = j
  <2>1. Stream # "claude" => \A k \in Of(Stream) : issues[k].key # Target
    BY <1>3 DEF Looked
  <2>2. (i = new /\ s = Stream) \/ (i \in Of(s) /\ issues'[i] = issues[i])
    BY <1>2
  <2>3. (j = new /\ s = Stream) \/ (j \in Of(s) /\ issues'[j] = issues[j])
    BY <1>2
  <2>4. i \in Of(s) /\ j \in Of(s) /\ issues[i].key = issues[j].key => i = j
    BY <1>3 DEF IssuesAreFiledOnce
  <2> QED
    BY <1>1, <1>4, <2>1, <2>2, <2>3, <2>4
<1>5. ASSUME NEW i \in Of("claude")', NEW j \in Of("claude")', issues'[i].open, issues'[j].open
      PROVE  i = j
  <2>1. Stream = "claude" => \A k \in Of("claude") : ~issues[k].open
    BY <1>3 DEF Looked
  <2>2. (i = new /\ "claude" = Stream) \/ (i \in Of("claude") /\ issues'[i] = issues[i])
    BY <1>2
  <2>3. (j = new /\ "claude" = Stream) \/ (j \in Of("claude") /\ issues'[j] = issues[j])
    BY <1>2
  <2>4. i \in Of("claude") /\ j \in Of("claude") /\ issues[i].open /\ issues[j].open => i = j
    BY <1>3 DEF IssuesAreFiledOnce
  <2> QED
    BY <1>5, <2>1, <2>2, <2>3, <2>4
<1>6. ASSUME NEW i \in Of("claude")'
      PROVE  LET notes == issues'[i].notes
             IN  /\ \A a, b \in DOMAIN notes : notes[a] = notes[b] => a = b
                 /\ issues'[i].key \in {issues'[i].born} \cup {notes[n].to : n \in DOMAIN notes}
  <2>1. CASE i = new
    <3>1. DOMAIN issues'[i].notes = {}
      BY <1>1, <2>1
    <3> QED
      BY <1>1, <2>1, <3>1
  <2>2. CASE i \in Of("claude") /\ issues'[i] = issues[i]
    BY <1>3, <2>2 DEF IssuesAreFiledOnce
  <2> QED
    BY <1>2, <1>6, <2>1, <2>2
<1> QED
  BY <1>4, <1>5, <1>6 DEF IssuesAreFiledOnce

\* A comment or an edit: one issue of the rolling stream becomes e.
Revised(e) ==
  /\ issues' = [issues EXCEPT ![watch.issue] = e]
  /\ e \in IssueType
  /\ e.stream = issues[watch.issue].stream /\ e.open = issues[watch.issue].open
  /\ e.born = issues[watch.issue].born

LEMMA RevisedIssues ==
  ASSUME WatchInv, Rolling, NEW e, Revised(e)
  PROVE  /\ issues' \in Seq(IssueType) /\ Len(issues') = Len(issues) /\ DOMAIN issues' = DOMAIN issues
         /\ watch.issue \in DOMAIN issues /\ issues'[watch.issue] = e
         /\ issues[watch.issue].stream = "claude" /\ issues[watch.issue] \in IssueType
         /\ \A i \in DOMAIN issues \ {watch.issue} : issues'[i] = issues[i]
         /\ \A i \in DOMAIN issues : /\ issues'[i].stream = issues[i].stream
                                     /\ issues'[i].open = issues[i].open
                                     /\ issues[i].stream # "claude" => issues'[i].key = issues[i].key
<1>1. issues \in Seq(IssueType) /\ watch.issue \in DOMAIN issues /\ issues[watch.issue].stream = "claude"
  BY DEF WatchInv, WatchTyped, Running, Of
<1>2. /\ issues' \in Seq(IssueType) /\ Len(issues') = Len(issues)
      /\ \A j \in 1 .. Len(issues) : issues'[j] = IF j = watch.issue THEN e ELSE issues[j]
  BY <1>1, ExceptSeq DEF Revised
<1>3. DOMAIN issues' = DOMAIN issues /\ DOMAIN issues = 1 .. Len(issues)
  BY <1>1, <1>2
<1>4. issues[watch.issue] \in IssueType
  BY <1>1
<1>5. issues'[watch.issue] = e /\ \A i \in DOMAIN issues \ {watch.issue} : issues'[i] = issues[i]
  BY <1>1, <1>2, <1>3
<1>6. ASSUME NEW i \in DOMAIN issues
      PROVE  /\ issues'[i].stream = issues[i].stream
             /\ issues'[i].open = issues[i].open
             /\ issues[i].stream # "claude" => issues'[i].key = issues[i].key
  BY <1>1, <1>5 DEF Revised
<1> QED
  BY <1>1, <1>2, <1>3, <1>4, <1>5, <1>6

LEMMA RevisedFilesOnce ==
  ASSUME WatchInv, Rolling, NEW e, Revised(e), Streams' = Streams,
         \A a, b \in DOMAIN e.notes : e.notes[a] = e.notes[b] => a = b,
         e.key \in {e.born} \cup {e.notes[n].to : n \in DOMAIN e.notes}
  PROVE  IssuesAreFiledOnce'
<1>1. /\ DOMAIN issues' = DOMAIN issues /\ issues'[watch.issue] = e
      /\ issues[watch.issue].stream = "claude"
      /\ \A i \in DOMAIN issues \ {watch.issue} : issues'[i] = issues[i]
  BY RevisedIssues
<1>2. \A i \in DOMAIN issues : /\ issues'[i].stream = issues[i].stream
                               /\ issues'[i].open = issues[i].open
                               /\ issues[i].stream # "claude" => issues'[i].key = issues[i].key
  BY RevisedIssues
<1>3. \A s : Of(s)' = Of(s)
  BY <1>1, <1>2 DEF Of
<1>4. IssuesAreFiledOnce
  BY DEF WatchInv
<1>5. ASSUME NEW s \in Streams \ {"claude"}, NEW i \in Of(s), NEW j \in Of(s),
             issues'[i].key = issues'[j].key
      PROVE  i = j
  BY <1>2, <1>4, <1>5 DEF IssuesAreFiledOnce, Of
<1>6. ASSUME NEW i \in Of("claude"), NEW j \in Of("claude"), issues'[i].open, issues'[j].open
      PROVE  i = j
  BY <1>2, <1>4, <1>6 DEF IssuesAreFiledOnce, Of
<1>7. ASSUME NEW i \in Of("claude")
      PROVE  LET notes == issues'[i].notes
             IN  /\ \A a, b \in DOMAIN notes : notes[a] = notes[b] => a = b
                 /\ issues'[i].key \in {issues'[i].born} \cup {notes[n].to : n \in DOMAIN notes}
  <2>1. CASE i = watch.issue
    BY <1>1, <2>1
  <2>2. CASE i # watch.issue
    <3>1. issues'[i] = issues[i]
      BY <1>1, <2>2 DEF Of
    <3> QED
      BY <1>4, <3>1 DEF IssuesAreFiledOnce
  <2> QED
    BY <2>1, <2>2
<1> QED
  BY <1>3, <1>5, <1>6, <1>7 DEF IssuesAreFiledOnce

LEMMA NoteIsTyped ==
  ASSUME WatchInv, Rolling
  PROVE  /\ Note \in [from : Nat, to : Nat] /\ Note.to = Target /\ Target \in Nat
         /\ issues[watch.issue] \in IssueType /\ watch.issue \in DOMAIN issues
<1>1. issues \in Seq(IssueType) /\ watch.issue \in DOMAIN issues /\ watch \in RunType(watch)
  BY DEF WatchInv, WatchTyped, Running, Of
<1>2. watch.from \in Nat
  BY <1>1 DEF RunType
<1>3. Target \in Nat
  BY DueIsWatched DEF WatchInv, Running, Places, Rolling
<1> QED
  BY <1>1, <1>2, <1>3 DEF Note

LEMMA CommentRevises ==
  ASSUME WatchInv, watch.at = "comment", Comment
  PROVE  \E e : /\ Revised(e) /\ e.key = issues[watch.issue].key
                /\ e.notes = Append(issues[watch.issue].notes, Note)
<1> DEFINE e == [issues[watch.issue] EXCEPT !.notes = Append(@, Note)]
<1>1. Note \in [from : Nat, to : Nat] /\ issues[watch.issue] \in IssueType
  BY NoteIsTyped DEF Rolling
<1>2. issues[watch.issue].notes \in Seq([from : Nat, to : Nat])
  BY <1>1 DEF IssueType
<1>3. Append(issues[watch.issue].notes, Note) \in Seq([from : Nat, to : Nat])
  BY <1>1, <1>2
<1>4. /\ e \in IssueType /\ e.stream = issues[watch.issue].stream /\ e.open = issues[watch.issue].open
      /\ e.born = issues[watch.issue].born /\ e.key = issues[watch.issue].key
      /\ e.notes = Append(issues[watch.issue].notes, Note)
  BY <1>1, <1>3, Zenon DEF IssueType
<1>5. issues' = [issues EXCEPT ![watch.issue] = e]
  BY DEF Comment
<1> HIDE DEF e
<1> QED
  BY <1>4, <1>5 DEF Revised

LEMMA RetitleRevises ==
  ASSUME WatchInv, watch.at = "edit", Retitle
  PROVE  \E e : /\ Revised(e) /\ e.key = Target
                /\ e.notes = issues[watch.issue].notes
<1> DEFINE e == [issues[watch.issue] EXCEPT !.key = Target]
<1>1. Target \in Nat /\ issues[watch.issue] \in IssueType
  BY NoteIsTyped DEF Rolling
<1>2. /\ e \in IssueType /\ e.stream = issues[watch.issue].stream /\ e.open = issues[watch.issue].open
      /\ e.born = issues[watch.issue].born /\ e.key = Target
      /\ e.notes = issues[watch.issue].notes
  BY <1>1, Zenon DEF IssueType
<1>3. issues' = [issues EXCEPT ![watch.issue] = e]
  BY DEF Retitle
<1> HIDE DEF e
<1> QED
  BY <1>2, <1>3 DEF Revised

LEMMA CommentFilesOnce ==
  ASSUME WatchInv, watch.at = "comment", Comment, Streams' = Streams
  PROVE  IssuesAreFiledOnce' /\ Note \in {issues'[watch.issue].notes[n] : n \in DOMAIN issues'[watch.issue].notes}
<1>1. PICK e : /\ Revised(e) /\ e.key = issues[watch.issue].key
               /\ e.notes = Append(issues[watch.issue].notes, Note)
  BY CommentRevises
<1> DEFINE notes == issues[watch.issue].notes
<1>2. issues'[watch.issue] = e /\ issues[watch.issue].stream = "claude" /\ issues[watch.issue] \in IssueType
      /\ watch.issue \in DOMAIN issues
  BY <1>1, RevisedIssues DEF Rolling
<1>3. notes \in Seq([from : Nat, to : Nat])
  BY <1>2 DEF IssueType
<1>4. Note \in [from : Nat, to : Nat]
  BY NoteIsTyped DEF Rolling
<1>5. /\ \A a, b \in DOMAIN notes : notes[a] = notes[b] => a = b
      /\ e.key \in {e.born} \cup {notes[n].to : n \in DOMAIN notes}
  BY <1>1, <1>2 DEF WatchInv, IssuesAreFiledOnce, Of, Revised
<1>6. \A n \in DOMAIN notes : notes[n] # Note
  BY DEF WatchInv, Noted, NoteGiven
<1>6a. e.notes = Append(notes, Note)
  BY <1>1
<1> HIDE DEF notes
<1>7. /\ DOMAIN notes = 1 .. Len(notes) /\ Len(notes) \in Nat
      /\ DOMAIN e.notes = 1 .. Len(notes) + 1
      /\ \A n \in DOMAIN notes : e.notes[n] = notes[n]
      /\ e.notes[Len(notes) + 1] = Note
  BY <1>3, <1>4, <1>6a, AppendProperties
<1>8. \A a \in DOMAIN e.notes : a \in DOMAIN notes \/ a = Len(notes) + 1
  BY <1>7
<1>9. \A a, b \in DOMAIN e.notes : e.notes[a] = e.notes[b] => a = b
  BY <1>5, <1>6, <1>7, <1>8
<1>10. DOMAIN notes \subseteq DOMAIN e.notes
  BY <1>7
<1>11. e.key \in {e.born} \cup {e.notes[n].to : n \in DOMAIN e.notes}
  BY <1>5, <1>7, <1>10
<1>12. IssuesAreFiledOnce'
  BY <1>1, <1>9, <1>11, RevisedFilesOnce DEF Rolling
<1>13. Len(notes) + 1 \in DOMAIN e.notes
  BY <1>7
<1> QED
  BY <1>2, <1>7, <1>12, <1>13

LEMMA RetitleFilesOnce ==
  ASSUME WatchInv, watch.at = "edit", Retitle, Streams' = Streams
  PROVE  IssuesAreFiledOnce'
<1>1. PICK e : Revised(e) /\ e.key = Target /\ e.notes = issues[watch.issue].notes
  BY RetitleRevises
<1>2. watch.issue \in Of("claude")
  BY DEF WatchInv, Running, Rolling
<1>3. \A a, b \in DOMAIN e.notes : e.notes[a] = e.notes[b] => a = b
  BY <1>1, <1>2 DEF WatchInv, IssuesAreFiledOnce
<1>4. PICK n \in DOMAIN e.notes : e.notes[n] = Note
  BY <1>1 DEF WatchInv, Noted, NoteGiven
<1>5. e.notes[n].to = e.key
  BY <1>1, <1>4, NoteIsTyped DEF Rolling
<1>6. e.key \in {e.born} \cup {e.notes[k].to : k \in DOMAIN e.notes}
  BY <1>5
<1> QED
  BY <1>1, <1>3, <1>6, RevisedFilesOnce DEF Rolling

LEMMA WritesKeep ==
  ASSUME WatchInv, NEW answered \in BOOLEAN, Writes(answered)
  PROVE  WatchInv'
<1>1. /\ UNCHANGED <<index, upstream, baseline, Streams>>
      /\ watch' \in RunType(watch') /\ watch'.read = watch.read /\ watch.at # "idle"
      /\ \/ watch' = Filed(watch) /\ watch'.at = "next" /\ watch.at \in {"create", "edit"}
         \/ watch' = FailedFiling(watch) /\ watch'.at = "next"
         \/ /\ watch' = [watch EXCEPT !.at = "edit"] /\ watch'.at = "edit"
            /\ watch.at = "comment" /\ watch'.todo = watch.todo
            /\ watch'.issue = watch.issue /\ watch'.from = watch.from
  BY WritesGoOn
<1>2. WatchTyped /\ Faithful(index) /\ NoneMissed /\ Running /\ issues \in Seq(IssueType)
  BY DEF WatchInv, WatchTyped
<1>3. \/ watch.at = "create" /\ Create
      \/ watch.at = "comment" /\ Comment
      \/ watch.at = "edit" /\ Retitle
  BY DEF Writes
<1>4. /\ issues' \in Seq(IssueType) /\ DOMAIN issues \subseteq DOMAIN issues'
      /\ \A i \in DOMAIN issues :
           /\ issues'[i].stream = issues[i].stream
           /\ issues'[i].open => issues[i].open
           /\ issues[i].stream # "claude" => issues'[i].key = issues[i].key
  BY <1>3, CreateKeeps, CommentRevises, RetitleRevises, RevisedIssues DEF Rolling
<1>5. WatchTyped'
  BY <1>1, <1>2, <1>4 DEF WatchTyped, RunType
<1>6. Faithful(index)'
  BY <1>1, <1>2, <1>4 DEF Faithful
<1>7. NoneMissed'
  <2>1. CASE watch.at = "create" /\ Create
    <3>1. /\ Len(issues') = Len(issues) + 1 /\ Len(issues) \in Nat /\ RecentIssues \in Nat \ {0}
          /\ \A i \in DOMAIN issues : issues'[i] = issues[i]
          /\ \A i \in DOMAIN issues' : i = Len(issues') \/ i \in DOMAIN issues
      BY <1>2, <2>1, CreateKeeps, WatchBounds
    <3>2. ASSUME NEW i \in DOMAIN issues'
          PROVE  i \in DOMAIN index \/ issues'[i].stream = "other" \/ Recent(i)'
      <4>1. CASE i = Len(issues')
        BY <3>1, <4>1 DEF Recent
      <4>2. CASE i \in DOMAIN issues
        <5>1. IndexKeepsUp /\ i \in Nat
          BY <1>2, <2>1, <4>2 DEF Create
        <5>2. i \in DOMAIN index \/ i \in Of("other") \/ i > Len(issues) + 1 - RecentIssues
          BY <4>2, <5>1 DEF IndexKeepsUp
        <5> QED
          BY <3>1, <4>2, <5>1, <5>2 DEF Recent, Of
      <4> QED
        BY <3>1, <4>1, <4>2
    <3> QED
      BY <1>1, <3>2 DEF NoneMissed, Of
  <2>2. CASE Rolling /\ \E e : Revised(e)
    <3>1. /\ Len(issues') = Len(issues) /\ DOMAIN issues' = DOMAIN issues
          /\ \A i \in DOMAIN issues : issues'[i].stream = issues[i].stream
      BY <2>2, RevisedIssues
    <3> QED
      BY <1>1, <1>2, <3>1 DEF NoneMissed, Of, Recent
  <2> QED
    BY <1>3, <2>1, <2>2, CommentRevises, RetitleRevises DEF Rolling
<1>8. IssuesAreFiledOnce'
  BY <1>1, <1>3, CreateFilesOnce, CommentFilesOnce, RetitleFilesOnce
<1>9. Running' /\ Looked' /\ Noted'
  <2>1. CASE watch'.at = "next"
    BY <2>1, Resting
  <2>2. CASE /\ watch'.at = "edit" /\ watch.at = "comment" /\ watch'.todo = watch.todo
             /\ watch'.issue = watch.issue /\ watch'.from = watch.from
    <3>1. Stream' = Stream /\ watch.todo # {} /\ Stream = "claude" /\ watch.issue \in Of("claude")
      BY <1>2, <2>2, StreamStays DEF Running, Places, Rolling
    <3>2. Target' = Target
      BY <1>1, <3>1 DEF Target, Key, Min
    <3>3. Note' = Note
      BY <2>2, <3>2 DEF Note
    <3>4. watch.issue \in Of("claude")'
      BY <1>4, <3>1 DEF Of
    <3>5. NoteGiven'
      <4>1. Note \in {issues'[watch.issue].notes[n] : n \in DOMAIN issues'[watch.issue].notes}
        BY <1>1, <1>3, <2>2, CommentFilesOnce
      <4> QED
        BY <2>2, <3>3, <4>1 DEF NoteGiven
    <3> QED
      BY <2>2, <3>1, <3>4, <3>5 DEF Running, Looked, Noted, Places, Rolling, Asking
  <2> QED
    BY <1>1, <2>1, <2>2
<1> QED
  BY <1>5, <1>6, <1>7, <1>8, <1>9 DEF WatchInv

LEMMA WatchInvInit ==
  ASSUME WatchInit
  PROVE  WatchInv
<1>1. PICK w \in Watches :
        /\ upstream = [s \in w.streams |-> 1]
        /\ baseline = [s \in w.streams |-> IF s = "mcp" THEN {2} ELSE {1}]
  BY DEF WatchInit
<1>2. w.streams \subseteq Watched
  BY WatchBounds DEF Watched
<1>3. issues = <<>> /\ index = <<>> /\ watch = NoWatch
  BY DEF WatchInit
<1>4. DOMAIN issues = {} /\ DOMAIN index = {} /\ issues \in Seq(IssueType)
  BY <1>3
<1>5. watch.at = "idle" /\ watch \in RunType(watch)
  BY <1>3 DEF NoWatch, RunType
<1>6. WatchTyped
  BY <1>1, <1>2, <1>4, <1>5 DEF WatchTyped, Streams
<1>7. Faithful(index) /\ NoneMissed /\ IssuesAreFiledOnce
  BY <1>4 DEF Faithful, NoneMissed, IssuesAreFiledOnce, Of
<1>8. Running /\ Looked /\ Noted
  BY <1>5 DEF Running, Looked, Noted, Places, Rolling, Asking
<1> QED
  BY <1>6, <1>7, <1>8 DEF WatchInv

LEMMA WatchInvStep ==
  ASSUME WatchInv, [WatchNext]_watchVars
  PROVE  WatchInv'
<1>1. CASE WatchNext
  BY <1>1, OthersKeep, StartKeeps, NextKeeps, SearchKeeps, ListKeeps, ViewKeeps, WritesKeep, BreaksKeep
     DEF WatchNext
<1>2. CASE UNCHANGED watchVars
  <2>1. WatchTyped' /\ Faithful(index)' /\ NoneMissed'
    BY <1>2 DEF watchVars, WatchInv, WatchTyped, Faithful, RunType, NoneMissed, Streams, Of, Recent
  <2>2. IssuesAreFiledOnce'
    BY <1>2 DEF watchVars, WatchInv, IssuesAreFiledOnce, Streams, Of
  <2>3. Running' /\ Noted'
    BY <1>2 DEF watchVars, WatchInv, Running, Noted, Of, Stream, Rolling, Target, NoteGiven, Note
  <2>4. Looked'
    BY <1>2 DEF watchVars, WatchInv, Looked, Faithful, Of, Recent, Stream, Asking, Target
  <2> QED
    BY <2>1, <2>2, <2>3, <2>4 DEF WatchInv
<1> QED
  BY <1>1, <1>2

\* A minor has one issue for good, the rolling stream one open issue, and every
\* title it moved to is told on it once (file_issues, roll_issue): whatever calls
\* are lost, runs killed, issues closed, titles indexed late and releases
\* withdrawn, for any streams and any number of issues and faults.
THEOREM IssuesAreOnce == WatchSpec => []IssuesAreFiledOnce
<1>1. WatchInit => WatchInv
  BY WatchInvInit
<1>2. WatchInv /\ [WatchNext]_watchVars => WatchInv'
  BY WatchInvStep
<1>3. WatchInv => IssuesAreFiledOnce
  BY DEF WatchInv
<1> QED
  BY <1>1, <1>2, <1>3, PTL DEF WatchSpec

-----------------------------------------------------------------------------
\* Titles stay, and the rolling stream's only advance.
KeysAdvance ==
  /\ issues' \in Seq(IssueType) /\ DOMAIN issues \subseteq DOMAIN issues'
  /\ \A i \in DOMAIN issues :
       /\ issues'[i].stream = issues[i].stream /\ issues[i].key <= issues'[i].key
       /\ issues[i].stream # "claude" => issues'[i].key = issues[i].key

LEMMA IssueKeys ==
  ASSUME WatchTyped
  PROVE  \A i \in DOMAIN issues : issues[i].key \in Nat
<1>1. \A i \in DOMAIN issues : issues[i] \in IssueType
  BY DEF WatchTyped
<1> QED
  BY <1>1 DEF IssueType

LEMMA KeysStay ==
  ASSUME WatchTyped, issues' = issues
  PROVE  KeysAdvance
<1>1. \A i \in DOMAIN issues : issues[i].key <= issues[i].key
  BY IssueKeys
<1> QED
  BY <1>1 DEF KeysAdvance, WatchTyped

LEMMA StillBehind ==
  ASSUME WatchTyped, KeysAdvance, NEW rows, Faithful(rows), Behind(rows)
  PROVE  Behind(rows)'
<1> SUFFICES ASSUME NEW i \in DOMAIN rows
             PROVE  rows[i].key <= issues'[i].key
  BY DEF Behind
<1>1. rows[i] \in RowType /\ i \in DOMAIN issues /\ rows[i].key <= issues[i].key
  BY DEF Faithful, Behind
<1>2. rows[i].key \in Nat /\ issues[i].key \in Nat
  BY <1>1, IssueKeys DEF RowType
<1>3. issues[i].key <= issues'[i].key /\ issues'[i] \in IssueType
  BY <1>1 DEF KeysAdvance
<1>4. issues'[i].key \in Nat
  BY <1>3 DEF IssueType
<1> QED
  BY <1>1, <1>2, <1>3, <1>4

LEMMA ReadsOf ==
  ASSUME WatchTyped, watch.at # "idle", NEW s \in Streams
  PROVE  watch.read[s] \in Nat /\ Key(s, watch.read[s]) \in Nat
<1>1. watch.read[s] \in Nat
  BY DEF WatchTyped
<1> QED
  BY <1>1, KeyIsNat

LEMMA StillFiled ==
  ASSUME WatchTyped, watch.at # "idle", KeysAdvance, watch'.read = watch.read,
         NEW s \in Streams, IssueFor(s)
  PROVE  IssueFor(s)'
<1>1. PICK i \in Of(s) : IF s = "claude" THEN issues[i].key >= watch.read[s]
                         ELSE issues[i].key = Key(s, watch.read[s])
  BY DEF IssueFor
<1>2. i \in DOMAIN issues /\ issues[i].stream = s
  BY DEF Of
<1>3. i \in Of(s)' /\ issues[i].key <= issues'[i].key /\ issues'[i] \in IssueType
      /\ (s # "claude" => issues'[i].key = issues[i].key)
  BY <1>2 DEF KeysAdvance, Of
<1>4. issues[i].key \in Nat /\ issues'[i].key \in Nat /\ watch.read[s] \in Nat
  BY <1>2, <1>3, IssueKeys, ReadsOf DEF IssueType
<1>5. Key(s, watch.read[s])' = Key(s, watch.read[s])
  BY DEF Key, Min
<1>6. IF s = "claude" THEN issues'[i].key >= watch.read[s] ELSE issues'[i].key = Key(s, watch.read[s])
  BY <1>1, <1>3, <1>4
<1> QED
  BY <1>3, <1>5, <1>6 DEF IssueFor

LEMMA SupportStays ==
  ASSUME baseline' = baseline, watch'.read = watch.read, NEW s, Supports(s, watch.read[s])
  PROVE  Supports(s, watch.read[s])'
  BY DEF Supports, InShippedSet, IsCaptured, BelowCap

\* The stream whose turn it is has its issue, for what was read of it.
StreamFiled ==
  \E i \in DOMAIN issues' : /\ issues'[i].stream = Stream
                            /\ IF Stream = "claude" THEN issues'[i].key >= Target
                               ELSE issues'[i].key = Target

LEMMA TheRestIsTold ==
  ASSUME TrackInv, watch.at # "idle", KeysAdvance, Streams' = Streams, baseline' = baseline,
         watch'.read = watch.read,
         ~watch'.failed => ~watch.failed,
         \/ watch'.todo = watch.todo \/ watch'.failed
         \/ watch'.todo = watch.todo \ {Stream} /\ StreamFiled
  PROVE  Told'
<1> SUFFICES ASSUME ~watch'.failed, NEW s \in Streams
             PROVE  /\ watch.read[s] # Unknown
                    /\ s \in watch'.todo \/ Supports(s, watch.read[s])' \/ IssueFor(s)'
  BY DEF Told
<1>1. WatchTyped /\ watch.read[s] # Unknown
      /\ (s \in watch.todo \/ Supports(s, watch.read[s]) \/ IssueFor(s))
  BY DEF TrackInv, Told, WatchInv
<1>2. CASE Supports(s, watch.read[s])
  BY <1>1, <1>2, SupportStays
<1>3. CASE IssueFor(s)
  BY <1>1, <1>3, StillFiled
<1>4. CASE s \in watch.todo /\ s \notin watch'.todo
  <2>1. s = Stream /\ StreamFiled
    BY <1>4
  <2>2. PICK i \in DOMAIN issues' : /\ issues'[i].stream = s
                                    /\ IF s = "claude" THEN issues'[i].key >= Target
                                       ELSE issues'[i].key = Target
    BY <2>1 DEF StreamFiled
  <2>3. Target = Key(s, watch.read[s]) /\ (s = "claude" => Target = watch.read[s])
    BY <2>1 DEF Target, Key
  <2>4. Key(s, watch.read[s])' = Key(s, watch.read[s])
    BY DEF Key, Min
  <2>5. IssueFor(s)'
    BY <2>2, <2>3, <2>4 DEF IssueFor, Of
  <2> QED
    BY <1>1, <2>5
<1> QED
  BY <1>1, <1>2, <1>3, <1>4

\* The only title a run writes is that of what it read.
OwnTitles ==
  \A i \in DOMAIN issues' :
    \/ i \in DOMAIN issues /\ issues'[i].stream = issues[i].stream /\ issues'[i].key = issues[i].key
    \/ issues'[i].stream # "claude"
    \/ Stream = "claude" /\ watch.todo # {} /\ issues'[i].key = Target

LEMMA RunStepTracks ==
  ASSUME TrackInv, WatchInv', Told', KeysAdvance, OwnTitles, watch.at # "idle",
         UNCHANGED <<upstream, baseline, index, Streams>>,
         watch'.read = watch.read, watch'.todo \subseteq watch.todo,
         watch'.at = "list" => Behind(watch.found)'
  PROVE  TrackInv'
<1>1. WatchInv /\ WatchTyped /\ Faithful(index) /\ Behind(index) /\ OnlyForward
  BY DEF TrackInv, WatchInv
<1>2. Behind(index)'
  <2>1. DOMAIN index' = DOMAIN index /\ \A i \in DOMAIN index : index'[i].key = index[i].key
    OBVIOUS
  <2> QED
    BY <1>1, <2>1, StillBehind DEF Behind
<1>3. \A s \in watch'.todo : watch'.read[s] # Unknown
  BY <1>1 DEF OnlyForward
<1>4. ASSUME "claude" \in Streams
      PROVE  /\ watch.read["claude"] <= upstream["claude"]
             /\ \A i \in Of("claude")' : issues'[i].key <= upstream["claude"]
             /\ watch.read["claude"] # Unknown => \A i \in Of("claude")' : issues'[i].key <= watch.read["claude"]
  <2>1. watch.read["claude"] <= upstream["claude"] /\ watch.read["claude"] \in Nat
        /\ (\A i \in Of("claude") : issues[i].key <= upstream["claude"])
        /\ (watch.read["claude"] # Unknown => \A i \in Of("claude") : issues[i].key <= watch.read["claude"])
    BY <1>1, <1>4, ReadsOf DEF OnlyForward
  <2>2. ASSUME NEW i \in Of("claude")'
        PROVE  /\ issues'[i].key <= upstream["claude"]
               /\ watch.read["claude"] # Unknown => issues'[i].key <= watch.read["claude"]
    <3>1. i \in DOMAIN issues' /\ issues'[i].stream = "claude"
      BY <2>2 DEF Of
    <3>2. CASE i \in DOMAIN issues /\ issues'[i].stream = issues[i].stream /\ issues'[i].key = issues[i].key
      BY <2>1, <3>1, <3>2 DEF Of
    <3>3. CASE Stream = "claude" /\ issues'[i].key = Target
      <4>1. Target = watch.read["claude"]
        BY <3>3 DEF Target, Key
      <4> QED
        BY <2>1, <3>3, <4>1
    <3> QED
      BY <3>1, <3>2, <3>3 DEF OwnTitles
  <2> QED
    BY <2>1, <2>2
<1>5. OnlyForward'
  BY <1>3, <1>4 DEF OnlyForward
<1>6. watch'.at = "list" => Behind(watch.found)'
  OBVIOUS
<1> QED
  BY <1>2, <1>5, <1>6 DEF TrackInv

LEMMA SameTitles ==
  ASSUME WatchTyped, issues' = issues
  PROVE  KeysAdvance /\ OwnTitles
  BY KeysStay DEF OwnTitles

LEMMA FiledStep ==
  ASSUME WatchTyped, watch' = Filed(watch) \/ watch' = FailedFiling(watch)
  PROVE  /\ watch'.read = watch.read /\ watch'.todo = watch.todo \ {Stream} /\ watch'.at = "next"
         /\ watch' = Filed(watch) => watch'.failed = watch.failed
         /\ watch' = FailedFiling(watch) => watch'.failed
  BY FiledLeaves

LEMMA NextTracks ==
  ASSUME TrackInv, NextStream
  PROVE  TrackInv'
<1>1. WatchInv /\ WatchInv' /\ WatchTyped /\ watch \in RunType(watch)
  BY NextKeeps DEF TrackInv, WatchInv, WatchTyped
<1>2. UNCHANGED <<upstream, baseline, index, issues, Streams>> /\ watch.at = "next"
  BY DEF NextStream, Streams
<1>3. watch' = IF watch.todo = {} THEN [watch EXCEPT !.at = "done"]
               ELSE [watch EXCEPT !.at = "search", !.asks = Stream # "claude"]
  BY DEF NextStream
<1>4. watch'.read = watch.read /\ watch'.todo = watch.todo /\ watch'.failed = watch.failed
      /\ watch'.at \in {"done", "search"}
  BY <1>1, <1>3 DEF RunType
<1>5. KeysAdvance /\ OwnTitles
  BY <1>1, <1>2, SameTitles
<1>6. Told'
  BY <1>2, <1>4, <1>5, TheRestIsTold
<1> QED
  BY <1>1, <1>2, <1>4, <1>5, <1>6, RunStepTracks

LEMMA SearchTracks ==
  ASSUME TrackInv, SearchTitles
  PROVE  TrackInv'
<1>1. WatchInv /\ WatchInv' /\ WatchTyped /\ watch \in RunType(watch)
      /\ (\A i \in DOMAIN watch'.found : i \in DOMAIN index /\ watch'.found[i] = index[i])
  BY SearchKeeps DEF TrackInv, WatchInv, WatchTyped
<1>2. UNCHANGED <<upstream, baseline, index, issues, Streams>> /\ watch.at = "search"
  BY DEF SearchTitles, Streams
<1>3. watch'.read = watch.read /\ watch'.todo = watch.todo /\ watch'.failed = watch.failed
  BY <1>1 DEF SearchTitles, RunType
<1>4. KeysAdvance /\ OwnTitles
  BY <1>1, <1>2, SameTitles
<1>5. Behind(watch.found)'
  BY <1>1, <1>2 DEF TrackInv, Behind
<1>6. Told'
  BY <1>2, <1>3, <1>4, TheRestIsTold
<1> QED
  BY <1>1, <1>2, <1>3, <1>4, <1>5, <1>6, RunStepTracks

LEMMA LookupGoesOn ==
  ASSUME WatchTyped, AsksAgain \/ Rolls \/ Creates
  PROVE  watch'.read = watch.read /\ watch'.todo = watch.todo /\ watch'.failed = watch.failed
         /\ watch'.at # "list"
<1>1. watch \in RunType(watch)
  BY DEF WatchTyped
<1>2. AsksAgain => watch'.read = watch.read /\ watch'.todo = watch.todo /\ watch'.failed = watch.failed
                   /\ watch'.at # "list"
  BY <1>1 DEF AsksAgain, RunType
<1>3. CASE Rolls
  <2>1. \E one, key : watch' = [watch EXCEPT !.at = "view", !.found = <<>>, !.issue = one, !.from = key]
    BY <1>3, Zenon DEF Rolls
  <2> QED
    BY <1>1, <2>1 DEF RunType
<1>4. Creates => watch'.read = watch.read /\ watch'.todo = watch.todo /\ watch'.failed = watch.failed
                 /\ watch'.at # "list"
  BY <1>1 DEF Creates, RunType
<1> QED
  BY <1>2, <1>3, <1>4

LEMMA ListTracks ==
  ASSUME TrackInv, ListRecent
  PROVE  TrackInv'
<1>1. WatchInv /\ WatchInv' /\ WatchTyped /\ watch \in RunType(watch)
  BY ListKeeps DEF TrackInv, WatchInv, WatchTyped
<1>2. UNCHANGED <<upstream, baseline, index, issues, Streams>> /\ watch.at = "list"
  BY DEF ListRecent, Streams
<1>3. KeysAdvance /\ OwnTitles
  BY <1>1, <1>2, SameTitles
<1>4. CASE AlreadyThere
  <2>1. PICK i \in DOMAIN Candidates :
          IF watch.asks THEN Candidates[i].key = Target
          ELSE Candidates[i].key \in Nat /\ Candidates[i].key >= Target
    BY <1>4 DEF AlreadyThere
  <2>2. i \in Of(Stream) /\ Faithful(Candidates)
        /\ \/ Candidates[i].key = issues[i].key
           \/ i \in DOMAIN watch.found /\ Candidates[i] = watch.found[i]
    BY <1>1, <1>2, RowsAreFaithful
  <2>3. i \in DOMAIN issues /\ issues[i].stream = Stream /\ issues[i].key \in Nat
        /\ Candidates[i] \in RowType /\ Candidates[i].stream = Stream
        /\ (Stream # "claude" => issues[i].key = Candidates[i].key)
    BY <1>1, <2>2, IssueKeys DEF Of, Faithful
  <2>4. Candidates[i].key \in Nat /\ Target \in Nat
    BY <1>1, <1>2, <2>3, DueIsWatched DEF RowType, WatchInv, Running, Places
  <2>5. Candidates[i].key <= issues[i].key
    BY <1>2, <2>2, <2>3, <2>4 DEF TrackInv, Behind
  <2>6. ~watch.asks => Stream = "claude"
    BY <1>1, <1>2 DEF WatchInv, Running
  <2>7. IF Stream = "claude" THEN issues[i].key >= Target ELSE issues[i].key = Target
    BY <2>1, <2>3, <2>4, <2>5, <2>6
  <2>8. StreamFiled
    BY <1>2, <2>3, <2>7 DEF StreamFiled
  <2>9. watch' = Filed(watch)
    BY <1>4 DEF AlreadyThere
  <2>10. watch'.read = watch.read /\ watch'.todo = watch.todo \ {Stream} /\ watch'.at = "next"
         /\ watch'.failed = watch.failed
    BY <1>1, <2>9, FiledStep
  <2>11. Told'
    BY <1>2, <1>3, <2>8, <2>10, TheRestIsTold
  <2> QED
    BY <1>1, <1>2, <1>3, <2>10, <2>11, RunStepTracks
<1>5. CASE TooMany
  <2>1. watch' = FailedFiling(watch)
    BY <1>5 DEF TooMany
  <2>2. watch'.read = watch.read /\ watch'.todo = watch.todo \ {Stream} /\ watch'.at = "next"
        /\ watch'.failed
    BY <1>1, <2>1, FiledStep
  <2>3. Told'
    BY <2>2 DEF Told
  <2> QED
    BY <1>1, <1>2, <1>3, <2>2, <2>3, RunStepTracks
<1>6. CASE AsksAgain \/ Rolls \/ Creates
  <2>1. watch'.read = watch.read /\ watch'.todo = watch.todo /\ watch'.failed = watch.failed
        /\ watch'.at # "list"
    BY <1>1, <1>6, LookupGoesOn
  <2>2. Told'
    BY <1>2, <1>3, <2>1, TheRestIsTold
  <2> QED
    BY <1>1, <1>2, <1>3, <2>1, <2>2, RunStepTracks
<1> QED
  BY <1>1, <1>4, <1>5, <1>6, ListOutcomes

LEMMA ViewTracks ==
  ASSUME TrackInv, ViewComments
  PROVE  TrackInv'
<1>1. WatchInv /\ WatchInv' /\ WatchTyped /\ watch \in RunType(watch)
  BY ViewKeeps DEF TrackInv, WatchInv, WatchTyped
<1>2. UNCHANGED <<upstream, baseline, index, issues, Streams>> /\ watch.at = "view"
  BY DEF ViewComments, Streams
<1>3. watch'.read = watch.read /\ watch'.todo = watch.todo /\ watch'.failed = watch.failed
      /\ watch'.at # "list"
  BY <1>1 DEF ViewComments, RunType
<1>4. KeysAdvance /\ OwnTitles
  BY <1>1, <1>2, SameTitles
<1>5. Told'
  BY <1>2, <1>3, <1>4, TheRestIsTold
<1> QED
  BY <1>1, <1>2, <1>3, <1>4, <1>5, RunStepTracks

LEMMA BreaksTrack ==
  ASSUME TrackInv, CallFails \/ Killed
  PROVE  TrackInv'
<1>1. WatchInv /\ WatchInv' /\ WatchTyped
  BY BreaksKeep DEF TrackInv, WatchInv
<1>2. UNCHANGED <<upstream, baseline, index, issues, Streams>> /\ watch.at # "idle"
  BY DEF CallFails, Killed, Streams
<1>3. KeysAdvance /\ OwnTitles
  BY <1>1, <1>2, SameTitles
<1>4. CASE CallFails
  <2>1. watch' = FailedFiling(watch)
    BY <1>4 DEF CallFails
  <2>2. watch'.read = watch.read /\ watch'.todo = watch.todo \ {Stream} /\ watch'.at = "next"
        /\ watch'.failed
    BY <1>1, <2>1, FiledStep
  <2>3. Told'
    BY <2>2 DEF Told
  <2> QED
    BY <1>1, <1>2, <1>3, <2>2, <2>3, RunStepTracks
<1>5. CASE Killed
  <2>1. watch'.at = "idle" /\ watch'.todo = {}
    BY <1>5 DEF Killed, NoWatch
  <2>2. Told' /\ OnlyForward' /\ Behind(index)'
    BY <1>2, <2>1 DEF Told, OnlyForward, TrackInv, Behind, Of
  <2> QED
    BY <1>1, <2>1, <2>2 DEF TrackInv
<1> QED
  BY <1>4, <1>5

LEMMA StartTracks ==
  ASSUME TrackInv, NEW unread \in SUBSET Streams, StartWatch(unread)
  PROVE  TrackInv'
<1>1. WatchInv /\ WatchInv' /\ WatchTyped
      /\ watch'.at = "next" /\ watch'.read = Reads(unread)
      /\ watch'.todo = {s \in Streams \ unread : ~Supports(s, Reads(unread)[s])}
      /\ watch'.failed = (unread # {})
  BY StartKeeps DEF TrackInv, WatchInv
<1>2. UNCHANGED <<upstream, baseline, index, issues, Streams>>
  BY DEF StartWatch, Streams
<1>3. upstream \in [Streams -> Nat \ {0}]
  BY <1>1 DEF WatchTyped
<1>4. \A s \in Streams : Reads(unread)[s] = IF s \in unread THEN Unknown ELSE upstream[s]
  BY DEF Reads
<1>5. Behind(index)'
  BY <1>2 DEF TrackInv, Behind
<1>6. OnlyForward'
  <2>1. \A s \in watch'.todo : Reads(unread)[s] # Unknown
    BY <1>1, <1>3, <1>4 DEF Unknown
  <2>2. "claude" \in Streams =>
          /\ \A i \in Of("claude") : issues[i].key <= upstream["claude"]
          /\ Reads(unread)["claude"] = Unknown \/ Reads(unread)["claude"] = upstream["claude"]
          /\ Reads(unread)["claude"] <= upstream["claude"]
    BY <1>3, <1>4 DEF TrackInv, OnlyForward, Unknown
  <2>3. Of("claude")' = Of("claude")
    BY <1>2 DEF Of
  <2> QED
    BY <1>1, <1>2, <2>1, <2>2, <2>3 DEF OnlyForward
<1>7. Told'
  <2> SUFFICES ASSUME unread = {}, NEW s \in Streams
               PROVE  /\ Reads(unread)[s] # Unknown
                      /\ s \in watch'.todo \/ Supports(s, watch.read[s])'
    BY <1>1, <1>2 DEF Told
  <2>1. Supports(s, watch.read[s])' <=> Supports(s, Reads(unread)[s])
    BY <1>1, <1>2 DEF Supports, InShippedSet, IsCaptured, BelowCap
  <2> QED
    BY <1>1, <1>3, <1>4, <2>1 DEF Unknown
<1> QED
  BY <1>1, <1>5, <1>6, <1>7 DEF TrackInv

LEMMA WritesAdvance ==
  ASSUME TrackInv, NEW answered \in BOOLEAN, Writes(answered)
  PROVE  KeysAdvance /\ OwnTitles /\ (watch.at \in {"create", "edit"} => StreamFiled)
<1>1. WatchInv /\ WatchTyped /\ Running /\ issues \in Seq(IssueType)
  BY DEF TrackInv, WatchInv, WatchTyped
<1>2. \/ watch.at = "create" /\ Create
      \/ watch.at = "comment" /\ Comment
      \/ watch.at = "edit" /\ Retitle
  BY DEF Writes
<1>3. \A i \in DOMAIN issues : issues[i].key \in Nat /\ issues[i].key <= issues[i].key
  BY <1>1, IssueKeys
<1>4. watch.todo # {} /\ Target \in Nat /\ Target >= Target
  <2>1. watch.todo # {} /\ watch.at # "idle"
    BY <1>1, <1>2 DEF Running, Places
  <2>2. Target \in Nat
    BY <1>1, <2>1, DueIsWatched
  <2> QED
    BY <2>1, <2>2
<1>5. CASE watch.at = "create" /\ Create
  <2>1. /\ issues' \in Seq(IssueType)
        /\ \A i \in DOMAIN issues : i \in DOMAIN issues' /\ issues'[i] = issues[i]
        /\ \A i \in DOMAIN issues' : i = Len(issues') \/ i \in DOMAIN issues
        /\ Len(issues') \in DOMAIN issues'
        /\ issues'[Len(issues')].stream = Stream /\ issues'[Len(issues')].key = Target
    BY <1>1, <1>5, CreateKeeps
  <2> QED
    BY <1>3, <1>4, <2>1 DEF KeysAdvance, OwnTitles, StreamFiled
<1>6. CASE watch.at = "comment" /\ Comment
  <2>1. PICK e : Revised(e) /\ e.key = issues[watch.issue].key
    BY <1>1, <1>6, CommentRevises
  <2>2. /\ issues' \in Seq(IssueType) /\ DOMAIN issues' = DOMAIN issues
        /\ issues'[watch.issue] = e
        /\ \A i \in DOMAIN issues \ {watch.issue} : issues'[i] = issues[i]
    BY <1>1, <1>6, <2>1, RevisedIssues DEF Rolling
  <2>3. \A i \in DOMAIN issues : issues'[i].stream = issues[i].stream
    BY <1>1, <1>6, <2>1, RevisedIssues DEF Rolling
  <2>4. \A i \in DOMAIN issues : issues'[i].key = issues[i].key
    BY <2>1, <2>2
  <2> QED
    BY <1>3, <1>6, <2>2, <2>3, <2>4 DEF KeysAdvance, OwnTitles
<1>7. CASE watch.at = "edit" /\ Retitle
  <2>1. PICK e : Revised(e) /\ e.key = Target
    BY <1>1, <1>7, RetitleRevises
  <2>2. /\ issues' \in Seq(IssueType) /\ DOMAIN issues' = DOMAIN issues
        /\ watch.issue \in DOMAIN issues /\ issues'[watch.issue] = e
        /\ issues[watch.issue].stream = "claude"
        /\ \A i \in DOMAIN issues \ {watch.issue} : issues'[i] = issues[i]
    BY <1>1, <1>7, <2>1, RevisedIssues DEF Rolling
  <2>3. \A i \in DOMAIN issues : issues'[i].stream = issues[i].stream
    BY <1>1, <1>7, <2>1, RevisedIssues DEF Rolling
  <2>4. Stream = "claude" /\ Stream \in watch.todo /\ "claude" \in Streams
    BY <1>1, <1>4, <1>7, StreamIsDue, DueIsWatched DEF Running, Rolling
  <2>5. Target = watch.read["claude"] /\ watch.read["claude"] # Unknown
    BY <2>4 DEF Target, Key, TrackInv, OnlyForward
  <2>6. issues[watch.issue].key <= Target
    BY <1>7, <2>2, <2>4, <2>5 DEF TrackInv, OnlyForward, Of
  <2>7. ASSUME NEW i \in DOMAIN issues
        PROVE  /\ issues[i].key <= issues'[i].key
               /\ issues[i].stream # "claude" => issues'[i].key = issues[i].key
               /\ issues'[i].key = issues[i].key \/ issues'[i].key = Target
    BY <1>3, <2>1, <2>2, <2>6
  <2>8. KeysAdvance
    BY <2>2, <2>3, <2>7 DEF KeysAdvance
  <2>9. OwnTitles
    BY <1>4, <2>2, <2>3, <2>4, <2>7 DEF OwnTitles
  <2>10. StreamFiled
    BY <1>4, <2>1, <2>2, <2>3, <2>4 DEF StreamFiled
  <2> QED
    BY <2>8, <2>9, <2>10
<1> QED
  BY <1>2, <1>5, <1>6, <1>7

LEMMA WritesTrack ==
  ASSUME TrackInv, NEW answered \in BOOLEAN, Writes(answered)
  PROVE  TrackInv'
<1>1. WatchInv /\ WatchInv' /\ WatchTyped
  BY WritesKeep DEF TrackInv, WatchInv
<1>2. KeysAdvance /\ OwnTitles /\ (watch.at \in {"create", "edit"} => StreamFiled)
  BY WritesAdvance
<1>3. /\ UNCHANGED <<index, upstream, baseline, Streams>>
      /\ watch'.read = watch.read /\ watch.at # "idle"
      /\ \/ watch' = Filed(watch) /\ watch'.at = "next" /\ watch.at \in {"create", "edit"}
         \/ watch' = FailedFiling(watch) /\ watch'.at = "next"
         \/ watch' = [watch EXCEPT !.at = "edit"] /\ watch'.at = "edit" /\ watch'.todo = watch.todo
  BY <1>1, WritesGoOn
<1>4. CASE watch' = Filed(watch) /\ watch.at \in {"create", "edit"}
  <2>1. watch'.todo = watch.todo \ {Stream} /\ watch'.at = "next" /\ watch'.failed = watch.failed
    BY <1>1, <1>4, FiledStep
  <2>2. Told'
    BY <1>2, <1>3, <1>4, <2>1, TheRestIsTold
  <2> QED
    BY <1>1, <1>2, <1>3, <2>1, <2>2, RunStepTracks
<1>5. CASE watch' = FailedFiling(watch)
  <2>1. watch'.todo = watch.todo \ {Stream} /\ watch'.at = "next" /\ watch'.failed
    BY <1>1, <1>5, FiledStep
  <2>2. Told'
    BY <2>1 DEF Told
  <2> QED
    BY <1>1, <1>2, <1>3, <2>1, <2>2, RunStepTracks
<1>6. CASE watch' = [watch EXCEPT !.at = "edit"] /\ watch'.at = "edit" /\ watch'.todo = watch.todo
  <2>1. watch'.failed = watch.failed
    BY <1>1, <1>6 DEF WatchTyped, RunType
  <2>2. Told'
    BY <1>2, <1>3, <1>6, <2>1, TheRestIsTold
  <2> QED
    BY <1>1, <1>2, <1>3, <1>6, <2>2, RunStepTracks
<1> QED
  BY <1>3, <1>4, <1>5, <1>6

\* A support PR takes no support away: a wider cap, one more minor or capture.
LEMMA SupportGrows ==
  ASSUME WatchTyped, NEW s \in Streams, Supported(s), NEW t \in Streams, NEW v \in Nat, Supports(t, v)
  PROVE  Supports(t, v)'
<1>1. upstream[s] \in Nat /\ Min(upstream[s]) \in Int /\ Min(v) \in Int /\ s \in Watched /\ t \in Watched
      /\ baseline \in [Streams -> SUBSET Int]
  BY DEF WatchTyped, Min
<1>2. ~Supports(s, upstream[s])
      /\ baseline' = [baseline EXCEPT ![s] =
                        IF s = "mcp" THEN {Min(upstream[s]) + 1} ELSE @ \cup {Key(s, upstream[s])}]
  BY DEF Supported
<1>3. CASE s = "mcp" /\ t = "mcp"
  <2>1. baseline'["mcp"] = {Min(upstream[s]) + 1}
    BY <1>1, <1>2, <1>3
  <2>2. PICK cap \in baseline["mcp"] : ~(Min(upstream[s]) < cap)
    BY <1>2, <1>3 DEF Supports, BelowCap
  <2>3. Min(v) < cap /\ cap \in Int
    BY <1>1, <1>3, <2>2 DEF Supports, BelowCap
  <2>4. Min(v) < Min(upstream[s]) + 1
    BY <1>1, <2>2, <2>3
  <2> QED
    BY <1>3, <2>1, <2>4 DEF Supports, BelowCap, Min
<1>4. CASE ~(s = "mcp" /\ t = "mcp")
  <2>1. baseline[t] \subseteq baseline'[t] /\ (t = "mcp" => baseline'[t] = baseline[t])
    BY <1>1, <1>2, <1>4
  <2>2. CASE t = "kimi"
    BY <2>1, <2>2 DEF Supports, InShippedSet, Min
  <2>3. CASE t = "claude"
    BY <2>1, <2>3 DEF Supports, IsCaptured
  <2>4. CASE t = "mcp"
    BY <2>1, <2>4 DEF Supports, BelowCap, Min
  <2> QED
    BY <1>1, <2>2, <2>3, <2>4 DEF Watched
<1> QED
  BY <1>3, <1>4

LEMMA OthersSupport ==
  ASSUME WatchTyped, watch.at # "idle", watch' = watch, NEW r \in Streams, Supports(r, watch.read[r]),
         \/ \E s \in Streams : (\E v \in Releases : UpstreamMoves(s, v)) \/ Supported(s)
         \/ \E i \in DOMAIN issues : Closed(i) \/ Indexed(i)
         \/ OtherIssue
  PROVE  Supports(r, watch.read[r])'
<1>1. CASE baseline' = baseline
  BY <1>1, SupportStays
<1>2. CASE \E s \in Streams : Supported(s)
  <2>1. PICK n \in Nat : n = watch.read[r]
    BY ReadsOf
  <2>2. PICK s \in Streams : Supported(s)
    BY <1>2
  <2>3. Supports(r, n)'
    BY <2>1, <2>2, SupportGrows
  <2> QED
    BY <2>1, <2>3 DEF Supports, InShippedSet, IsCaptured, BelowCap
<1> QED
  BY <1>1, <1>2 DEF UpstreamMoves, Closed, OtherIssue, Indexed

LEMMA OthersTrack ==
  ASSUME TrackInv, Advances,
         \/ \E s \in Streams : (\E v \in Releases : UpstreamMoves(s, v)) \/ Supported(s)
         \/ \E i \in DOMAIN issues : Closed(i) \/ Indexed(i)
         \/ OtherIssue
  PROVE  TrackInv'
<1>1. WatchInv /\ WatchInv' /\ WatchTyped /\ WatchTyped' /\ Faithful(index) /\ issues \in Seq(IssueType)
  <2>1. WatchInv
    BY DEF TrackInv
  <2>2. WatchInv'
    BY <2>1, OthersKeep
  <2> QED
    BY <2>1, <2>2 DEF WatchInv, WatchTyped
<1>2. issues' \in Seq(IssueType) /\ (Apart(0) \/ (Apart(1) /\ watch.at # "list"))
  BY <1>1, OthersApart
<1>3. PICK extra \in {0, 1} : Apart(extra)
  BY <1>2
<1>4. watch' = watch /\ Streams' = Streams /\ Stream' = Stream
  BY <1>3, ApartStream DEF Apart
<1>5. KeysAdvance
  BY <1>1, <1>2, <1>3, IssueKeys DEF Apart, KeysAdvance
<1>6. Of("claude")' = Of("claude")
  BY <1>1, <1>3, ApartOf
<1>7. \A i \in Of("claude") : issues'[i].key = issues[i].key /\ issues[i].key \in Nat
  BY <1>1, <1>3, IssueKeys DEF Apart, Of
<1>8. Behind(index)'
  <2>1. CASE index' = index
    BY <1>1, <1>5, <2>1, StillBehind DEF TrackInv, Behind
  <2>2. CASE \E i \in DOMAIN issues : Indexed(i)
    <3>1. PICK i \in DOMAIN issues : Indexed(i)
      BY <2>2
    <3>2. DOMAIN index' = DOMAIN index \cup {i} /\ index'[i].key = issues[i].key /\ issues' = issues
          /\ \A k \in DOMAIN index \ {i} : index'[k] = index[k]
      BY <3>1 DEF Indexed, Row
    <3>3. issues[i].key <= issues[i].key
      BY <1>1, IssueKeys
    <3> QED
      BY <3>2, <3>3 DEF TrackInv, Behind
  <2> QED
    BY <2>1, <2>2 DEF UpstreamMoves, Supported, Closed, OtherIssue
<1>9. watch'.at = "list" => Behind(watch.found)'
  <2> SUFFICES ASSUME watch.at = "list" PROVE Behind(watch.found)'
    BY <1>4
  <2>1. Behind(watch.found) /\ Faithful(watch.found)
    BY <1>1 DEF TrackInv, WatchInv, Looked
  <2> QED
    BY <1>1, <1>4, <1>5, <2>1, StillBehind DEF Behind
<1>10. OnlyForward'
  <2>1. \A s \in watch'.todo : watch'.read[s] # Unknown
    BY <1>4 DEF TrackInv, OnlyForward
  <2>2. ASSUME "claude" \in Streams
        PROVE  /\ \A i \in Of("claude") : issues'[i].key <= upstream'["claude"]
               /\ watch.at # "idle" =>
                    /\ watch.read["claude"] <= upstream'["claude"]
                    /\ watch.read["claude"] # Unknown =>
                         \A i \in Of("claude") : issues'[i].key <= watch.read["claude"]
    <3>1. upstream["claude"] \in Nat /\ upstream'["claude"] \in Nat
          /\ upstream["claude"] <= upstream'["claude"]
          /\ (watch.at # "idle" => watch.read["claude"] \in Nat)
      BY <1>1, <1>4, <2>2, ReadsOf DEF Advances, WatchTyped
    <3>2. /\ \A i \in Of("claude") : issues[i].key <= upstream["claude"]
          /\ watch.at # "idle" =>
               /\ watch.read["claude"] <= upstream["claude"]
               /\ watch.read["claude"] # Unknown =>
                    \A i \in Of("claude") : issues[i].key <= watch.read["claude"]
      BY <2>2 DEF TrackInv, OnlyForward
    <3>3. \A i \in Of("claude") : issues'[i].key <= upstream'["claude"]
      BY <1>7, <3>1, <3>2
    <3>4. watch.at # "idle" => watch.read["claude"] <= upstream'["claude"]
      BY <3>1, <3>2
    <3> QED
      BY <1>7, <3>2, <3>3, <3>4
  <2> QED
    BY <1>4, <1>6, <2>1, <2>2 DEF OnlyForward
<1>11. Told'
  <2> SUFFICES ASSUME watch.at # "idle", ~watch.failed, NEW s \in Streams
               PROVE  /\ watch.read[s] # Unknown
                      /\ s \in watch.todo \/ Supports(s, watch.read[s])' \/ IssueFor(s)'
    BY <1>4 DEF Told
  <2>1. watch.read[s] # Unknown
        /\ (s \in watch.todo \/ Supports(s, watch.read[s]) \/ IssueFor(s))
    BY DEF TrackInv, Told
  <2>2. CASE IssueFor(s)
    BY <1>1, <1>4, <1>5, <2>1, <2>2, StillFiled
  <2>3. CASE Supports(s, watch.read[s])
    BY <1>1, <1>4, <2>1, <2>3, OthersSupport
  <2> QED
    BY <2>1, <2>2, <2>3
<1> QED
  BY <1>1, <1>8, <1>9, <1>10, <1>11 DEF TrackInv

LEMMA TrackInvInit ==
  ASSUME WatchInit
  PROVE  TrackInv
<1>1. WatchInv
  BY WatchInvInit
<1>2. issues = <<>> /\ index = <<>> /\ watch.at = "idle" /\ watch.todo = {}
  BY DEF WatchInit, NoWatch
<1>3. DOMAIN issues = {} /\ DOMAIN index = {}
  BY <1>2
<1> QED
  BY <1>1, <1>2, <1>3 DEF TrackInv, Behind, OnlyForward, Told, Of

LEMMA TrackInvStep ==
  ASSUME TrackInv, [WatchNext]_watchVars, [Advances]_watchVars
  PROVE  TrackInv'
<1>1. CASE UNCHANGED watchVars
  <2>1. WatchInv'
    BY <1>1, WatchInvStep DEF TrackInv
  <2>2. Behind(index)' /\ (watch.at = "list" => Behind(watch.found))' /\ OnlyForward'
    BY <1>1 DEF watchVars, TrackInv, Behind, OnlyForward, Streams, Of
  <2>3. Told'
    BY <1>1 DEF watchVars, TrackInv, Told, Streams, Supports, InShippedSet, IsCaptured, BelowCap,
       IssueFor, Of
  <2> QED
    BY <2>1, <2>2, <2>3 DEF TrackInv
<1>2. CASE WatchNext /\ Advances
  BY <1>2, OthersTrack, StartTracks, NextTracks, SearchTracks, ListTracks, ViewTracks, WritesTrack,
     BreaksTrack DEF WatchNext
<1> QED
  BY <1>1, <1>2

-----------------------------------------------------------------------------
\* Withdrawn releases.  A title may then go back, but what an issue was filed for
\* and the notices on it stay.
Says(e, v) == e.born >= v \/ \E n \in DOMAIN e.notes : e.notes[n].to >= v

\* What was read of a title was said on the issue.
RowsTold(rows) == \A i \in DOMAIN rows : rows[i].stream = "claude" => Says(issues[i], rows[i].key)

MentionFor(s) == \E i \in Of(s) : IF s = "claude" THEN Says(issues[i], watch.read[s])
                                  ELSE issues[i].key = Key(s, watch.read[s])

\* As Told, but what the issue said once is enough.
Mentioned == watch.at # "idle" /\ ~watch.failed =>
  \A s \in Streams : /\ watch.read[s] # Unknown
                     /\ s \in watch.todo \/ Supports(s, watch.read[s]) \/ MentionFor(s)

MentionInv ==
  WatchInv /\ RowsTold(index) /\ (watch.at = "list" => RowsTold(watch.found)) /\ Mentioned

\* The titles are what was read, until a release is withdrawn.
SuccessInv == MentionInv /\ ("claude" \notin withdrawn => TrackInv)

\* Nothing that an issue said is taken back.
HistoryStays ==
  /\ issues' \in Seq(IssueType) /\ DOMAIN issues \subseteq DOMAIN issues'
  /\ \A i \in DOMAIN issues :
       /\ issues'[i].stream = issues[i].stream
       /\ issues[i].stream # "claude" => issues'[i].key = issues[i].key
       /\ \A v \in Nat : Says(issues[i], v) => Says(issues'[i], v)

LEMMA SaysLess ==
  ASSUME NEW e \in IssueType, NEW v \in Nat, NEW w \in Nat, w <= v, Says(e, v)
  PROVE  Says(e, w)
<1>1. e.born \in Nat /\ e.notes \in Seq([from : Nat, to : Nat])
  BY DEF IssueType
<1>2. \A n \in DOMAIN e.notes : e.notes[n].to \in Nat
  <2>1. PICK notes \in Seq([from : Nat, to : Nat]) : notes = e.notes
    BY <1>1
  <2>2. DOMAIN notes = 1 .. Len(notes)
    BY LenProperties
  <2>3. \A n \in 1 .. Len(notes) : notes[n] \in [from : Nat, to : Nat]
    BY ElementOfSeq
  <2> QED
    BY <2>1, <2>2, <2>3
<1>3. CASE e.born >= v
  BY <1>1, <1>3 DEF Says
<1>4. CASE \E n \in DOMAIN e.notes : e.notes[n].to >= v
  <2>1. PICK n \in DOMAIN e.notes : e.notes[n].to >= v
    BY <1>4
  <2>2. e.notes[n].to >= w
    BY <1>2, <2>1
  <2> QED
    BY <2>2 DEF Says
<1> QED
  BY <1>3, <1>4 DEF Says

LEMMA TitleIsSaid ==
  ASSUME WatchInv, NEW i \in DOMAIN issues, issues[i].stream = "claude"
  PROVE  Says(issues[i], issues[i].key)
<1>1. /\ issues[i].key \in Nat /\ i \in Of("claude")
      /\ issues[i].key \in {issues[i].born} \cup {issues[i].notes[n].to : n \in DOMAIN issues[i].notes}
  BY IssueKeys DEF WatchInv, IssuesAreFiledOnce, Of
<1>2. issues[i].key >= issues[i].key
  BY <1>1
<1> QED
  BY <1>1, <1>2 DEF Says

LEMMA HistorySame ==
  ASSUME WatchTyped, issues' = issues
  PROVE  HistoryStays
  BY DEF HistoryStays, WatchTyped

LEMMA RowsStayTold ==
  ASSUME WatchTyped, HistoryStays, NEW rows, Faithful(rows), RowsTold(rows)
  PROVE  \A i \in DOMAIN rows : rows[i].stream = "claude" => Says(issues'[i], rows[i].key)
<1> SUFFICES ASSUME NEW i \in DOMAIN rows, rows[i].stream = "claude"
             PROVE  Says(issues'[i], rows[i].key)
  OBVIOUS
<1>1. rows[i] \in RowType /\ i \in DOMAIN issues /\ Says(issues[i], rows[i].key)
  BY DEF Faithful, RowsTold
<1>2. rows[i].key \in Nat
  BY <1>1 DEF RowType
<1> QED
  BY <1>1, <1>2 DEF HistoryStays

LEMMA StillMentioned ==
  ASSUME WatchTyped, watch.at # "idle", HistoryStays, watch'.read = watch.read,
         NEW s \in Streams, MentionFor(s)
  PROVE  MentionFor(s)'
<1>1. PICK i \in Of(s) : IF s = "claude" THEN Says(issues[i], watch.read[s])
                         ELSE issues[i].key = Key(s, watch.read[s])
  BY DEF MentionFor
<1>2. i \in DOMAIN issues /\ issues[i].stream = s /\ watch.read[s] \in Nat
  BY ReadsOf DEF Of
<1>3. i \in Of(s)' /\ (s # "claude" => issues'[i].key = issues[i].key)
      /\ (Says(issues[i], watch.read[s]) => Says(issues'[i], watch.read[s]))
  BY <1>2 DEF HistoryStays, Of
<1>4. Key(s, watch.read[s])' = Key(s, watch.read[s])
  BY DEF Key, Min
<1>5. IF s = "claude" THEN Says(issues'[i], watch.read[s]) ELSE issues'[i].key = Key(s, watch.read[s])
  BY <1>1, <1>3
<1> QED
  BY <1>3, <1>4, <1>5 DEF MentionFor, Says

\* The stream whose turn it is has an issue that says what was read of it.
StreamMentioned ==
  \E i \in DOMAIN issues' : /\ issues'[i].stream = Stream
                            /\ IF Stream = "claude" THEN Says(issues'[i], Target)
                               ELSE issues'[i].key = Target

LEMMA TheRestIsMentioned ==
  ASSUME MentionInv, watch.at # "idle", HistoryStays, Streams' = Streams, baseline' = baseline,
         watch'.read = watch.read,
         ~watch'.failed => ~watch.failed,
         \/ watch'.todo = watch.todo \/ watch'.failed
         \/ watch'.todo = watch.todo \ {Stream} /\ StreamMentioned
  PROVE  Mentioned'
<1> SUFFICES ASSUME ~watch'.failed, NEW s \in Streams
             PROVE  /\ watch.read[s] # Unknown
                    /\ s \in watch'.todo \/ Supports(s, watch.read[s])' \/ MentionFor(s)'
  BY DEF Mentioned
<1>1. WatchTyped /\ watch.read[s] # Unknown
      /\ (s \in watch.todo \/ Supports(s, watch.read[s]) \/ MentionFor(s))
  BY DEF MentionInv, Mentioned, WatchInv
<1>2. CASE Supports(s, watch.read[s])
  BY <1>1, <1>2, SupportStays
<1>3. CASE MentionFor(s)
  BY <1>1, <1>3, StillMentioned
<1>4. CASE s \in watch.todo /\ s \notin watch'.todo
  <2>1. s = Stream /\ StreamMentioned
    BY <1>4
  <2>2. PICK i \in DOMAIN issues' : /\ issues'[i].stream = s
                                    /\ IF s = "claude" THEN Says(issues'[i], Target)
                                       ELSE issues'[i].key = Target
    BY <2>1 DEF StreamMentioned
  <2>3. Target = Key(s, watch.read[s]) /\ (s = "claude" => Target = watch.read[s])
    BY <2>1 DEF Target, Key
  <2>4. Key(s, watch.read[s])' = Key(s, watch.read[s])
    BY DEF Key, Min
  <2>5. MentionFor(s)'
    BY <2>2, <2>3, <2>4 DEF MentionFor, Of, Says
  <2> QED
    BY <1>1, <2>5
<1> QED
  BY <1>1, <1>2, <1>3, <1>4

LEMMA RunStepMentions ==
  ASSUME MentionInv, WatchInv', Mentioned', HistoryStays, index' = index,
         watch'.at = "list" => RowsTold(watch.found)'
  PROVE  MentionInv'
<1>1. WatchTyped /\ Faithful(index) /\ RowsTold(index)
  BY DEF MentionInv, WatchInv
<1>2. \A i \in DOMAIN index : index[i].stream = "claude" => Says(issues'[i], index[i].key)
  BY <1>1, RowsStayTold
<1>3. RowsTold(index)'
  BY <1>2 DEF RowsTold, Says
<1> QED
  BY <1>3 DEF MentionInv

LEMMA ReadersMention ==
  ASSUME MentionInv, NextStream \/ SearchTitles \/ ViewComments
  PROVE  MentionInv'
<1>1. WatchInv /\ WatchInv' /\ WatchTyped /\ watch \in RunType(watch)
      /\ (SearchTitles => \A i \in DOMAIN watch'.found : i \in DOMAIN index /\ watch'.found[i] = index[i])
  BY NextKeeps, SearchKeeps, ViewKeeps DEF MentionInv, WatchInv, WatchTyped
<1>2. UNCHANGED <<baseline, index, issues, Streams>> /\ watch.at # "idle"
  BY DEF NextStream, SearchTitles, ViewComments, Streams
<1>3. watch'.read = watch.read /\ watch'.todo = watch.todo /\ watch'.failed = watch.failed
      /\ (watch'.at = "list" => SearchTitles)
  <2>1. CASE NextStream
    BY <1>1, <2>1 DEF NextStream, RunType
  <2>2. CASE SearchTitles
    BY <1>1, <2>2 DEF SearchTitles, RunType
  <2>3. CASE ViewComments
    BY <1>1, <2>3 DEF ViewComments, RunType
  <2> QED
    BY <2>1, <2>2, <2>3
<1>4. HistoryStays
  BY <1>1, <1>2, HistorySame
<1>5. watch'.at = "list" => RowsTold(watch.found)'
  BY <1>1, <1>2, <1>3 DEF MentionInv, RowsTold, Says
<1>6. Mentioned'
  BY <1>2, <1>3, <1>4, TheRestIsMentioned
<1> QED
  BY <1>1, <1>2, <1>4, <1>5, <1>6, RunStepMentions

LEMMA ListMentions ==
  ASSUME MentionInv, ListRecent
  PROVE  MentionInv'
<1>1. WatchInv /\ WatchInv' /\ WatchTyped /\ watch \in RunType(watch)
  BY ListKeeps DEF MentionInv, WatchInv, WatchTyped
<1>2. UNCHANGED <<baseline, index, issues, Streams>> /\ watch.at = "list"
  BY DEF ListRecent, Streams
<1>3. HistoryStays
  BY <1>1, <1>2, HistorySame
<1>4. CASE AlreadyThere
  <2>1. PICK i \in DOMAIN Candidates :
          IF watch.asks THEN Candidates[i].key = Target
          ELSE Candidates[i].key \in Nat /\ Candidates[i].key >= Target
    BY <1>4 DEF AlreadyThere
  <2>2. i \in Of(Stream) /\ Faithful(Candidates)
        /\ \/ Candidates[i].key = issues[i].key
           \/ i \in DOMAIN watch.found /\ Candidates[i] = watch.found[i]
    BY <1>1, <1>2, RowsAreFaithful
  <2>3. i \in DOMAIN issues /\ issues[i].stream = Stream /\ issues[i] \in IssueType
        /\ Candidates[i] \in RowType /\ Candidates[i].stream = Stream
        /\ (Stream # "claude" => issues[i].key = Candidates[i].key)
    BY <1>1, <2>2 DEF Of, Faithful, WatchTyped
  <2>4. Candidates[i].key \in Nat /\ Target \in Nat /\ (~watch.asks => Stream = "claude")
    BY <1>1, <1>2, <2>3, DueIsWatched DEF RowType, WatchInv, Running, Places
  <2>5. Stream = "claude" => Says(issues[i], Candidates[i].key)
    BY <1>1, <1>2, <2>2, <2>3, TitleIsSaid DEF MentionInv, RowsTold
  <2>6. Stream = "claude" => Says(issues[i], Target)
    <3>1. PICK k \in Nat, t \in Nat : k = Candidates[i].key /\ t = Target
      BY <2>4
    <3>2. t <= k
      BY <2>1, <3>1
    <3> QED
      BY <2>3, <2>5, <3>1, <3>2, SaysLess
  <2>7. StreamMentioned
    BY <1>2, <2>1, <2>3, <2>4, <2>6 DEF StreamMentioned
  <2>8. watch'.read = watch.read /\ watch'.todo = watch.todo \ {Stream} /\ watch'.at = "next"
         /\ watch'.failed = watch.failed
    BY <1>1, <1>4, FiledStep DEF AlreadyThere
  <2>9. Mentioned'
    BY <1>2, <1>3, <2>7, <2>8, TheRestIsMentioned
  <2> QED
    BY <1>1, <1>2, <1>3, <2>8, <2>9, RunStepMentions
<1>5. CASE TooMany
  <2>1. watch'.at = "next" /\ watch'.failed
    BY <1>1, <1>5, FiledStep DEF TooMany
  <2>2. Mentioned'
    BY <2>1 DEF Mentioned
  <2> QED
    BY <1>1, <1>2, <1>3, <2>1, <2>2, RunStepMentions
<1>6. CASE AsksAgain \/ Rolls \/ Creates
  <2>1. watch'.read = watch.read /\ watch'.todo = watch.todo /\ watch'.failed = watch.failed
        /\ watch'.at # "list"
    BY <1>1, <1>6, LookupGoesOn
  <2>2. Mentioned'
    BY <1>2, <1>3, <2>1, TheRestIsMentioned
  <2> QED
    BY <1>1, <1>2, <1>3, <2>1, <2>2, RunStepMentions
<1> QED
  BY <1>1, <1>4, <1>5, <1>6, ListOutcomes

LEMMA BreaksMention ==
  ASSUME MentionInv, CallFails \/ Killed
  PROVE  MentionInv'
<1>1. WatchInv /\ WatchInv' /\ WatchTyped
  BY BreaksKeep DEF MentionInv, WatchInv
<1>2. HistoryStays /\ index' = index
  BY <1>1, HistorySame DEF CallFails, Killed
<1>3. watch'.at # "list" /\ (watch'.at = "idle" \/ watch'.failed)
  BY <1>1, FiledStep DEF CallFails, Killed, NoWatch
<1>4. Mentioned'
  BY <1>3 DEF Mentioned
<1> QED
  BY <1>1, <1>2, <1>3, <1>4, RunStepMentions

LEMMA StartMentions ==
  ASSUME MentionInv, NEW unread \in SUBSET Streams, StartWatch(unread)
  PROVE  MentionInv'
<1>1. WatchInv /\ WatchInv' /\ WatchTyped
      /\ watch'.at = "next" /\ watch'.read = Reads(unread)
      /\ watch'.todo = {s \in Streams \ unread : ~Supports(s, Reads(unread)[s])}
      /\ watch'.failed = (unread # {})
  BY StartKeeps DEF MentionInv, WatchInv
<1>2. UNCHANGED <<upstream, baseline, index, issues, Streams>>
  BY DEF StartWatch, Streams
<1>3. upstream \in [Streams -> Nat \ {0}]
  BY <1>1 DEF WatchTyped
<1>4. \A s \in Streams : Reads(unread)[s] = IF s \in unread THEN Unknown ELSE upstream[s]
  BY DEF Reads
<1>5. Mentioned'
  <2> SUFFICES ASSUME unread = {}, NEW s \in Streams
               PROVE  /\ Reads(unread)[s] # Unknown
                      /\ s \in watch'.todo \/ Supports(s, watch.read[s])'
    BY <1>1, <1>2 DEF Mentioned
  <2>1. Supports(s, watch.read[s])' <=> Supports(s, Reads(unread)[s])
    BY <1>1, <1>2 DEF Supports, InShippedSet, IsCaptured, BelowCap
  <2> QED
    BY <1>1, <1>3, <1>4, <2>1 DEF Unknown
<1>6. HistoryStays
  BY <1>1, <1>2, HistorySame
<1> QED
  BY <1>1, <1>2, <1>5, <1>6, RunStepMentions

LEMMA MoreSays ==
  ASSUME NEW e, NEW f, f.born = e.born,
         \A n \in DOMAIN e.notes : n \in DOMAIN f.notes /\ f.notes[n] = e.notes[n],
         NEW v, Says(e, v)
  PROVE  Says(f, v)
  BY DEF Says

LEMMA WritesSay ==
  ASSUME MentionInv, NEW answered \in BOOLEAN, Writes(answered)
  PROVE  HistoryStays /\ (watch.at \in {"create", "edit"} => StreamMentioned)
<1>1. WatchInv /\ WatchTyped /\ Running /\ issues \in Seq(IssueType)
  BY DEF MentionInv, WatchInv, WatchTyped
<1>2. \/ watch.at = "create" /\ Create
      \/ watch.at = "comment" /\ Comment
      \/ watch.at = "edit" /\ Retitle
  BY DEF Writes
<1>3. Target \in Nat /\ Target >= Target
  <2>1. watch.todo # {} /\ watch.at # "idle"
    BY <1>1, <1>2 DEF Running, Places
  <2>2. Target \in Nat
    BY <1>1, <2>1, DueIsWatched
  <2> QED
    BY <2>2
<1>4. CASE watch.at = "create" /\ Create
  <2>1. /\ issues' \in Seq(IssueType)
        /\ \A i \in DOMAIN issues : i \in DOMAIN issues' /\ issues'[i] = issues[i]
        /\ Len(issues') \in DOMAIN issues'
        /\ issues'[Len(issues')].stream = Stream /\ issues'[Len(issues')].key = Target
        /\ issues'[Len(issues')].born = Target
    BY <1>1, <1>4, CreateKeeps
  <2>2. Says(issues'[Len(issues')], Target)
    BY <1>3, <2>1 DEF Says
  <2> QED
    BY <2>1, <2>2 DEF HistoryStays, StreamMentioned
<1>5. ASSUME NEW e, Revised(e), Rolling,
             \A n \in DOMAIN issues[watch.issue].notes :
               n \in DOMAIN e.notes /\ e.notes[n] = issues[watch.issue].notes[n]
      PROVE  HistoryStays /\ watch.issue \in DOMAIN issues' /\ issues'[watch.issue] = e
             /\ issues'[watch.issue].stream = "claude"
  <2>1. /\ issues' \in Seq(IssueType) /\ DOMAIN issues' = DOMAIN issues
        /\ watch.issue \in DOMAIN issues /\ issues'[watch.issue] = e
        /\ issues[watch.issue].stream = "claude"
        /\ \A i \in DOMAIN issues \ {watch.issue} : issues'[i] = issues[i]
        /\ \A i \in DOMAIN issues : /\ issues'[i].stream = issues[i].stream
                                    /\ issues[i].stream # "claude" => issues'[i].key = issues[i].key
    BY <1>1, <1>5, RevisedIssues
  <2>2. ASSUME NEW i \in DOMAIN issues, NEW v \in Nat, Says(issues[i], v)
        PROVE  Says(issues'[i], v)
    <3>1. CASE i = watch.issue
      <4>1. PICK old : old = issues[i]
        OBVIOUS
      <4>2. e.born = old.born /\ Says(old, v)
            /\ \A n \in DOMAIN old.notes : n \in DOMAIN e.notes /\ e.notes[n] = old.notes[n]
        BY <1>5, <2>2, <3>1, <4>1 DEF Revised
      <4>3. Says(e, v)
        BY <4>2, MoreSays
      <4> QED
        BY <2>1, <3>1, <4>3
    <3>2. CASE i # watch.issue
      BY <2>1, <2>2, <3>2
    <3> QED
      BY <3>1, <3>2
  <2> QED
    BY <2>1, <2>2 DEF HistoryStays
<1>6. CASE watch.at = "comment" /\ Comment
  <2>1. PICK e : Revised(e) /\ e.notes = Append(issues[watch.issue].notes, Note)
    BY <1>1, <1>6, CommentRevises
  <2>2. PICK notes \in Seq([from : Nat, to : Nat]) : notes = issues[watch.issue].notes
    BY <1>1, <1>6, NoteIsTyped DEF Rolling, IssueType
  <2>3. PICK note \in [from : Nat, to : Nat] : note = Note
    BY <1>1, <1>6, NoteIsTyped DEF Rolling
  <2>4. e.notes = Append(notes, note)
    BY <2>1, <2>2, <2>3
  <2>5. \A n \in DOMAIN notes : n \in DOMAIN e.notes /\ e.notes[n] = notes[n]
    BY <2>4, AppendProperties
  <2> QED
    BY <1>5, <1>6, <2>1, <2>2, <2>5 DEF Rolling
<1>7. CASE watch.at = "edit" /\ Retitle
  <2>1. PICK e : Revised(e) /\ e.key = Target /\ e.notes = issues[watch.issue].notes
    BY <1>1, <1>7, RetitleRevises
  <2>2. HistoryStays /\ watch.issue \in DOMAIN issues' /\ issues'[watch.issue] = e
        /\ issues'[watch.issue].stream = "claude"
    BY <1>5, <1>7, <2>1 DEF Rolling
  <2>3. PICK n \in DOMAIN e.notes : e.notes[n] = Note
    BY <1>1, <1>7, <2>1 DEF WatchInv, Noted, NoteGiven
  <2>4. Note.to = Target /\ Stream = "claude"
    BY <1>1, <1>7, NoteIsTyped DEF Running, Rolling
  <2>5. Says(e, Target)
    BY <1>3, <2>3, <2>4 DEF Says
  <2> QED
    BY <2>2, <2>4, <2>5 DEF StreamMentioned
<1> QED
  BY <1>2, <1>4, <1>6, <1>7

LEMMA WritesMention ==
  ASSUME MentionInv, NEW answered \in BOOLEAN, Writes(answered)
  PROVE  MentionInv'
<1>1. WatchInv /\ WatchInv' /\ WatchTyped
  BY WritesKeep DEF MentionInv, WatchInv
<1>2. HistoryStays /\ (watch.at \in {"create", "edit"} => StreamMentioned)
  BY WritesSay
<1>3. /\ UNCHANGED <<index, baseline, Streams>>
      /\ watch'.read = watch.read /\ watch.at # "idle" /\ watch'.at # "list"
      /\ \/ watch' = Filed(watch) /\ watch.at \in {"create", "edit"}
         \/ watch' = FailedFiling(watch)
         \/ watch' = [watch EXCEPT !.at = "edit"] /\ watch'.todo = watch.todo
  BY <1>1, WritesGoOn
<1>4. CASE watch' = Filed(watch) /\ watch.at \in {"create", "edit"}
  <2>1. watch'.todo = watch.todo \ {Stream} /\ watch'.failed = watch.failed
    BY <1>1, <1>4, FiledStep
  <2>2. Mentioned'
    BY <1>2, <1>3, <1>4, <2>1, TheRestIsMentioned
  <2> QED
    BY <1>1, <1>2, <1>3, <2>2, RunStepMentions
<1>5. CASE watch' = FailedFiling(watch)
  <2>1. watch'.failed
    BY <1>1, <1>5, FiledStep
  <2>2. Mentioned'
    BY <2>1 DEF Mentioned
  <2> QED
    BY <1>1, <1>2, <1>3, <2>2, RunStepMentions
<1>6. CASE watch' = [watch EXCEPT !.at = "edit"] /\ watch'.todo = watch.todo
  <2>1. watch'.failed = watch.failed
    BY <1>1, <1>6 DEF WatchTyped, RunType
  <2>2. Mentioned'
    BY <1>2, <1>3, <1>6, <2>1, TheRestIsMentioned
  <2> QED
    BY <1>1, <1>2, <1>3, <2>2, RunStepMentions
<1> QED
  BY <1>3, <1>4, <1>5, <1>6

LEMMA OthersMention ==
  ASSUME MentionInv,
         \/ \E s \in Streams : (\E v \in Releases : UpstreamMoves(s, v)) \/ Supported(s)
         \/ \E i \in DOMAIN issues : Closed(i) \/ Indexed(i)
         \/ OtherIssue
  PROVE  MentionInv'
<1>1. WatchInv /\ WatchInv' /\ WatchTyped /\ Faithful(index) /\ Looked /\ RowsTold(index)
  <2>1. WatchInv
    BY DEF MentionInv
  <2>2. WatchInv'
    BY <2>1, OthersKeep
  <2> QED
    BY <2>1, <2>2 DEF WatchInv, MentionInv
<1>2. issues' \in Seq(IssueType) /\ (Apart(0) \/ Apart(1))
  BY <1>1, OthersApart
<1>3. PICK extra \in {0, 1} : Apart(extra)
  BY <1>2
<1>4. watch' = watch /\ Streams' = Streams
  BY <1>3, ApartStream DEF Apart
<1>5. HistoryStays
  BY <1>2, <1>3 DEF Apart, HistoryStays, Says
<1>6. RowsTold(index)'
  <2>1. CASE index' = index
    <3>1. \A i \in DOMAIN index : index[i].stream = "claude" => Says(issues'[i], index[i].key)
      BY <1>1, <1>5, RowsStayTold
    <3> QED
      BY <2>1, <3>1 DEF RowsTold, Says
  <2>2. CASE \E i \in DOMAIN issues : Indexed(i)
    <3>1. PICK i \in DOMAIN issues : Indexed(i)
      BY <2>2
    <3>2. DOMAIN index' = DOMAIN index \cup {i} /\ issues' = issues
          /\ index'[i].key = issues[i].key /\ index'[i].stream = issues[i].stream
          /\ \A k \in DOMAIN index \ {i} : index'[k] = index[k]
      BY <3>1 DEF Indexed, Row
    <3>3. issues[i].stream = "claude" => Says(issues[i], issues[i].key)
      BY <1>1, TitleIsSaid
    <3>4. \A k \in DOMAIN index' : index'[k].stream = "claude" => Says(issues'[k], index'[k].key)
      BY <1>1, <3>2, <3>3 DEF RowsTold
    <3> QED
      BY <3>4 DEF RowsTold, Says
  <2> QED
    BY <2>1, <2>2 DEF UpstreamMoves, Supported, Closed, OtherIssue
<1>7. watch'.at = "list" => RowsTold(watch.found)'
  <2> SUFFICES ASSUME watch.at = "list" PROVE RowsTold(watch.found)'
    BY <1>4
  <2>1. Faithful(watch.found) /\ RowsTold(watch.found)
    BY <1>1 DEF MentionInv, Looked
  <2>2. PICK rows : rows = watch.found
    OBVIOUS
  <2>3. \A i \in DOMAIN rows : rows[i].stream = "claude" => Says(issues'[i], rows[i].key)
    BY <1>1, <1>5, <2>1, <2>2, RowsStayTold
  <2> QED
    BY <1>4, <2>2, <2>3 DEF RowsTold, Says
<1>8. Mentioned'
  <2> SUFFICES ASSUME watch.at # "idle", ~watch.failed, NEW s \in Streams
               PROVE  /\ watch.read[s] # Unknown
                      /\ s \in watch.todo \/ Supports(s, watch.read[s])' \/ MentionFor(s)'
    BY <1>4 DEF Mentioned
  <2>1. watch.read[s] # Unknown
        /\ (s \in watch.todo \/ Supports(s, watch.read[s]) \/ MentionFor(s))
    BY DEF MentionInv, Mentioned
  <2>2. CASE MentionFor(s)
    BY <1>1, <1>4, <1>5, <2>1, <2>2, StillMentioned
  <2>3. CASE Supports(s, watch.read[s])
    BY <1>1, <1>4, <2>1, <2>3, OthersSupport
  <2> QED
    BY <2>1, <2>2, <2>3
<1> QED
  BY <1>1, <1>6, <1>7, <1>8 DEF MentionInv

LEMMA MentionInvStep ==
  ASSUME MentionInv, [WatchNext]_watchVars
  PROVE  MentionInv'
<1>1. CASE UNCHANGED watchVars
  <2>1. WatchInv'
    BY <1>1, WatchInvStep DEF MentionInv
  <2>2. RowsTold(index)' /\ (watch.at = "list" => RowsTold(watch.found))'
    BY <1>1 DEF watchVars, MentionInv, RowsTold, Says
  <2>3. Mentioned'
    BY <1>1 DEF watchVars, MentionInv, Mentioned, Streams, Supports, InShippedSet, IsCaptured, BelowCap,
       MentionFor, Of, Says
  <2> QED
    BY <2>1, <2>2, <2>3 DEF MentionInv
<1>2. CASE WatchNext
  BY <1>2, OthersMention, StartMentions, ReadersMention, ListMentions, WritesMention, BreaksMention
     DEF WatchNext
<1> QED
  BY <1>1, <1>2

\* A release that is withdrawn is remembered for good.
LEMMA NothingWithdrawn ==
  ASSUME WatchInv, [WatchNext]_watchVars, "claude" \notin withdrawn'
  PROVE  "claude" \notin withdrawn /\ [Advances]_watchVars
<1>1. upstream \in [Streams -> Nat \ {0}]
  BY DEF WatchInv, WatchTyped
<1>2. ASSUME UNCHANGED <<upstream, withdrawn>>
      PROVE  "claude" \notin withdrawn /\ Advances
  <2>1. "claude" \in Streams => upstream["claude"] <= upstream["claude"]
    BY <1>1
  <2> QED
    BY <1>2, <2>1 DEF Advances
<1>3. ASSUME NEW s \in Streams, NEW v \in Releases, UpstreamMoves(s, v)
      PROVE  "claude" \notin withdrawn /\ Advances
  <2>1. v \in Nat /\ upstream' = [upstream EXCEPT ![s] = v]
        /\ withdrawn' = IF v < upstream[s] THEN withdrawn \cup {s} ELSE withdrawn
    BY <1>3, WatchBounds DEF UpstreamMoves
  <2>2. "claude" \notin withdrawn /\ (s = "claude" => ~(v < upstream[s]))
    BY <2>1
  <2>3. CASE s = "claude"
    BY <1>1, <2>1, <2>2, <2>3 DEF Advances
  <2>4. CASE s # "claude"
    <3>1. "claude" \in Streams => upstream'["claude"] = upstream["claude"] /\ upstream["claude"] \in Nat
      BY <1>1, <2>1, <2>4
    <3> QED
      BY <2>2, <3>1 DEF Advances
  <2> QED
    BY <2>3, <2>4
<1>4. CASE WatchNext
  <2>1. \A s : Supported(s) => UNCHANGED <<upstream, withdrawn>>
    BY DEF Supported
  <2>2. \A i : Closed(i) \/ Indexed(i) => UNCHANGED <<upstream, withdrawn>>
    BY DEF Closed, Indexed
  <2>3. \A unread : StartWatch(unread) => UNCHANGED <<upstream, withdrawn>>
    BY DEF StartWatch
  <2>4. \A answered : Writes(answered) => UNCHANGED <<upstream, withdrawn>>
    BY DEF Writes
  <2>5. OtherIssue \/ NextStream \/ SearchTitles \/ ListRecent \/ ViewComments \/ CallFails \/ Killed
          => UNCHANGED <<upstream, withdrawn>>
    BY DEF OtherIssue, NextStream, SearchTitles, ListRecent, ViewComments, CallFails, Killed
  <2> QED
    BY <1>2, <1>3, <1>4, <2>1, <2>2, <2>3, <2>4, <2>5 DEF WatchNext
<1>5. CASE UNCHANGED watchVars
  BY <1>2, <1>5 DEF watchVars
<1> QED
  BY <1>4, <1>5

\* Exit status 0 means every stream was read, and is supported or has its issue
\* (watch_main, file_issues).  Where a release of the rolling stream was withdrawn,
\* by a title the search has late its issue can be retitled back, and by another
\* pass for the newer one it was before; that one of its issues was filed for that
\* release or told of it holds even then.
THEOREM SuccessIsTracked == WatchSpec => []SuccessMeansTracked
<1>1. WatchInit => SuccessInv
  <2> SUFFICES ASSUME WatchInit PROVE SuccessInv
    OBVIOUS
  <2>1. TrackInv /\ WatchInv
    BY TrackInvInit DEF TrackInv
  <2>2. index = <<>> /\ watch.at = "idle"
    BY DEF WatchInit, NoWatch
  <2>3. DOMAIN index = {}
    BY <2>2
  <2> QED
    BY <2>1, <2>2, <2>3 DEF SuccessInv, MentionInv, RowsTold, Mentioned
<1>2. SuccessInv /\ [WatchNext]_watchVars => SuccessInv'
  <2> SUFFICES ASSUME SuccessInv, [WatchNext]_watchVars PROVE SuccessInv'
    OBVIOUS
  <2>1. MentionInv' /\ WatchInv
    BY MentionInvStep DEF SuccessInv, MentionInv
  <2>2. "claude" \notin withdrawn' => TrackInv'
    BY <2>1, NothingWithdrawn, TrackInvStep DEF SuccessInv
  <2> QED
    BY <2>1, <2>2 DEF SuccessInv
<1>3. SuccessInv => SuccessMeansTracked
  <2> SUFFICES ASSUME SuccessInv, watch.at = "done", ~watch.failed, NEW s \in Streams
               PROVE  /\ watch.read[s] # Unknown
                      /\ \/ Supports(s, watch.read[s])
                         \/ IssueFor(s)
                         \/ /\ s = "claude" /\ "claude" \in withdrawn
                            /\ \E i \in Of(s) : Tells(i, watch.read[s])
    BY DEF SuccessMeansTracked, ExitsZero, IssueFor
  <2>1. watch.todo = {} /\ MentionInv
    BY DEF SuccessInv, MentionInv, WatchInv, Running
  <2>2. watch.read[s] # Unknown /\ (Supports(s, watch.read[s]) \/ MentionFor(s))
    BY <2>1 DEF MentionInv, Mentioned
  <2>3. CASE "claude" \notin withdrawn
    BY <2>1, <2>3 DEF SuccessInv, TrackInv, Told
  <2>4. CASE "claude" \in withdrawn /\ s = "claude"
    BY <2>2, <2>4 DEF MentionFor, Says, Tells
  <2>5. CASE s # "claude"
    BY <2>2, <2>5 DEF MentionFor, IssueFor
  <2> QED
    BY <2>3, <2>4, <2>5
<1> QED
  BY <1>1, <1>2, <1>3, PTL DEF WatchSpec
=============================================================================
