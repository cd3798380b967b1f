------------------------- MODULE JobLifecycleProofs -------------------------
(***************************************************************************)
(* Proofs about JobLifecycle, TaskMap and JobListing, for every finite set *)
(* of job ids, every set of requests, keys and arguments, every profile of *)
(* them, every bound of the map and every length of a page.                *)
(***************************************************************************)
EXTENDS JobLifecycle, SequenceTheorems, FiniteSetTheorems, TLAPS

-----------------------------------------------------------------------------
(* Pages.  A finite set of rows has a listing, newest first.               *)
Row == [born : Nat, id : Nat]

(* The sort key of a row is a strict total order.                          *)
LEMMA BelowOrders ==
  ASSUME NEW x \in Row, NEW y \in Row, NEW z \in Row
  PROVE  /\ ~Below(x, x)
         /\ x # y => Below(x, y) \/ Below(y, x)
         /\ Below(x, y) /\ Below(y, z) => Below(x, z)
  <1>1. x.born \in Nat /\ y.born \in Nat /\ z.born \in Nat
        /\ x.id \in Nat /\ y.id \in Nat /\ z.id \in Nat
    BY DEF Row
  <1>2. x.born = y.born /\ x.id = y.id => x = y
    BY DEF Row
  <1> QED BY <1>1, <1>2 DEF Below

(* Ranked by how many rows sort above it, every row has its own position.  *)
LEMMA RowsCanBeListed ==
  ASSUME NEW rows \in SUBSET Row, IsFiniteSet(rows)
  PROVE  \E s \in [1..Cardinality(rows) -> rows] :
           \A i, k \in DOMAIN s : i < k => Below(s[k], s[i])
  <1> DEFINE n == Cardinality(rows)
             Above(x) == {y \in rows : Below(x, y)}
             rank == [x \in rows |-> Cardinality(Above(x)) + 1]
  <1>1. n \in Nat
    BY FS_CardinalityType
  <1>2. ASSUME NEW x \in rows
        PROVE  /\ IsFiniteSet(Above(x)) /\ Cardinality(Above(x)) \in Nat
               /\ Cardinality(Above(x)) < n
    <2>1. IsFiniteSet(Above(x)) /\ Cardinality(Above(x)) <= n
          /\ (n = Cardinality(Above(x)) => rows = Above(x))
      <3>1. Above(x) \in SUBSET rows
        OBVIOUS
      <3> QED BY <3>1, FS_Subset
    <2>2. x \notin Above(x)
      BY BelowOrders
    <2>3. Cardinality(Above(x)) \in Nat
      BY <2>1, FS_CardinalityType
    <2> QED BY <2>1, <2>2, <2>3, <1>1
  <1>3. ASSUME NEW x \in rows, NEW y \in rows, Below(x, y)
        PROVE  rank[y] < rank[x]
    <2>1. Above(y) \in SUBSET Above(x)
      BY <1>3, BelowOrders
    <2>2. y \in Above(x) /\ y \notin Above(y)
      BY <1>3, BelowOrders
    <2>3. /\ Cardinality(Above(y)) <= Cardinality(Above(x))
          /\ Cardinality(Above(x)) = Cardinality(Above(y)) => Above(x) = Above(y)
      BY <2>1, <1>2, FS_Subset
    <2>4. Above(x) # Above(y) /\ Cardinality(Above(x)) \in Nat /\ Cardinality(Above(y)) \in Nat
      BY <2>2, <1>2
    <2>5. Cardinality(Above(y)) < Cardinality(Above(x))
      <3> HIDE DEF Above
      <3> QED BY <2>3, <2>4
    <2> QED BY <2>4, <2>5
  <1>4. rank \in [rows -> 1..n]
    BY <1>1, <1>2
  <1>5. ASSUME NEW x \in rows, NEW y \in rows, rank[x] = rank[y] PROVE x = y
    <2>1. rank[x] \in Nat /\ ~(rank[x] < rank[y]) /\ ~(rank[y] < rank[x])
      <3> HIDE DEF rank
      <3> QED BY <1>4, <1>5
    <2>2. ~Below(x, y) /\ ~Below(y, x)
      BY <2>1, <1>3
    <2> QED BY <2>2, BelowOrders
  <1>6. rank \in Surjection(rows, 1..n)
    <2>1. rank \in Injection(rows, 1..n)
      BY <1>4, <1>5 DEF Injection, IsInjective
    <2>2. IsFiniteSet(1..n) /\ Cardinality(1..n) = n
      BY <1>1, FS_Interval
    <2> QED BY <2>1, <2>2, FS_Injection
  <1>7. \A i \in 1..n : \E x \in rows : rank[x] = i
    BY <1>6 DEF Surjection
  <1> DEFINE s == [i \in 1..n |-> CHOOSE x \in rows : rank[x] = i]
  <1>8. \A i \in 1..n : s[i] \in rows /\ rank[s[i]] = i
    BY <1>7
  <1>9. s \in [1..n -> rows]
    BY <1>8
  <1>10. ASSUME NEW i \in 1..n, NEW k \in 1..n, i < k PROVE Below(s[k], s[i])
    <2>1. s[i] \in rows /\ s[k] \in rows /\ rank[s[i]] = i /\ rank[s[k]] = k
      BY <1>8
    <2>2. s[i] # s[k] /\ ~(rank[s[k]] < rank[s[i]])
      <3> HIDE DEF rank, s
      <3> QED BY <2>1, <1>10
    <2>3. ~Below(s[i], s[k])
      BY <2>1, <2>2, <1>3
    <2> QED BY <2>1, <2>2, <2>3, BelowOrders
  <1> HIDE DEF s
  <1> QED BY <1>9, <1>10

(* A listing holds every row once, newest first.                           *)
LEMMA ListingIsSorted ==
  ASSUME NEW rows \in SUBSET Row, IsFiniteSet(rows)
  PROVE  /\ Cardinality(rows) \in Nat
         /\ Listing(rows) \in [1..Cardinality(rows) -> rows]
         /\ \A i, k \in 1..Cardinality(rows) : i < k => Below(Listing(rows)[k], Listing(rows)[i])
         /\ \A x \in rows : \E i \in 1..Cardinality(rows) : Listing(rows)[i] = x
  <1> DEFINE n == Cardinality(rows)
             s == Listing(rows)
             Sorted(t) == \A i, k \in DOMAIN t : i < k => Below(t[k], t[i])
  <1>1. n \in Nat
    BY FS_CardinalityType
  <1>2. \E t \in [1..n -> rows] : Sorted(t)
    BY RowsCanBeListed
  <1>3. s = CHOOSE t \in [1..n -> rows] : Sorted(t)
    BY DEF Listing
  <1>4. s \in [1..n -> rows] /\ Sorted(s)
    <2> HIDE DEF s, n, Sorted
    <2> QED BY <1>2, <1>3
  <1>5. \A i, k \in 1..n : i < k => Below(s[k], s[i])
    <2> HIDE DEF s, n
    <2> QED BY <1>4
  <1>6. \A i \in 1..n : s[i] \in rows /\ s[i] \in Row
    <2> HIDE DEF s, n
    <2> QED BY <1>4
  <1>7. s \in Injection(1..n, rows)
    <2>1. ASSUME NEW i \in 1..n, NEW k \in 1..n, i # k PROVE s[i] # s[k]
      <3>1. CASE i < k
        BY <1>5, <1>6, <3>1, BelowOrders
      <3>2. CASE k < i
        BY <1>5, <1>6, <3>2, BelowOrders
      <3> QED BY <1>1, <2>1, <3>1, <3>2
    <2> HIDE DEF s, n
    <2> QED BY <1>4, <2>1 DEF Injection, IsInjective
  <1>8. s \in Surjection(1..n, rows)
    <2>1. IsFiniteSet(1..n) /\ Cardinality(1..n) = n
      BY <1>1, FS_Interval
    <2> QED BY <1>7, <2>1, FS_Injection
  <1>9. \A x \in rows : \E i \in 1..n : s[i] = x
    BY <1>8 DEF Surjection
  <1> QED BY <1>1, <1>4, <1>5, <1>9

(* A page holds rows past its anchor, each once and newest first; if there *)
(* are more, they sort below the last row of the page.                     *)
LEMMA PageIsAPrefix ==
  ASSUME NEW rows \in SUBSET Row, IsFiniteSet(rows), NEW anchor \in Row
  PROVE  LET page == Page(rows, anchor)
         IN  /\ page.hasMore \in BOOLEAN
             /\ page.rows \in Seq(rows)
             /\ \A i \in DOMAIN page.rows : Past(page.rows[i], anchor)
             /\ \A i, k \in DOMAIN page.rows : page.rows[i] = page.rows[k] => i = k
             /\ page.hasMore =>
                  /\ Len(page.rows) \in DOMAIN page.rows
                  /\ \A i \in DOMAIN page.rows : ~Below(page.rows[i], Last(page.rows))
             /\ \A x \in rows : Past(x, anchor) =>
                  \/ \E i \in DOMAIN page.rows : page.rows[i] = x
                  \/ page.hasMore /\ Below(x, Last(page.rows))
  <1> DEFINE past == {row \in rows : Past(row, anchor)}
             n == Cardinality(past)
             left == Listing(past)
             page == Page(rows, anchor)
  <1>1. past \in SUBSET Row /\ IsFiniteSet(past)
    BY FS_Subset
  <1>2. n \in Nat /\ left \in [1..n -> past]
    BY <1>1, ListingIsSorted
  <1>3. \A i, k \in 1..n : i < k => Below(left[k], left[i])
    BY <1>1, ListingIsSorted
  <1>4. \A x \in past : \E i \in 1..n : left[i] = x
    BY <1>1, ListingIsSorted
  <1>5. left \in Seq(past) /\ Len(left) = n
    <2> HIDE DEF n, left, past
    <2> QED BY <1>2, SeqDef
  <1>6. PageLimit \in Nat \ {0}
    BY LifecycleAssumption
  <1>7. /\ page.hasMore <=> n > PageLimit
        /\ page.hasMore \in BOOLEAN
        /\ page.rows = IF n > PageLimit THEN SubSeq(left, 1, PageLimit) ELSE left
    <2>1. /\ page.hasMore = (n > PageLimit)
          /\ page.rows = IF n > PageLimit THEN SubSeq(left, 1, PageLimit) ELSE left
      BY <1>5 DEF Page
    <2> HIDE DEF page, n, left
    <2>2. CASE n > PageLimit
      <3>1. page.hasMore = TRUE
        BY <2>1, <2>2
      <3> QED BY <2>1, <2>2, <3>1
    <2>3. CASE ~(n > PageLimit)
      <3>1. (n > PageLimit) = FALSE
        BY <2>3, <1>2, <1>6
      <3>2. page.hasMore = FALSE
        BY <2>1, <3>1, Zenon
      <3> QED BY <2>1, <2>3, <3>2
    <2> QED BY <2>2, <2>3
  <1> DEFINE m == IF n > PageLimit THEN PageLimit ELSE n
  <1>8. /\ m \in Nat /\ m <= n /\ (page.hasMore => m = PageLimit /\ m < n /\ m \in 1..m)
        /\ page.hasMore \in BOOLEAN /\ (~page.hasMore => m = n)
    <2> HIDE DEF page, n
    <2>1. CASE n > PageLimit
      BY <2>1, <1>2, <1>7, <1>6
    <2>2. CASE ~(n > PageLimit)
      <3>1. page.hasMore \in BOOLEAN /\ ~page.hasMore
        BY <2>2, <1>7
      <3> QED BY <2>2, <3>1, <1>2, <1>6
    <2> QED BY <2>1, <2>2
  <1>9. /\ page.rows \in Seq(past) /\ DOMAIN page.rows = 1..m /\ Len(page.rows) = m
        /\ \A i \in 1..m : page.rows[i] = left[i]
    <2> HIDE DEF page, n, left, past
    <2>1. CASE n > PageLimit
      <3>1. \A i \in 1..PageLimit : left[i] \in past
        BY <1>2, <1>6, <2>1
      <3>2. /\ SubSeq(left, 1, PageLimit) \in Seq(past)
            /\ Len(SubSeq(left, 1, PageLimit)) = PageLimit
            /\ \A i \in 1..PageLimit : SubSeq(left, 1, PageLimit)[i] = left[i]
        BY <3>1, <1>6, SubSeqProperties
      <3> QED BY <3>2, <1>7, <2>1, LenProperties
    <2>2. CASE ~(n > PageLimit)
      BY <2>2, <1>5, <1>7, LenProperties
    <2> QED BY <2>1, <2>2
  <1>10. \A i \in 1..m : left[i] \in past /\ left[i] \in rows /\ left[i] \in Row /\ Past(left[i], anchor)
    <2> HIDE DEF n, left
    <2> QED BY <1>2, <1>8
  <1>11. page.rows \in Seq(rows)
    BY <1>9, SeqMonotonic
  <1>12. \A i, k \in 1..m : left[i] = left[k] => i = k
    <2> SUFFICES ASSUME NEW i \in 1..m, NEW k \in 1..m, i # k PROVE left[i] # left[k]
      OBVIOUS
    <2>1. i \in 1..n /\ k \in 1..n /\ (i < k \/ k < i)
      <3> HIDE DEF n
      <3> QED BY <1>2, <1>8
    <2>2. Below(left[k], left[i]) \/ Below(left[i], left[k])
      BY <2>1, <1>3
    <2> QED BY <2>2, <1>10, BelowOrders
  <1>13. ASSUME page.hasMore
         PROVE  /\ m \in 1..m /\ Last(page.rows) = left[m]
                /\ \A i \in 1..m : ~Below(left[i], left[m])
    <2>1. m \in 1..m /\ Last(page.rows) = left[m]
      BY <1>8, <1>9, <1>13 DEF Last
    <2>2. ASSUME NEW i \in 1..m PROVE ~Below(left[i], left[m])
      <3>1. left[i] \in Row /\ left[m] \in Row
        BY <2>1, <1>10
      <3>2. i = m \/ Below(left[m], left[i])
        <4>1. i \in 1..n /\ m \in 1..n /\ (i = m \/ i < m)
          <5> HIDE DEF n
          <5> QED BY <1>2, <1>8, <2>1
        <4> QED BY <4>1, <1>3
      <3> QED BY <3>1, <3>2, BelowOrders
    <2> QED BY <2>1, <2>2
  <1>14. ASSUME NEW x \in rows, Past(x, anchor)
         PROVE  \/ \E i \in 1..m : left[i] = x
                \/ page.hasMore /\ Below(x, left[m])
    <2>1. PICK i \in 1..n : left[i] = x
      BY <1>4, <1>14
    <2>2. CASE i \in 1..m
      BY <2>1, <2>2
    <2>3. CASE i \notin 1..m
      <3>1. page.hasMore /\ m \in 1..n /\ m < i
        <4> HIDE DEF n
        <4> QED BY <1>2, <1>8, <2>3
      <3> QED BY <3>1, <2>1, <1>3
    <2> QED BY <2>2, <2>3
  <1> HIDE DEF page, left, n, past, m
  <1>15. \A i \in 1..m : Past(page.rows[i], anchor)
    BY <1>9, <1>10
  <1>16. \A i, k \in 1..m : page.rows[i] = page.rows[k] => i = k
    BY <1>9, <1>12
  <1>17. page.hasMore => /\ Len(page.rows) \in 1..m
                         /\ \A i \in 1..m : ~Below(page.rows[i], Last(page.rows))
    BY <1>9, <1>13
  <1>18. \A x \in rows : Past(x, anchor) =>
           \/ \E i \in 1..m : page.rows[i] = x
           \/ page.hasMore /\ Below(x, Last(page.rows))
    BY <1>9, <1>13, <1>14
  <1> QED BY <1>8, <1>9, <1>11, <1>15, <1>16, <1>17, <1>18 DEF page

-----------------------------------------------------------------------------
(* The inductive invariant.  First what is known of one request, wherever  *)
(* it awaits.                                                              *)
Unattached == {"idle", "starting", "reserving", "pausing", "checking"}
Serving == {"checking", "recording", "polling", "expiring", "stopping", "fetching", "delivering"}
Reading == {"checking", "polling", "fetching", "delivering"}

Placed(r) ==
  /\ At(r, "idle") => start[r] = NoStart
  /\ At(r, "starting") => ~Keyed(r)
  /\ request[r].at \in {"reserving", "pausing", "checking"} => Keyed(r)
  /\ request[r].at \in Serving => JobOf(r) # NoJob
  /\ At(r, "returned") => start[r].at = "over"

(* The job a start was answered with has its key and its arguments.        *)
Named(r) ==
  /\ start[r].at # "over" => JobOf(r) = NoJob
  /\ JobOf(r) # NoJob <=> start[r].kind \in {"created", "replay"}
  /\ JobOf(r) # NoJob => /\ job[JobOf(r)].state # "none"
                         /\ job[JobOf(r)].key = Of(r).key
                         /\ job[JobOf(r)].args = Of(r).args

(* Only an unkeyed job is stopped, and once it is it does not run.         *)
Halted(r) ==
  /\ stop[r] # "idle" => ~Keyed(r) /\ JobOf(r) # NoJob
  /\ stop[r] = "over" => job[JobOf(r)].state # "running"

(* A request records at most once: its own task or its callback, not both. *)
Called(r) ==
  /\ callback[r] # "none" => At(r, "cancelled")
  /\ callback[r] = "stop" => ~Keyed(r)
  /\ callback[r] = "record" => writer[r].at = "idle"

Written(r) ==
  /\ request[r].at \in Unattached => writer[r].at = "idle"
  /\ writer[r].at # "idle" => writer[r].job \in Jobs

(* What a thread saw of a job that had ended is still so, or the job gone. *)
Seen(r) ==
  /\ request[r].saw # Unread => request[r].at \in Reading
  /\ request[r].saw # "none"
  /\ request[r].saw \in Final \cup {"gone"} => job[JobOf(r)].state \in {request[r].saw, "gone"}
  /\ At(r, "delivering") => job[JobOf(r)].state \in {"done", "gone"}

(* The answers that claim something of a job.                              *)
Claims == {"result", "job_failed", "job_timeout", "job_cancelled", "timeout", "gone"}

Answered(r) ==
  At(r, "returned") =>
    /\ request[r].answer.job \in {NoJob, JobOf(r)}
    /\ request[r].answer.code \in Claims => JobOf(r) # NoJob
    /\ AnswerIsTrue(r)

RequestInv(r) ==
  Placed(r) /\ Named(r) /\ Halted(r) /\ Called(r) /\ Written(r) /\ Seen(r) /\ Answered(r)

(* The index names jobs of its key.                                        *)
IndexNames ==
  \A k \in Keys : index[k] # NoJob => job[index[k]].state # "none" /\ job[index[k]].key = k

(* The lock of the map is one thread's, whose copy of the map is current,  *)
(* and who has written has written once.                                   *)
LockInv ==
  /\ \A r \in Requests : r \in mapLock <=> writer[r].at \in {"locked", "read"}
  /\ \A r, q \in mapLock : r = q
  /\ \A r \in Requests : writer[r].at = "read" => writer[r].data = taskMap

WrittenOnce == \A i \in DOMAIN recorded : writer[recorded[i].task].at = "done"

(* The file is the tail of what was recorded, entry by entry.              *)
Newest ==
  /\ Len(taskMap) = IF Len(recorded) > MaxEntries THEN MaxEntries ELSE Len(recorded)
  /\ \A i \in 1..Len(taskMap) : taskMap[i] = recorded[Len(recorded) - Len(taskMap) + i]

RowOf(j) == [born |-> job[j].born, id |-> j]

(* What was listed sorts no lower than the anchor; what must be listed is  *)
(* kept, and if it was not listed yet it sorts below the anchor.           *)
PagerInv ==
  /\ pager.at = "idle" => pager.listed = <<>> /\ pager.must = {}
  /\ pager.at = "paging" <=> pager.anchor # FirstPage
  /\ \A i \in DOMAIN pager.listed :
       /\ job[pager.listed[i]].state # "none"
       /\ pager.at = "paging" => ~Below(RowOf(pager.listed[i]), pager.anchor)
  /\ IsInjective(pager.listed)
  /\ pager.must \subseteq Kept
  /\ \A j \in pager.must :
       \/ \E i \in DOMAIN pager.listed : pager.listed[i] = j
       \/ pager.at = "paging" /\ Below(RowOf(j), pager.anchor)

RInv == \A r \in Requests : RequestInv(r)
MInv == LockInv /\ WrittenOnce /\ Newest
IInv == TypeOK /\ RInv /\ IndexNames /\ SharedRunSurvives /\ MInv /\ PagerInv

-----------------------------------------------------------------------------
(* Types                                                                   *)
Record == [state : JobStates, key : Keys \cup {NoKey}, args : Args, born : Nat,
           asked : BOOLEAN, delivered : BOOLEAN]
StartThread == [at : {"idle", "queued", "over"}, kind : StartKinds, job : Jobs \cup {NoJob}]
Task == [at : Places, saw : JobStates \cup {Unread, "unreadable", "stamped"},
         answer : [code : Codes, job : Jobs \cup {NoJob}], left : Places]
WriterThread == [at : WriterStates, job : Nat, data : Seq([task : Requests, job : Nat])]

LEMMA Constants ==
  /\ Jobs \subseteq Nat \ {0} /\ IsFiniteSet(Jobs) /\ NoKey \notin Keys /\ Args # {}
  /\ NoJob = 0 /\ NoJob \notin Jobs /\ Jobs \cup {NoJob} \subseteq Nat
  BY LifecycleAssumption DEF NoJob

LEMMA ProfileFacts ==
  ASSUME NEW r \in Requests, profile \in Profiles
  PROVE  /\ Of(r).key \in Keys \cup {NoKey} /\ Of(r).args \in Args
         /\ Keyed(r) => Of(r).key \in Keys
         /\ profile.epochs \subseteq Nat \ {0}
  <1>1. Of(r) \in Request /\ profile.epochs \subseteq Nat \ {0}
    BY LifecycleAssumption DEF Profile, Of
  <1> QED BY <1>1 DEF Keyed, Request

LEMMA GoesType ==
  ASSUME TypeOK, NEW r \in Requests, NEW place \in Places,
         \/ Goes(r, place)
         \/ Leaves(r, place)
         \/ \E code \in Codes, j \in Jobs \cup {NoJob} : Answers(r, code, j)
  PROVE  request' \in [Requests -> Task]
  <1>1. "returned" \in Places /\ Unread \in JobStates \cup {Unread, "unreadable", "stamped"}
    BY DEF Places
  <1>2. request \in [Requests -> Task]
    BY DEF TypeOK, Task
  <1>3. CASE Goes(r, place)
    BY <1>1, <1>2, <1>3, ZenonT(60) DEF Goes, Task
  <1>4. CASE Leaves(r, place)
    BY <1>1, <1>2, <1>4, ZenonT(60) DEF Leaves, Task
  <1>5. ASSUME NEW code \in Codes, NEW j \in Jobs \cup {NoJob}, Answers(r, code, j)
        PROVE  request' \in [Requests -> Task]
    <2>1. [code |-> code, job |-> j] \in [code : Codes, job : Jobs \cup {NoJob}]
      OBVIOUS
    <2>2. request[r] \in Task
      BY <1>2
    <2> DEFINE answer == [code |-> code, job |-> j]
               moved == [request EXCEPT ![r].at = "returned", ![r].saw = Unread]
    <2>3. moved \in [Requests -> Task]
      BY <1>1, <1>2 DEF Task
    <2>4. request' = [moved EXCEPT ![r].answer = answer]
      BY <1>5 DEF Answers
    <2> HIDE DEF moved, answer
    <2> QED BY <2>1, <2>3, <2>4 DEF Task, answer
  <1> QED BY <1>3, <1>4, <1>5

LEMMA StartType ==
  ASSUME TypeOK, NEW r \in Requests,
         \/ Starts(r)
         \/ start' = [start EXCEPT ![r] = NoStart]
         \/ \E kind \in StartKinds, j \in Jobs \cup {NoJob} : Over(r, kind, j)
  PROVE  start' \in [Requests -> StartThread]
  <1>1. NoStart \in StartThread
    BY DEF NoStart, StartThread, StartKinds
  <1>2. [NoStart EXCEPT !.at = "queued"] = [at |-> "queued", kind |-> "none", job |-> NoJob]
    BY DEF NoStart
  <1>3. [NoStart EXCEPT !.at = "queued"] \in StartThread
    BY <1>2 DEF StartThread, StartKinds
  <1>4. start \in [Requests -> StartThread]
    BY DEF TypeOK, StartThread
  <1>5. CASE Starts(r)
    BY <1>3, <1>4, <1>5 DEF Starts
  <1>6. CASE start' = [start EXCEPT ![r] = NoStart]
    BY <1>1, <1>4, <1>6
  <1>7. ASSUME NEW kind \in StartKinds, NEW j \in Jobs \cup {NoJob}, Over(r, kind, j)
        PROVE  start' \in [Requests -> StartThread]
    <2>1. [at |-> "over", kind |-> kind, job |-> j] \in StartThread
      BY DEF StartThread
    <2> QED BY <1>4, <1>7, <2>1 DEF Over
  <1> QED BY <1>5, <1>6, <1>7

LEMMA StopType ==
  ASSUME TypeOK, NEW r \in Requests, Stops(r)
  PROVE  stop' \in [Requests -> {"idle", "queued", "over"}]
  BY DEF TypeOK, Stops

LEMMA RecordsType ==
  ASSUME TypeOK, NEW r \in Requests, NEW j \in Jobs, Records(r, j)
  PROVE  writer' \in [Requests -> WriterThread]
  <1>1. <<>> \in Seq([task : Requests, job : Nat])
    BY EmptySeq
  <1> QED BY <1>1, Constants DEF TypeOK, MapTypeOK, Records, WriterThread, WriterStates

LEMMA NoRecordType == NoRecord \in Record
  <1>1. (CHOOSE a \in Args : TRUE) \in Args
    BY Constants
  <1> QED BY <1>1 DEF NoRecord, Record, JobStates

(* TypeOK over the named sets.                                             *)
Typed ==
  /\ profile \in Profiles
  /\ job \in [Jobs -> Record]
  /\ index \in [Keys -> Jobs \cup {NoJob}]
  /\ start \in [Requests -> StartThread]
  /\ stop \in [Requests -> {"idle", "queued", "over"}]
  /\ callback \in [Requests -> {"none", "stop", "record"}]
  /\ request \in [Requests -> Task]
  /\ pager \in [at : {"idle", "paging", "done"}, anchor : Row, listed : Seq(Jobs), must : SUBSET Jobs]
  /\ taskMap \in Seq([task : Requests, job : Nat])
  /\ mapLock \subseteq Requests
  /\ writer \in [Requests -> WriterThread]
  /\ recorded \in Seq([task : Requests, job : Nat])
  /\ \A i \in DOMAIN taskMap : taskMap[i].job \in Jobs

LEMMA TypedIsTypeOK == (TypeOK <=> Typed) /\ (TypeOK' <=> Typed')
  BY DEF TypeOK, MapTypeOK, Typed, Record, StartThread, Task, WriterThread, Row

LEMMA InitTypes == Init => TypeOK
  <1> SUFFICES ASSUME Init PROVE Typed
    BY TypedIsTypeOK
  <1>1. NoStart \in StartThread
    BY DEF NoStart, StartThread, StartKinds
  <1>2. [at |-> "idle", saw |-> Unread, answer |-> NoAnswer, left |-> "idle"] \in Task
    BY DEF NoAnswer, Task, Places, Codes
  <1>3. <<>> \in Seq([task : Requests, job : Nat]) /\ <<>> \in Seq(Jobs)
    BY EmptySeq
  <1>4. NoWriter \in WriterThread
    BY <1>3 DEF NoWriter, WriterThread, WriterStates
  <1>5. [at |-> "idle", anchor |-> FirstPage, listed |-> <<>>, must |-> {}] \in
          [at : {"idle", "paging", "done"}, anchor : Row, listed : Seq(Jobs), must : SUBSET Jobs]
    BY <1>3 DEF FirstPage, Row
  <1> QED BY <1>1, <1>2, <1>3, <1>4, <1>5, NoRecordType DEF Init, MapInit, Typed

(* The threads keep the types.                                             *)
LEMMA StartRunsTypes ==
  ASSUME IInv, NEW r \in Requests, StartRuns(r)
  PROVE  TypeOK'
  <1> USE TypedIsTypeOK DEF IInv
  <1>1. Typed
    OBVIOUS
  <1>2. \/ \E kind \in StartKinds : Over(r, kind, NoJob) /\ UNCHANGED jobVars
        \/ \E j \in Jobs : Over(r, "replay", j) /\ UNCHANGED jobVars
        \/ Spawn(r)
    <2>1. CASE Contended(r) \/ Refused(r)
      BY <2>1 DEF Contended, Refused, StartKinds
    <2>2. CASE Keyed(r) /\ index[Of(r).key] # NoJob /\ Classified(r)
      <3>1. index[Of(r).key] \in Jobs
        BY <1>1, <2>2, ProfileFacts DEF Typed
      <3> QED BY <2>2, <3>1 DEF Classified, StartKinds
    <2> QED BY <2>1, <2>2 DEF StartRuns
  <1>3. ASSUME NEW kind \in StartKinds, NEW j \in Jobs \cup {NoJob}, Over(r, kind, j)
        PROVE  start' \in [Requests -> StartThread]
    BY <1>3, StartType
  <1>4. CASE Spawn(r)
    <2>1. PICK j \in FreshIds, epoch \in profile.epochs :
            /\ job' = [job EXCEPT ![j] = [NoRecord EXCEPT !.state = "running", !.key = Of(r).key,
                                                          !.args = Of(r).args, !.born = epoch]]
            /\ index' = IF Keyed(r) THEN [index EXCEPT ![Of(r).key] = j] ELSE index
            /\ Over(r, "created", j)
      BY <1>4, Zenon DEF Spawn
    <2>2. j \in Jobs /\ epoch \in Nat
      BY <1>1, ProfileFacts DEF FreshIds, Unborn, Typed
    <2>3. start' \in [Requests -> StartThread]
      BY <2>1, <2>2, <1>3 DEF StartKinds
    <2>4. [NoRecord EXCEPT !.state = "running", !.key = Of(r).key,
                           !.args = Of(r).args, !.born = epoch] \in Record
      BY <1>1, <2>2, NoRecordType, ProfileFacts DEF Typed, Record, JobStates
    <2>5. job' \in [Jobs -> Record] /\ index' \in [Keys -> Jobs \cup {NoJob}]
      BY <1>1, <2>1, <2>2, <2>4 DEF Typed
    <2> QED BY <1>1, <2>3, <2>5 DEF Typed, StartRuns, mapVars
  <1>5. CASE \/ \E kind \in StartKinds : Over(r, kind, NoJob) /\ UNCHANGED jobVars
             \/ \E j \in Jobs : Over(r, "replay", j) /\ UNCHANGED jobVars
    <2>1. start' \in [Requests -> StartThread]
      BY <1>3, <1>5 DEF StartKinds
    <2> QED BY <1>1, <1>5, <2>1 DEF Typed, StartRuns, jobVars, mapVars
  <1> QED BY <1>2, <1>4, <1>5

LEMMA ThreadTypes ==
  ASSUME IInv, NEW r \in Requests, StopRuns(r) \/ ReadRuns(r) \/ StampRuns(r)
  PROVE  TypeOK'
  <1> USE TypedIsTypeOK DEF IInv
  <1>1. Typed /\ RequestInv(r)
    BY DEF RInv
  <1>5. job \in [Jobs -> Record] /\ request \in [Requests -> Task]
    BY <1>1 DEF Typed
  <1>6. \A j \in Jobs, s \in JobStates : [job EXCEPT ![j].state = s] \in [Jobs -> Record]
    BY <1>5 DEF Record
  <1>7. \A saw \in JobStates \cup {Unread, "unreadable", "stamped"} :
          [request EXCEPT ![r].saw = saw] \in [Requests -> Task]
    BY <1>5 DEF Task
  <1>2. CASE StopRuns(r)
    <2>1. JobOf(r) \in Jobs
      BY <1>1, <1>2 DEF StopRuns, RequestInv, Halted, Typed, StartThread, JobOf
    <2>2. job' \in [Jobs -> Record]
      BY <1>2, <1>5, <1>6, <2>1, ZenonT(60) DEF StopRuns, Cancelled, JobStates, Final
    <2>3. stop' \in [Requests -> {"idle", "queued", "over"}]
      BY <1>1, <1>2 DEF StopRuns, Typed
    <2> QED BY <1>1, <1>2, <2>2, <2>3 DEF StopRuns, Typed, mapVars
  <1>3. CASE ReadRuns(r)
    <2>1. JobOf(r) \in Jobs
      BY <1>1, <1>3 DEF ReadRuns, RequestInv, Placed, At, Serving, Typed, StartThread, JobOf
    <2>2. PICK saw \in {job[JobOf(r)].state, "unreadable"} : request' = [request EXCEPT ![r].saw = saw]
      BY <1>3 DEF ReadRuns
    <2>3. saw \in JobStates \cup {Unread, "unreadable", "stamped"}
      BY <1>1, <2>1 DEF Typed, Record
    <2>4. request' \in [Requests -> Task]
      BY <1>7, <2>2, <2>3
    <2> QED BY <1>1, <1>3, <2>4 DEF ReadRuns, Typed, mapVars, jobVars, threadVars
  <1>4. CASE StampRuns(r)
    <2>1. job' \in [Jobs -> Record]
      <3>1. PICK b \in BOOLEAN : job' = [job EXCEPT ![JobOf(r)].delivered = b]
        BY <1>4 DEF StampRuns
      <3> QED BY <1>5, <3>1 DEF Record
    <2>2. request' \in [Requests -> Task]
      BY <1>4, <1>7 DEF StampRuns
    <2> QED BY <1>1, <1>4, <2>1, <2>2 DEF StampRuns, Typed, mapVars, threadVars
  <1> QED BY <1>2, <1>3, <1>4

-----------------------------------------------------------------------------
(* The map                                                                 *)
MapEntry == [task : Requests, job : Nat]

(* Pruning keeps the last MaxEntries entries.                              *)
LEMMA PrunedIsTail ==
  ASSUME NEW data \in Seq(MapEntry)
  PROVE  /\ Pruned(data) \in Seq(MapEntry)
         /\ Len(Pruned(data)) = IF Len(data) > MaxEntries THEN MaxEntries ELSE Len(data)
         /\ \A i \in 1..Len(Pruned(data)) :
              Pruned(data)[i] = data[Len(data) - Len(Pruned(data)) + i]
  <1>1. MaxEntries \in Nat \ {0} /\ Len(data) \in Nat
    BY TaskMapAssumption, LenProperties
  <1>2. CASE Len(data) > MaxEntries
    <2> DEFINE m == Len(data) - MaxEntries + 1
    <2>1. m \in Int /\ Pruned(data) = SubSeq(data, m, Len(data))
      BY <1>1, <1>2 DEF Pruned
    <2>2. \A i \in m..Len(data) : data[i] \in MapEntry
      BY <1>1, <1>2, ElementOfSeq
    <2>3. /\ SubSeq(data, m, Len(data)) \in Seq(MapEntry)
          /\ Len(SubSeq(data, m, Len(data))) = IF m <= Len(data) THEN Len(data) - m + 1 ELSE 0
          /\ \A i \in 1 .. Len(data) - m + 1 : SubSeq(data, m, Len(data))[i] = data[m + i - 1]
      <3> HIDE DEF m
      <3> QED BY <1>1, <2>1, <2>2, SubSeqProperties
    <2>4. Len(data) - m + 1 = MaxEntries /\ m <= Len(data)
      BY <1>1, <1>2
    <2>5. \A i \in 1..MaxEntries : m + i - 1 = Len(data) - MaxEntries + i
      BY <1>1
    <2> HIDE DEF m
    <2> QED BY <1>2, <2>1, <2>3, <2>4, <2>5
  <1>3. CASE ~(Len(data) > MaxEntries)
    <2>1. Pruned(data) = data
      BY <1>3 DEF Pruned
    <2>2. \A i \in 1..Len(data) : Len(data) - Len(data) + i = i
      BY <1>1
    <2> QED BY <1>1, <1>3, <2>1, <2>2
  <1> QED BY <1>2, <1>3

(* Entry by entry, the newest of what was recorded: IsSuffix.              *)
LEMMA NewestIsSuffix ==
  ASSUME taskMap \in Seq(MapEntry), recorded \in Seq(MapEntry), Newest
  PROVE  TaskMapKeepsNewest
  <1> DEFINE n == Len(taskMap)
             m == Len(recorded)
             s == Reverse(taskMap)
             t == Reverse(recorded)
  <1>1. MaxEntries \in Nat \ {0} /\ n \in Nat /\ m \in Nat /\ n <= m
    BY TaskMapAssumption, LenProperties DEF Newest
  <1>2. /\ s = [i \in 1..n |-> taskMap[(n - i) + 1]]
        /\ t = [i \in 1..m |-> recorded[(m - i) + 1]]
    BY DEF Reverse
  <1>3. s \in Seq(MapEntry) /\ Len(s) = n /\ t \in Seq(MapEntry) /\ Len(t) = m
    <2>1. ASSUME NEW i \in 1..n PROVE taskMap[(n - i) + 1] \in MapEntry
      <3>1. (n - i) + 1 \in 1..n
        BY <1>1
      <3> QED BY <3>1, ElementOfSeq
    <2>2. ASSUME NEW i \in 1..m PROVE recorded[(m - i) + 1] \in MapEntry
      <3>1. (m - i) + 1 \in 1..m
        BY <1>1
      <3> QED BY <3>1, ElementOfSeq
    <2>3. s \in [1..n -> MapEntry] /\ t \in [1..m -> MapEntry]
      BY <1>2, <2>1, <2>2
    <2> HIDE DEF s, t, n, m
    <2> QED BY <1>1, <2>3, SeqDef
  <1>4. ASSUME NEW i \in 1..n PROVE s[i] = t[i]
    <2>1. (n - i) + 1 \in 1..n /\ m - n + ((n - i) + 1) = (m - i) + 1 /\ i \in 1..m
      BY <1>1
    <2>2. taskMap[(n - i) + 1] = recorded[m - n + ((n - i) + 1)]
      BY <2>1 DEF Newest
    <2> HIDE DEF s, t, n, m
    <2> QED BY <1>2, <2>1, <2>2
  <1>5. SubSeq(s, 1, n) = SubSeq(t, 1, n)
    <2>1. \A i \in 1..n : s[i] \in MapEntry /\ t[i] \in MapEntry
      <3> HIDE DEF s, t, n, m
      <3> QED BY <1>3, <1>4, ElementOfSeq
    <2> HIDE DEF s, t, n, m
    <2>2. /\ SubSeq(s, 1, n) \in Seq(MapEntry)
          /\ Len(SubSeq(s, 1, n)) = IF 1 <= n THEN n - 1 + 1 ELSE 0
          /\ \A i \in 1..n - 1 + 1 : SubSeq(s, 1, n)[i] = s[1 + i - 1]
      BY <1>1, <2>1, SubSeqProperties
    <2>3. /\ SubSeq(t, 1, n) \in Seq(MapEntry)
          /\ Len(SubSeq(t, 1, n)) = IF 1 <= n THEN n - 1 + 1 ELSE 0
          /\ \A i \in 1..n - 1 + 1 : SubSeq(t, 1, n)[i] = t[1 + i - 1]
      BY <1>1, <2>1, SubSeqProperties
    <2>4. \A i \in 1..n : 1 + i - 1 = i /\ n - 1 + 1 = n
      BY <1>1
    <2>5. Len(SubSeq(s, 1, n)) = n /\ Len(SubSeq(t, 1, n)) = n
      BY <1>1, <2>2, <2>3
    <2>6. \A i \in 1..n : SubSeq(s, 1, n)[i] = SubSeq(t, 1, n)[i]
      BY <1>1, <1>4, <2>2, <2>3, <2>4
    <2> QED BY <2>2, <2>3, <2>5, <2>6, SeqEqual
  <1>6. IsPrefix(s, t)
    <2> HIDE DEF s, t, n, m
    <2> QED BY <1>1, <1>3, <1>5 DEF IsPrefix
  <1> QED BY <1>6 DEF TaskMapKeepsNewest, IsSuffix, Newest

(* A thread of the writer keeps the file the tail of what was recorded.    *)
LEMMA WriterKeepsMap ==
  ASSUME IInv, NEW r \in Requests, Writer(r)
  PROVE  /\ taskMap' \in Seq(MapEntry) /\ mapLock' \subseteq Requests
         /\ writer' \in [Requests -> WriterThread] /\ recorded' \in Seq(MapEntry)
         /\ \A i \in DOMAIN taskMap' : taskMap'[i].job \in Jobs
         /\ MInv'
         /\ \A q \in Requests : q # r => writer'[q] = writer[q]
         /\ writer[r].at # "idle" /\ writer'[r].at # "idle" /\ writer'[r].job = writer[r].job
  <1>1. /\ taskMap \in Seq(MapEntry) /\ mapLock \subseteq Requests
        /\ writer \in [Requests -> WriterThread] /\ recorded \in Seq(MapEntry)
        /\ \A i \in DOMAIN taskMap : taskMap[i].job \in Jobs
    BY TypedIsTypeOK DEF IInv, Typed, MapEntry
  <1>2. LockInv /\ WrittenOnce /\ Newest
    BY DEF IInv, MInv
  <1>3. writer[r].at # "idle" => writer[r].job \in Jobs
    BY DEF IInv, RInv, RequestInv, Written
  <1>4. <<>> \in Seq(MapEntry) /\ WriterThread = [at : WriterStates, job : Nat, data : Seq(MapEntry)]
    BY EmptySeq DEF WriterThread, MapEntry
  <1>5. CASE WriterLocks(r)
    <2>1. writer' \in [Requests -> WriterThread] /\ writer'[r].at = "locked"
          /\ writer'[r].job = writer[r].job /\ \A q \in Requests : q # r => writer'[q] = writer[q]
      BY <1>1, <1>5 DEF WriterLocks, WriterThread, WriterStates
    <2>2. LockInv'
      BY <1>1, <1>2, <1>5, <2>1 DEF WriterLocks, LockInv
    <2>3. WrittenOnce'
      BY <1>1, <1>2, <1>5, <2>1 DEF WriterLocks, WrittenOnce
    <2> QED BY <1>1, <1>2, <1>5, <2>1, <2>2, <2>3 DEF WriterLocks, Newest, MInv
  <1>6. CASE WriterGivesUp(r)
    <2>1. writer' \in [Requests -> WriterThread] /\ writer'[r].at = "failed"
          /\ writer'[r].job = writer[r].job /\ \A q \in Requests : q # r => writer'[q] = writer[q]
      BY <1>1, <1>6 DEF WriterGivesUp, WriterThread, WriterStates
    <2>2. LockInv'
      BY <1>1, <1>2, <1>6, <2>1 DEF WriterGivesUp, LockInv
    <2>3. WrittenOnce'
      BY <1>1, <1>2, <1>6, <2>1 DEF WriterGivesUp, WrittenOnce
    <2> QED BY <1>1, <1>2, <1>6, <2>1, <2>2, <2>3 DEF WriterGivesUp, Newest, MInv
  <1>7. CASE WriterReads(r)
    <2>1. writer' \in [Requests -> WriterThread] /\ writer'[r].at = "read" /\ writer'[r].data = taskMap
          /\ writer'[r].job = writer[r].job /\ \A q \in Requests : q # r => writer'[q] = writer[q]
      BY <1>1, <1>4, <1>7 DEF WriterReads, WriterStates
    <2>2. LockInv'
      BY <1>1, <1>2, <1>7, <2>1 DEF WriterReads, LockInv
    <2>3. WrittenOnce'
      <3>1. ASSUME NEW i \in DOMAIN recorded PROVE writer'[recorded[i].task].at = "done"
        <4>1. recorded[i] \in MapEntry
          BY <1>1, ElementOfSeq, LenProperties
        <4>2. recorded[i].task \in Requests /\ writer[recorded[i].task].at = "done"
          BY <1>2, <4>1 DEF WrittenOnce, MapEntry
        <4> QED BY <1>7, <2>1, <4>2 DEF WriterReads
      <3> QED BY <1>7, <3>1 DEF WriterReads, WrittenOnce
    <2> QED BY <1>1, <1>2, <1>7, <2>1, <2>2, <2>3 DEF WriterReads, Newest, MInv
  <1>8. CASE WriterWrites(r)
    <2> DEFINE e == Entry(r, writer[r].job)
               longer == Append(taskMap, e)
    <2>1. writer' \in [Requests -> WriterThread] /\ writer'[r].at = "done"
          /\ writer'[r].job = writer[r].job /\ \A q \in Requests : q # r => writer'[q] = writer[q]
      BY <1>1, <1>4, <1>8 DEF WriterWrites, WriterStates
    <2>2. e \in MapEntry /\ e.job \in Jobs /\ e.task = r
      BY <1>3, <1>8, Constants DEF WriterWrites, Entry, MapEntry
    <2>3. /\ Len(taskMap) \in Nat /\ Len(recorded) \in Nat /\ Len(taskMap) <= Len(recorded)
          /\ DOMAIN taskMap = 1..Len(taskMap) /\ DOMAIN recorded = 1..Len(recorded)
          /\ MaxEntries \in Nat \ {0}
      BY <1>1, <1>2, LenProperties, TaskMapAssumption DEF Newest
    <2>4. writer[r].data = taskMap
      BY <1>2, <1>8 DEF WriterWrites, LockInv
    <2>5. \A i \in DOMAIN taskMap : taskMap[i].task # r
      <3> SUFFICES ASSUME NEW i \in 1..Len(taskMap), taskMap[i].task = r PROVE FALSE
        BY <2>3
      <3> DEFINE k == Len(recorded) - Len(taskMap) + i
      <3>1. k \in DOMAIN recorded /\ recorded[k].task = r
        <4>1. taskMap[i] = recorded[k]
          BY <1>2 DEF Newest
        <4>2. k \in 1..Len(recorded)
          BY <2>3
        <4> HIDE DEF k
        <4> QED BY <2>3, <4>1, <4>2
      <3>2. writer[recorded[k].task].at = "done"
        BY <1>2, <3>1 DEF WrittenOnce
      <3> QED BY <3>1, <3>2, <1>8 DEF WriterWrites
    <2>6. taskMap' = Pruned(longer)
      BY <1>8, <2>4, <2>5 DEF WriterWrites, With
    <2>7. /\ longer \in Seq(MapEntry) /\ Len(longer) = Len(taskMap) + 1
          /\ \A i \in 1..Len(taskMap) : longer[i] = taskMap[i]
          /\ longer[Len(taskMap) + 1] = e
      BY <1>1, <2>2, AppendProperties
    <2>8. /\ recorded' \in Seq(MapEntry) /\ Len(recorded') = Len(recorded) + 1
          /\ \A i \in 1..Len(recorded) : recorded'[i] = recorded[i]
          /\ recorded'[Len(recorded) + 1] = e
          /\ DOMAIN recorded' = 1..Len(recorded) + 1
      <3>1. recorded' = Append(recorded, e)
        BY <1>8 DEF WriterWrites
      <3> HIDE DEF e
      <3>2. recorded' \in Seq(MapEntry) /\ Len(recorded') = Len(recorded) + 1
        BY <1>1, <2>2, <3>1, AppendProperties
      <3> QED BY <1>1, <2>2, <3>1, <3>2, AppendProperties, LenProperties
    <2> HIDE DEF e, longer
    <2>9. /\ taskMap' \in Seq(MapEntry)
          /\ Len(taskMap') = IF Len(taskMap) + 1 > MaxEntries THEN MaxEntries ELSE Len(taskMap) + 1
          /\ \A i \in 1..Len(taskMap') : taskMap'[i] = longer[Len(taskMap) + 1 - Len(taskMap') + i]
          /\ DOMAIN taskMap' = 1..Len(taskMap')
      <3>1. /\ Pruned(longer) \in Seq(MapEntry)
            /\ Len(Pruned(longer)) = IF Len(longer) > MaxEntries THEN MaxEntries ELSE Len(longer)
            /\ \A i \in 1..Len(Pruned(longer)) :
                 Pruned(longer)[i] = longer[Len(longer) - Len(Pruned(longer)) + i]
        BY <2>7, PrunedIsTail
      <3>2. DOMAIN taskMap' = 1..Len(taskMap')
        BY <2>6, <3>1, LenProperties
      <3> QED BY <2>6, <2>7, <3>1, <3>2
    <2>10. ASSUME NEW i \in 1..Len(taskMap')
           PROVE  /\ taskMap'[i] = recorded'[Len(recorded) + 1 - Len(taskMap') + i]
                  /\ taskMap'[i].job \in Jobs
      <3> DEFINE k == Len(taskMap) + 1 - Len(taskMap') + i
                 m == Len(recorded) + 1 - Len(taskMap') + i
      <3>1. /\ k \in 1..Len(taskMap) + 1 /\ m = Len(recorded) - Len(taskMap) + k
            /\ m \in Int
        BY <2>3, <2>9
      <3>2. taskMap'[i] = longer[k]
        BY <2>9
      <3> HIDE DEF k, m
      <3>3. CASE k = Len(taskMap) + 1
        <4>1. m = Len(recorded) + 1
          BY <2>3, <3>1, <3>3
        <4>2. taskMap'[i] = e /\ recorded'[m] = e
          BY <2>7, <2>8, <3>2, <3>3, <4>1
        <4> QED BY <2>2, <4>2 DEF m
      <3>4. CASE k \in 1..Len(taskMap)
        <4>1. m \in 1..Len(recorded)
          BY <2>3, <3>1, <3>4
        <4>2. taskMap'[i] = taskMap[k] /\ recorded'[m] = recorded[m]
          BY <2>7, <2>8, <3>2, <3>4, <4>1
        <4>3. taskMap[k] = recorded[Len(recorded) - Len(taskMap) + k]
          BY <1>2, <3>4 DEF Newest
        <4>4. taskMap[k].job \in Jobs
          BY <1>1, <2>3, <3>4
        <4> QED BY <3>1, <4>2, <4>3, <4>4 DEF m
      <3> QED BY <2>3, <3>1, <3>3, <3>4
    <2>11. Newest'
      <3>1. Len(taskMap') = IF Len(recorded') > MaxEntries THEN MaxEntries ELSE Len(recorded')
        BY <1>2, <2>3, <2>8, <2>9 DEF Newest
      <3>2. \A i \in 1..Len(taskMap') : taskMap'[i] = recorded'[Len(recorded') - Len(taskMap') + i]
        BY <2>8, <2>10
      <3> QED BY <3>1, <3>2 DEF Newest
    <2>12. LockInv'
      <3>1. mapLock = {r} /\ mapLock' = {}
        BY <1>1, <1>2, <1>8 DEF WriterWrites, LockInv
      <3>2. \A q \in Requests : writer'[q].at \notin {"locked", "read"}
        BY <1>2, <2>1, <3>1 DEF LockInv
      <3> QED BY <3>1, <3>2 DEF LockInv
    <2>13. WrittenOnce'
      <3> SUFFICES ASSUME NEW i \in 1..Len(recorded) + 1
                   PROVE  writer'[recorded'[i].task].at = "done"
        BY <2>8 DEF WrittenOnce
      <3>1. CASE i = Len(recorded) + 1
        BY <2>1, <2>2, <2>8, <3>1
      <3>2. CASE i \in 1..Len(recorded)
        <4>1. recorded'[i] = recorded[i] /\ recorded[i] \in MapEntry
          BY <1>1, <2>8, <3>2, ElementOfSeq
        <4>2. writer[recorded[i].task].at = "done" /\ recorded[i].task \in Requests
          BY <1>2, <2>3, <3>2, <4>1 DEF WrittenOnce, MapEntry
        <4> QED BY <2>1, <4>1, <4>2
      <3> QED BY <2>3, <3>1, <3>2
    <2>14. mapLock' \subseteq Requests /\ writer[r].at # "idle"
      BY <1>1, <1>8 DEF WriterWrites
    <2> QED BY <2>1, <2>8, <2>9, <2>10, <2>11, <2>12, <2>13, <2>14 DEF MInv
  <1> QED BY <1>5, <1>6, <1>7, <1>8 DEF Writer

-----------------------------------------------------------------------------
(* The tasks and what happens around them keep the types.                  *)

LEMMA WriterTypes ==
  ASSUME IInv, NEW r \in Requests, WriterRuns(r)
  PROVE  TypeOK'
  <1>1. Typed
    BY TypedIsTypeOK DEF IInv
  <1>2. Writer(r) /\ UNCHANGED <<profile, jobVars, threadVars, request, pager>>
    BY DEF WriterRuns
  <1>3. /\ taskMap' \in Seq([task : Requests, job : Nat]) /\ mapLock' \subseteq Requests
        /\ writer' \in [Requests -> WriterThread]
        /\ recorded' \in Seq([task : Requests, job : Nat])
        /\ \A i \in DOMAIN taskMap' : taskMap'[i].job \in Jobs
    BY <1>2, WriterKeepsMap DEF MapEntry
  <1>4. Typed'
    BY <1>1, <1>2, <1>3 DEF Typed, jobVars, threadVars
  <1> QED BY <1>4, TypedIsTypeOK

(* A task that keeps the record and start sets, and its neighbours'.       *)
LEMMA TaskTypes ==
  ASSUME IInv, NEW r \in Requests, Begin(r) \/ Resume(r) \/ Cancel(r) \/ CallBack(r)
  PROVE  TypeOK'
  <1>1. Typed /\ TypeOK /\ RequestInv(r)
    BY TypedIsTypeOK DEF IInv, RInv
  <1>2. \A place \in Places : Goes(r, place) \/ Leaves(r, place) => request' \in [Requests -> Task]
    BY <1>1, GoesType
  <1>3. \A code \in Codes, j \in Jobs \cup {NoJob} : Answers(r, code, j) => request' \in [Requests -> Task]
    BY <1>1, GoesType DEF Places
  <1>4. start[r] \in StartThread /\ JobOf(r) \in Jobs \cup {NoJob} /\ request[r] \in Task
    BY <1>1 DEF Typed, StartThread, JobOf
  <1>5. JobOf(r) # NoJob /\ Records(r, JobOf(r)) => writer' \in [Requests -> WriterThread]
    BY <1>1, <1>4, RecordsType
  <1>6. Starts(r) \/ start' = [start EXCEPT ![r] = NoStart] => start' \in [Requests -> StartThread]
    BY <1>1, StartType
  <1>7. Stops(r) => stop' \in [Requests -> {"idle", "queued", "over"}]
    BY <1>1, StopType
  <1>8. JobOf(r) # NoJob /\ Attached(r) =>
          request' \in [Requests -> Task] /\ writer' \in [Requests -> WriterThread]
    BY <1>1, <1>2, <1>5 DEF Attached, Places, Typed
  <1>9. start[r].kind \in {"created", "replay"} <=> JobOf(r) # NoJob
    BY <1>1 DEF RequestInv, Named
  <1>10. start[r].kind \notin {"created", "replay"} => start[r].kind \in Codes
    BY <1>4 DEF StartThread, StartKinds, Codes
  <1>11. request[r].at \in Serving => JobOf(r) # NoJob
    BY <1>1 DEF RequestInv, Placed
  <1>12. /\ request \in [Requests -> Task] /\ writer \in [Requests -> WriterThread]
         /\ start \in [Requests -> StartThread] /\ callback \in [Requests -> {"none", "stop", "record"}]
         /\ stop \in [Requests -> {"idle", "queued", "over"}]
    BY <1>1 DEF Typed
  <1> DEFINE Kept4 == /\ request' \in [Requests -> Task] /\ writer' \in [Requests -> WriterThread]
                      /\ start' \in [Requests -> StartThread]
                      /\ stop' \in [Requests -> {"idle", "queued", "over"}]
  <1>13. CASE Begin(r)
    <2>1. Kept4
      BY <1>2, <1>6, <1>12, <1>13 DEF Begin, Places, mapVars
    <2>2. Typed'
      BY <1>1, <1>13, <2>1 DEF Begin, Typed, jobVars, mapVars
    <2> QED BY <2>2, TypedIsTypeOK
  <1>14. CASE Resume(r)
    <2>1. Started(r) => Kept4 /\ Quiet(r)
      BY <1>2, <1>3, <1>8, <1>9, <1>10, <1>12, <1>4 DEF Started, Codes
    <2>2. Reserved(r) => Kept4 /\ Quiet(r)
      BY <1>2, <1>3, <1>8, <1>9, <1>10, <1>12, <1>4 DEF Reserved, Codes, Places
    <2>3. AskAgain(r) => Kept4 /\ Quiet(r)
      BY <1>2, <1>6, <1>12 DEF AskAgain, Places
    <2>4. Checked(r) => Kept4 /\ Quiet(r)
      BY <1>3, <1>4, <1>8, <1>11, <1>12 DEF Checked, Codes, At, Serving
    <2>5. Recorded(r) => Kept4 /\ Quiet(r)
      BY <1>2, <1>12 DEF Recorded, Places
    <2>6. Polled(r) => Kept4 /\ Quiet(r)
      BY <1>2, <1>3, <1>4, <1>7, <1>12 DEF Polled, Places, Codes
    <2>7. Expired(r) => Kept4 /\ Quiet(r)
      BY <1>3, <1>4, <1>12 DEF Expired, Codes
    <2>8. Fetched(r) => Kept4 /\ Quiet(r)
      <3>1. request[r].saw \in Final \ {"done"} => ErrorOf(request[r].saw) \in Codes
        BY DEF Final, ErrorOf, Codes
      <3> QED BY <1>2, <1>3, <1>4, <1>12, <3>1 DEF Fetched, Places, Codes
    <2>9. Delivered(r) => Kept4 /\ Quiet(r)
      BY <1>3, <1>4, <1>12 DEF Delivered, Codes
    <2>10. Stopped(r) => Kept4 /\ Quiet(r)
      BY <1>2, <1>12 DEF Stopped, Places
    <2>11. Kept4 /\ Quiet(r)
      BY <1>14, <2>1, <2>2, <2>3, <2>4, <2>5, <2>6, <2>7, <2>8, <2>9, <2>10 DEF Resume
    <2>12. Typed'
      BY <1>1, <2>11 DEF Quiet, Typed, jobVars
    <2> QED BY <2>12, TypedIsTypeOK
  <1>15. CASE Cancel(r)
    <2> DEFINE Kept5 == Kept4 /\ callback' \in [Requests -> {"none", "stop", "record"}]
    <2>1. CancelStarting(r) => Kept5
      BY <1>2, <1>12 DEF CancelStarting, Abandons, Places
    <2>2. CancelReserving(r) => Kept5
      BY <1>2, <1>6, <1>12 DEF CancelReserving, Abandons, Places
    <2>3. CancelWaiting(r) => Kept5
      <3>1. writer' = [writer EXCEPT ![r].at = "dropped"] => writer' \in [Requests -> WriterThread]
        <4>1. "dropped" \in WriterStates
          BY DEF WriterStates
        <4> QED BY <1>12, <4>1, ZenonT(60) DEF WriterThread
      <3> QED BY <1>2, <1>7, <1>12, <3>1 DEF CancelWaiting, Places
    <2>4. CancelElsewhere(r) => Kept5
      BY <1>2, <1>12 DEF CancelElsewhere, Places
    <2>5. Kept5 /\ UNCHANGED <<profile, jobVars, pager, taskMap, mapLock, recorded>>
      BY <1>15, <2>1, <2>2, <2>3, <2>4 DEF Cancel
    <2>6. Typed'
      BY <1>1, <2>5 DEF Typed, jobVars
    <2> QED BY <2>6, TypedIsTypeOK
  <1>16. CASE CallBack(r)
    <2>1. Kept4 /\ callback' \in [Requests -> {"none", "stop", "record"}]
      BY <1>5, <1>7, <1>12, <1>16 DEF CallBack
    <2>2. Typed'
      BY <1>1, <1>16, <2>1 DEF CallBack, Typed, jobVars
    <2> QED BY <2>2, TypedIsTypeOK
  <1> QED BY <1>13, <1>14, <1>15, <1>16

LEMMA JobTypes ==
  ASSUME IInv, NEW j \in Jobs, JobEnds(j) \/ JobCancelTool(j) \/ JobRemoved(j)
  PROVE  TypeOK'
  <1>1. Typed
    BY TypedIsTypeOK DEF IInv
  <1>2. job \in [Jobs -> Record]
    BY <1>1 DEF Typed
  <1>3. \A s \in JobStates, b \in BOOLEAN : /\ [job EXCEPT ![j].state = s] \in [Jobs -> Record]
                                           /\ [job EXCEPT ![j].state = s, ![j].asked = b] \in [Jobs -> Record]
    BY <1>2, ZenonT(60) DEF Record
  <1>4. Final \cup {"gone"} \subseteq JobStates
    BY DEF JobStates
  <1>5. CASE JobEnds(j)
    <2>1. job' \in [Jobs -> Record]
      <3>1. PICK s \in Final : job' = [job EXCEPT ![j].state = s]
        BY <1>5 DEF JobEnds, Final
      <3> QED BY <1>3, <1>4, <3>1
    <2>2. Typed'
      BY <1>1, <1>5, <2>1 DEF JobEnds, Around, Typed, threadVars, mapVars
    <2> QED BY <2>2, TypedIsTypeOK
  <1>6. CASE JobCancelTool(j)
    <2>1. job' \in [Jobs -> Record]
      <3>1. PICK s \in Final : job' = [job EXCEPT ![j].state = s, ![j].asked = TRUE]
        BY <1>6 DEF JobCancelTool, Final
      <3> QED BY <1>3, <1>4, <3>1
    <2>2. Typed'
      BY <1>1, <1>6, <2>1 DEF JobCancelTool, Around, Typed, threadVars, mapVars
    <2> QED BY <2>2, TypedIsTypeOK
  <1>7. CASE JobRemoved(j)
    <2>1. job' \in [Jobs -> Record]
      BY <1>3, <1>4, <1>7 DEF JobRemoved
    <2>2. pager' \in [at : {"idle", "paging", "done"}, anchor : Row, listed : Seq(Jobs), must : SUBSET Jobs]
      BY <1>1, <1>7 DEF JobRemoved, Typed
    <2>3. Typed'
      BY <1>1, <1>7, <2>1, <2>2 DEF JobRemoved, Around, Typed, threadVars, mapVars
    <2> QED BY <2>3, TypedIsTypeOK
  <1> QED BY <1>5, <1>6, <1>7

(* The rows of a listing: finitely many, one for every job that is kept.   *)
LEMMA RowsType ==
  ASSUME IInv
  PROVE  /\ Kept \subseteq Jobs
         /\ Rows \in SUBSET Row /\ IsFiniteSet(Rows)
         /\ \A row \in Rows : row.id \in Kept /\ row = RowOf(row.id)
         /\ \A j \in Kept : RowOf(j) \in Rows /\ RowOf(j) \in Row /\ RowOf(j).id = j
  <1>1. job \in [Jobs -> Record]
    BY TypedIsTypeOK DEF IInv, Typed
  <1>2. Kept \subseteq Jobs
    BY DEF Kept
  <1>3. ASSUME NEW j \in Kept PROVE RowOf(j) \in Row
    <2>1. job[j].born \in Nat /\ j \in Nat
      BY <1>1, <1>2, Constants DEF Record
    <2> QED BY <2>1 DEF RowOf, Row
  <1>4. Rows = {RowOf(j) : j \in Kept}
    BY DEF Rows, RowOf
  <1>5. IsFiniteSet(Rows)
    <2>1. IsFiniteSet(Kept)
      BY <1>2, Constants, FS_Subset
    <2> DEFINE f == [j \in Kept |-> RowOf(j)]
    <2>2. f \in Surjection(Kept, Rows)
      <3>1. f \in [Kept -> Rows] /\ \A row \in Rows : \E j \in Kept : f[j] = row
        BY <1>4
      <3> QED BY <3>1 DEF Surjection
    <2> QED BY <2>1, <2>2, FS_Surjection
  <1>6. \A j \in Kept : RowOf(j).id = j
    BY DEF RowOf
  <1> QED BY <1>2, <1>3, <1>4, <1>5, <1>6

(* What a page adds to the list.                                           *)
Shown == [i \in DOMAIN Page(Rows, pager.anchor).rows |-> Page(Rows, pager.anchor).rows[i].id]

LEMMA ListPageTypes ==
  ASSUME IInv, ListPage
  PROVE  /\ TypeOK'
         /\ Shown \in Seq(Kept) /\ DOMAIN Shown = DOMAIN Page(Rows, pager.anchor).rows
         /\ \A i \in DOMAIN Shown : RowOf(Shown[i]) = Page(Rows, pager.anchor).rows[i]
  <1> DEFINE page == Page(Rows, pager.anchor)
  <1>1. Typed
    BY TypedIsTypeOK DEF IInv
  <1>2. pager.anchor \in Row /\ pager.listed \in Seq(Jobs) /\ pager.must \in SUBSET Jobs
    BY <1>1 DEF Typed
  <1>3. /\ page.hasMore \in BOOLEAN /\ page.rows \in Seq(Rows)
        /\ page.hasMore => Len(page.rows) \in DOMAIN page.rows
    BY <1>2, RowsType, PageIsAPrefix
  <1> HIDE DEF page
  <1>4. /\ Len(page.rows) \in Nat /\ DOMAIN page.rows = 1..Len(page.rows)
        /\ \A i \in DOMAIN page.rows : page.rows[i] \in Rows
    BY <1>3, LenProperties, ElementOfSeq
  <1>5. Shown = [i \in DOMAIN page.rows |-> page.rows[i].id]
    BY DEF Shown, page
  <1>6. /\ Shown \in Seq(Kept) /\ DOMAIN Shown = DOMAIN page.rows
        /\ \A i \in DOMAIN Shown : RowOf(Shown[i]) = page.rows[i]
    <2>1. Shown \in [1..Len(page.rows) -> Kept]
      BY <1>4, <1>5, RowsType
    <2>2. Shown \in Seq(Kept)
      BY <1>4, <2>1, SeqDef
    <2> QED BY <1>4, <1>5, <2>1, <2>2, RowsType
  <1>7. pager.listed \o Shown \in Seq(Jobs)
    <2>1. Shown \in Seq(Jobs)
      BY <1>6, RowsType, SeqMonotonic
    <2> QED BY <1>2, <2>1, ConcatProperties
  <1>8. page.hasMore => Last(page.rows) \in Row
    BY <1>3, <1>4, RowsType DEF Last
  <1>9. FirstPage \in Row
    BY DEF FirstPage, Row
  <1>10. pager' = [at |-> IF page.hasMore THEN "paging" ELSE "done",
                   anchor |-> IF page.hasMore THEN Last(page.rows) ELSE FirstPage,
                   listed |-> pager.listed \o Shown,
                   must |-> IF pager.at = "idle" THEN Kept ELSE pager.must]
    BY DEF ListPage, Shown, page
  <1>11. pager' \in [at : {"idle", "paging", "done"}, anchor : Row, listed : Seq(Jobs), must : SUBSET Jobs]
    BY <1>2, <1>7, <1>8, <1>9, <1>10, RowsType
  <1>12. Typed'
    BY <1>1, <1>11 DEF ListPage, Typed, jobVars, threadVars, mapVars
  <1> QED BY <1>6, <1>12, TypedIsTypeOK DEF page

(* What a request, with its threads and callback, does in one step.        *)
RequestStep(r) == Begin(r) \/ Thread(r) \/ Resume(r) \/ Cancel(r) \/ CallBack(r)

LEMMA StepTypes ==
  ASSUME IInv, [Next]_vars
  PROVE  TypeOK'
  <1>1. ASSUME NEW r \in Requests, RequestStep(r) PROVE TypeOK'
    BY <1>1, StartRunsTypes, ThreadTypes, WriterTypes, TaskTypes DEF RequestStep, Thread
  <1>2. ASSUME NEW j \in Jobs, JobEnds(j) \/ JobCancelTool(j) \/ JobRemoved(j) PROVE TypeOK'
    BY <1>2, JobTypes
  <1>3. CASE ListPage
    BY <1>3, ListPageTypes
  <1>4. CASE UNCHANGED vars
    <2>1. Typed'
      BY <1>4, TypedIsTypeOK DEF IInv, Typed, vars, jobVars, threadVars, mapVars
    <2> QED BY <2>1, TypedIsTypeOK
  <1> QED BY <1>1, <1>2, <1>3, <1>4 DEF Next, RequestStep, Finished

-----------------------------------------------------------------------------
(* Jobs move forward: what a record says of its call never changes, and an *)
(* end is only followed by the removal of the record.                      *)
Moves(j) ==
  /\ job[j].state # "none" => /\ job'[j].state # "none" /\ job'[j].key = job[j].key
                              /\ job'[j].args = job[j].args /\ job'[j].born = job[j].born
  /\ job[j].state \in Final => job'[j].state \in {job[j].state, "gone"}
  /\ job[j].state = "gone" => job'[j].state = "gone"

LEMMA JobsMove ==
  ASSUME IInv, [Next]_vars
  PROVE  \A j \in Jobs : Moves(j)
  <1>1. job \in [Jobs -> Record]
    BY TypedIsTypeOK DEF IInv, Typed
  <1>2. UNCHANGED job => \A j \in Jobs : Moves(j)
    BY DEF Moves
  <1>3. ASSUME NEW i \in Jobs, NEW s \in {"none", "done"} \cup Final \cup {"gone"}, NEW b \in BOOLEAN,
               \/ job' = [job EXCEPT ![i].state = s] \/ job' = [job EXCEPT ![i].state = s, ![i].asked = b],
               \/ job[i].state = "running" /\ s \in Final
               \/ job[i].state \in Final /\ s = "gone"
        PROVE  \A j \in Jobs : Moves(j)
    BY <1>1, <1>3 DEF Moves, Record, Final
  <1>4. ASSUME NEW r \in Requests, Thread(r) PROVE \A j \in Jobs : Moves(j)
    <2>1. CASE StartRuns(r)
      <3>1. CASE Spawn(r)
        <4>1. PICK i \in FreshIds : \E x : job' = [job EXCEPT ![i] = x]
          BY <3>1 DEF Spawn
        <4>2. i \in Jobs /\ job[i].state = "none"
          BY DEF FreshIds, Unborn
        <4> QED BY <1>1, <4>1, <4>2 DEF Moves, Final
      <3>2. CASE ~Spawn(r)
        <4>1. UNCHANGED job
          BY <2>1, <3>2 DEF StartRuns, Contended, Refused, Classified, jobVars
        <4> QED BY <1>2, <4>1
      <3> QED BY <3>1, <3>2
    <2>2. CASE StopRuns(r)
      <3>1. CASE job[JobOf(r)].state = "running"
        <4>1. PICK s \in Final : job' = [job EXCEPT ![JobOf(r)].state = s]
          BY <2>2, <3>1 DEF StopRuns, Cancelled, Final
        <4>2. JobOf(r) \in Jobs
          BY <2>2, TypedIsTypeOK
          DEF StopRuns, IInv, RInv, RequestInv, Halted, Typed, StartThread, JobOf
        <4> QED BY <1>3, <3>1, <4>1, <4>2
      <3>2. CASE job[JobOf(r)].state # "running"
        BY <1>2, <2>2, <3>2 DEF StopRuns, Cancelled
      <3> QED BY <3>1, <3>2
    <2>3. CASE StampRuns(r)
      <3>1. PICK b \in BOOLEAN : job' = [job EXCEPT ![JobOf(r)].delivered = b]
        BY <2>3 DEF StampRuns
      <3> QED BY <1>1, <3>1 DEF Moves, Record, Final
    <2>4. CASE ReadRuns(r) \/ WriterRuns(r)
      BY <1>2, <2>4 DEF ReadRuns, WriterRuns, jobVars
    <2> QED BY <1>4, <2>1, <2>2, <2>3, <2>4 DEF Thread
  <1>5. ASSUME NEW r \in Requests, Begin(r) \/ Resume(r) \/ Cancel(r) \/ CallBack(r)
        PROVE  \A j \in Jobs : Moves(j)
    <2>1. UNCHANGED job
      BY <1>5 DEF Begin, Resume, Started, Reserved, AskAgain, Checked, Recorded, Polled, Expired,
                  Fetched, Delivered, Stopped, Quiet, Cancel, CallBack, jobVars
    <2> QED BY <1>2, <2>1
  <1>6. ASSUME NEW i \in Jobs, JobEnds(i) \/ JobCancelTool(i) \/ JobRemoved(i)
        PROVE  \A j \in Jobs : Moves(j)
    <2>1. CASE JobEnds(i)
      <3>1. PICK s \in Final : job' = [job EXCEPT ![i].state = s]
        BY <2>1 DEF JobEnds, Final
      <3> QED BY <1>3, <2>1, <3>1 DEF JobEnds
    <2>2. CASE JobCancelTool(i)
      <3>1. PICK s \in Final : job' = [job EXCEPT ![i].state = s, ![i].asked = TRUE]
        BY <2>2 DEF JobCancelTool, Final
      <3> QED BY <1>3, <2>2, <3>1 DEF JobCancelTool
    <2>3. CASE JobRemoved(i)
      BY <1>3, <2>3 DEF JobRemoved
    <2> QED BY <1>6, <2>1, <2>2, <2>3
  <1>7. CASE ListPage \/ UNCHANGED vars
    BY <1>2, <1>7 DEF ListPage, vars, jobVars
  <1> QED BY <1>4, <1>5, <1>6, <1>7 DEF Next, Finished

-----------------------------------------------------------------------------
(* A step of one request leaves the others', and a step that leaves a      *)
(* request alone leaves what is known of it.                               *)
Alone(q) ==
  /\ request'[q] = request[q] /\ start'[q] = start[q] /\ stop'[q] = stop[q]
  /\ callback'[q] = callback[q] /\ writer'[q] = writer[q]

LEMMA OthersAlone ==
  ASSUME IInv, NEW r \in Requests, RequestStep(r), NEW q \in Requests, q # r
  PROVE  Alone(q) /\ profile' = profile /\ pager' = pager
  <1>1. /\ request \in [Requests -> Task] /\ writer \in [Requests -> WriterThread]
        /\ start \in [Requests -> StartThread] /\ callback \in [Requests -> {"none", "stop", "record"}]
        /\ stop \in [Requests -> {"idle", "queued", "over"}]
    BY TypedIsTypeOK DEF IInv, Typed
  <1> DEFINE Rest == /\ request'[q] = request[q] /\ start'[q] = start[q] /\ stop'[q] = stop[q]
                     /\ writer'[q] = writer[q]
  <1>2. /\ \A place : Goes(r, place) \/ Leaves(r, place) => request'[q] = request[q]
        /\ \A code, j : Answers(r, code, j) => request'[q] = request[q]
    BY <1>1 DEF Goes, Leaves, Answers
  <1>3. /\ \A kind, j : Over(r, kind, j) => start'[q] = start[q]
        /\ Starts(r) \/ start' = [start EXCEPT ![r] = NoStart] => start'[q] = start[q]
        /\ Stops(r) => stop'[q] = stop[q]
        /\ \A j : Records(r, j) => writer'[q] = writer[q]
        /\ \A what : callback' = [callback EXCEPT ![r] = what] => callback'[q] = callback[q]
    BY <1>1 DEF Over, Starts, Stops, Records
  <1>4. Attached(r) => request'[q] = request[q] /\ writer'[q] = writer[q]
    BY <1>2, <1>3 DEF Attached
  <1>5. CASE Begin(r)
    BY <1>2, <1>3, <1>5 DEF Begin, Alone, mapVars
  <1>6. CASE Thread(r)
    <2>1. CASE StartRuns(r)
      BY <1>3, <2>1 DEF StartRuns, Spawn, Refused, Classified, Contended, Alone, mapVars
    <2>2. CASE StopRuns(r) \/ ReadRuns(r) \/ StampRuns(r)
      BY <1>1, <2>2 DEF StopRuns, ReadRuns, StampRuns, Alone, mapVars, threadVars
    <2>3. CASE WriterRuns(r)
      BY <2>3, WriterKeepsMap DEF WriterRuns, Alone, threadVars
    <2> QED BY <1>6, <2>1, <2>2, <2>3 DEF Thread
  <1>7. CASE Resume(r)
    <2>1. CASE Started(r) \/ Reserved(r) \/ AskAgain(r) \/ Checked(r)
      BY <1>2, <1>3, <1>4, <2>1 DEF Started, Reserved, AskAgain, Checked, Quiet, Alone
    <2>2. CASE Recorded(r) \/ Polled(r) \/ Expired(r) \/ Fetched(r) \/ Delivered(r) \/ Stopped(r)
      BY <1>2, <1>3, <2>2 DEF Recorded, Polled, Expired, Fetched, Delivered, Stopped, Quiet, Alone
    <2> QED BY <1>7, <2>1, <2>2 DEF Resume
  <1>8. CASE Cancel(r)
    <2>1. writer' = [writer EXCEPT ![r].at = "dropped"] => writer'[q] = writer[q]
      BY <1>1
    <2> QED BY <1>2, <1>3, <1>8, <2>1
            DEF Cancel, CancelStarting, CancelReserving, CancelWaiting, CancelElsewhere, Abandons, Alone
  <1>9. CASE CallBack(r)
    BY <1>3, <1>9 DEF CallBack, Alone
  <1> QED BY <1>5, <1>6, <1>7, <1>8, <1>9 DEF RequestStep

-----------------------------------------------------------------------------
(* What an answer says of the state of its job.                            *)
Says(code, state, keyed) ==
  /\ code = "result" => state \in {"done", "gone"}
  /\ code = "job_failed" => state \in {"failed", "gone"}
  /\ code = "job_timeout" => state \in {"timeout", "gone"}
  /\ code = "job_cancelled" => state \in {"cancelled", "gone"}
  /\ code = "timeout" => keyed \/ state # "running"
  /\ code = "gone" => state = "gone"

Owed(r) ==
  /\ JobOf(r) # NoJob /\ JobOf(r) \in Kept => request[r].answer.job = JobOf(r)
  /\ request[r].answer.job # NoJob => /\ job[request[r].answer.job].key = Of(r).key
                                     /\ job[request[r].answer.job].args = Of(r).args
  /\ Says(request[r].answer.code, job[JobOf(r)].state, Keyed(r))

LEMMA AnswerParts ==
  ASSUME NEW r \in Requests
  PROVE  (AnswerIsTrue(r) <=> Owed(r)) /\ (AnswerIsTrue(r)' <=> Owed(r)')
  BY DEF AnswerIsTrue, Owed, Says

(* A task that stays where it is, with the answer its start was given.     *)
LEMMA StayKeeps ==
  ASSUME IInv, TypeOK', \A j \in Jobs : Moves(j), profile' = profile, NEW q \in Requests,
         start'[q] = start[q], request'[q].at = request[q].at, request'[q].answer = request[q].answer
  PROVE  /\ Placed(q)' /\ Named(q)' /\ Answered(q)'
         /\ request'[q].saw = request[q].saw => Seen(q)'
         /\ JobOf(q) # NoJob /\ job[JobOf(q)].state # "running" => job'[JobOf(q)].state # "running"
         /\ JobOf(q) # NoJob => JobOf(q) \in Jobs /\ Moves(JobOf(q)) /\ job[JobOf(q)].state # "none"
         /\ RequestInv(q) /\ JobOf(q)' = JobOf(q) /\ (Keyed(q)' <=> Keyed(q))
         /\ \A place : At(q, place)' <=> At(q, place)
  <1>1. RequestInv(q) /\ JobOf(q) \in Jobs \cup {NoJob}
    BY TypedIsTypeOK DEF IInv, RInv, Typed, StartThread, JobOf
  <1>2. /\ JobOf(q)' = JobOf(q) /\ Of(q)' = Of(q) /\ (Keyed(q)' <=> Keyed(q))
        /\ \A place : At(q, place)' <=> At(q, place)
    BY DEF JobOf, Of, Keyed, At
  <1>3. ASSUME JobOf(q) # NoJob
        PROVE  JobOf(q) \in Jobs /\ Moves(JobOf(q)) /\ job[JobOf(q)].state # "none"
    BY <1>1, <1>3 DEF RequestInv, Named
  <1>4. Placed(q)'
    BY <1>1, <1>2 DEF RequestInv, Placed
  <1>5. Named(q)'
    BY <1>1, <1>2, <1>3 DEF RequestInv, Named, Moves
  <1>6. JobOf(q) # NoJob /\ job[JobOf(q)].state # "running" => job'[JobOf(q)].state # "running"
    BY <1>3, TypedIsTypeOK DEF Moves, IInv, Typed, Record, JobStates, Final
  <1>7. request[q].at \in Serving => JobOf(q) # NoJob
    BY <1>1 DEF RequestInv, Placed
  <1>8. ASSUME request'[q].saw = request[q].saw PROVE Seen(q)'
    <2>1. JobOf(q) # NoJob => \A s \in Final \cup {"gone"} :
            job[JobOf(q)].state \in {s, "gone"} => job'[JobOf(q)].state \in {s, "gone"}
      BY <1>3 DEF Moves
    <2>2. request[q].saw # Unread => JobOf(q) # NoJob
      BY <1>1, <1>7 DEF RequestInv, Seen, Reading, Serving
    <2>3. At(q, "delivering") => JobOf(q) # NoJob
      BY <1>7 DEF At, Serving
    <2>4. "done" \in Final /\ Unread \notin Final \cup {"gone"}
      BY DEF Final, Unread
    <2> QED BY <1>1, <1>2, <1>8, <2>1, <2>2, <2>3, <2>4 DEF RequestInv, Seen
  <1>9. Answered(q)'
    <2> SUFFICES ASSUME At(q, "returned")
                 PROVE  /\ request[q].answer.job \in {NoJob, JobOf(q)}
                        /\ request[q].answer.code \in Claims => JobOf(q) # NoJob
                        /\ Owed(q)'
      BY <1>1, <1>2, AnswerParts DEF Answered, RequestInv
    <2>1. /\ request[q].answer.job \in {NoJob, JobOf(q)} /\ Owed(q)
          /\ request[q].answer.code \in Claims => JobOf(q) # NoJob
      BY <1>1, AnswerParts DEF RequestInv, Answered
    <2>2. JobOf(q) # NoJob /\ JobOf(q) \in Kept' => JobOf(q) \in Kept
      BY <1>3, TypedIsTypeOK DEF Kept, Moves, IInv, Typed, Record, JobStates, Final
    <2>3. request[q].answer.job # NoJob => /\ job'[request[q].answer.job].key = Of(q).key
                                           /\ job'[request[q].answer.job].args = Of(q).args
      BY <1>2, <1>3, <1>5, <2>1 DEF Named
    <2>4. Says(request[q].answer.code, job'[JobOf(q)].state, Keyed(q))
      <3>1. CASE request[q].answer.code \notin Claims
        BY <3>1 DEF Says, Claims
      <3>2. CASE request[q].answer.code \in Claims
        <4>1. JobOf(q) # NoJob /\ Says(request[q].answer.code, job[JobOf(q)].state, Keyed(q))
          BY <2>1, <3>2 DEF Owed
        <4>2. job[JobOf(q)].state \in JobStates /\ job'[JobOf(q)].state \in JobStates
          BY <1>3, <4>1, TypedIsTypeOK DEF IInv, Typed, Record
        <4>3. /\ \A s \in Final \cup {"gone"} :
                   job[JobOf(q)].state \in {s, "gone"} => job'[JobOf(q)].state \in {s, "gone"}
              /\ job[JobOf(q)].state # "running" => job'[JobOf(q)].state # "running"
          BY <1>3, <4>1, <4>2 DEF Moves, JobStates, Final
        <4> QED BY <4>1, <4>3 DEF Says, Final
      <3> QED BY <3>1, <3>2
    <2>5. Owed(q)'
      BY <1>2, <2>1, <2>2, <2>3, <2>4 DEF Owed, Says
    <2> QED BY <2>1, <2>5
  <1> QED BY <1>1, <1>2, <1>3, <1>4, <1>5, <1>6, <1>8, <1>9

LEMMA AloneKeeps ==
  ASSUME IInv, TypeOK', \A j \in Jobs : Moves(j), profile' = profile, NEW q \in Requests, Alone(q)
  PROVE  RequestInv(q)'
  <1>1. /\ Placed(q)' /\ Named(q)' /\ Answered(q)' /\ Seen(q)'
        /\ JobOf(q) # NoJob /\ job[JobOf(q)].state # "running" => job'[JobOf(q)].state # "running"
        /\ RequestInv(q) /\ JobOf(q)' = JobOf(q) /\ (Keyed(q)' <=> Keyed(q))
        /\ \A place : At(q, place)' <=> At(q, place)
    BY StayKeeps DEF Alone
  <1>2. Halted(q)' /\ Called(q)' /\ Written(q)'
    BY <1>1 DEF RequestInv, Halted, Called, Written, Alone
  <1> QED BY <1>1, <1>2 DEF RequestInv

-----------------------------------------------------------------------------
(* Where a step takes its own request.                                     *)
LEMMA Places4 ==
  ASSUME IInv, NEW r \in Requests
  PROVE  /\ \A place : Goes(r, place) \/ Leaves(r, place) =>
              /\ request'[r].at = place /\ request'[r].saw = Unread
              /\ request'[r].answer = request[r].answer
         /\ \A code, j : Answers(r, code, j) =>
              /\ request'[r].at = "returned" /\ request'[r].saw = Unread
              /\ request'[r].answer.code = code /\ request'[r].answer.job = j
         /\ \A kind, j : Over(r, kind, j) => start'[r].at = "over" /\ start'[r].kind = kind /\ start'[r].job = j
         /\ Starts(r) => start'[r].at = "queued" /\ start'[r].kind = "none" /\ start'[r].job = NoJob
         /\ Stops(r) => stop'[r] = "queued"
         /\ \A j : Records(r, j) => writer'[r].at = "queued" /\ writer'[r].job = j
         /\ RequestInv(r) /\ start[r] \in StartThread /\ request[r] \in Task /\ JobOf(r) \in Jobs \cup {NoJob}
  <1>1. /\ request \in [Requests -> Task] /\ writer \in [Requests -> WriterThread]
        /\ start \in [Requests -> StartThread] /\ callback \in [Requests -> {"none", "stop", "record"}]
        /\ stop \in [Requests -> {"idle", "queued", "over"}] /\ RequestInv(r)
    BY TypedIsTypeOK DEF IInv, Typed, RInv
  <1>2. JobOf(r) \in Jobs \cup {NoJob}
    BY <1>1 DEF StartThread, JobOf
  <1>3. \A place : Goes(r, place) \/ Leaves(r, place) =>
              /\ request'[r].at = place /\ request'[r].saw = Unread
              /\ request'[r].answer = request[r].answer
    BY <1>1 DEF Goes, Leaves, Task
  <1>4. \A code, j : Answers(r, code, j) =>
              /\ request'[r].at = "returned" /\ request'[r].saw = Unread
              /\ request'[r].answer.code = code /\ request'[r].answer.job = j
    BY <1>1 DEF Answers, Task
  <1>5. Starts(r) => start'[r].at = "queued" /\ start'[r].kind = "none" /\ start'[r].job = NoJob
    BY <1>1 DEF Starts, NoStart
  <1>6. \A kind, j : Over(r, kind, j) => start'[r].at = "over" /\ start'[r].kind = kind /\ start'[r].job = j
    BY <1>1 DEF Over
  <1>7. /\ Stops(r) => stop'[r] = "queued"
        /\ \A j : Records(r, j) => writer'[r].at = "queued" /\ writer'[r].job = j
    BY <1>1 DEF Stops, Records
  <1> QED BY <1>1, <1>2, <1>3, <1>4, <1>5, <1>6, <1>7

(* A task that moves to another await without an answer.                   *)
LEMMA Moved ==
  ASSUME IInv, NEW r \in Requests, job' = job, profile' = profile, start'[r] = start[r],
         request'[r].saw = Unread,
         request'[r].at \notin {"idle", "starting", "returned"},
         request'[r].at \in {"reserving", "pausing", "checking"} => Keyed(r),
         request'[r].at \in Serving => JobOf(r) # NoJob,
         request'[r].at = "delivering" => job[JobOf(r)].state \in {"done", "gone"},
         callback'[r] # "none" => request'[r].at = "cancelled",
         callback'[r] = "stop" => ~Keyed(r),
         callback'[r] = "record" => writer'[r].at = "idle",
         stop'[r] # stop[r] => stop'[r] = "queued" /\ ~Keyed(r) /\ JobOf(r) # NoJob,
         writer'[r].at # "idle" => request'[r].at \notin Unattached /\ writer'[r].job \in Jobs
  PROVE  RequestInv(r)'
  <1>1. RequestInv(r)
    BY Places4
  <1>2. JobOf(r)' = JobOf(r) /\ Of(r)' = Of(r) /\ (Keyed(r)' <=> Keyed(r))
    BY DEF JobOf, Of, Keyed
  <1>3. Placed(r)'
    BY <1>2 DEF Placed, At
  <1>4. Named(r)' /\ Halted(r)'
    BY <1>1, <1>2 DEF RequestInv, Named, Halted
  <1>5. Called(r)' /\ Written(r)'
    BY <1>2 DEF Called, Written, At
  <1>6. Seen(r)'
    BY <1>2 DEF Seen, At, Unread, Final
  <1>7. Answered(r)'
    BY DEF Answered, At
  <1> QED BY <1>3, <1>4, <1>5, <1>6, <1>7 DEF RequestInv

(* A task that returns an answer which is true of its job.                 *)
LEMMA Returned ==
  ASSUME IInv, NEW r \in Requests, job' = job, profile' = profile, start'[r] = start[r],
         callback'[r] = callback[r], callback[r] = "none", writer'[r] = writer[r], stop'[r] = stop[r],
         start[r].at = "over", NEW code, NEW j \in {NoJob, JobOf(r)}, Answers(r, code, j),
         JobOf(r) \in Kept => j = JobOf(r),
         code \in Claims => JobOf(r) # NoJob,
         Says(code, job[JobOf(r)].state, Keyed(r))
  PROVE  RequestInv(r)'
  <1>1. RequestInv(r)
    BY Places4
  <1>2. JobOf(r)' = JobOf(r) /\ Of(r)' = Of(r) /\ (Keyed(r)' <=> Keyed(r)) /\ Kept' = Kept
    BY DEF JobOf, Of, Keyed, Kept
  <1>3. /\ request'[r].at = "returned" /\ request'[r].saw = Unread
        /\ request'[r].answer.code = code /\ request'[r].answer.job = j
    BY Places4
  <1>4. Placed(r)'
    BY <1>3 DEF Placed, At, Serving
  <1>5. Named(r)' /\ Halted(r)'
    BY <1>1, <1>2 DEF RequestInv, Named, Halted
  <1>6. Called(r)' /\ Written(r)'
    BY <1>1, <1>3 DEF RequestInv, Called, Written, At, Unattached
  <1>7. Seen(r)'
    BY <1>3 DEF Seen, At, Unread, Final
  <1>8. Answered(r)'
    <2>1. j # NoJob => job[j].key = Of(r).key /\ job[j].args = Of(r).args
      BY <1>1 DEF RequestInv, Named
    <2>2. Says(code, job[JobOf(r)].state, Keyed(r)')
      BY <1>2 DEF Says
    <2>3. Owed(r)'
      BY <1>2, <1>3, <2>1, <2>2 DEF Owed, Says
    <2> QED BY <1>2, <1>3, <2>3, AnswerParts DEF Answered
  <1> QED BY <1>4, <1>5, <1>6, <1>7, <1>8 DEF RequestInv

LEMMA ResumeKeeps ==
  ASSUME IInv, NEW r \in Requests, Resume(r)
  PROVE  RequestInv(r)'
  <1>1. RequestInv(r) /\ JobOf(r) \in Jobs \cup {NoJob} /\ start[r] \in StartThread /\ request[r] \in Task
    BY Places4
  <1>2. Quiet(r) /\ profile' = profile /\ job' = job /\ callback' = callback
    BY DEF Resume, Started, Reserved, AskAgain, Checked, Recorded, Polled, Expired,
           Fetched, Delivered, Stopped, Quiet, jobVars
  <1>3. request[r].at # "cancelled" => callback[r] = "none"
    BY <1>1 DEF RequestInv, Called, At
  <1>4. request[r].at \in Unattached => writer[r].at = "idle"
    BY <1>1 DEF RequestInv, Written
  <1>5. writer[r].at # "idle" => writer[r].job \in Jobs
    BY <1>1 DEF RequestInv, Written
  <1>6. request[r].at \in Serving => JobOf(r) # NoJob
    BY <1>1 DEF RequestInv, Placed
  <1>7. JobOf(r) # NoJob => start[r].at = "over"
    BY <1>1 DEF RequestInv, Named
  <1>8. start[r].kind \in {"created", "replay"} <=> JobOf(r) # NoJob
    BY <1>1 DEF RequestInv, Named
  <1>9. request[r].at \in {"reserving", "pausing", "checking"} => Keyed(r)
    BY <1>1 DEF RequestInv, Placed
  <1>10. request[r].saw \in Final \cup {"gone"} => job[JobOf(r)].state \in {request[r].saw, "gone"}
    BY <1>1 DEF RequestInv, Seen
  <1>11. JobOf(r) \notin Kept => \A j \in {NoJob, JobOf(r)} : JobOf(r) \in Kept => j = JobOf(r)
    OBVIOUS
  \* the two ways on
  <1>12. ASSUME NEW place \in {"pausing", "checking", "polling", "expiring", "fetching", "delivering", "cancelled"},
                Goes(r, place), start' = start, request[r].at # "cancelled",
                writer'[r].at # "idle" => place \notin Unattached /\ writer'[r].job \in Jobs,
                place \in {"pausing", "checking"} => Keyed(r),
                place \in Serving => JobOf(r) # NoJob,
                place = "delivering" => job[JobOf(r)].state \in {"done", "gone"},
                stop'[r] # stop[r] => stop'[r] = "queued" /\ ~Keyed(r) /\ JobOf(r) # NoJob
         PROVE  RequestInv(r)'
    <2>1. request'[r].at = place /\ request'[r].saw = Unread
      BY <1>12, Places4
    <2> QED BY <1>2, <1>3, <1>12, <2>1, Moved
  <1>13. ASSUME NEW code, NEW j \in {NoJob, JobOf(r)}, Answers(r, code, j), start' = start, stop' = stop,
                writer' = writer, start[r].at = "over", request[r].at # "cancelled",
                JobOf(r) \in Kept => j = JobOf(r),
                code \in Claims => JobOf(r) # NoJob,
                Says(code, job[JobOf(r)].state, Keyed(r))
         PROVE  RequestInv(r)'
    BY <1>2, <1>3, <1>13, Returned
  <1>14. ASSUME JobOf(r) # NoJob, Attached(r), start' = start, stop' = stop, request[r].at \in Unattached
         PROVE  RequestInv(r)'
    <2>1. request[r].at # "cancelled"
      BY <1>14 DEF Unattached
    <2>2. CASE Tasked(r)
      <3>1. /\ request'[r].at = "recording" /\ request'[r].saw = Unread
            /\ writer'[r].at = "queued" /\ writer'[r].job = JobOf(r)
        BY <1>14, <2>2, Places4 DEF Attached
      <3> QED BY <1>1, <1>2, <1>3, <1>14, <2>1, <3>1, Moved DEF Unattached, Serving
    <2>3. CASE ~Tasked(r)
      <3>1. Goes(r, "polling") /\ writer' = writer
        BY <1>14, <2>3 DEF Attached
      <3> QED BY <1>4, <1>12, <1>14, <2>1, <3>1 DEF Unattached
    <2> QED BY <2>2, <2>3
  \* the awaits
  <1>15. \A code \in {"handle", "unreadable"} :
           code \notin Claims /\ \A state, keyed : Says(code, state, keyed)
    BY DEF Says, Claims
  <1>16. start[r].kind \notin {"created", "replay"} =>
           start[r].kind \notin Claims /\ Says(start[r].kind, job[JobOf(r)].state, Keyed(r))
    BY <1>1 DEF StartThread, StartKinds, Claims, Says
  <1>17. CASE Started(r)
    <2>1. At(r, "starting") /\ start[r].at = "over" /\ start' = start /\ stop' = stop
      BY <1>17 DEF Started
    <2>2. request[r].at \in Unattached /\ request[r].at # "cancelled"
      BY <2>1 DEF At, Unattached
    <2>3. CASE JobOf(r) = NoJob
      <3>1. Answers(r, start[r].kind, NoJob) /\ writer' = writer /\ JobOf(r) \notin Kept
        BY <1>17, <2>3, Constants DEF Started, Kept
      <3> QED BY <1>8, <1>13, <1>16, <2>1, <2>2, <2>3, <3>1
    <2>4. CASE JobOf(r) # NoJob /\ Sync(r)
      BY <1>14, <1>17, <2>1, <2>2, <2>4 DEF Started
    <2>5. CASE JobOf(r) # NoJob /\ ~Sync(r)
      <3>1. Answers(r, "handle", JobOf(r)) /\ writer' = writer
        BY <1>17, <2>5 DEF Started
      <3> QED BY <1>13, <1>15, <2>1, <2>2, <3>1
    <2> QED BY <2>3, <2>4, <2>5
  <1>18. CASE Reserved(r)
    <2>1. At(r, "reserving") /\ start[r].at = "over" /\ start' = start /\ stop' = stop
      BY <1>18 DEF Reserved
    <2>2. request[r].at \in Unattached /\ request[r].at # "cancelled" /\ Keyed(r) /\ writer[r].at = "idle"
      BY <1>4, <1>9, <2>1 DEF At, Unattached
    <2>3. CASE start[r].kind = "created" /\ Sync(r) /\ Attached(r)
      BY <1>8, <1>14, <2>1, <2>2, <2>3
    <2>4. CASE start[r].kind = "created" /\ Answers(r, "handle", JobOf(r)) /\ writer' = writer
      BY <1>13, <1>15, <2>1, <2>2, <2>4
    <2>5. CASE start[r].kind = "replay" /\ Goes(r, "checking") /\ writer' = writer
      BY <1>8, <1>12, <2>1, <2>2, <2>5
    <2>6. CASE Goes(r, "pausing") /\ writer' = writer
      BY <1>12, <2>1, <2>2, <2>6 DEF Serving
    <2>7. CASE start[r].kind \notin {"created", "replay"} /\ Answers(r, start[r].kind, NoJob) /\ writer' = writer
      <3>1. JobOf(r) \notin Kept
        BY <1>8, <2>7, Constants DEF Kept
      <3> QED BY <1>13, <1>16, <2>1, <2>2, <2>7, <3>1
    <2> QED BY <1>18, <2>3, <2>4, <2>5, <2>6, <2>7 DEF Reserved
  <1>19. CASE AskAgain(r)
    <2>1. At(r, "pausing") /\ Goes(r, "reserving") /\ Starts(r) /\ stop' = stop /\ writer' = writer
      BY <1>19 DEF AskAgain
    <2>2. /\ request'[r].at = "reserving" /\ request'[r].saw = Unread
          /\ start'[r].at = "queued" /\ start'[r].kind = "none" /\ start'[r].job = NoJob
      BY <2>1, Places4
    <2>3. Keyed(r) /\ writer[r].at = "idle" /\ callback[r] = "none"
      BY <1>3, <1>4, <1>9, <2>1 DEF At, Unattached
    <2>4. stop[r] = "idle"
      BY <1>1, <2>3 DEF RequestInv, Halted, Typed
    <2>5. JobOf(r)' = NoJob /\ (Keyed(r)' <=> Keyed(r))
      BY <1>2, <2>2 DEF JobOf, Keyed, Of
    <2>6. Placed(r)' /\ Named(r)' /\ Halted(r)'
      BY <2>1, <2>2, <2>3, <2>4, <2>5 DEF Placed, Named, Halted, At, Serving
    <2>7. Called(r)' /\ Written(r)' /\ Seen(r)' /\ Answered(r)'
      BY <1>2, <2>1, <2>2, <2>3 DEF Called, Written, Seen, Answered, At, Unread, Final
    <2> QED BY <2>6, <2>7 DEF RequestInv
  <1>20. CASE Checked(r)
    <2>1. At(r, "checking") /\ start' = start /\ stop' = stop /\ JobOf(r) # NoJob /\ start[r].at = "over"
      BY <1>6, <1>7, <1>20 DEF Checked, At, Serving
    <2>2. request[r].at \in Unattached /\ request[r].at # "cancelled"
      BY <2>1 DEF At, Unattached
    <2>3. CASE request[r].saw = "gone" /\ Answers(r, "unavailable", NoJob) /\ writer' = writer
      <3>1. JobOf(r) \notin Kept
        BY <1>10, <2>3 DEF Kept, Final
      <3>2. "unavailable" \notin Claims /\ Says("unavailable", job[JobOf(r)].state, Keyed(r))
        BY DEF Claims, Says
      <3> QED BY <1>13, <2>1, <2>2, <2>3, <3>1, <3>2
    <2>4. CASE request[r].saw = "unreadable" /\ Answers(r, "unreadable", JobOf(r)) /\ writer' = writer
      BY <1>13, <1>15, <2>1, <2>2, <2>4
    <2>5. CASE Attached(r)
      BY <1>14, <2>1, <2>2, <2>5
    <2>6. CASE Answers(r, "handle", JobOf(r)) /\ writer' = writer
      BY <1>13, <1>15, <2>1, <2>2, <2>6
    <2> QED BY <1>20, <2>3, <2>4, <2>5, <2>6 DEF Checked
  <1>21. CASE Recorded(r)
    <2>1. request[r].at \in Serving /\ request[r].at # "cancelled"
      BY <1>21 DEF Recorded, At, Serving
    <2> QED BY <1>5, <1>6, <1>12, <1>21, <2>1 DEF Recorded, Unattached
  <1>22. CASE Polled(r)
    <2>1. request[r].at \in Serving /\ request[r].at # "cancelled" /\ start' = start /\ writer' = writer
      BY <1>22 DEF Polled, At, Serving
    <2>2. JobOf(r) # NoJob /\ start[r].at = "over" /\ (writer'[r].at # "idle" => writer'[r].job \in Jobs)
      BY <1>5, <1>6, <1>7, <2>1
    <2>3. CASE Goes(r, "polling") /\ stop' = stop
      BY <1>12, <2>1, <2>2, <2>3 DEF Unattached
    <2>4. CASE Keyed(r) /\ Answers(r, "timeout", JobOf(r)) /\ stop' = stop
      <3>1. Says("timeout", job[JobOf(r)].state, Keyed(r))
        BY <2>4 DEF Says
      <3> QED BY <1>13, <2>1, <2>2, <2>4, <3>1
    <2>5. CASE ~Keyed(r) /\ Goes(r, "expiring") /\ Stops(r)
      <3>1. stop'[r] = "queued"
        BY <2>5, Places4
      <3> QED BY <1>12, <2>1, <2>2, <2>5, <3>1 DEF Unattached
    <2>6. CASE /\ request[r].saw = "gone" /\ stop' = stop
               /\ Answers(r, IF Replayed(r) THEN "unavailable" ELSE "gone", JobOf(r))
      <3>1. job[JobOf(r)].state = "gone"
        BY <1>10, <2>6
      <3>2. \A code \in {"unavailable", "gone"} : Says(code, job[JobOf(r)].state, Keyed(r))
        BY <3>1 DEF Says
      <3> QED BY <1>13, <2>1, <2>2, <2>6, <3>2
    <2>7. CASE Answers(r, "unreadable", JobOf(r)) /\ stop' = stop
      BY <1>13, <1>15, <2>1, <2>2, <2>7
    <2>8. CASE Goes(r, "fetching") /\ stop' = stop
      BY <1>12, <2>1, <2>2, <2>8 DEF Unattached
    <2> QED BY <1>22, <2>3, <2>4, <2>5, <2>6, <2>7, <2>8 DEF Polled
  <1>23. CASE Expired(r)
    <2>1. request[r].at \in Serving /\ request[r].at # "cancelled" /\ start' = start /\ stop' = stop
          /\ writer' = writer /\ stop[r] = "over"
      BY <1>23 DEF Expired, At, Serving
    <2>2. JobOf(r) # NoJob /\ start[r].at = "over" /\ job[JobOf(r)].state # "running"
      BY <1>1, <1>6, <1>7, <2>1 DEF RequestInv, Halted
    <2>3. Says("timeout", job[JobOf(r)].state, Keyed(r))
      BY <2>2 DEF Says
    <2> QED BY <1>13, <1>15, <1>23, <2>1, <2>2, <2>3 DEF Expired
  <1>24. CASE Fetched(r)
    <2>1. request[r].at \in Serving /\ request[r].at # "cancelled" /\ start' = start /\ stop' = stop
          /\ writer' = writer
      BY <1>24 DEF Fetched, At, Serving
    <2>2. JobOf(r) # NoJob /\ start[r].at = "over" /\ (writer'[r].at # "idle" => writer'[r].job \in Jobs)
      BY <1>5, <1>6, <1>7, <2>1
    <2>3. CASE /\ request[r].saw = "gone"
               /\ Answers(r, IF Replayed(r) THEN "unavailable" ELSE "gone", JobOf(r))
      <3>1. job[JobOf(r)].state = "gone"
        BY <1>10, <2>3
      <3>2. \A code \in {"unavailable", "gone"} : Says(code, job[JobOf(r)].state, Keyed(r))
        BY <3>1 DEF Says
      <3> QED BY <1>13, <2>1, <2>2, <2>3, <3>2
    <2>4. CASE Answers(r, "unreadable", JobOf(r))
      BY <1>13, <1>15, <2>1, <2>2, <2>4
    <2>5. CASE request[r].saw = "done" /\ Goes(r, "delivering")
      <3>1. job[JobOf(r)].state \in {"done", "gone"}
        BY <1>10, <2>5 DEF Final
      <3> QED BY <1>12, <2>1, <2>2, <2>5, <3>1 DEF Unattached
    <2>6. CASE request[r].saw \in Final \ {"done"} /\ Answers(r, ErrorOf(request[r].saw), JobOf(r))
      <3>1. job[JobOf(r)].state \in {request[r].saw, "gone"}
        BY <1>10, <2>6
      <3>2. Says(ErrorOf(request[r].saw), job[JobOf(r)].state, Keyed(r))
        BY <2>6, <3>1 DEF Says, ErrorOf, Final
      <3> QED BY <1>13, <2>1, <2>2, <2>6, <3>2
    <2> QED BY <1>24, <2>3, <2>4, <2>5, <2>6 DEF Fetched
  <1>25. CASE Delivered(r)
    <2>1. At(r, "delivering") /\ request[r].at \in Serving /\ request[r].at # "cancelled"
          /\ start' = start /\ stop' = stop /\ writer' = writer /\ Answers(r, "result", JobOf(r))
      BY <1>25 DEF Delivered, At, Serving
    <2>2. JobOf(r) # NoJob /\ start[r].at = "over" /\ job[JobOf(r)].state \in {"done", "gone"}
      BY <1>1, <1>6, <1>7, <2>1 DEF RequestInv, Seen
    <2>3. Says("result", job[JobOf(r)].state, Keyed(r))
      BY <2>2 DEF Says
    <2> QED BY <1>13, <2>1, <2>2, <2>3
  <1>26. CASE Stopped(r)
    <2>1. request[r].at # "cancelled" /\ start' = start /\ stop' = stop /\ writer' = writer
          /\ Goes(r, "cancelled")
      BY <1>26 DEF Stopped, At
    <2> QED BY <1>5, <1>12, <2>1 DEF Unattached, Serving
  <1> QED BY <1>17, <1>18, <1>19, <1>20, <1>21, <1>22, <1>23, <1>24, <1>25, <1>26 DEF Resume

(* A request that begins, and what its threads do to it.                   *)
LEMMA BeginKeeps ==
  ASSUME IInv, NEW r \in Requests, Begin(r)
  PROVE  RequestInv(r)'
  <1>1. RequestInv(r) /\ job' = job /\ profile' = profile /\ stop' = stop /\ callback' = callback
        /\ writer' = writer
    BY Places4 DEF Begin, jobVars, mapVars
  <1>2. /\ request'[r].at = (IF Keyed(r) THEN "reserving" ELSE "starting") /\ request'[r].saw = Unread
        /\ start'[r].at = "queued" /\ start'[r].kind = "none" /\ start'[r].job = NoJob
    BY Places4 DEF Begin
  <1>3. At(r, "idle") /\ start[r].job = NoJob /\ writer[r].at = "idle" /\ callback[r] = "none"
    BY <1>1 DEF Begin, RequestInv, Placed, Called, Written, At, Unattached, NoStart
  <1>4. stop[r] = "idle"
    BY <1>1, <1>3 DEF RequestInv, Halted, JobOf
  <1>5. JobOf(r)' = NoJob /\ (Keyed(r)' <=> Keyed(r))
    BY <1>1, <1>2 DEF JobOf, Keyed, Of
  <1>6. Placed(r)' /\ Named(r)' /\ Halted(r)'
    BY <1>1, <1>2, <1>4, <1>5 DEF Placed, Named, Halted, At, Serving
  <1>7. Called(r)' /\ Written(r)' /\ Seen(r)' /\ Answered(r)'
    BY <1>1, <1>2, <1>3 DEF Called, Written, Seen, Answered, At, Unread, Final
  <1> QED BY <1>6, <1>7 DEF RequestInv

(* A start ends with no job, or with one of the request's key and          *)
(* arguments.                                                              *)
LEMMA StartEnds ==
  ASSUME IInv, NEW r \in Requests, StartRuns(r)
  PROVE  \E kind \in StartKinds, j \in Jobs \cup {NoJob} :
           /\ Over(r, kind, j)
           /\ j # NoJob <=> kind \in {"created", "replay"}
           /\ j # NoJob => /\ job'[j].state # "none"
                           /\ job'[j].key = Of(r).key /\ job'[j].args = Of(r).args
  <1>1. /\ job \in [Jobs -> Record] /\ index \in [Keys -> Jobs \cup {NoJob}]
        /\ profile \in Profiles /\ IndexNames
    BY TypedIsTypeOK DEF IInv, Typed
  <1>2. Of(r).key \in Keys \cup {NoKey} /\ (Keyed(r) => Of(r).key \in Keys)
    BY <1>1, ProfileFacts
  <1>3. CASE Spawn(r)
    <2>1. PICK i \in FreshIds, epoch \in profile.epochs :
            /\ job' = [job EXCEPT ![i] = [NoRecord EXCEPT !.state = "running", !.key = Of(r).key,
                                                          !.args = Of(r).args, !.born = epoch]]
            /\ Over(r, "created", i)
      BY <1>3 DEF Spawn
    <2>2. i \in Jobs /\ i # NoJob
      BY Constants DEF FreshIds, Unborn
    <2>3. job'[i].state # "none" /\ job'[i].key = Of(r).key /\ job'[i].args = Of(r).args
      BY <1>1, <2>1, <2>2 DEF NoRecord
    <2> QED BY <2>1, <2>2, <2>3 DEF StartKinds
  <1>4. CASE Refused(r)
    BY <1>4 DEF Refused, StartKinds
  <1>5. CASE Contended(r)
    BY <1>5 DEF Contended, StartKinds
  <1>6. CASE Keyed(r) /\ index[Of(r).key] # NoJob /\ Classified(r)
    <2> DEFINE j == index[Of(r).key]
    <2>1. j \in Jobs /\ j # NoJob /\ job[j].state # "none" /\ job[j].key = Of(r).key
      BY <1>1, <1>2, <1>6, Constants DEF IndexNames
    <2> HIDE DEF j
    <2>2. job' = job
          /\ \/ job[j].args # Of(r).args /\ Over(r, "conflict", NoJob)
             \/ job[j].args = Of(r).args /\ j \in Kept /\ Over(r, "replay", j)
             \/ Over(r, "unavailable", NoJob)
      BY <1>6 DEF Classified, jobVars, j
    <2>3. {"conflict", "replay", "unavailable"} \subseteq StartKinds
      BY DEF StartKinds
    <2>4. CASE Over(r, "replay", j) /\ job[j].args = Of(r).args
      BY <2>1, <2>2, <2>3, <2>4
    <2>5. CASE Over(r, "conflict", NoJob) \/ Over(r, "unavailable", NoJob)
      BY <2>3, <2>5
    <2> QED BY <2>2, <2>4, <2>5
  <1> QED BY <1>3, <1>4, <1>5, <1>6 DEF StartRuns

LEMMA ThreadKeeps ==
  ASSUME IInv, TypeOK', \A j \in Jobs : Moves(j), NEW r \in Requests, Thread(r)
  PROVE  RequestInv(r)'
  <1>1. /\ RequestInv(r) /\ start[r] \in StartThread /\ request[r] \in Task
        /\ JobOf(r) \in Jobs \cup {NoJob} /\ stop[r] \in {"idle", "queued", "over"}
        /\ job \in [Jobs -> Record] /\ request \in [Requests -> Task]
        /\ stop \in [Requests -> {"idle", "queued", "over"}]
    BY Places4, TypedIsTypeOK DEF IInv, Typed
  <1>2. profile' = profile
    BY DEF Thread, StartRuns, StopRuns, ReadRuns, StampRuns, WriterRuns
  <1>3. CASE StartRuns(r)
    <2>1. PICK kind \in StartKinds, j \in Jobs \cup {NoJob} :
            /\ Over(r, kind, j)
            /\ j # NoJob <=> kind \in {"created", "replay"}
            /\ j # NoJob => /\ job'[j].state # "none"
                            /\ job'[j].key = Of(r).key /\ job'[j].args = Of(r).args
      BY <1>3, StartEnds
    <2>2. /\ start[r].at = "queued" /\ stop' = stop /\ callback' = callback /\ request' = request
          /\ writer' = writer
      BY <1>3 DEF StartRuns, mapVars
    <2>3. start'[r].at = "over" /\ start'[r].kind = kind /\ start'[r].job = j
      BY <2>1, Places4
    <2>4. JobOf(r) = NoJob /\ request[r].at \notin Serving /\ stop[r] = "idle"
          /\ ~At(r, "idle") /\ ~At(r, "returned")
      BY <1>1, <2>2 DEF RequestInv, Named, Placed, Halted, NoStart
    <2>5. request[r].saw = Unread /\ ~At(r, "delivering")
      BY <1>1, <2>4 DEF RequestInv, Seen, Reading, Serving, At
    <2>6. JobOf(r)' = j /\ Of(r)' = Of(r) /\ (Keyed(r)' <=> Keyed(r))
      BY <1>2, <2>3 DEF JobOf, Keyed, Of
    <2>7. Placed(r)' /\ Answered(r)'
      BY <1>1, <2>2, <2>4, <2>6 DEF RequestInv, Placed, Answered, At
    <2>8. Named(r)' /\ Halted(r)'
      BY <2>1, <2>2, <2>3, <2>4, <2>6 DEF Named, Halted
    <2>9. Called(r)' /\ Written(r)'
      BY <1>1, <2>2, <2>6 DEF RequestInv, Called, Written, At
    <2>10. Seen(r)'
      BY <2>2, <2>5 DEF Seen, At, Unread, Final
    <2> QED BY <2>7, <2>8, <2>9, <2>10 DEF RequestInv
  <1>4. CASE StopRuns(r)
    <2>1. /\ stop[r] = "queued" /\ start' = start /\ callback' = callback /\ request' = request
          /\ writer' = writer /\ stop'[r] = "over" /\ Cancelled(JobOf(r), {"cancelled", "done"})
      BY <1>1, <1>4 DEF StopRuns, mapVars
    <2>2. /\ Placed(r)' /\ Named(r)' /\ Answered(r)' /\ Seen(r)'
          /\ JobOf(r)' = JobOf(r) /\ (Keyed(r)' <=> Keyed(r))
      BY <1>2, <2>1, StayKeeps
    <2>3. ~Keyed(r) /\ JobOf(r) # NoJob /\ JobOf(r) \in Jobs
      BY <1>1, <2>1 DEF RequestInv, Halted
    <2>4. job'[JobOf(r)].state # "running"
      BY <1>1, <2>1, <2>3 DEF Cancelled, Record
    <2>5. Halted(r)'
      BY <2>2, <2>3, <2>4 DEF Halted
    <2>6. Called(r)' /\ Written(r)'
      BY <1>1, <2>1, <2>2 DEF RequestInv, Called, Written, At
    <2> QED BY <2>2, <2>5, <2>6 DEF RequestInv
  <1>5. CASE ReadRuns(r) \/ StampRuns(r)
    <2>1. /\ start' = start /\ callback' = callback /\ stop' = stop /\ writer' = writer
          /\ \E saw : request' = [request EXCEPT ![r].saw = saw]
      BY <1>5 DEF ReadRuns, StampRuns, threadVars, mapVars
    <2>2. request'[r].at = request[r].at /\ request'[r].answer = request[r].answer
      BY <1>1, <2>1 DEF Task
    <2>3. /\ Placed(r)' /\ Named(r)' /\ Answered(r)' /\ JobOf(r)' = JobOf(r) /\ (Keyed(r)' <=> Keyed(r))
          /\ JobOf(r) # NoJob /\ job[JobOf(r)].state # "running" => job'[JobOf(r)].state # "running"
      BY <1>2, <2>1, <2>2, StayKeeps
    <2>4. Called(r)' /\ Written(r)' /\ Halted(r)'
      BY <1>1, <2>1, <2>2, <2>3 DEF RequestInv, Called, Written, Halted, At
    <2>5. request[r].at \in Reading /\ JobOf(r) # NoJob /\ JobOf(r) \in Jobs
          /\ Moves(JobOf(r)) /\ job[JobOf(r)].state # "none"
      BY <1>1, <1>5 DEF ReadRuns, StampRuns, RequestInv, Placed, Named, Reading, Serving, At
    <2>6. job[JobOf(r)].state \in JobStates
      BY <1>1, <2>5 DEF Record
    <2>7. CASE ReadRuns(r)
      <3>1. PICK saw \in {job[JobOf(r)].state, "unreadable"} : request' = [request EXCEPT ![r].saw = saw]
        BY <2>7 DEF ReadRuns
      <3>2. request'[r].saw = saw /\ job' = job
        BY <1>1, <2>7, <3>1 DEF Task, ReadRuns, jobVars
      <3>3. ~At(r, "delivering")
        BY <2>7 DEF ReadRuns, At
      <3>4. saw # "none" /\ (saw \in Final \cup {"gone"} => saw = job[JobOf(r)].state)
        BY <2>5, <3>1 DEF Final
      <3> QED BY <2>2, <2>3, <2>4, <2>5, <3>2, <3>3, <3>4 DEF RequestInv, Seen, At
    <2>8. CASE StampRuns(r)
      <3>1. request'[r].saw = "stamped" /\ job[JobOf(r)].state \in {"done", "gone"}
        BY <1>1, <2>8 DEF Task, StampRuns, RequestInv, Seen
      <3>2. job'[JobOf(r)].state = job[JobOf(r)].state
        BY <1>1, <2>5, <2>8 DEF StampRuns, Record
      <3>3. Seen(r)'
        BY <2>2, <2>3, <2>5, <3>1, <3>2 DEF Seen, At, Final
      <3> QED BY <2>3, <2>4, <3>3 DEF RequestInv
    <2> QED BY <1>5, <2>7, <2>8
  <1>6. CASE WriterRuns(r)
    <2>1. /\ start' = start /\ callback' = callback /\ stop' = stop /\ request' = request
          /\ writer[r].at # "idle" /\ writer'[r].at # "idle" /\ writer'[r].job = writer[r].job
      BY <1>6, WriterKeepsMap DEF WriterRuns, threadVars
    <2>2. /\ Placed(r)' /\ Named(r)' /\ Answered(r)' /\ Seen(r)'
          /\ JobOf(r)' = JobOf(r) /\ (Keyed(r)' <=> Keyed(r))
          /\ JobOf(r) # NoJob /\ job[JobOf(r)].state # "running" => job'[JobOf(r)].state # "running"
      BY <1>2, <2>1, StayKeeps
    <2>3. Called(r)' /\ Written(r)' /\ Halted(r)'
      BY <1>1, <2>1, <2>2 DEF RequestInv, Called, Written, Halted, At
    <2> QED BY <2>2, <2>3 DEF RequestInv
  <1> QED BY <1>3, <1>4, <1>5, <1>6 DEF Thread

LEMMA CancelKeeps ==
  ASSUME IInv, NEW r \in Requests, Cancel(r)
  PROVE  RequestInv(r)'
  <1>1. /\ RequestInv(r) /\ start[r] \in StartThread /\ request[r] \in Task
        /\ JobOf(r) \in Jobs \cup {NoJob}
        /\ start \in [Requests -> StartThread]
        /\ callback \in [Requests -> {"none", "stop", "record"}] /\ writer \in [Requests -> WriterThread]
    BY Places4, TypedIsTypeOK DEF IInv, Typed
  <1>2. profile' = profile /\ job' = job
    BY DEF Cancel, jobVars
  <1>3. /\ request[r].at # "cancelled" => callback[r] = "none"
        /\ request[r].at \in Unattached => writer[r].at = "idle"
        /\ writer[r].at # "idle" => writer[r].job \in Jobs
        /\ request[r].at \in Serving => JobOf(r) # NoJob
    BY <1>1 DEF RequestInv, Called, Written, Placed, At
  \* to the end, or to a wait for the cancel
  <1>4. ASSUME Leaves(r, "cancelled"), start' = start, stop' = stop, writer'[r].at # "idle" => writer'[r].job \in Jobs,
               callback'[r] = "stop" => ~Keyed(r),
               callback'[r] = "record" => writer'[r].at = "idle"
        PROVE  RequestInv(r)'
    <2>1. request'[r].at = "cancelled" /\ request'[r].saw = Unread
      BY <1>4, Places4
    <2> QED BY <1>2, <1>4, <2>1, Moved DEF Serving, Unattached
  <1>5. CASE CancelStarting(r)
    <2>1. At(r, "starting") /\ Leaves(r, "cancelled") /\ start' = start /\ stop' = stop /\ writer' = writer
          /\ callback'[r] = "stop"
      BY <1>1, <1>5 DEF CancelStarting, Abandons
    <2>2. ~Keyed(r)
      BY <1>1, <2>1 DEF RequestInv, Placed
    <2> QED BY <1>3, <1>4, <2>1, <2>2
  <1>6. CASE CancelReserving(r)
    <2>1. At(r, "reserving") /\ Leaves(r, "cancelled") /\ stop' = stop /\ writer' = writer
      BY <1>6 DEF CancelReserving, Abandons
    <2>2. request[r].at \in Unattached /\ request[r].at # "cancelled"
      BY <2>1 DEF At, Unattached
    <2>3. writer[r].at = "idle" /\ callback[r] = "none"
      BY <1>3, <2>2
    <2>4. callback'[r] \in {"record", "none"}
      BY <1>1, <1>6, <2>3 DEF CancelReserving, Abandons
    <2>5. CASE start' = start
      BY <1>4, <2>1, <2>3, <2>4, <2>5
    <2>6. CASE start[r].at = "queued" /\ start' = [start EXCEPT ![r] = NoStart]
      <3>1. JobOf(r) = NoJob /\ stop[r] = "idle" /\ JobOf(r)' = NoJob /\ start'[r] = NoStart
        BY <1>1, <2>6 DEF RequestInv, Named, Halted, JobOf, NoStart
      <3>2. request'[r].at = "cancelled" /\ request'[r].saw = Unread
        BY <2>1, Places4
      <3>3. Placed(r)' /\ Named(r)' /\ Halted(r)'
        BY <2>1, <3>1, <3>2 DEF Placed, Named, Halted, At, Serving, NoStart
      <3>4. Called(r)' /\ Written(r)' /\ Seen(r)' /\ Answered(r)'
        BY <2>1, <2>3, <2>4, <3>2 DEF Called, Written, Seen, Answered, At, Unread, Final, Unattached
      <3> QED BY <3>3, <3>4 DEF RequestInv
    <2> QED BY <1>6, <2>5, <2>6 DEF CancelReserving
  <1>7. CASE CancelWaiting(r)
    <2>1. request[r].at \in Serving /\ request[r].at # "cancelled" /\ start' = start /\ callback' = callback
      BY <1>7 DEF CancelWaiting, Serving
    <2>2. JobOf(r) # NoJob /\ callback'[r] = "none"
      BY <1>3, <2>1
    <2>3. writer'[r].at # "idle" => writer'[r].job \in Jobs
      <3>1. CASE writer' = writer
        BY <1>3, <3>1
      <3>2. CASE writer[r].at = "queued" /\ writer' = [writer EXCEPT ![r].at = "dropped"]
        <4>1. writer'[r].job = writer[r].job
          BY <1>1, <3>2 DEF WriterThread
        <4> QED BY <1>3, <3>2, <4>1
      <3> QED BY <1>7, <3>1, <3>2 DEF CancelWaiting
    <2>4. CASE Leaves(r, "cancelled") /\ stop' = stop
      BY <1>4, <2>1, <2>2, <2>3, <2>4
    <2>5. CASE ~Keyed(r) /\ Leaves(r, "stopping") /\ Stops(r)
      <3>1. request'[r].at = "stopping" /\ request'[r].saw = Unread /\ stop'[r] = "queued"
        BY <2>5, Places4
      <3> QED BY <1>2, <2>1, <2>2, <2>3, <2>5, <3>1, Moved DEF Unattached
    <2> QED BY <1>7, <2>4, <2>5 DEF CancelWaiting
  <1>8. CASE CancelElsewhere(r)
    BY <1>3, <1>4, <1>8 DEF CancelElsewhere
  <1> QED BY <1>5, <1>6, <1>7, <1>8 DEF Cancel

LEMMA CallBackKeeps ==
  ASSUME IInv, NEW r \in Requests, CallBack(r)
  PROVE  RequestInv(r)'
  <1>1. /\ RequestInv(r) /\ JobOf(r) \in Jobs \cup {NoJob}
        /\ callback \in [Requests -> {"none", "stop", "record"}] /\ request[r] \in Task
    BY Places4, TypedIsTypeOK DEF IInv, Typed
  <1>2. profile' = profile /\ job' = job /\ start' = start /\ request' = request /\ callback'[r] = "none"
    BY <1>1 DEF CallBack, jobVars
  <1>3. request[r].at = "cancelled"
    BY <1>1 DEF CallBack, RequestInv, Called, At
  <1>4. request[r].saw = Unread
    BY <1>1, <1>3 DEF RequestInv, Seen, Reading
  <1>5. stop'[r] # stop[r] => stop'[r] = "queued" /\ ~Keyed(r) /\ JobOf(r) # NoJob
    BY <1>1, Places4 DEF CallBack, RequestInv, Called
  <1>6. writer'[r].at # "idle" => writer'[r].job \in Jobs
    BY <1>1, Places4 DEF CallBack, RequestInv, Written
  <1> QED BY <1>2, <1>3, <1>4, <1>5, <1>6, Moved DEF Unattached, Serving

(* Every step keeps what is known of every request.                        *)
LEMMA RequestsKept ==
  ASSUME IInv, [Next]_vars
  PROVE  RInv'
  <1>1. TypeOK' /\ (\A j \in Jobs : Moves(j))
    BY StepTypes, JobsMove
  <1>2. ASSUME NEW q \in Requests PROVE RequestInv(q)'
    <2>1. ASSUME NEW r \in Requests, RequestStep(r) PROVE RequestInv(q)'
      <3>1. CASE q = r
        BY <1>1, <2>1, <3>1, BeginKeeps, ThreadKeeps, ResumeKeeps, CancelKeeps, CallBackKeeps
           DEF RequestStep
      <3>2. CASE q # r
        BY <1>1, <2>1, <3>2, OthersAlone, AloneKeeps
      <3> QED BY <3>1, <3>2
    <2>2. CASE \/ \E j \in Jobs : JobEnds(j) \/ JobCancelTool(j) \/ JobRemoved(j)
               \/ ListPage
               \/ UNCHANGED vars
      <3>1. profile' = profile /\ Alone(q)
        BY <2>2 DEF JobEnds, JobCancelTool, JobRemoved, ListPage, Around, vars, threadVars, mapVars, Alone
      <3> QED BY <1>1, <3>1, AloneKeeps
    <2> QED BY <2>1, <2>2 DEF Next, RequestStep, Finished
  <1> QED BY <1>2 DEF RInv

-----------------------------------------------------------------------------
(* The index, the shared runs and the map.                                 *)
LEMMA IndexKept ==
  ASSUME IInv, [Next]_vars
  PROVE  IndexNames'
  <1>1. /\ index \in [Keys -> Jobs \cup {NoJob}] /\ job \in [Jobs -> Record] /\ profile \in Profiles
        /\ IndexNames /\ \A j \in Jobs : Moves(j)
    BY TypedIsTypeOK, JobsMove DEF IInv, Typed
  <1>2. CASE UNCHANGED index
    BY <1>1, <1>2, Constants DEF IndexNames, Moves
  <1>3. ASSUME NEW r \in Requests, Spawn(r) PROVE IndexNames'
    <2>1. PICK i \in FreshIds, epoch \in profile.epochs :
            /\ job' = [job EXCEPT ![i] = [NoRecord EXCEPT !.state = "running", !.key = Of(r).key,
                                                          !.args = Of(r).args, !.born = epoch]]
            /\ index' = IF Keyed(r) THEN [index EXCEPT ![Of(r).key] = i] ELSE index
      BY <1>3 DEF Spawn
    <2>2. i \in Jobs
      BY DEF FreshIds, Unborn
    <2>3. job'[i].state # "none" /\ job'[i].key = Of(r).key
      BY <1>1, <2>1, <2>2 DEF NoRecord
    <2>4. Keyed(r) => Of(r).key \in Keys
      BY <1>1, ProfileFacts
    <2>5. CASE Keyed(r)
      <3>1. index' = [index EXCEPT ![Of(r).key] = i]
        BY <2>1, <2>5
      <3>2. ASSUME NEW k \in Keys, index'[k] # NoJob
            PROVE  job'[index'[k]].state # "none" /\ job'[index'[k]].key = k
        <4>1. CASE k = Of(r).key
          BY <1>1, <2>3, <2>4, <2>5, <3>1, <4>1
        <4>2. CASE k # Of(r).key
          <5>1. index'[k] = index[k] /\ index[k] \in Jobs
            BY <1>1, <3>1, <3>2, <4>2
          <5> QED BY <1>1, <3>2, <5>1 DEF IndexNames, Moves
        <4> QED BY <4>1, <4>2
      <3> QED BY <3>2 DEF IndexNames
    <2>6. CASE ~Keyed(r)
      BY <1>2, <2>1, <2>6
    <2> QED BY <2>5, <2>6
  <1>4. ASSUME NEW r \in Requests, RequestStep(r) PROVE IndexNames'
    <2>1. CASE StartRuns(r)
      BY <1>2, <1>3, <2>1 DEF StartRuns, Refused, Classified, Contended, jobVars
    <2>2. CASE ~StartRuns(r)
      <3>1. CASE Resume(r)
        BY <1>2, <3>1 DEF Resume, Started, Reserved, AskAgain, Checked, Recorded, Polled, Expired,
                          Fetched, Delivered, Stopped, Quiet, jobVars
      <3>2. CASE ~Resume(r)
        BY <1>2, <1>4, <2>2, <3>2
           DEF RequestStep, Begin, Thread, StopRuns, ReadRuns, StampRuns, WriterRuns, Cancel, CallBack, jobVars
      <3> QED BY <3>1, <3>2
    <2> QED BY <2>1, <2>2
  <1>5. CASE (\E j \in Jobs : JobEnds(j) \/ JobCancelTool(j) \/ JobRemoved(j)) \/ ListPage \/ UNCHANGED vars
    BY <1>2, <1>5 DEF JobEnds, JobCancelTool, JobRemoved, ListPage, Around, vars, jobVars
  <1> QED BY <1>4, <1>5 DEF Next, RequestStep, Finished

LEMMA SharedKept ==
  ASSUME IInv, [Next]_vars
  PROVE  SharedRunSurvives'
  <1>1. /\ job \in [Jobs -> Record] /\ SharedRunSurvives
    BY TypedIsTypeOK DEF IInv, Typed
  <1>2. CASE UNCHANGED job
    BY <1>1, <1>2 DEF SharedRunSurvives
  <1>3. ASSUME NEW r \in Requests, Spawn(r) PROVE SharedRunSurvives'
    <2>1. PICK i \in FreshIds, epoch \in profile.epochs :
            job' = [job EXCEPT ![i] = [NoRecord EXCEPT !.state = "running", !.key = Of(r).key,
                                                       !.args = Of(r).args, !.born = epoch]]
      BY <1>3 DEF Spawn
    <2>2. job'[i].state = "running" \/ job' = job
      BY <1>1, <2>1 DEF NoRecord, FreshIds, Unborn
    <2>3. \A j \in Jobs : j # i => job'[j] = job[j]
      BY <1>1, <2>1
    <2> QED BY <1>1, <1>2, <2>2, <2>3 DEF SharedRunSurvives
  <1>4. ASSUME NEW r \in Requests, StopRuns(r) PROVE SharedRunSurvives'
    <2>1. RequestInv(r) /\ stop[r] = "queued" /\ Cancelled(JobOf(r), {"cancelled", "done"})
      BY <1>4, Places4 DEF StopRuns
    <2>2. JobOf(r) # NoJob /\ ~Keyed(r) /\ job[JobOf(r)].key = NoKey
      BY <2>1 DEF RequestInv, Halted, Named, Keyed
    <2>3. CASE UNCHANGED job
      BY <1>2, <2>3
    <2>4. ASSUME NEW s \in {"cancelled", "done"}, job' = [job EXCEPT ![JobOf(r)].state = s]
          PROVE  SharedRunSurvives'
      <3>1. \A j \in Jobs : /\ job'[j].key = job[j].key
                            /\ j # JobOf(r) => job'[j] = job[j]
        BY <1>1, <2>4 DEF Record
      <3> QED BY <1>1, <2>2, <3>1 DEF SharedRunSurvives
    <2> QED BY <2>1, <2>3, <2>4 DEF Cancelled
  <1>5. ASSUME NEW r \in Requests, StampRuns(r) PROVE SharedRunSurvives'
    <2>1. PICK b \in BOOLEAN : job' = [job EXCEPT ![JobOf(r)].delivered = b]
      BY <1>5 DEF StampRuns
    <2>2. \A j \in Jobs : /\ job'[j].state = job[j].state /\ job'[j].key = job[j].key
                          /\ job'[j].asked = job[j].asked
      BY <1>1, <2>1 DEF Record
    <2> QED BY <1>1, <2>2 DEF SharedRunSurvives
  <1>6. ASSUME NEW r \in Requests, RequestStep(r) PROVE SharedRunSurvives'
    <2>1. CASE StartRuns(r)
      BY <1>2, <1>3, <2>1 DEF StartRuns, Refused, Classified, Contended, jobVars
    <2>2. CASE ~StartRuns(r)
      <3>1. CASE Resume(r)
        BY <1>2, <3>1 DEF Resume, Started, Reserved, AskAgain, Checked, Recorded, Polled, Expired,
                          Fetched, Delivered, Stopped, Quiet, jobVars
      <3>2. CASE ~Resume(r)
        BY <1>2, <1>4, <1>5, <1>6, <2>2, <3>2
           DEF RequestStep, Begin, Thread, ReadRuns, WriterRuns, Cancel, CallBack, jobVars
      <3> QED BY <3>1, <3>2
    <2> QED BY <2>1, <2>2
  <1>7. ASSUME NEW j \in Jobs, JobEnds(j) \/ JobCancelTool(j) \/ JobRemoved(j) PROVE SharedRunSurvives'
    <2>1. CASE JobEnds(j)
      <3>1. PICK s \in {"done", "failed", "timeout"} : job' = [job EXCEPT ![j].state = s]
        BY <2>1 DEF JobEnds
      <3>2. job'[j].state = s /\ \A i \in Jobs : i # j => job'[i] = job[i]
        BY <1>1, <3>1 DEF Record
      <3> QED BY <1>1, <3>2 DEF SharedRunSurvives
    <2>2. CASE JobCancelTool(j)
      <3>1. PICK s \in {"cancelled", "done"} : job' = [job EXCEPT ![j].state = s, ![j].asked = TRUE]
        BY <2>2 DEF JobCancelTool
      <3>2. job'[j].asked = TRUE /\ \A i \in Jobs : i # j => job'[i] = job[i]
        BY <1>1, <3>1 DEF Record
      <3> QED BY <1>1, <3>2 DEF SharedRunSurvives
    <2>3. CASE JobRemoved(j)
      <3>1. job' = [job EXCEPT ![j].state = "gone"]
        BY <2>3 DEF JobRemoved
      <3>2. job'[j].state = "gone" /\ \A i \in Jobs : i # j => job'[i] = job[i]
        BY <1>1, <3>1 DEF Record
      <3> QED BY <1>1, <3>2 DEF SharedRunSurvives
    <2> QED BY <1>7, <2>1, <2>2, <2>3
  <1>8. CASE ListPage \/ UNCHANGED vars
    BY <1>2, <1>8 DEF ListPage, vars, jobVars
  <1> QED BY <1>6, <1>7, <1>8 DEF Next, RequestStep, Finished

(* Only a thread that is queued, or has none, changes outside of the map.  *)
LEMMA MapKept ==
  ASSUME IInv, [Next]_vars
  PROVE  MInv'
  <1>1. /\ writer \in [Requests -> WriterThread] /\ MInv
    BY TypedIsTypeOK DEF IInv, Typed
  <1>2. CASE UNCHANGED mapVars
    BY <1>1, <1>2 DEF MInv, LockInv, WrittenOnce, Newest, mapVars
  <1>3. ASSUME NEW r \in Requests, writer[r].at \in {"idle", "queued"},
               writer'[r].at \in {"queued", "dropped"}, \A q \in Requests : q # r => writer'[q] = writer[q],
               UNCHANGED <<taskMap, mapLock, recorded>>
        PROVE  MInv'
    <2>1. LockInv'
      BY <1>1, <1>3 DEF MInv, LockInv
    <2>2. WrittenOnce'
      <3>1. \A i \in DOMAIN recorded : writer[recorded[i].task].at = "done" /\ recorded[i].task \in Requests
        <4>1. recorded \in Seq([task : Requests, job : Nat])
          BY TypedIsTypeOK DEF IInv, Typed
        <4>2. \A i \in DOMAIN recorded : recorded[i] \in [task : Requests, job : Nat]
          BY <4>1, ElementOfSeq, LenProperties
        <4> QED BY <1>1, <4>2 DEF MInv, WrittenOnce
      <3> QED BY <1>3, <3>1 DEF WrittenOnce
    <2>3. Newest'
      BY <1>1, <1>3 DEF MInv, Newest
    <2> QED BY <2>1, <2>2, <2>3 DEF MInv
  <1>4. ASSUME NEW r \in Requests, NEW j, Records(r, j)
        PROVE  writer'[r].at = "queued" /\ \A q \in Requests : q # r => writer'[q] = writer[q]
    BY <1>1, <1>4 DEF Records
  <1>5. ASSUME NEW r \in Requests, RequestStep(r) PROVE MInv'
    <2>1. RequestInv(r)
      BY Places4
    <2>2. ASSUME Attached(r), request[r].at \in Unattached, UNCHANGED <<taskMap, mapLock, recorded>>
          PROVE  MInv'
      <3>1. writer[r].at = "idle"
        BY <2>1, <2>2 DEF RequestInv, Written
      <3> QED BY <1>2, <1>3, <1>4, <2>2, <3>1 DEF Attached, mapVars
    <2>3. CASE WriterRuns(r)
      BY <2>3, WriterKeepsMap DEF WriterRuns
    <2>4. CASE Begin(r) \/ StartRuns(r) \/ StopRuns(r) \/ ReadRuns(r) \/ StampRuns(r)
      BY <1>2, <2>4 DEF Begin, StartRuns, StopRuns, ReadRuns, StampRuns
    <2>5. CASE Started(r) \/ Reserved(r) \/ Checked(r)
      <3>1. request[r].at \in Unattached /\ UNCHANGED <<taskMap, mapLock, recorded>>
            /\ (UNCHANGED writer \/ Attached(r))
        BY <2>5 DEF Started, Reserved, Checked, Quiet, At, Unattached
      <3> QED BY <1>2, <2>2, <3>1 DEF mapVars
    <2>6. CASE AskAgain(r) \/ Recorded(r) \/ Polled(r) \/ Expired(r) \/ Fetched(r) \/ Delivered(r) \/ Stopped(r)
      BY <1>2, <2>6 DEF AskAgain, Recorded, Polled, Expired, Fetched, Delivered, Stopped, Quiet, mapVars
    <2>7. CASE Cancel(r)
      <3>1. UNCHANGED <<taskMap, mapLock, recorded>>
        BY <2>7 DEF Cancel
      <3>2. CASE writer[r].at = "queued" /\ writer' = [writer EXCEPT ![r].at = "dropped"]
        <4>1. writer'[r].at = "dropped" /\ \A q \in Requests : q # r => writer'[q] = writer[q]
          BY <1>1, <3>2 DEF WriterThread
        <4> QED BY <1>3, <3>1, <3>2, <4>1
      <3> QED BY <1>2, <2>7, <3>1, <3>2
              DEF Cancel, CancelStarting, CancelReserving, CancelWaiting, CancelElsewhere, mapVars
    <2>8. CASE CallBack(r)
      <3>1. callback[r] = "record" => writer[r].at = "idle"
        BY <2>1 DEF RequestInv, Called
      <3> QED BY <1>2, <1>3, <1>4, <2>8, <3>1 DEF CallBack, mapVars
    <2> QED BY <1>5, <2>3, <2>4, <2>5, <2>6, <2>7, <2>8 DEF RequestStep, Thread, Resume
  <1>6. CASE (\E j \in Jobs : JobEnds(j) \/ JobCancelTool(j) \/ JobRemoved(j)) \/ ListPage \/ UNCHANGED vars
    BY <1>2, <1>6 DEF JobEnds, JobCancelTool, JobRemoved, ListPage, Around, vars
  <1> QED BY <1>5, <1>6 DEF Next, RequestStep, Finished

-----------------------------------------------------------------------------
(* Listing.  Only a removal takes a job out of the records, and it takes   *)
(* it out of what must be listed as well.                                  *)
LEMMA KeptStays ==
  ASSUME IInv, [Next]_vars
  PROVE  \/ pager' = pager /\ Kept \subseteq Kept'
         \/ \E j \in Jobs : pager' = [pager EXCEPT !.must = @ \ {j}] /\ Kept \ {j} \subseteq Kept'
         \/ ListPage
  <1>1. job \in [Jobs -> Record]
    BY TypedIsTypeOK DEF IInv, Typed
  <1>2. job' = job => Kept' = Kept
    BY DEF Kept
  <1>3. ASSUME NEW i \in Jobs, NEW x, job' = [job EXCEPT ![i] = x],
               i \in Kept => x.state \in Final \cup {"running"}
        PROVE  Kept \subseteq Kept'
    BY <1>1, <1>3 DEF Kept
  <1>4. ASSUME NEW r \in Requests, RequestStep(r) PROVE pager' = pager /\ Kept \subseteq Kept'
    <2>1. CASE Thread(r)
      <3>1. CASE StartRuns(r)
        <4>1. CASE job' = job
          BY <1>2, <3>1, <4>1 DEF StartRuns
        <4>2. CASE Spawn(r)
          <5>1. PICK i \in FreshIds : \E x : job' = [job EXCEPT ![i] = x]
            BY <4>2 DEF Spawn
          <5>2. i \in Jobs /\ i \notin Kept
            BY DEF FreshIds, Unborn, Kept, Final
          <5> QED BY <1>3, <3>1, <5>1, <5>2 DEF StartRuns
        <4> QED BY <3>1, <4>1, <4>2 DEF StartRuns, Refused, Classified, Contended, jobVars
      <3>2. CASE StopRuns(r)
        <4>1. pager' = pager
          BY <3>2 DEF StopRuns
        <4>2. RequestInv(r) /\ JobOf(r) \in Jobs \cup {NoJob} /\ stop[r] = "queued"
          BY <3>2, Places4 DEF StopRuns
        <4>3. JobOf(r) \in Jobs
          BY <4>2 DEF RequestInv, Halted
        <4>4. CASE job' = job
          BY <1>2, <4>1, <4>4
        <4>5. ASSUME NEW s \in {"cancelled", "done"}, job' = [job EXCEPT ![JobOf(r)].state = s]
              PROVE  Kept \subseteq Kept'
          BY <1>1, <4>3, <4>5 DEF Kept, Final, Record
        <4> QED BY <3>2, <4>1, <4>4, <4>5 DEF StopRuns, Cancelled
      <3>3. CASE StampRuns(r)
        <4>1. PICK b \in BOOLEAN : job' = [job EXCEPT ![JobOf(r)].delivered = b]
          BY <3>3 DEF StampRuns
        <4>2. \A j \in Jobs : job'[j].state = job[j].state
          BY <1>1, <4>1 DEF Record
        <4> QED BY <3>3, <4>2 DEF StampRuns, Kept
      <3>4. CASE ReadRuns(r) \/ WriterRuns(r)
        BY <1>2, <3>4 DEF ReadRuns, WriterRuns, jobVars
      <3> QED BY <2>1, <3>1, <3>2, <3>3, <3>4 DEF Thread
    <2>2. CASE Resume(r)
      BY <1>2, <2>2 DEF Resume, Started, Reserved, AskAgain, Checked, Recorded, Polled, Expired,
                        Fetched, Delivered, Stopped, Quiet, jobVars
    <2>3. CASE Begin(r) \/ Cancel(r) \/ CallBack(r)
      BY <1>2, <2>3 DEF Begin, Cancel, CallBack, jobVars
    <2> QED BY <1>4, <2>1, <2>2, <2>3 DEF RequestStep
  <1>5. ASSUME NEW j \in Jobs, JobEnds(j) \/ JobCancelTool(j) PROVE pager' = pager /\ Kept \subseteq Kept'
    <2>1. PICK s \in Final : \/ job' = [job EXCEPT ![j].state = s]
                             \/ job' = [job EXCEPT ![j].state = s, ![j].asked = TRUE]
      BY <1>5 DEF JobEnds, JobCancelTool, Final
    <2>2. job'[j].state = s /\ \A i \in Jobs : i # j => job'[i] = job[i]
      BY <1>1, <2>1 DEF Record
    <2> QED BY <1>5, <2>2 DEF JobEnds, JobCancelTool, Kept
  <1>6. ASSUME NEW j \in Jobs, JobRemoved(j)
        PROVE  pager' = [pager EXCEPT !.must = @ \ {j}] /\ Kept \ {j} \subseteq Kept'
    <2>1. \A i \in Jobs : i # j => job'[i] = job[i]
      BY <1>1, <1>6 DEF JobRemoved
    <2> QED BY <1>6, <2>1 DEF JobRemoved, Kept
  <1>7. CASE UNCHANGED vars
    BY <1>2, <1>7 DEF vars, jobVars
  <1> QED BY <1>4, <1>5, <1>6, <1>7 DEF Next, RequestStep, Finished

(* A page goes on where the last one stopped.                              *)
LEMMA ListPageKeeps ==
  ASSUME IInv, ListPage
  PROVE  PagerInv'
  <1> DEFINE page == Page(Rows, pager.anchor)
             rows == page.rows
             before == pager.listed
             after == before \o Shown
  <1>1. /\ pager.anchor \in Row /\ before \in Seq(Jobs) /\ pager.at \in {"idle", "paging", "done"}
        /\ PagerInv
    BY TypedIsTypeOK DEF IInv, Typed
  <1>2. /\ page.hasMore \in BOOLEAN /\ rows \in Seq(Rows)
        /\ \A i \in DOMAIN rows : Past(rows[i], pager.anchor)
        /\ \A i, k \in DOMAIN rows : rows[i] = rows[k] => i = k
        /\ page.hasMore => /\ Len(rows) \in DOMAIN rows
                           /\ \A i \in DOMAIN rows : ~Below(rows[i], Last(rows))
        /\ \A x \in Rows : Past(x, pager.anchor) =>
             \/ \E i \in DOMAIN rows : rows[i] = x
             \/ page.hasMore /\ Below(x, Last(rows))
    BY <1>1, RowsType, PageIsAPrefix
  <1>3. /\ Shown \in Seq(Kept) /\ DOMAIN Shown = DOMAIN rows
        /\ \A i \in DOMAIN Shown : RowOf(Shown[i]) = rows[i]
    BY ListPageTypes
  <1>4. /\ pager'.at = IF page.hasMore THEN "paging" ELSE "done"
        /\ pager'.anchor = IF page.hasMore THEN Last(rows) ELSE FirstPage
        /\ pager'.listed = after
        /\ pager'.must = IF pager.at = "idle" THEN Kept ELSE pager.must
        /\ pager.at \in {"idle", "paging"} /\ job' = job
    BY DEF ListPage, Shown, jobVars
  <1> HIDE DEF page, rows, before, after
  <1>5. /\ \A i \in DOMAIN Shown : Shown[i] \in Kept
        /\ \A i \in DOMAIN before : before[i] \in Jobs
        /\ \A i \in DOMAIN rows : rows[i] \in Rows
    BY <1>1, <1>2, <1>3, ElementOfSeq, LenProperties
  <1>6. /\ Len(before) \in Nat /\ Len(Shown) \in Nat
        /\ DOMAIN before = 1..Len(before) /\ DOMAIN Shown = 1..Len(Shown)
        /\ Len(after) = Len(before) + Len(Shown) /\ DOMAIN after = 1..Len(after)
        /\ \A i \in 1..Len(after) : after[i] = IF i <= Len(before) THEN before[i] ELSE Shown[i - Len(before)]
    <2>1. Shown \in Seq(Jobs)
      BY <1>3, RowsType, SeqMonotonic
    <2>2. after \in Seq(Jobs)
      BY <1>1, <2>1, ConcatProperties DEF after
    <2> QED BY <1>1, <2>1, <2>2, LenProperties, ConcatProperties DEF after
  \* an entry of the new list is old or shown now
  <1>7. ASSUME NEW i \in DOMAIN after
        PROVE  \/ i \in DOMAIN before /\ after[i] = before[i]
               \/ i - Len(before) \in DOMAIN Shown /\ after[i] = Shown[i - Len(before)]
    BY <1>6
  <1>8. /\ \A i \in DOMAIN before : i \in DOMAIN after /\ after[i] = before[i]
        /\ \A i \in DOMAIN Shown : Len(before) + i \in DOMAIN after /\ after[Len(before) + i] = Shown[i]
    <2>1. \A i \in DOMAIN Shown : ~(Len(before) + i <= Len(before)) /\ (Len(before) + i) - Len(before) = i
      BY <1>6
    <2> QED BY <1>6, <2>1
  <1>9. ASSUME NEW j \in Kept, NEW i \in DOMAIN Shown, Shown[i] = j
        PROVE  RowOf(j) \in Rows /\ RowOf(j) = rows[i] /\ Past(RowOf(j), pager.anchor)
    BY <1>2, <1>3, <1>9, RowsType
  <1>10. \A j \in Jobs : RowOf(j) \in Row
    <2>1. job \in [Jobs -> Record]
      BY TypedIsTypeOK DEF IInv, Typed
    <2> QED BY <2>1, Constants DEF RowOf, Row, Record
  <1>11. page.hasMore => Last(rows) \in Row /\ Last(rows) # FirstPage
    <2>1. ASSUME page.hasMore
          PROVE  Last(rows) \in Row /\ Last(rows) # FirstPage
      <3>1. Last(rows) \in Rows
        BY <1>2, <1>5, <2>1 DEF Last
      <3>2. Last(rows).id \in Kept
        BY <3>1, RowsType
      <3>3. Last(rows).id # 0
        BY <3>2, Constants, RowsType
      <3> QED BY <3>1, <3>3, RowsType DEF FirstPage
    <2> QED BY <2>1
  \* what was listed before sorts no lower than anything listed now
  <1>12. ASSUME NEW i \in DOMAIN before, NEW k \in DOMAIN Shown
         PROVE  before[i] # Shown[k] /\ ~Below(RowOf(before[i]), rows[k])
    <2>1. CASE pager.at = "idle"
      BY <1>1, <2>1, EmptySeq DEF PagerInv, before
    <2>2. CASE pager.at = "paging"
      <3>1. ~Below(RowOf(before[i]), pager.anchor) /\ pager.anchor # FirstPage
        BY <1>1, <2>2 DEF PagerInv, before
      <3>2. Below(rows[k], pager.anchor) /\ rows[k] = RowOf(Shown[k])
        BY <1>2, <1>3, <3>1 DEF Past
      <3>3. rows[k] \in Row /\ RowOf(before[i]) \in Row
        BY <1>3, <1>5, <1>10, RowsType
      <3>4. ~Below(RowOf(before[i]), rows[k])
        BY <1>1, <3>1, <3>2, <3>3, BelowOrders
      <3> QED BY <3>1, <3>2, <3>4
    <2> QED BY <1>4, <2>1, <2>2
  <1>13. ASSUME NEW i \in DOMAIN after
         PROVE  /\ job[after[i]].state # "none"
                /\ page.hasMore => ~Below(RowOf(after[i]), Last(rows))
    <2>1. CASE i \in DOMAIN before /\ after[i] = before[i]
      <3>1. job[before[i]].state # "none"
        BY <1>1, <2>1 DEF PagerInv, before
      <3>2. page.hasMore => ~Below(RowOf(before[i]), Last(rows))
        <4>1. CASE page.hasMore
          BY <1>2, <1>3, <1>12, <2>1, <4>1 DEF Last
        <4> QED BY <4>1
      <3> QED BY <2>1, <3>1, <3>2
    <2>2. CASE i - Len(before) \in DOMAIN Shown /\ after[i] = Shown[i - Len(before)]
      <3>1. after[i] \in Kept /\ RowOf(after[i]) = rows[i - Len(before)]
        BY <1>3, <1>5, <2>2
      <3>2. job[after[i]].state # "none"
        BY <3>1 DEF Kept, Final
      <3>3. page.hasMore => ~Below(rows[i - Len(before)], Last(rows))
        BY <1>2, <1>3, <2>2
      <3> QED BY <3>1, <3>2, <3>3
    <2> QED BY <1>7, <2>1, <2>2
  <1>14. IsInjective(after)
    <2>1. \A i, k \in DOMAIN before : before[i] = before[k] => i = k
      BY <1>1 DEF PagerInv, before, IsInjective
    <2>2. \A i, k \in DOMAIN Shown : Shown[i] = Shown[k] => i = k
      BY <1>2, <1>3
    <2>3. ASSUME NEW i \in DOMAIN after, NEW k \in DOMAIN after, after[i] = after[k]
          PROVE  i = k
      <3>1. i \in Nat /\ k \in Nat
        BY <1>6
      <3>2. CASE i \in DOMAIN before /\ after[i] = before[i]
        BY <1>7, <1>12, <2>1, <2>3, <3>2
      <3>3. CASE i - Len(before) \in DOMAIN Shown /\ after[i] = Shown[i - Len(before)]
        <4>1. k - Len(before) \in DOMAIN Shown /\ after[k] = Shown[k - Len(before)]
          BY <1>7, <1>12, <2>3, <3>3
        <4>2. i - Len(before) = k - Len(before)
          BY <2>2, <2>3, <3>3, <4>1
        <4> QED BY <1>6, <3>1, <4>2
      <3> QED BY <1>7, <3>2, <3>3
    <2> QED BY <2>3 DEF IsInjective
  \* what must be listed is listed, or sorts below the new anchor
  <1>15. ASSUME NEW j \in Kept, Past(RowOf(j), pager.anchor)
         PROVE  \/ \E i \in DOMAIN after : after[i] = j
                \/ page.hasMore /\ Below(RowOf(j), Last(rows))
    <2>1. RowOf(j) \in Rows /\ RowOf(j).id = j
      BY RowsType
    <2>2. CASE \E i \in DOMAIN rows : rows[i] = RowOf(j)
      <3>1. PICK i \in DOMAIN Shown : rows[i] = RowOf(j)
        BY <1>3, <2>2
      <3>2. Shown[i] = j
        <4>1. RowOf(Shown[i]) = RowOf(j) /\ Shown[i] \in Kept
          BY <1>3, <1>5, <3>1
        <4> QED BY <2>1, <4>1, RowsType
      <3> QED BY <1>8, <3>1, <3>2
    <2> QED BY <1>2, <1>15, <2>1, <2>2
  <1>16. pager'.must \subseteq Kept
    BY <1>1, <1>4 DEF PagerInv
  <1>17. ASSUME NEW j \in pager'.must
         PROVE  \/ \E i \in DOMAIN after : after[i] = j
                \/ page.hasMore /\ Below(RowOf(j), Last(rows))
    <2>1. CASE pager.at = "idle"
      <3>1. pager.anchor = FirstPage
        BY <1>1, <2>1 DEF PagerInv
      <3> QED BY <1>4, <1>15, <1>16, <2>1, <3>1 DEF Past
    <2>2. CASE pager.at = "paging"
      <3>1. \/ \E i \in DOMAIN before : before[i] = j
            \/ Below(RowOf(j), pager.anchor)
        BY <1>1, <1>4, <2>2 DEF PagerInv, before
      <3> QED BY <1>8, <1>15, <1>16, <3>1 DEF Past
    <2> QED BY <1>4, <2>1, <2>2
  <1>18. /\ pager'.at # "idle"
         /\ pager'.at = "paging" <=> page.hasMore
         /\ page.hasMore => pager'.anchor = Last(rows)
         /\ ~page.hasMore => pager'.anchor = FirstPage
    BY <1>2, <1>4
  <1>19. Kept' = Kept /\ (\A j \in Jobs : RowOf(j)' = RowOf(j))
    BY <1>4 DEF Kept, RowOf
  <1>20. \A j \in Jobs : [born |-> job'[j].born, id |-> j] = RowOf(j)
    BY <1>4 DEF RowOf
  <1>21. \A i \in DOMAIN after : after[i] \in Jobs
    BY <1>5, <1>7, RowsType
  <1>22. \A i \in DOMAIN after :
           /\ job'[after[i]].state # "none"
           /\ pager'.at = "paging" => ~Below(RowOf(after[i]), pager'.anchor)
    BY <1>4, <1>13, <1>18
  <1>23. \A j \in pager'.must :
           \/ \E i \in DOMAIN after : after[i] = j
           \/ pager'.at = "paging" /\ Below(RowOf(j), pager'.anchor)
    BY <1>17, <1>18
  <1>24. pager'.at = "paging" <=> pager'.anchor # FirstPage
    BY <1>11, <1>18
  <1>25. \A x : RowOf(x)' = RowOf(x)
    BY <1>4 DEF RowOf
  <1> QED BY <1>4, <1>14, <1>16, <1>18, <1>19, <1>22, <1>23, <1>24, <1>25 DEF PagerInv

LEMMA PagerKept ==
  ASSUME IInv, [Next]_vars
  PROVE  PagerInv'
  <1>1. /\ pager \in [at : {"idle", "paging", "done"}, anchor : Row, listed : Seq(Jobs), must : SUBSET Jobs]
        /\ PagerInv /\ \A j \in Jobs : Moves(j)
    BY TypedIsTypeOK, JobsMove DEF IInv, Typed
  <1>2. \A i \in DOMAIN pager.listed : pager.listed[i] \in Jobs
    BY <1>1, ElementOfSeq, LenProperties
  <1>3. ASSUME NEW gone \in SUBSET Jobs, pager'.at = pager.at, pager'.anchor = pager.anchor,
               pager'.listed = pager.listed, pager'.must = pager.must \ gone, Kept \ gone \subseteq Kept'
        PROVE  PagerInv'
    <2> DEFINE NewRow(j) == [born |-> job'[j].born, id |-> j]
    <2>1. \A j \in Jobs : job[j].state # "none" => NewRow(j) = RowOf(j) /\ job'[j].state # "none"
      BY <1>1 DEF RowOf, Moves
    <2>2. \A j \in pager.must : j \in Jobs /\ job[j].state # "none"
      BY <1>1 DEF PagerInv, Kept, Final
    <2>3. \A i \in DOMAIN pager.listed : pager.listed[i] \in Jobs /\ job[pager.listed[i]].state # "none"
      BY <1>1, <1>2 DEF PagerInv
    <2>4. /\ pager.at = "idle" => pager.listed = <<>> /\ pager'.must = {}
          /\ pager.at = "paging" <=> pager.anchor # FirstPage
          /\ IsInjective(pager.listed)
          /\ pager'.must \subseteq Kept'
      BY <1>1, <1>3 DEF PagerInv
    <2>5. \A i \in DOMAIN pager.listed :
            /\ job'[pager.listed[i]].state # "none"
            /\ pager.at = "paging" => ~Below(NewRow(pager.listed[i]), pager.anchor)
      <3> HIDE DEF NewRow
      <3> QED BY <1>1, <2>1, <2>3 DEF PagerInv
    <2>6. \A j \in pager'.must :
            \/ \E i \in DOMAIN pager.listed : pager.listed[i] = j
            \/ pager.at = "paging" /\ Below(NewRow(j), pager.anchor)
      <3> HIDE DEF NewRow
      <3> QED BY <1>1, <1>3, <2>1, <2>2 DEF PagerInv
    <2> QED BY <1>3, <2>4, <2>5, <2>6 DEF PagerInv, RowOf
  <1>4. CASE pager' = pager /\ Kept \subseteq Kept'
    <2> DEFINE nobody == {}
    <2>1. /\ pager'.at = pager.at /\ pager'.anchor = pager.anchor /\ pager'.listed = pager.listed
          /\ pager'.must = pager.must \ nobody /\ Kept \ nobody \subseteq Kept' /\ nobody \in SUBSET Jobs
      BY <1>4
    <2> HIDE DEF nobody
    <2> QED BY <1>3, <2>1
  <1>5. ASSUME NEW j \in Jobs, pager' = [pager EXCEPT !.must = @ \ {j}], Kept \ {j} \subseteq Kept'
        PROVE  PagerInv'
    <2>1. /\ pager'.at = pager.at /\ pager'.anchor = pager.anchor /\ pager'.listed = pager.listed
          /\ pager'.must = pager.must \ {j}
      BY <1>1, <1>5
    <2> QED BY <1>3, <1>5, <2>1
  <1> QED BY <1>4, <1>5, KeptStays, ListPageKeeps

-----------------------------------------------------------------------------
(* The invariant is inductive.                                             *)
LEMMA InitInv == Init => IInv
  <1> SUFFICES ASSUME Init PROVE IInv
    OBVIOUS
  <1>1. TypeOK
    BY InitTypes
  <1>2. RInv
    <2> SUFFICES ASSUME NEW r \in Requests PROVE RequestInv(r)
      BY DEF RInv
    <2>1. /\ start[r] = NoStart /\ stop[r] = "idle" /\ callback[r] = "none" /\ writer[r] = NoWriter
          /\ request[r].at = "idle" /\ request[r].saw = Unread
      BY DEF Init, MapInit
    <2>2. JobOf(r) = NoJob
      BY <2>1 DEF JobOf, NoStart
    <2>3. Placed(r) /\ Named(r) /\ Halted(r)
      BY <2>1, <2>2 DEF Placed, Named, Halted, At, Serving, NoStart
    <2>4. Called(r) /\ Written(r) /\ Seen(r) /\ Answered(r)
      BY <2>1 DEF Called, Written, Seen, Answered, At, NoWriter, Unread, Final
    <2> QED BY <2>3, <2>4 DEF RequestInv
  <1>3. IndexNames
    BY DEF Init, IndexNames
  <1>4. SharedRunSurvives
    BY DEF Init, SharedRunSurvives, NoRecord
  <1>5. MInv
    <2>1. taskMap = <<>> /\ recorded = <<>> /\ mapLock = {} /\ \A r \in Requests : writer[r].at = "idle"
      BY DEF Init, MapInit, NoWriter
    <2>2. LockInv
      BY <2>1 DEF LockInv
    <2>3. WrittenOnce /\ Newest
      BY <2>1, TaskMapAssumption DEF WrittenOnce, Newest
    <2> QED BY <2>2, <2>3 DEF MInv
  <1>6. PagerInv
    <2>1. pager.at = "idle" /\ pager.anchor = FirstPage /\ pager.listed = <<>> /\ pager.must = {}
      BY DEF Init
    <2> QED BY <2>1 DEF PagerInv, IsInjective
  <1> QED BY <1>1, <1>2, <1>3, <1>4, <1>5, <1>6 DEF IInv

LEMMA NextInv == IInv /\ [Next]_vars => IInv'
  BY StepTypes, RequestsKept, IndexKept, SharedKept, MapKept, PagerKept DEF IInv

LEMMA Invariance == Spec => []IInv
  <1>1. Init => IInv
    BY InitInv
  <1>2. IInv /\ [Next]_vars => IInv'
    BY NextInv
  <1> QED BY <1>1, <1>2, PTL DEF Spec

-----------------------------------------------------------------------------
(* Every variable of the lifecycle keeps its type: a request never waits   *)
(* somewhere lifecycle.py has no await, no answer has a code it does not   *)
(* give, and the map only ever names jobs.                                 *)
THEOREM LifecycleIsTyped == Spec => []TypeOK
  <1>1. IInv => TypeOK
    BY DEF IInv
  <1> QED BY <1>1, Invariance, PTL

(* A run that is shared under a key outlives every wait for it, whoever    *)
(* waits, times out or is cancelled at whichever await: only               *)
(* amicus_job_cancel stops it.                                             *)
THEOREM SharedRunsSurvive == Spec => []SharedRunSurvives
  <1>1. IInv => SharedRunSurvives
    BY DEF IInv
  <1> QED BY <1>1, Invariance, PTL

(* Whatever a paid call answers is true of its job, at that moment and     *)
(* from then on, and names the job while its record is kept, however many  *)
(* requests share it and whoever else ends or removes it.                  *)
THEOREM AnswersStayTrue == Spec => []AnswersAreTrue
  <1>1. IInv => AnswersAreTrue
    BY DEF IInv, RInv, RequestInv, Answered, AnswersAreTrue
  <1> QED BY <1>1, Invariance, PTL

(* The task map is the newest MaxEntries of all that was ever recorded, in *)
(* order, however the threads that record interleave.                      *)
THEOREM TaskMapIsNewest == Spec => []TaskMapKeepsNewest
  <1>1. IInv => TaskMapKeepsNewest
    BY NewestIsSuffix, TypedIsTypeOK DEF IInv, MInv, Typed, MapEntry
  <1> QED BY <1>1, Invariance, PTL

(* A client that pages through the jobs sees none twice, and none that was *)
(* kept throughout is missing, for every limit, whatever starts, ends or   *)
(* is removed between two pages, and whatever epochs the jobs share.       *)
THEOREM PagingMissesNothing == Spec => []PagingIsComplete
  <1>1. IInv => PagingIsComplete
    <2> SUFFICES ASSUME IInv PROVE PagingIsComplete
      OBVIOUS
    <2>1. PagerInv /\ pager.listed \in Seq(Jobs)
      BY TypedIsTypeOK DEF IInv, Typed
    <2>2. ASSUME pager.at = "done", NEW j \in pager.must PROVE j \in ToSet(pager.listed)
      BY <2>1, <2>2 DEF PagerInv, ToSet
    <2> QED BY <2>1, <2>2 DEF PagingIsComplete, PagerInv
  <1> QED BY <1>1, Invariance, PTL
=============================================================================
