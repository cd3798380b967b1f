----------------------------- MODULE JobListing -----------------------------
(***************************************************************************)
(* How amicus_job_list of src/src/amicus/tools/jobs.py cuts the records of *)
(* a workspace into pages: a cursor is the sort key of the last row of a   *)
(* page, and the next page is what sorts below it.  A row is a record with *)
(* the fields born, its started_epoch, and id; operators only.             *)
(***************************************************************************)
EXTENDS Naturals, Sequences, FiniteSets, SequencesExt

CONSTANT PageLimit    \* the limit the client asks for

(* Rows in the order of (started_epoch, job_id).                           *)
Below(row, anchor) ==
  row.born < anchor.born \/ (row.born = anchor.born /\ row.id < anchor.id)

(* The listing, newest first.                                              *)
Listing(rows) ==
  CHOOSE s \in [1..Cardinality(rows) -> rows] :
    \A i, k \in DOMAIN s : i < k => Below(s[k], s[i])

FirstPage == [born |-> 0, id |-> 0]

(* mutant: a page starts below the epoch of its anchor *)
PastEpoch(row, anchor) == anchor = FirstPage \/ row.born < anchor.born

Past(row, anchor) == anchor = FirstPage \/ Below(row, anchor)

Page(rows, anchor) ==
  LET left == Listing({row \in rows : Past(row, anchor)})
      truncated == Len(left) > PageLimit
  IN  [rows |-> IF truncated THEN SubSeq(left, 1, PageLimit) ELSE left,
       hasMore |-> truncated]
=============================================================================
