----------------------------- MODULE ReviewFold -----------------------------
(***************************************************************************)
(* src/src/amicus/orchestration/review.py and finalize.py: how complete a  *)
(* review was, what of a backend's reply amicus could carry, and what both *)
(* make of its verdict.                                                    *)
(***************************************************************************)
EXTENDS DiffGather

(* A reply is prose, or an object with a verdict and the kinds of entry    *)
(* its list of findings holds, when it has such a list.  A "fail" is one   *)
(* with "concerns": both folds let it stand.                               *)
Entries == {"valid", "severity", "extra", "invalid"}
Prose == [verdict |-> "none", listed |-> "absent", entries |-> {}]
Replies ==
  {Prose} \cup
  [verdict : {"pass", "concerns", "other"}, listed : {"list"}, entries : SUBSET Entries] \cup
  [verdict : {"pass", "concerns", "other"}, listed : {"absent", "container"}, entries : {{}}]

(* build_coverage: why a review is partial.                                *)
Omitted == gather.detected - gather.included

Omissions ==
  {r \in {"untracked_omitted", "tree_changed_during_gather", "truncated", "redacted", "focused"} :
     CASE r = "untracked_omitted" -> OverTree /\ Omitted > 0
       [] r = "tree_changed_during_gather" -> OverTree /\ gather.moved
       [] r = "truncated" -> Truncated
       [] r = "redacted" -> RedactedPaths # {}
       [] r = "focused" -> spec.focused}

(* coerce_findings: what deviated, and what of that lost content.          *)
Deviations(reply) ==
  CASE reply.listed = "absent" -> {"missing_findings"}
    [] reply.listed = "container" -> {"invalid_container"}
    [] OTHER -> {r \in {"invalid_entry", "severity_normalized", "extra_fields_omitted"} :
                   CASE r = "invalid_entry" -> "invalid" \in reply.entries
                     [] r = "severity_normalized" -> "severity" \in reply.entries
                     [] OTHER -> "extra" \in reply.entries}

Losses == {"invalid_entry", "invalid_container", "missing_findings"}

(* A verdict outside the vocabulary is unknown.                            *)
VerdictOf(reply) == IF reply.verdict \in {"pass", "concerns"} THEN reply.verdict ELSE "unknown"

(* apply_coverage, then apply_findings_loss.                               *)
OverPart(verdict) == IF Omissions # {} /\ verdict = "pass" THEN "unknown" ELSE verdict

OverLoss(verdict, deviations) ==
  IF deviations \cap Losses # {} /\ verdict # "concerns" THEN "unknown" ELSE verdict

Folded(reply) == OverLoss(OverPart(VerdictOf(reply)), Deviations(reply))
=============================================================================
