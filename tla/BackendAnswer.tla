---------------------------- MODULE BackendAnswer ----------------------------
(***************************************************************************)
(* What a backend's run leaves, what its adapter reads out of it           *)
(* (src/src/amicus/backends/), and what run_request makes of that          *)
(* (src/src/amicus/orchestration/run.py).  A message is the final one or   *)
(* an earlier one; Lost is the marker the capture leaves for a gap.        *)
(***************************************************************************)
EXTENDS Launch

Early == "early"
Final == "final"
Lost == "lost"
NoText == "none"

(* The messages a kimi run writes, and what a bounded capture keeps of     *)
(* them: all, or a head and a tail around one marker; a reader that dies   *)
(* keeps a head and no marker.                                             *)
Told == {<<>>, <<Final>>, <<Early, Final>>}
Torn(told) ==
  {SubSeq(told, 1, gap[1]) \o <<Lost>> \o SubSeq(told, gap[2], Len(told)) :
     gap \in {p \in (0..Len(told)) \X (1..(Len(told) + 1)) : p[2] > p[1] + 1}}

Streams(told) ==
  {<<"whole", told>>} \cup {<<"truncated", s>> : s \in Torn(told)} \cup
  {<<"failed", SubSeq(told, 1, i)>> : i \in 0..Len(told)}

Ends == {"clean", "nonzero", "timeout"}
Envelopes == {"answer", "silent", "denied", "error", "none"}
ArtifactFiles == {"absent", "empty", "text", "oversize", "not_regular", "unreadable"}
Refusals == {"oversize", "not_regular", "unreadable"}

(* What a run of a backend leaves: how it ended, its captured stream,      *)
(* claude's envelope in it (one document, read only if all of it is        *)
(* there), the answer file if it was given one.  told is what it said.     *)
Staged == spec.backend = "codex" \/ (spec.backend = "kimi" /\ spec.verb = "delegate")

Tells(backend) ==
  CASE backend = "codex" -> {<<>>} [] backend = "claude" -> {<<>>, <<Final>>} [] OTHER -> Told

EnvelopesOf(backend, told, captured) ==
  IF backend # "claude" THEN {"none"}
  ELSE IF captured[2] = <<Final>> THEN {"answer"}
  ELSE IF told = <<>> /\ captured[1] = "whole" THEN {"silent", "denied", "error", "none"}
  ELSE {"none"}

Written(backend) ==
  {w \in Tells(backend) \X (UNION {Streams(t) : t \in Told}) \X Envelopes :
     w[2] \in Streams(w[1]) /\ w[3] \in EnvelopesOf(backend, w[1], w[2])}

OutputsOf(backend, hasFile) ==
  {[end |-> e, told |-> w[1], capture |-> w[2][1], stream |-> w[2][2], envelope |-> w[3],
    file |-> a, says |-> Quiet] :
     e \in Ends, w \in Written(backend), a \in IF hasFile THEN ArtifactFiles ELSE {"absent"}}

Outputs ==
  [backend \in Backends |-> [hasFile \in BOOLEAN |-> OutputsOf(backend, hasFile)]]

(* A backend that could not be spawned says nothing.                       *)
Unspawned ==
  [end |-> "missing", told |-> <<>>, capture |-> "whole", stream |-> <<>>, envelope |-> "none",
   file |-> "absent", says |-> Quiet]

-----------------------------------------------------------------------------
(* _read_bounded: an absent file is no text, what cannot be read is        *)
(* refused, whatever it holds.                                             *)
FileText(out) == IF Staged /\ out.file = "text" THEN Final ELSE NoText
Refused(out) == Staged /\ out.file \in Refusals

(* The last message of a stream, and whether a gap comes after it.         *)
LastMessage(stream) ==
  LET said == {i \in DOMAIN stream : stream[i] # Lost}
  IN  IF said = {} THEN NoText ELSE stream[Max(said)]

LostAfter(stream) ==
  \E i \in DOMAIN stream :
    stream[i] = Lost /\ \A k \in DOMAIN stream : k > i => stream[k] = Lost

StreamLoss(out, after) ==
  IF out.capture = "failed" THEN "capture_failed"
  ELSE IF out.capture = "truncated" /\ after THEN "truncated"
  ELSE "none"

(* The three adapters' finalize: the answer, and what its stream lost.     *)
Answer(out) ==
  CASE spec.backend = "codex" -> FileText(out)
    [] spec.backend = "claude" -> IF out.envelope = "answer" THEN Final ELSE NoText
    [] OTHER -> IF FileText(out) # NoText THEN FileText(out) ELSE LastMessage(out.stream)

(* Mutant: only a stream without any message counts as cut.                *)
LossTrusting(out) ==
  CASE spec.backend = "codex" -> "none"
    [] spec.backend = "claude" ->
         IF out.envelope # "none" THEN "none" ELSE StreamLoss(out, TRUE)
    [] OTHER -> IF FileText(out) # NoText THEN "none"
                ELSE StreamLoss(out, LastMessage(out.stream) = NoText)

Loss(out) ==
  CASE spec.backend = "codex" -> "none"
    [] spec.backend = "claude" ->
         IF out.envelope # "none" THEN "none" ELSE StreamLoss(out, TRUE)
    [] OTHER -> IF FileText(out) # NoText THEN "none" ELSE StreamLoss(out, LostAfter(out.stream))

(* inspect_outcome: what a clean exit, if it is one, does not reveal.      *)
Inspected(out) ==
  CASE spec.backend = "claude" ->
         (CASE out.envelope = "none" -> "invalid_json"
            [] out.envelope = "error" -> ClaudeCode(out.says)
            [] out.envelope = "denied" -> "permission_error"
            [] OTHER -> "none")
    [] spec.backend = "kimi" -> IF Answer(out) = NoText THEN "empty_response" ELSE "none"
    [] OTHER -> "none"

(* classify_failure, where the run did not end cleanly.                    *)
Failure(out) ==
  CASE out.end = "clean" -> Inspected(out)
    [] out.end = "missing" -> "backend_not_found"
    [] out.end = "timeout" -> "timeout"
    [] OTHER -> Classified(out.says)

(* render_failure, keyed_stored_error: whether the identical call may      *)
(* succeed later.                                                          *)
Temporary(code, out) ==
  /\ ~Shell.keyed
  /\ \/ code \in {"backend_rate_limited", "invalid_json", "empty_response"}
     \/ code = "nonzero_exit" /\ out.envelope # "error"
     \/ code = "timeout" /\ Codex /\ out.capture = "failed"

(* A failure that is the refusal, or the gap, seen from the other side.    *)
Explained(out) ==
  /\ out.end = "clean"
  /\ \/ Refused(out) /\ Failure(out) = "empty_response"
     \/ Loss(out) # "none" /\ Failure(out) \in {"empty_response", "invalid_json"}

(* run_request, once the diff is captured: an error, or the answer that is *)
(* delivered.  A substitute for a refused file must be whole; a delegate's *)
(* diff does not depend on either.                                         *)
Doubtful(out) == Refused(out) \/ Loss(out) # "none"
Substituted(out) == Answer(out) # NoText /\ Loss(out) = "none"

Concluded(out, diffed) ==
  LET Conclusion(code, text, warned, overridden) ==
        [code |-> code, text |-> text, warned |-> warned, overridden |-> overridden]
  IN  IF Failure(out) # "none" /\ ~Explained(out) THEN Conclusion(Failure(out), NoText, FALSE, FALSE)
      ELSE IF ~Doubtful(out) THEN Conclusion("ok", Answer(out), FALSE, FALSE)
      ELSE IF Substituted(out) THEN Conclusion("ok", Answer(out), TRUE, FALSE)
      ELSE IF spec.verb = "delegate" /\ diffed THEN Conclusion("ok", NoText, Refused(out), TRUE)
      ELSE Conclusion("answer_unavailable", NoText, FALSE, FALSE)
=============================================================================
