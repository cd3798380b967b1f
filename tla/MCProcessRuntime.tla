-------------------------- MODULE MCProcessRuntime --------------------------
(* ProcessRuntime on six commands: one that overflows every bound of the   *)
(* capture and the queue; one with a prompt that writes more on stderr     *)
(* than its pipe holds while a pump may fail; one that floods both         *)
(* streams; one of two processes that may hang, without a marker; and two  *)
(* that start every kind of process: with a marker while ps may fail, and  *)
(* without one.  The last three may be cancelled.                          *)
EXTENDS ProcessRuntime, TLC

MCText(out, err) == [s \in Streams |-> IF s = "out" THEN out ELSE err]
MCCommand(prompt, marker, procs, text, events) ==
  [prompt |-> prompt, marker |-> marker, procs |-> procs, text |-> text, events |-> events]
MCCommands == {
  MCCommand(FALSE, FALSE, {"leader"}, MCText(4, 0), {"slow"}),
  MCCommand(TRUE, FALSE, {"leader"}, MCText(0, 2), {"popen", "fail"}),
  MCCommand(FALSE, FALSE, {"leader"}, MCText(2, 2), {}),
  MCCommand(FALSE, FALSE, {"leader", "heir"}, MCText(0, 0), {"hang", "cancel"}),
  MCCommand(FALSE, TRUE, Procs, MCText(0, 0), {"cancel", "blind"}),
  MCCommand(FALSE, FALSE, Procs, MCText(0, 0), {"cancel"}) }
MCCap == MCText(3, 2)
=============================================================================
