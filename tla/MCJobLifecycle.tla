--------------------------- MODULE MCJobLifecycle ---------------------------
(* JobLifecycle on five profiles: two tasks that share a key, under        *)
(* cancellation, deadlines and removals; one request with the key of       *)
(* another's arguments; unkeyed calls, one of them asynchronous; three     *)
(* tasks that record at once; and a client that pages through three jobs.  *)
EXTENDS JobLifecycle, TLC

MCRequests == {"p", "q", "r"}
MCJobs == 1..3
MCRequest(tool, key, args, tasked) ==
  [tool |-> tool, key |-> key, args |-> args, tasked |-> tasked]
MCIdle == MCRequest("none", NoKey, "a", FALSE)
MCProfile(p, q, r, epochs, events) ==
  [requests |-> [x \in MCRequests |-> CASE x = "p" -> p [] x = "q" -> q [] OTHER -> r],
   epochs |-> epochs, events |-> events]
MCProfiles == {
  MCProfile(MCRequest("sync", "k", "a", TRUE), MCRequest("sync", "k", "a", TRUE), MCIdle,
            {1}, {"cancel", "expire", "remove", "busy", "unread", "asked", "fail"}),
  MCProfile(MCRequest("async", "k", "a", FALSE), MCRequest("async", "k", "b", FALSE), MCIdle,
            {1}, {"cancel", "remove", "refuse", "busy", "unread"}),
  MCProfile(MCRequest("sync", NoKey, "a", TRUE), MCRequest("async", NoKey, "a", FALSE), MCIdle,
            {1}, {"cancel", "expire", "remove", "refuse", "unread", "fail"}),
  MCProfile(MCRequest("sync", "k", "a", TRUE), MCRequest("sync", "k", "a", TRUE),
            MCRequest("sync", "k", "a", TRUE), {1}, {}),
  MCProfile(MCRequest("async", NoKey, "a", FALSE), MCRequest("async", NoKey, "a", FALSE),
            MCRequest("async", NoKey, "a", FALSE), {1, 2}, {"remove", "page"}) }
=============================================================================
