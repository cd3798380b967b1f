---------------------------- MODULE MCJobStore ----------------------------
(* Instances of JobStore for TLC: two servers, one call in flight in each. *)
EXTENDS JobStore, TLC

CONSTANTS s1, s2, t1, t2

MCHome == t1 :> s1 @@ t2 :> s2
===========================================================================
