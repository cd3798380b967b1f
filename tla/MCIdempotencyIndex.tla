------------------------- MODULE MCIdempotencyIndex -------------------------
(* IdempotencyIndex on two servers with a call each.                       *)
EXTENDS IdempotencyIndex, TLC

CONSTANTS s1, s2, c1, c2, a1, a2

MCHome == c1 :> s1 @@ c2 :> s2
ArgSymmetry == Permutations(Args)

=============================================================================
