----------------------------- MODULE MCSessions -----------------------------
(* Sessions with two requests at a time.                                   *)
EXTENDS Sessions, TLC

CONSTANTS r1, r2

MCRequests == {r1, r2}
MCSymmetry == Permutations(MCRequests)
=============================================================================
