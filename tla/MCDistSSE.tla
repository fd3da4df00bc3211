----------------------------- MODULE MCDistSSE -----------------------------
(* Constants for model-checking DistSSE on a small instance. *)
EXTENDS DistSSE, TLC

CONSTANTS k1, k2, long, short, p1, p2

MCInd7 == (long :> p1) @@ (short :> p2)

Symmetry == Permutations(Keywords)
=============================================================================
