----------------------------- MODULE MCFastSSE ------------------------------
(* Constants for model-checking FastSSE on a small instance. *)
EXTENDS FastSSE, TLC

Symmetry == Permutations(Threads) \cup Permutations(Keywords)
=============================================================================
