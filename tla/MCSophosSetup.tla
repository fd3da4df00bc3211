--------------------------- MODULE MCSophosSetup ---------------------------
(* Constants for model-checking SophosSetup: the clients are alike. *)
EXTENDS SophosSetup, TLC

Symmetry == Permutations(Clients)
=============================================================================
