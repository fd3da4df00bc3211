--------------------------- MODULE MCSophosIndex ---------------------------
(* Constants for model-checking SophosIndex on a small instance. *)
EXTENDS SophosIndex, TLC

CONSTANTS k1, k2

MCOverflow == {k2}

Symmetry == Permutations(Threads)
=============================================================================
