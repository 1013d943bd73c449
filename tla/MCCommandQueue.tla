--------------------------- MODULE MCCommandQueue ---------------------------
(***************************************************************************)
(* CommandQueue for TLC.                                                   *)
(***************************************************************************)
EXTENDS CommandQueue, TLC

CONSTANTS r1, r2, r3, k1, k2

Symmetry == Permutations(Request) \cup Permutations(Closer)
=============================================================================
