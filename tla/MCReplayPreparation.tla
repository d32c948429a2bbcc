------------------------- MODULE MCReplayPreparation -------------------------
(* A small instance of ReplayPreparation for TLC. *)
EXTENDS ReplayPreparation, TLC

CONSTANTS t1, t2, a1, a2

Symmetry == Permutations(Tids) \cup Permutations(Addresses)
==============================================================================
