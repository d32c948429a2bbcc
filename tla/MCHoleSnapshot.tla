--------------------------- MODULE MCHoleSnapshot ---------------------------
(* Two threads that do the same, two shards and a period of one tick. *)
EXTENDS HoleSnapshot, TLC

CONSTANTS t1, t2

TwoThreads == {t1, t2}

Symmetry == Permutations(TwoThreads)
==============================================================================
