--------------------------- MODULE MCHoleTracking ----------------------------
(* A small instance of HoleTracking for TLC. *)
EXTENDS HoleTracking, TLC

CONSTANTS p1, p2, p3, p4, p5, t1, t2

\* Shard 0 has two slots for the three pointers p1, p2 and p3, so that probing
\* wraps around, meets tombstones and fails; shard 1 has room for all of its own.
MCShardOf == [p \in Pointers |-> IF p \in {p4, p5} THEN 1 ELSE 0]
MCHome == [p \in Pointers |-> IF p = p2 THEN 0 ELSE 1]

MCBucketOf == [n \in Sizes |-> IF n <= 8 THEN "8" ELSE "16"]
MCHoleOf == [n \in Sizes |-> IF n <= 8 THEN 8 - n ELSE 16 - n]

Symmetry == Permutations(Threads)
==============================================================================
