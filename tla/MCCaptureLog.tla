---------------------------- MODULE MCCaptureLog -----------------------------
(* Small processes under capture for TLC. *)
EXTENDS CaptureLog, TLC

CONSTANTS t0, t1, t2, t3, h1, h2, a1, a2

\* The two pthread_t values share a bucket of the map.
Colliding == [h \in Handles |-> 0]

\* Blocks handed out and given back, with a second thread at work; threads
\* that come and go; and a map that one thread fills.
Mixed == {[blocks |-> 2, threads |-> 1, entries |-> 1],
          [blocks |-> 0, threads |-> 2, entries |-> 2],
          [blocks |-> 0, threads |-> 2, entries |-> 1]}

\* Only threads, three of them.
ManyThreads == {[blocks |-> 0, threads |-> 3, entries |-> 3]}

\* The hash gives every handle the same place, so that all names but that of
\* the initial thread are alike.
Symmetry == Permutations(Addresses) \cup Permutations(Handles)
              \cup Permutations(Threads \ {Initial})
=============================================================================
