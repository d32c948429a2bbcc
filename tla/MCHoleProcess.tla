---------------------------- MODULE MCHoleProcess ---------------------------
(* An initial process, its child and another child or grandchild. *)
EXTENDS HoleProcess
==============================================================================
