----------------------------- MODULE LiveLedger ------------------------------
(***************************************************************************)
(* What the live tracking of malloc_hole_hook.c promises, without threads, *)
(* locks, hashing or a table: the real allocator's blocks, and a ledger of *)
(* some of them.  A block enters the ledger with the size that was         *)
(* requested for it, and is struck off before the allocator can reuse its  *)
(* address.                                                                *)
(***************************************************************************)
CONSTANTS Pointers, Sizes, NONE

VARIABLES
  block,    \* block[p]: the size requested for the block at p, or NONE
  ledger    \* ledger[p]: the size tracked for p, or NONE

vars == <<block, ledger>>

Init ==
  /\ block \in [Pointers -> Sizes \cup {NONE}]
  /\ ledger = [p \in Pointers |-> NONE]

Allocate(p, n) ==
  /\ block[p] = NONE
  /\ block' = [block EXCEPT ![p] = n]
  /\ UNCHANGED ledger

Release(p) ==
  /\ ledger[p] = NONE
  /\ block' = [block EXCEPT ![p] = NONE]
  /\ UNCHANGED ledger

\* A block is resized, in place (q = p) or by moving it to a free address.
Resize(p, q, n) ==
  /\ ledger[p] = NONE
  /\ q = p \/ block[q] = NONE
  /\ block' = [block EXCEPT ![p] = NONE, ![q] = n]
  /\ UNCHANGED ledger

Enroll(p) ==
  /\ block[p] # NONE
  /\ ledger[p] = NONE
  /\ ledger' = [ledger EXCEPT ![p] = block[p]]
  /\ UNCHANGED block

Strike(p) ==
  /\ ledger[p] # NONE
  /\ ledger' = [ledger EXCEPT ![p] = NONE]
  /\ UNCHANGED block

Next ==
  \E p \in Pointers :
    \/ Release(p) \/ Enroll(p) \/ Strike(p)
    \/ \E n \in Sizes : Allocate(p, n) \/ \E q \in Pointers : Resize(p, q, n)

Spec == Init /\ [][Next]_vars
==============================================================================
