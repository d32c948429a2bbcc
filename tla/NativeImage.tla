----------------------------- MODULE NativeImage -----------------------------
(***************************************************************************)
(* The compilation of trace_to_native.py: how the records of a trace       *)
(* become the operations embedded in a replay program.  A slot is used for *)
(* one block after the other; it belongs to the thread that released it    *)
(* last, and its generations go on: odd ones and even ones only tell that  *)
(* something was published.                                                *)
(*                                                                         *)
(* The module has no state: Converted takes the image built so far and one *)
(* record.  Sizes, alignments and processor numbers are left out; a record *)
(* says whether its size is 0.                                             *)
(***************************************************************************)
EXTENDS Integers, Sequences, FiniteSetsExt, SequencesExt

CONSTANTS
  Tids,            \* thread ids of a trace
  Addresses,       \* non-zero trace addresses
  NULL,            \* address 0, and a null pointer of the replay
  NONE,            \* no slot, no block
  AllowUnknown,    \* --allow-unknown
  MaxGeneration,   \* 2^32 - 1
  Quantum          \* --quantum-us, 0 for exact targets

ASSUME ImageAssumption ==
  /\ NULL \notin Addresses /\ NONE \notin Nat
  /\ AllowUnknown \in BOOLEAN
  /\ MaxGeneration \in Nat \ {0} /\ Quantum \in Nat

\* The functions of a record: the allocating ones, the two that free, realloc,
\* and the events in the life of a thread.
Alloc == "alloc"
Free == "free"
Realloc == "realloc"
Lifecycle == "lifecycle"

OpAlloc == "OP_ALLOC"
OpFree == "OP_FREE"
OpRealloc == "OP_REALLOC"
OpReallocNull == "OP_REALLOC_NULL"
OpUnknownFree == "OP_UNKNOWN_FREE"

SlotNone == NONE
OpKinds == {OpAlloc, OpFree, OpRealloc, OpReallocNull, OpUnknownFree}

EmptyImage(minimum) ==
  [threads |-> <<>>,                      \* in the order of their first records
   ops     |-> [t \in Tids |-> <<>>],
   live    |-> [a \in Addresses |-> NONE],
   free    |-> [t \in Tids |-> <<>>],     \* available_slots, a stack
   slots   |-> 0,                         \* next_slot
   minimum |-> minimum,
   refused |-> FALSE]                     \* a TraceError was raised

Refused(image) == [image EXCEPT !.refused = TRUE]

------------------------------------------------------------------------------

\* The target of a record relative to the start of the replay.
Target(image, e) ==
  LET relative == e.ts - image.minimum
  IN  IF Quantum = 0 THEN relative ELSE (relative \div Quantum) * Quantum

Pushed(image, e, kind, slot, wait, out) ==
  [image EXCEPT
     !.threads = IF e.tid \in ToSet(@) THEN @ ELSE Append(@, e.tid),
     !.ops[e.tid] = Append(@, [target |-> Target(image, e), kind |-> kind, slot |-> slot,
                               wait |-> wait, out |-> out,
                               succeeded |-> e.result # NULL, empty |-> e.empty])]

\* The slot that acquire_slot gives to a thread, with its completed generation.
Acquired(image, t) ==
  IF image.free[t] = <<>> THEN [slot |-> image.slots, done |-> 0] ELSE Last(image.free[t])

WithoutAcquired(image, t) ==
  IF image.free[t] = <<>> THEN [image EXCEPT !.slots = @ + 1]
                          ELSE [image EXCEPT !.free[t] = Front(@)]

\* Mutant: the slot goes back to the thread that published the block.
ReleasedToOwner(image, t, block) ==
  [image EXCEPT !.free[block.tid] = Append(@, [slot |-> block.slot, done |-> block.gen + 1])]

\* release_slot: the slot belongs to the thread that frees the block.
Released(image, t, block) ==
  [image EXCEPT !.free[t] = Append(@, [slot |-> block.slot, done |-> block.gen + 1])]

\* The block a record names, if the trace gave it out and has not freed it.
LiveAt(image, address) == IF address = NULL THEN NONE ELSE image.live[address]

\* remember_live
Remembered(image, e, slot, gen) ==
  IF image.live[e.result] # NONE
    THEN Refused(image)
    ELSE [image EXCEPT !.live[e.result] = [slot |-> slot, gen |-> gen, tid |-> e.tid]]

\* An allocation, or a reallocation without a known block.
Born(image, e, kind) ==
  LET new == Acquired(image, e.tid)
  IN  IF e.result = NULL THEN Pushed(image, e, kind, SlotNone, 0, 0)
      ELSE IF new.done = MaxGeneration THEN Refused(image)
      ELSE Remembered(Pushed(WithoutAcquired(image, e.tid), e, kind, new.slot, new.done, new.done + 1),
                      e, new.slot, new.done + 1)

Unknown(image, e, known) == IF AllowUnknown THEN known ELSE Refused(image)

AfterFree(image, e) ==
  LET block == LiveAt(image, e.address)
      taken == [image EXCEPT !.live[e.address] = NONE]
  IN  IF block = NONE
        THEN Unknown(image, e, Pushed(image, e, OpUnknownFree, SlotNone, 0, 0))
      ELSE IF block.gen = MaxGeneration THEN Refused(image)
      ELSE Pushed(Released(taken, e.tid, block), e, OpFree, block.slot, block.gen, block.gen + 1)

\* Mutant: a failed reallocation leaves the block at its old generation.
AfterKnownReallocUnchanged(image, e, block) ==
  LET taken == [image EXCEPT !.live[e.address] = NONE]
      gen == block.gen + 1
      moved == IF e.result # NULL THEN Remembered(taken, e, block.slot, gen)
               ELSE IF e.empty THEN Released(taken, e.tid, block)
               ELSE image
  IN  Pushed(moved, e, OpRealloc, block.slot, block.gen, gen)

\* The block lives on at the result, was released by a size of 0, or stays
\* where it was: whichever pointer the replay will keep gets a new generation.
AfterKnownRealloc(image, e, block) ==
  LET taken == [image EXCEPT !.live[e.address] = NONE]
      gen == block.gen + 1
      moved == IF e.result # NULL THEN Remembered(taken, e, block.slot, gen)
               ELSE IF e.empty THEN Released(taken, e.tid, block)
               ELSE [taken EXCEPT !.live[e.address] =
                       [slot |-> block.slot, gen |-> gen, tid |-> e.tid]]
  IN  IF gen > MaxGeneration
        THEN Refused(image)
        ELSE Pushed(moved, e, OpRealloc, block.slot, block.gen, gen)

AfterRealloc(image, e) ==
  LET block == LiveAt(image, e.address)
      born == Born(image, e, OpReallocNull)
  IN  IF block # NONE THEN AfterKnownRealloc(image, e, block)
      ELSE IF e.address = NULL THEN born
      ELSE Unknown(image, e, born)

\* One turn of the loop of transform_trace, which an error ends.
Converted(image, e) ==
  CASE image.refused      -> image
    [] e.func = Alloc     -> Born(image, e, OpAlloc)
    [] e.func = Free      -> AfterFree(image, e)
    [] e.func = Realloc   -> AfterRealloc(image, e)
    [] OTHER              -> image

\* scan_timestamp_range and transform_trace
ImageOf(trace) ==
  LET stamps == { e.ts : e \in { f \in ToSet(trace) : f.func # Lifecycle } }
  IN  IF stamps = {} THEN Refused(EmptyImage(0))
                     ELSE FoldLeft(Converted, EmptyImage(Min(stamps)), trace)
==============================================================================
