----------------------------- MODULE ReplayTrace -----------------------------
(***************************************************************************)
(* The preprocessing of replay_main.c: how the records of a trace become   *)
(* one list of operations for each worker.  A block of the trace is a      *)
(* slot; each allocation and reallocation publishes a new generation of    *)
(* its slot, and each reallocation and free waits for the generation it    *)
(* consumes.                                                               *)
(*                                                                         *)
(* The module has no state: Prepared takes the plan built so far and one   *)
(* record.  The sizes, processor numbers, access profiles and statistics   *)
(* of the program are left out; a record says whether its size is 0.       *)
(***************************************************************************)
EXTENDS Integers, Sequences

CONSTANTS
  Tids,        \* thread ids of the trace, one worker each
  Addresses,   \* non-zero trace addresses
  NULL,        \* address 0
  NONE         \* no value

ASSUME TraceAssumption == NULL \notin Addresses /\ NONE \notin Nat

\* The functions of a REPLAY_ENTRY: the allocating ones, FREE_I and
\* FREE_SIZED_I, REALLOC_I, THREAD_START_I, THREAD_END_I, and the thread
\* creations and joins, which only register a worker.
AllocI == "alloc"
FreeI == "free"
ReallocI == "realloc"
ThreadStartI == "start"
ThreadEndI == "end"
Funcs == {AllocI, FreeI, ReallocI, ThreadStartI, ThreadEndI}

\* Kinds of operations; OP_REALLOC_NULL only differs from OP_ALLOC in the
\* function it calls.
OpAlloc == "OP_ALLOC"
OpFree == "OP_FREE"
OpRealloc == "OP_REALLOC"
OpUnknownFree == "OP_UNKNOWN_FREE"

Records ==
  [func : Funcs, tid : Tids, ts : Nat, address : Addresses \cup {NULL},
   result : Addresses \cup {NULL}, empty : BOOLEAN]

Operations ==
  [ts : Nat, kind : {OpAlloc, OpFree, OpRealloc, OpUnknownFree},
   slot : Nat, wait : Nat, out : Nat, empty : BOOLEAN]

EmptyPlan ==
  [ops   |-> [t \in Tids |-> <<>>],
   live  |-> [a \in Addresses |-> NONE],   \* omap: slot, gen, last_ts of an address
   slots |-> 0,
   min   |-> NONE, max |-> 0,              \* g_min_ts, g_max_ts
   start |-> [t \in Tids |-> NONE],        \* start_ts when has_start
   end   |-> [t \in Tids |-> NONE],
   first |-> [t \in Tids |-> NONE],
   last  |-> [t \in Tids |-> 0]]

Later(x, y) == IF x < y THEN y ELSE x
EarlierOf(x, y) == IF x # NONE /\ x < y THEN x ELSE y
LaterOf(x, y) == IF x # NONE /\ x > y THEN x ELSE y

------------------------------------------------------------------------------

\* worker_note_op and the opvec_push of one operation.
Pushed(plan, e, op) == [plan EXCEPT !.ops[e.tid] = Append(@, op)]

Noted(plan, e) ==
  [plan EXCEPT !.first[e.tid] = EarlierOf(@, e.ts), !.last[e.tid] = Later(@, e.ts)]

\* A faulty span: a record that lowers the minimum cannot raise the maximum.
StampedElse(plan, e) ==
  IF plan.min = NONE \/ e.ts < plan.min
    THEN [plan EXCEPT !.min = e.ts]
    ELSE [plan EXCEPT !.max = Later(@, e.ts)]

Stamped(plan, e) ==
  [plan EXCEPT !.min = EarlierOf(@, e.ts), !.max = Later(@, e.ts)]

\* A faulty new slot, whose first generation is the 0 of an unpublished one.
NewBlockAtZero(plan, e) ==
  LET op == [ts |-> e.ts, kind |-> OpAlloc, slot |-> plan.slots,
             wait |-> 0, out |-> 0, empty |-> FALSE]
  IN  [Pushed(plan, e, op) EXCEPT
         !.slots = @ + 1,
         !.live[e.result] = [slot |-> plan.slots, gen |-> 0, ts |-> e.ts]]

\* A new slot for the block the record returned.
NewBlock(plan, e) ==
  LET op == [ts |-> e.ts, kind |-> OpAlloc, slot |-> plan.slots,
             wait |-> 0, out |-> 1, empty |-> FALSE]
  IN  [Pushed(plan, e, op) EXCEPT
         !.slots = @ + 1,
         !.live[e.result] = [slot |-> plan.slots, gen |-> 1, ts |-> e.ts]]

\* A faulty stamp of the operation on a known block: the record's own.
OwnStamp(e, block) == e.ts

\* The operation on a known block is not earlier than the block's last one.
StampAfter(e, block) == Later(e.ts, block.ts)

AfterAlloc(plan, e) ==
  IF e.result = NULL THEN plan ELSE NewBlock(Noted(plan, e), e)

AfterFree(plan, e) ==
  LET noted == Noted(plan, e)
      block == plan.live[e.address]
  IN  IF e.address = NULL THEN plan
      ELSE IF block = NONE
        THEN Pushed(noted, e, [ts |-> e.ts, kind |-> OpUnknownFree, slot |-> 0,
                               wait |-> 0, out |-> 0, empty |-> FALSE])
        ELSE [Pushed(noted, e, [ts |-> StampAfter(e, block), kind |-> OpFree,
                                slot |-> block.slot, wait |-> block.gen, out |-> 0,
                                empty |-> FALSE])
                EXCEPT !.live[e.address] = NONE]

\* A faulty realloc, which keeps the generation.
ReallocSameGeneration(plan, e) ==
  LET block == plan.live[e.address]
      op == [ts |-> StampAfter(e, block), kind |-> OpRealloc, slot |-> block.slot,
             wait |-> block.gen, out |-> block.gen, empty |-> e.empty]
      taken == [Pushed(plan, e, op) EXCEPT !.live[e.address] = NONE]
  IN  IF e.result = NULL
        THEN IF e.empty THEN taken ELSE plan
        ELSE [taken EXCEPT !.live[e.result] =
                [slot |-> block.slot, gen |-> block.gen, ts |-> op.ts]]

\* A realloc of a block the trace knows: it failed, it released the block, or
\* the block lives on at e.result.
AfterKnownRealloc(plan, e) ==
  LET block == plan.live[e.address]
      op == [ts |-> StampAfter(e, block), kind |-> OpRealloc, slot |-> block.slot,
             wait |-> block.gen, out |-> block.gen + 1, empty |-> e.empty]
      taken == [Pushed(plan, e, op) EXCEPT !.live[e.address] = NONE]
  IN  IF e.result = NULL
        THEN IF e.empty THEN taken ELSE plan
        ELSE [taken EXCEPT !.live[e.result] =
                [slot |-> block.slot, gen |-> block.gen + 1, ts |-> op.ts]]

AfterRealloc(plan, e) ==
  LET noted == Noted(plan, e)
  IN  IF e.address # NULL /\ plan.live[e.address] # NONE
        THEN AfterKnownRealloc(noted, e)
        ELSE IF e.result = NULL THEN noted ELSE NewBlock(noted, e)

\* One turn of the preprocessing loop.
Prepared(plan, e) ==
  LET stamped == Stamped(plan, e)
  IN  CASE e.func = AllocI       -> AfterAlloc(stamped, e)
        [] e.func = FreeI        -> AfterFree(stamped, e)
        [] e.func = ReallocI     -> AfterRealloc(stamped, e)
        [] e.func = ThreadStartI -> [stamped EXCEPT !.start[e.tid] = EarlierOf(@, e.ts)]
        [] e.func = ThreadEndI   -> [stamped EXCEPT !.end[e.tid] = LaterOf(@, e.ts)]
        [] OTHER                 -> stamped

\* All of the loop, from its first record to the last of the trace.
Preprocessed(trace) ==
  LET after[n \in 0 .. Len(trace)] ==
        IF n = 0 THEN EmptyPlan ELSE Prepared(after[n - 1], trace[n])
  IN  after[Len(trace)]

------------------------------------------------------------------------------

\* worker_has_ops_or_lifecycle
IsReplayed(plan, t) ==
  plan.ops[t] # <<>> \/ plan.start[t] # NONE \/ plan.end[t] # NONE

\* finalize_worker_lifetimes
StartOf(plan, t) ==
  IF plan.start[t] # NONE THEN plan.start[t]
  ELSE IF plan.first[t] # NONE THEN plan.first[t]
  ELSE plan.min

EndOf(plan, t) ==
  LET end == IF plan.end[t] # NONE THEN plan.end[t]
             ELSE IF plan.last[t] # 0 THEN plan.last[t]
             ELSE plan.max
  IN  Later(end, StartOf(plan, t))

------------------------------------------------------------------------------

Blocks == [slot : Nat, gen : Nat \ {0}, ts : Nat]

Plans ==
  [ops : [Tids -> Seq(Operations)], live : [Addresses -> Blocks \cup {NONE}],
   slots : Nat, min : Nat \cup {NONE}, max : Nat,
   start : [Tids -> Nat \cup {NONE}], end : [Tids -> Nat \cup {NONE}],
   first : [Tids -> Nat \cup {NONE}], last : [Tids -> Nat]]

\* Positions of the operations in the workers' lists.
Positions(plan) == UNION { {t} \X (1 .. Len(plan.ops[t])) : t \in Tids }
OpAt(plan, x) == plan.ops[x[1]][x[2]]

Publishes(plan, x, slot, gen) ==
  /\ OpAt(plan, x).kind \in {OpAlloc, OpRealloc}
  /\ OpAt(plan, x).slot = slot /\ OpAt(plan, x).out = gen

Consumes(plan, x, slot, gen) ==
  /\ OpAt(plan, x).kind \in {OpFree, OpRealloc}
  /\ OpAt(plan, x).slot = slot /\ OpAt(plan, x).wait = gen

\* No two operations consume, and no two publish, the same generation of a slot.
OncePublishedOnceConsumed(plan) ==
  \A x, y \in Positions(plan) :
    LET op == OpAt(plan, x)
    IN  /\ op.kind \in {OpFree, OpRealloc} /\ Consumes(plan, y, op.slot, op.wait) => x = y
        /\ op.kind \in {OpAlloc, OpRealloc} /\ Publishes(plan, y, op.slot, op.out) => x = y

\* The generation an operation consumes is published by one that is not later
\* on the clock of the trace, nor behind it in the same list.
PublishedBeforeConsumed(plan) ==
  \A x \in Positions(plan) : OpAt(plan, x).kind \in {OpFree, OpRealloc} =>
    \E y \in Positions(plan) :
      /\ Publishes(plan, y, OpAt(plan, x).slot, OpAt(plan, x).wait)
      /\ OpAt(plan, y).ts <= OpAt(plan, x).ts
      /\ x[1] = y[1] => y[2] < x[2]
==============================================================================
