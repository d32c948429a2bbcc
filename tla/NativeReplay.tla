----------------------------- MODULE NativeReplay ----------------------------
(***************************************************************************)
(* The replay program of native_replay_runtime.c: main creates a worker    *)
(* for each thread of the embedded image, lets all of them go at once, and *)
(* joins them; a worker makes the calls of its thread, each not before its *)
(* time and not before the generation it needs.  There is no barrier after *)
(* the start.                                                              *)
(*                                                                         *)
(* A step is one atomic access, one call of the real allocator or one      *)
(* reading of the clock.  Processor affinity, statistics of lateness and   *)
(* the output are left out, and so are the layout checks of the image.     *)
(***************************************************************************)
EXTENDS NativeImage, FiniteSets

CONSTANTS
  Traces,      \* each a sequence of trace records
  Timed,       \* without --no-timing
  Horizon      \* the last reading of the clock; bounds Tick

ASSUME ReplayAssumption == Timed \in BOOLEAN /\ Horizon \in Nat \ {0}

VARIABLES
  image,
  main,            \* where main is
  g_ready, g_start, g_last_finish_ns,
  now,             \* the monotonic clock, g_start_ns at the start
  at,              \* where each worker is
  pos,             \* operations the worker has executed
  hand,            \* the pointer it is about to publish
  finish_ns,
  observed,        \* its copy of g_last_finish_ns
  failures,        \* runtime_allocation_failures of all workers
  gen, ptr,        \* g_slots
  heap             \* blocks of the real allocator

gateVars == <<g_ready, g_start>>
clockVars == <<now, g_last_finish_ns, finish_ns, observed>>
slotVars == <<gen, ptr>>
heapVars == <<hand, heap, failures>>
vars == <<image, main, gateVars, clockVars, at, pos, slotVars, heapVars>>

Workers == ToSet(image.threads)
SlotIds == 0 .. image.slots - 1

\* The clock starts above the 0 of g_last_finish_ns.
StartNs == 1

Op(t) == image.ops[t][pos[t] + 1]
HasOp(t) == pos[t] < Len(image.ops[t])
Waits(op) == op.kind \in {OpFree, OpRealloc} \/ op.wait # 0

Init ==
  /\ image \in { ImageOf(trace) : trace \in Traces }
  /\ main = IF image.refused THEN "refused" ELSE "creating"
  /\ g_ready = 0 /\ g_start = FALSE
  /\ now = StartNs /\ g_last_finish_ns = 0
  /\ finish_ns = [t \in Tids |-> 0] /\ observed = [t \in Tids |-> 0]
  /\ at = [t \in Tids |-> "none"]
  /\ pos = [t \in Tids |-> 0]
  /\ gen = [s \in SlotIds |-> 0] /\ ptr = [s \in SlotIds |-> NULL]
  /\ hand = [t \in Tids |-> NULL] /\ heap = {} /\ failures = 0

Goto(t, place) == at' = [at EXCEPT ![t] = place]

------------------------------------------------------------------------------
(* main *)

Created == { t \in Workers : at[t] # "none" }
NextThread == image.threads[Cardinality(Created) + 1]

\* pthread_create; when it fails main returns, and with it the process ends.
Create ==
  /\ main = "creating" /\ Created # Workers
  /\ \/ Goto(NextThread, "pinned") /\ UNCHANGED main
     \/ main' = "failed" /\ UNCHANGED at
  /\ UNCHANGED <<image, gateVars, clockVars, pos, slotVars, heapVars>>

\* All workers created.
Gather ==
  /\ main = "creating" /\ Created = Workers
  /\ main' = "gathering"
  /\ UNCHANGED <<image, gateVars, clockVars, at, pos, slotVars, heapVars>>

\* The gate opens when every worker is ready.
Open ==
  /\ main = "gathering"
  /\ g_ready = Len(image.threads)
  /\ g_start' = TRUE
  /\ main' = "joining"
  /\ UNCHANGED <<image, g_ready, clockVars, at, pos, slotVars, heapVars>>

\* The last pthread_join, and the check of the finish time.
Join ==
  /\ main = "joining"
  /\ \A t \in Workers : at[t] = "gone"
  /\ main' = IF g_last_finish_ns < StartNs THEN "invalid" ELSE "done"
  /\ UNCHANGED <<image, gateVars, clockVars, at, pos, slotVars, heapVars>>

Main == Create \/ Gather \/ Open \/ Join

\* Time passes while the replay runs.
Tick ==
  /\ g_start /\ main = "joining" /\ now < Horizon
  /\ now' = now + 1
  /\ UNCHANGED <<image, main, gateVars, g_last_finish_ns, finish_ns, observed, at, pos,
                 slotVars, heapVars>>

------------------------------------------------------------------------------
(* A worker *)

\* It reports itself ready.
Arrive(t) ==
  /\ at[t] = "pinned"
  /\ g_ready' = g_ready + 1
  /\ Goto(t, "gate")
  /\ UNCHANGED <<image, main, g_start, clockVars, pos, slotVars, heapVars>>

Pass(t) ==
  /\ at[t] = "gate" /\ g_start
  /\ Goto(t, "next")
  /\ UNCHANGED <<image, main, gateVars, clockVars, pos, slotVars, heapVars>>

\* wait_until, for the next operation.
Begin(t) ==
  /\ at[t] = "next" /\ HasOp(t)
  /\ Timed => now >= StartNs + Op(t).target
  /\ Goto(t, IF Waits(Op(t)) THEN "waiting" ELSE "calling")
  /\ UNCHANGED <<image, main, gateVars, clockVars, pos, slotVars, heapVars>>

\* Mutant: an allocation waits for one generation more than was completed.
AwaitNext(t) ==
  /\ at[t] = "waiting"
  /\ gen[Op(t).slot] >= IF Op(t).kind = OpAlloc THEN Op(t).wait + 1 ELSE Op(t).wait
  /\ Goto(t, "calling")
  /\ UNCHANGED <<image, main, gateVars, clockVars, pos, slotVars, heapVars>>

\* wait_for_slot, up to the generation that ends it.
Await(t) ==
  /\ at[t] = "waiting"
  /\ gen[Op(t).slot] >= Op(t).wait
  /\ Goto(t, "calling")
  /\ UNCHANGED <<image, main, gateVars, clockVars, pos, slotVars, heapVars>>

\* What the real allocator may do in the call of t: the pointer to publish, the
\* block taken and the block given.  A block that realloc moved or resized in
\* place is a new one; realloc(p, 0) may give a block of no bytes.
Outcomes(t) ==
  LET op == Op(t)
      old == IF op.kind \in {OpFree, OpRealloc} THEN ptr[op.slot] ELSE NULL
      block == <<t, pos[t] + 1>>
      Outcome(new, takes, gives, fails) ==
        [new |-> new, takes |-> takes, gives |-> gives, fails |-> fails]
      given == Outcome(block, {old}, {block}, FALSE)
  IN  CASE op.kind \in {OpAlloc, OpReallocNull} -> {given, Outcome(NULL, {}, {}, TRUE)}
        [] op.kind = OpFree                     -> {Outcome(NULL, {old}, {}, FALSE)}
        [] op.kind = OpUnknownFree              -> {Outcome(NULL, {}, {}, FALSE)}
        [] op.kind = OpRealloc /\ op.empty      -> {given, Outcome(NULL, {old}, {}, FALSE)}
        [] OTHER                                -> {given, Outcome(old, {}, {}, TRUE)}

\* Mutant: a reallocation that fails publishes the null pointer it returned.
CallLosingOld(t) ==
  /\ at[t] = "calling"
  /\ \E o \in Outcomes(t) :
       /\ heap' = (heap \ o.takes) \cup o.gives
       /\ hand' = [hand EXCEPT ![t] = IF o.fails THEN NULL ELSE o.new]
       /\ failures' = failures + IF o.fails /\ Op(t).succeeded THEN 1 ELSE 0
  /\ IF Op(t).slot = SlotNone
       THEN Goto(t, "next") /\ pos' = [pos EXCEPT ![t] = @ + 1]
       ELSE Goto(t, "storing") /\ UNCHANGED pos
  /\ UNCHANGED <<image, main, gateVars, clockVars, slotVars>>

\* execute_operation, from the load of the pointer to publish_slot, which
\* returns at once for an operation without a slot.
Call(t) ==
  /\ at[t] = "calling"
  /\ \E o \in Outcomes(t) :
       /\ heap' = (heap \ o.takes) \cup o.gives
       /\ hand' = [hand EXCEPT ![t] = o.new]
       /\ failures' = failures + IF o.fails /\ Op(t).succeeded THEN 1 ELSE 0
  /\ IF Op(t).slot = SlotNone
       THEN Goto(t, "next") /\ pos' = [pos EXCEPT ![t] = @ + 1]
       ELSE Goto(t, "storing") /\ UNCHANGED pos
  /\ UNCHANGED <<image, main, gateVars, clockVars, slotVars>>

\* Mutant: the generation is stored before the pointer.
StorePointerLast(t) ==
  \/ /\ at[t] = "storing"
     /\ gen' = [gen EXCEPT ![Op(t).slot] = Op(t).out]
     /\ Goto(t, "publishing")
     /\ UNCHANGED <<image, main, gateVars, clockVars, pos, ptr, heapVars>>
  \/ /\ at[t] = "publishing"
     /\ ptr' = [ptr EXCEPT ![Op(t).slot] = hand[t]]
     /\ pos' = [pos EXCEPT ![t] = @ + 1]
     /\ Goto(t, "next")
     /\ UNCHANGED <<image, main, gateVars, clockVars, gen, heapVars>>

\* The two stores of publish_slot.
StorePointer(t) ==
  /\ at[t] = "storing"
  /\ ptr' = [ptr EXCEPT ![Op(t).slot] = hand[t]]
  /\ Goto(t, "publishing")
  /\ UNCHANGED <<image, main, gateVars, clockVars, pos, gen, heapVars>>

StoreGeneration(t) ==
  /\ at[t] = "publishing"
  /\ gen' = [gen EXCEPT ![Op(t).slot] = Op(t).out]
  /\ pos' = [pos EXCEPT ![t] = @ + 1]
  /\ Goto(t, "next")
  /\ UNCHANGED <<image, main, gateVars, clockVars, ptr, heapVars>>

\* The end of a worker: it reads the clock, and g_last_finish_ns.
Finish(t) ==
  /\ at[t] = "next" /\ ~HasOp(t)
  /\ finish_ns' = [finish_ns EXCEPT ![t] = now]
  /\ Goto(t, "finished")
  /\ UNCHANGED <<image, main, gateVars, now, g_last_finish_ns, observed, pos, slotVars, heapVars>>

Observe(t) ==
  /\ at[t] = "finished"
  /\ observed' = [observed EXCEPT ![t] = g_last_finish_ns]
  /\ Goto(t, "raising")
  /\ UNCHANGED <<image, main, gateVars, now, g_last_finish_ns, finish_ns, pos, slotVars, heapVars>>

\* One turn of the compare-and-exchange loop.
Raise(t) ==
  /\ at[t] = "raising"
  /\ IF observed[t] >= finish_ns[t]
       THEN Goto(t, "gone") /\ UNCHANGED <<g_last_finish_ns, observed>>
     ELSE IF observed[t] = g_last_finish_ns
       THEN /\ g_last_finish_ns' = finish_ns[t]
            /\ Goto(t, "gone")
            /\ UNCHANGED observed
     ELSE observed' = [observed EXCEPT ![t] = g_last_finish_ns] /\ UNCHANGED <<at, g_last_finish_ns>>
  /\ UNCHANGED <<image, main, gateVars, now, finish_ns, pos, slotVars, heapVars>>

Worker(t) ==
  \/ Arrive(t) \/ Pass(t) \/ Begin(t) \/ Await(t) \/ Call(t)
  \/ StorePointer(t) \/ StoreGeneration(t)
  \/ Finish(t) \/ Observe(t) \/ Raise(t)

Next == Main \/ Tick \/ \E t \in Tids : Worker(t)

\* Every thread that can run is run, and time passes.
Fairness == WF_vars(Main) /\ WF_vars(Tick) /\ \A t \in Tids : WF_vars(Worker(t))

Spec == Init /\ [][Next]_vars /\ Fairness

------------------------------------------------------------------------------

Blocks == Tids \X (Nat \ {0})
Pointers == Blocks \cup {NULL}

TypeOK ==
  /\ main \in {"refused", "creating", "gathering", "failed", "joining", "invalid", "done"}
  /\ g_ready \in 0 .. Len(image.threads) /\ g_start \in BOOLEAN
  /\ now \in StartNs .. Horizon /\ failures \in Nat
  /\ \A t \in Workers : pos[t] \in 0 .. Len(image.ops[t]) /\ hand[t] \in Pointers
  /\ \A s \in SlotIds : gen[s] \in 0 .. MaxGeneration /\ ptr[s] \in Pointers
  /\ heap \subseteq Blocks
  /\ \A t \in Workers : \A i \in 1 .. Len(image.ops[t]) :
       image.ops[t][i].slot \in SlotIds \cup {SlotNone}

\* An operation finds the generation it was compiled for and no later one,
\* though its slot had other blocks before and will have others after; and a
\* block is freed or resized only while it is allocated.
OwnGeneration ==
  \A t \in Workers :
    at[t] = "calling" /\ Waits(Op(t)) =>
      /\ gen[Op(t).slot] = Op(t).wait
      /\ Op(t).kind # OpAlloc => ptr[Op(t).slot] \in heap \cup {NULL}

\* "Slot reuse cannot introduce a new cross-thread ordering edge": an
\* allocation never waits for another worker.
ReuseNeverWaits ==
  \A t \in Workers :
    at[t] = "waiting" /\ Op(t).kind \in {OpAlloc, OpReallocNull} => gen[Op(t).slot] >= Op(t).wait

\* Without allocation failures the blocks left are those the trace left, and
\* beside them only what the trace's allocator had refused to give.
LeavesWhatTheTraceLeft ==
  failures = 0 =>
    LET ended == { image.live[a] : a \in Addresses } \ {NONE}
        MadeBy(b) == image.ops[b[1]][b[2]]
    IN  /\ \A l \in ended : gen[l.slot] = l.gen
        /\ \A b \in heap : (\E l \in ended : ptr[l.slot] = b) \/ ~MadeBy(b).succeeded
        /\ \A l \in ended : ptr[l.slot] \in heap
                            \/ \E t \in Workers : \E i \in 1 .. Len(image.ops[t]) :
                                 LET op == image.ops[t][i]
                                 IN  op.slot = l.slot /\ op.out = l.gen /\ op.empty

\* A replay that reports success leaves what the trace left, and the elapsed
\* time it reports ends with the last worker, however the workers' exchanges of
\* g_last_finish_ns interleave.
ResultIsWhole ==
  /\ main # "invalid"
  /\ main = "done" =>
       /\ LeavesWhatTheTraceLeft
       /\ \A t \in Workers : finish_ns[t] <= g_last_finish_ns

\* Whatever the interleaving, the waits end and the replay with them.
ReplayEnds == <>(main \in {"refused", "failed", "done"})
==============================================================================
