----------------------------- MODULE EpochReplay -----------------------------
(***************************************************************************)
(* The two replays of replay_main.c.  In the application-like one the      *)
(* controller opens one epoch of the trace clock after the other and waits *)
(* at a barrier until the workers have executed the epoch; each worker is  *)
(* a thread, launched in the epoch its thread started in.  With --free-run *)
(* all workers are launched, let go at once and joined, and there are no   *)
(* epochs.  In both a worker waits for slot generations that other workers *)
(* publish.                                                                *)
(*                                                                         *)
(* A step is one critical section of g_epoch_mu, one thread creation or    *)
(* one atomic access of a slot.  The timeouts that end a stalled process   *)
(* after 30 seconds are left out: a stalled replay stays stalled.  So are  *)
(* the pauses of --timing-scale: a worker may take any time.               *)
(***************************************************************************)
EXTENDS ReplayTrace, FiniteSets

CONSTANTS
  Traces,          \* each a sequence of trace records
  EpochSize,       \* --epoch-size, 0 for automatic
  EpochTarget,     \* --auto-epoch-target, not 0
  FreeRuns         \* the values of --free-run

ASSUME EpochAssumption ==
  /\ Traces \subseteq Seq(Records) /\ IsFiniteSet(Tids)
  /\ EpochSize \in Nat /\ EpochTarget \in Nat \ {0} /\ FreeRuns \subseteq BOOLEAN
  /\ NULL \notin Nat \X Nat      \* the null pointer is no block

VARIABLES
  plan,            \* the preprocessed trace
  free_run,        \* g_free_run
  order,           \* the workers in the order of their start
  ctl,             \* where the controller is
  epoch,           \* ep, the epoch being prepared or run
  next,            \* workers launched, in the order of their start
  scan,            \* workers the controller has looked at to join them
  joined,
  epoch_id, epoch_end, epoch_target, epoch_arrived,
  at,              \* where each worker is
  seen_epoch,
  ep_end,          \* the worker's copy of epoch_end
  pos,             \* operations the worker has executed
  finished,
  gen, ptr,        \* g_slots
  heap             \* blocks of the real allocator

controlVars == <<ctl, epoch, next, scan, joined>>
barrierVars == <<epoch_id, epoch_end, epoch_target, epoch_arrived>>
workerVars == <<at, seen_epoch, ep_end, pos, finished>>
slotVars == <<gen, ptr, heap>>
inputVars == <<plan, free_run, order>>
vars == <<inputVars, controlVars, barrierVars, workerVars, slotVars>>

\* Places of the controller.
Launching == "launching"
Awaiting == "awaiting"
Joining == "joining"
Draining == "draining"    \* after the last epoch
Finishing == "finishing"  \* waiting in the drain
Reaping == "reaping"      \* joining in the drain
Collecting == "collecting" \* joining the workers of a free run
Over == "over"

\* Places of a worker.
NotStarted == "not started"
AtGate == "at gate"         \* spinning on g_start
EpochWait == "epoch wait"
Executing == "executing"
Publishing == "publishing"  \* between the two stores of publish_slot
Gone == "gone"

Workers == { t \in Tids : IsReplayed(plan, t) }

\* compute_auto_epoch_size and g_num_epochs
CeilDiv(x, y) == (x + y - 1) \div y
MinTs == IF plan.min = NONE THEN 0 ELSE plan.min
Span == IF plan.max >= MinTs THEN plan.max - MinTs + 1 ELSE 1
EpochLength == IF EpochSize # 0 THEN EpochSize ELSE CeilDiv(Span, EpochTarget)
Epochs == CeilDiv(Span, EpochLength)

EndOfEpoch(e) == MinTs + (e + 1) * EpochLength

\* UINT64_MAX, as far as any stamp can tell.
EndOfTime == plan.max + EpochLength + 1

\* The orders of cmp_worker_start.  It puts workers that start at the same time
\* in the order of their first records, which is any order here.
StartOrders ==
  { s \in [1 .. Cardinality(Workers) -> Workers] :
      \A i, j \in DOMAIN s : i < j => s[i] # s[j] /\ StartOf(plan, s[i]) <= StartOf(plan, s[j]) }

Launched == { order[i] : i \in 1 .. next }
Active == next - Cardinality(joined)

SlotIds == 0 .. plan.slots - 1
Op(t) == plan.ops[t][pos[t] + 1]

Init ==
  /\ plan \in { Preprocessed(trace) : trace \in Traces }
  /\ free_run \in FreeRuns
  /\ order \in StartOrders
  /\ ctl = Launching
  /\ epoch = 0
  /\ next = 0 /\ scan = 0 /\ joined = {}
  /\ epoch_id = 0 /\ epoch_end = 0 /\ epoch_target = 0 /\ epoch_arrived = 0
  /\ at = [t \in Tids |-> NotStarted]
  /\ seen_epoch = [t \in Tids |-> 0]
  /\ ep_end = [t \in Tids |-> 0]
  /\ pos = [t \in Tids |-> 0]
  /\ finished = {}
  /\ gen = [s \in SlotIds |-> 0]
  /\ ptr = [s \in SlotIds |-> NULL]
  /\ heap = {}

------------------------------------------------------------------------------

(* The controller. *)

\* The epoch to come ends here; the drain's epoch covers all of the trace.
EndOfNext == IF ctl = Draining THEN EndOfTime ELSE EndOfEpoch(epoch)

\* The next worker in order starts before that.
Due == next < Len(order) /\ StartOf(plan, order[next + 1]) < EndOfNext

Launch ==
  /\ ~free_run
  /\ ctl \in {Launching, Draining}
  /\ Due
  /\ next' = next + 1
  /\ at' = [at EXCEPT ![order[next + 1]] = EpochWait]
  /\ UNCHANGED <<inputVars, ctl, epoch, scan, joined, barrierVars,
                 seen_epoch, ep_end, pos, finished, slotVars>>

\* Faulty: the arrivals of the last epoch are kept.
OpenBarrierKeepingArrivals ==
  /\ epoch_end' = EndOfNext
  /\ epoch_target' = Active
  /\ epoch_id' = epoch_id + 1
  /\ UNCHANGED epoch_arrived

OpenBarrier ==
  /\ epoch_end' = EndOfNext
  /\ epoch_arrived' = 0
  /\ epoch_target' = Active
  /\ epoch_id' = epoch_id + 1

OpenEpoch ==
  /\ ~free_run
  /\ ctl \in {Launching, Draining}
  /\ ~Due
  /\ Active > 0
  /\ OpenBarrier
  /\ ctl' = IF ctl = Launching THEN Awaiting ELSE Finishing
  /\ UNCHANGED <<inputVars, epoch, next, scan, joined, workerVars, slotVars>>

\* Faulty: one epoch too many.
NextEpochInclusive ==
  /\ epoch' = epoch + 1
  /\ ctl' = IF epoch < Epochs THEN Launching ELSE Draining

NextEpoch ==
  /\ epoch' = epoch + 1
  /\ ctl' = IF epoch + 1 < Epochs THEN Launching ELSE Draining

\* An epoch without workers is skipped.
SkipEpoch ==
  /\ ~free_run
  /\ ctl = Launching
  /\ ~Due
  /\ Active = 0
  /\ NextEpoch
  /\ UNCHANGED <<inputVars, next, scan, joined, barrierVars, workerVars, slotVars>>

PassBarrier ==
  /\ ctl \in {Awaiting, Finishing}
  /\ epoch_arrived >= epoch_target
  /\ ctl' = IF ctl = Awaiting THEN Joining ELSE Reaping
  /\ scan' = 0
  /\ UNCHANGED <<inputVars, epoch, next, joined, barrierVars, workerVars, slotVars>>

\* The scan reads each "finished" once: a worker that finishes after its flag
\* was read stays unjoined.
JoinIfFinished ==
  /\ ctl \in {Joining, Reaping}
  /\ scan < next
  /\ scan' = scan + 1
  /\ joined' = joined \cup ({order[scan + 1]} \cap finished)
  /\ UNCHANGED <<inputVars, ctl, epoch, next, barrierVars, workerVars, slotVars>>

EndScan ==
  /\ ctl \in {Joining, Reaping}
  /\ scan = next
  /\ IF ctl = Joining THEN NextEpoch ELSE ctl' = Draining /\ UNCHANGED epoch
  /\ UNCHANGED <<inputVars, next, scan, joined, barrierVars, workerVars, slotVars>>

Finish ==
  /\ ctl = Draining
  /\ ~Due
  /\ Active = 0
  /\ ctl' = Over
  /\ UNCHANGED <<inputVars, epoch, next, scan, joined, barrierVars, workerVars, slotVars>>

------------------------------------------------------------------------------

(* The controller of a free run. *)

\* Nobody can go before the gate opens, so the order does not matter.
LaunchFree ==
  /\ free_run
  /\ ctl = Launching /\ next < Len(order)
  /\ next' = next + 1
  /\ at' = [at EXCEPT ![order[next + 1]] = AtGate]
  /\ UNCHANGED <<inputVars, ctl, epoch, scan, joined, barrierVars,
                 seen_epoch, ep_end, pos, finished, slotVars>>

\* g_start
OpenGate ==
  /\ free_run
  /\ ctl = Launching /\ next = Len(order)
  /\ ctl' = Collecting
  /\ UNCHANGED <<inputVars, epoch, next, scan, joined, barrierVars, workerVars, slotVars>>

\* One pthread_join after the other, and the end behind the last.
Collect ==
  /\ ctl = Collecting
  /\ IF scan = next
       THEN ctl' = Over /\ UNCHANGED <<scan, joined>>
       ELSE /\ at[order[scan + 1]] = Gone
            /\ scan' = scan + 1 /\ joined' = joined \cup {order[scan + 1]}
            /\ UNCHANGED ctl
  /\ UNCHANGED <<inputVars, epoch, next, barrierVars, workerVars, slotVars>>

------------------------------------------------------------------------------

(* A worker. *)

PassGate(t) ==
  /\ at[t] = AtGate /\ ctl = Collecting
  /\ at' = [at EXCEPT ![t] = Executing]
  /\ UNCHANGED <<inputVars, controlVars, barrierVars, seen_epoch, ep_end, pos, finished, slotVars>>

\* The condition-variable wait compares the epoch last seen, 0 at first, with
\* the current one.
SeeEpoch(t) ==
  /\ at[t] = EpochWait
  /\ seen_epoch[t] # epoch_id
  /\ seen_epoch' = [seen_epoch EXCEPT ![t] = epoch_id]
  /\ ep_end' = [ep_end EXCEPT ![t] = epoch_end]
  /\ at' = [at EXCEPT ![t] = Executing]
  /\ UNCHANGED <<inputVars, controlVars, barrierVars, pos, finished, slotVars>>

\* A free run does not look at the clock of the trace.
HasOp(t) == pos[t] < Len(plan.ops[t]) /\ (free_run \/ Op(t).ts < ep_end[t])

\* wait_slot_gen; a pointer stays until the operation that waits for it is done.
Ready(t) == Op(t).kind \in {OpFree, OpRealloc} => gen[Op(t).slot] >= Op(t).wait

\* What the real allocator does for the operation, and the pointer to publish.
Performed(t, fails) ==
  LET op == Op(t)
      old == IF op.kind = OpAlloc THEN NULL ELSE ptr[op.slot]
      block == <<op.slot, op.out>>
      new == IF op.empty THEN NULL ELSE IF fails THEN old ELSE block
  IN  /\ heap' = IF new = old THEN heap ELSE (heap \ {old}) \cup ({new} \ {NULL})
      /\ ptr' = [ptr EXCEPT ![op.slot] = new]

\* An allocation or reallocation, up to the first store of publish_slot.
Produce(t, fails) ==
  /\ at[t] = Executing
  /\ HasOp(t) /\ Ready(t)
  /\ Op(t).kind \in {OpAlloc, OpRealloc}
  /\ Performed(t, fails)
  /\ at' = [at EXCEPT ![t] = Publishing]
  /\ UNCHANGED <<inputVars, controlVars, barrierVars, seen_epoch, ep_end, pos, finished, gen>>

Publish(t) ==
  /\ at[t] = Publishing
  /\ gen' = [gen EXCEPT ![Op(t).slot] = Op(t).out]
  /\ pos' = [pos EXCEPT ![t] = @ + 1]
  /\ at' = [at EXCEPT ![t] = Executing]
  /\ UNCHANGED <<inputVars, controlVars, barrierVars, seen_epoch, ep_end, finished, ptr, heap>>

\* Faulty: a free takes the pointer it finds, whatever the generation.
ReleaseAtOnce(t) ==
  /\ at[t] = Executing
  /\ HasOp(t)
  /\ Op(t).kind \in {OpFree, OpUnknownFree}
  /\ heap' = IF Op(t).kind = OpFree THEN heap \ {ptr[Op(t).slot]} ELSE heap
  /\ pos' = [pos EXCEPT ![t] = @ + 1]
  /\ UNCHANGED <<inputVars, controlVars, barrierVars, at, seen_epoch, ep_end, finished, gen, ptr>>

\* A free of a known block; an unknown free is skipped.
Release(t) ==
  /\ at[t] = Executing
  /\ HasOp(t) /\ Ready(t)
  /\ Op(t).kind \in {OpFree, OpUnknownFree}
  /\ heap' = IF Op(t).kind = OpFree THEN heap \ {ptr[Op(t).slot]} ELSE heap
  /\ pos' = [pos EXCEPT ![t] = @ + 1]
  /\ UNCHANGED <<inputVars, controlVars, barrierVars, at, seen_epoch, ep_end, finished, gen, ptr>>

ShouldFinish(t) == pos[t] >= Len(plan.ops[t]) /\ ep_end[t] >= EndOf(plan, t)

\* Faulty: a worker that finishes leaves without arriving.
ArriveUnlessFinished(t) ==
  /\ ~free_run
  /\ at[t] = Executing
  /\ ~HasOp(t)
  /\ IF ShouldFinish(t)
       THEN /\ finished' = finished \cup {t}
            /\ at' = [at EXCEPT ![t] = Gone]
            /\ UNCHANGED epoch_arrived
       ELSE /\ UNCHANGED finished
            /\ at' = [at EXCEPT ![t] = EpochWait]
            /\ epoch_arrived' = epoch_arrived + 1
  /\ UNCHANGED <<inputVars, controlVars, epoch_id, epoch_end, epoch_target,
                 seen_epoch, ep_end, pos, slotVars>>

Arrive(t) ==
  /\ ~free_run
  /\ at[t] = Executing
  /\ ~HasOp(t)
  /\ epoch_arrived' = epoch_arrived + 1
  /\ IF ShouldFinish(t)
       THEN /\ finished' = finished \cup {t}
            /\ at' = [at EXCEPT ![t] = Gone]
       ELSE /\ UNCHANGED finished
            /\ at' = [at EXCEPT ![t] = EpochWait]
  /\ UNCHANGED <<inputVars, controlVars, epoch_id, epoch_end, epoch_target,
                 seen_epoch, ep_end, pos, slotVars>>

\* The end of worker_main_freerun.
FinishFree(t) ==
  /\ free_run
  /\ at[t] = Executing
  /\ ~HasOp(t)
  /\ finished' = finished \cup {t}
  /\ at' = [at EXCEPT ![t] = Gone]
  /\ UNCHANGED <<inputVars, controlVars, barrierVars, seen_epoch, ep_end, pos, slotVars>>

------------------------------------------------------------------------------

Controller ==
  \/ Launch \/ OpenEpoch \/ SkipEpoch \/ PassBarrier \/ JoinIfFinished \/ EndScan \/ Finish
  \/ LaunchFree \/ OpenGate \/ Collect

Worker(t) ==
  \/ SeeEpoch(t) \/ Publish(t) \/ Release(t) \/ Arrive(t)
  \/ PassGate(t) \/ FinishFree(t)
  \/ \E fails \in BOOLEAN : Produce(t, fails)

Next == Controller \/ \E t \in Tids : Worker(t)

\* The operating system keeps running every thread that can run.
Fairness == WF_vars(Controller) /\ \A t \in Tids : WF_vars(Worker(t))

Spec == Init /\ [][Next]_vars /\ Fairness

------------------------------------------------------------------------------

TypeOK ==
  /\ ctl \in {Launching, Awaiting, Joining, Draining, Finishing, Reaping, Collecting, Over}
  /\ epoch \in 0 .. Epochs
  /\ scan \in 0 .. next /\ next \in 0 .. Len(order)
  /\ joined \subseteq Launched /\ finished \subseteq Launched
  /\ {epoch_id, epoch_end, epoch_target, epoch_arrived} \subseteq Nat
  /\ at \in [Tids -> {NotStarted, AtGate, EpochWait, Executing, Publishing, Gone}]
  /\ seen_epoch \in [Tids -> 0 .. epoch_id]
  /\ ep_end \in [Tids -> 0 .. epoch_end]
  /\ pos \in [Tids -> Nat] /\ \A t \in Tids : pos[t] <= Len(plan.ops[t])
  /\ gen \in [SlotIds -> Nat]
  /\ ptr \in [SlotIds -> {NULL} \cup (SlotIds \X (Nat \ {0}))]
  /\ heap \subseteq SlotIds \X (Nat \ {0})

\* Every worker starts in the first epoch, before any epoch was opened.
Together == \A t \in Workers : StartOf(plan, t) < EndOfEpoch(0)

\* When the controller has passed the barrier of an epoch, no launched worker
\* is still executing it, nor has yet to begin it (the README's barrier of all
\* worker threads).
BarrierHolds ==
  ctl \in {Joining, Reaping} =>
    \A t \in Launched : \/ at[t] = Gone
                        \/ at[t] = EpochWait /\ seen_epoch[t] = epoch_id

\* The barrier is sound when no worker joins a replay under way.
BarrierHoldsTogether == Together => BarrierHolds

\* "Matched free is never dropped": an operation on a block finds the
\* generation it waited for, not a newer or an older one, and its block has
\* not been freed, whatever the barrier does; and a replay that is over has
\* executed every operation and has freed every block the trace frees.
MatchedExactly ==
  /\ \A t \in Tids :
       at[t] = Executing /\ HasOp(t) /\ Op(t).kind \in {OpFree, OpRealloc} /\ Ready(t) =>
         /\ gen[Op(t).slot] = Op(t).wait
         /\ ptr[Op(t).slot] \in heap \cup {NULL}
  /\ ctl = Over =>
       \A t \in Tids :
         /\ pos[t] = Len(plan.ops[t])
         /\ \A i \in 1 .. pos[t] : plan.ops[t][i].kind = OpFree =>
              \A b \in heap : b[1] # plan.ops[t][i].slot

\* With every worker there from the start, or without a barrier, the replay
\* comes to its end: the waits for generations alone cannot block each other.
FinishesTogether == Together \/ free_run => <>(ctl = Over)

\* "Matched free is never dropped", as a promise about every replay.
EveryOperationRuns == <>(\A t \in Tids : pos[t] = Len(plan.ops[t]))
==============================================================================
