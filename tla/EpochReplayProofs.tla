-------------------------- MODULE EpochReplayProofs --------------------------
(***************************************************************************)
(* What both replays keep, for every trace, number of threads and length   *)
(* of an epoch.  The slots are sound because preprocessing publishes and   *)
(* consumes each generation once (ReplayTraceProofs): what is published of *)
(* a slot is what its done operations published, and nothing follows a     *)
(* free.  The barrier holds for workers that start together because the    *)
(* arrivals it counts are the workers that have arrived.                   *)
(***************************************************************************)
EXTENDS EpochReplay, ReplayTraceProofs

\* Types, and the plan that preprocessing made.
Typed ==
  /\ TypeOK /\ plan \in Plans /\ Sound(plan) /\ Lived(plan)
  /\ order \in StartOrders /\ free_run \in BOOLEAN

------------------------------------------------------------------------------
(* The invariant of the slots *)

\* Operations that are done, and those that are at least under way.
Done(x) == x[2] <= pos[x[1]]
Begun(x) == Done(x) \/ (at[x[1]] = Publishing /\ x[2] = pos[x[1]] + 1)

Produces(x) == OpAt(plan, x).kind \in {OpAlloc, OpRealloc}
Takes(x) == OpAt(plan, x).kind \in {OpFree, OpRealloc}
SlotOf(x) == OpAt(plan, x).slot

Freed(s) ==
  \E z \in Positions(plan) : Done(z) /\ OpAt(plan, z).kind = OpFree /\ SlotOf(z) = s

\* The generations up to that of a slot were published, and by operations that
\* are done.
Published ==
  \A s \in SlotIds : \A k \in 1 .. gen[s] :
    \E y \in Positions(plan) : Done(y) /\ Publishes(plan, y, s, k)

\* A slot has the generations its done operations published and waited for.
Reached ==
  \A x \in Positions(plan) : Done(x) =>
    /\ Produces(x) => OpAt(plan, x).out <= gen[SlotOf(x)]
    /\ Takes(x) => OpAt(plan, x).wait <= gen[SlotOf(x)]

\* A worker between the stores of publish_slot is in an operation that
\* publishes, and has waited for what the operation takes.
UnderWay ==
  \A t \in Tids : at[t] = Publishing =>
    /\ pos[t] < Len(plan.ops[t])
    /\ Op(t).kind \in {OpAlloc, OpRealloc}
    /\ Op(t).kind = OpRealloc => Op(t).wait <= gen[Op(t).slot]

\* A pointer is a block of its slot that lives, unless the slot was freed, and
\* some operation has stored it.
PointersLive ==
  \A s \in SlotIds : ptr[s] # NULL =>
    /\ ptr[s][1] = s
    /\ ptr[s] \in heap \/ Freed(s)
    /\ \E y \in Positions(plan) : Begun(y) /\ Produces(y) /\ SlotOf(y) = s

\* The blocks of the heap are the pointers of their slots.
HeapHeld == \A b \in heap : b = ptr[b[1]]

\* Of a slot that was freed nothing is left.
NothingLeft == \A s \in SlotIds : Freed(s) => \A b \in heap : b[1] # s

SlotsInv == Published /\ Reached /\ UnderWay /\ PointersLive /\ HeapHeld /\ NothingLeft

------------------------------------------------------------------------------
(* The invariant of the threads *)

\* Where workers can be.
WorkersInv ==
  /\ \A t \in Tids : at[t] = NotStarted <=> t \notin Launched
  /\ finished = { t \in Tids : at[t] = Gone }
  /\ joined \subseteq finished
  /\ \A t \in Tids : at[t] = Gone => pos[t] = Len(plan.ops[t])

\* No epoch that was opened ends behind the one that is prepared or run.
Horizon == IF ctl \in {Launching, Awaiting, Joining} THEN EndOfEpoch(epoch) ELSE EndOfTime

\* Where the controller can be.
ControlInv ==
  /\ free_run => ctl \in {Launching, Collecting, Over} /\ (ctl = Launching => scan = 0)
  /\ ~free_run => ctl # Collecting
  /\ ctl \in {Launching, Awaiting, Joining} => epoch < Epochs
  /\ epoch_end <= Horizon
  /\ ctl = Collecting => next = Len(order) /\ \A i \in 1 .. scan : at[order[i]] = Gone
  /\ ctl = Over => next = Len(order) /\ \A t \in Launched : at[t] = Gone

------------------------------------------------------------------------------
(* The invariant of the barrier *)

\* No worker is in the epoch, nor has yet to begin it.
Quiet ==
  \A t \in Launched : at[t] = Gone \/ (at[t] = EpochWait /\ seen_epoch[t] = epoch_id)

Arrived == { t \in Launched : at[t] \in {EpochWait, Gone} /\ seen_epoch[t] = epoch_id }

\* The barrier is open, and counts the workers that were there when it opened.
Counting ==
  /\ epoch_target = Cardinality(Launched \ joined)
  /\ epoch_arrived = Cardinality(Arrived)
  /\ \A t \in joined : seen_epoch[t] # epoch_id
  /\ \A t \in Launched : t \in joined \/ at[t] = EpochWait \/ seen_epoch[t] = epoch_id

BarrierInv ==
  /\ epoch_id > 0 => next = Len(order)
  /\ ctl \in {Awaiting, Joining, Finishing, Reaping} => epoch_id > 0
  /\ ctl \in {Awaiting, Finishing} => Counting
  /\ ctl \notin {Awaiting, Finishing} => Quiet
  /\ ctl \in {Joining, Reaping} =>
       \A i \in 1 .. scan : at[order[i]] = Gone => order[i] \in joined
  /\ ctl \in {Launching, Draining} => \A t \in Launched : at[t] = Gone => t \in joined

IInv == Typed /\ SlotsInv /\ WorkersInv /\ ControlInv /\ (Together /\ ~free_run => BarrierInv)

------------------------------------------------------------------------------
(* What the plan gives *)

\* An operation, and its slot.
LEMMA OperationTypes ==
  ASSUME Typed, NEW x \in Positions(plan)
  PROVE  /\ OpAt(plan, x).kind \in {OpAlloc, OpFree, OpRealloc, OpUnknownFree}
         /\ OpAt(plan, x).slot \in Nat /\ OpAt(plan, x).wait \in Nat /\ OpAt(plan, x).out \in Nat
         /\ OpAt(plan, x).kind # OpUnknownFree => SlotOf(x) \in SlotIds
         /\ OpAt(plan, x).kind = OpAlloc => OpAt(plan, x).out = 1
         /\ OpAt(plan, x).kind = OpRealloc => OpAt(plan, x).out = OpAt(plan, x).wait + 1
         /\ Produces(x) => OpAt(plan, x).out >= 1
  <1>1. plan \in Plans /\ SlotsHandedOut(plan) /\ Shapes(plan)
    BY DEF Typed, Sound
  <1>2. OpAt(plan, x) \in Operations
    BY <1>1, OperationAt
  <1>3. /\ OpAt(plan, x).kind \in {OpAlloc, OpFree, OpRealloc, OpUnknownFree}
        /\ OpAt(plan, x).slot \in Nat /\ OpAt(plan, x).wait \in Nat /\ OpAt(plan, x).out \in Nat
    BY <1>2 DEF Operations
  <1>4. /\ OpAt(plan, x).kind = OpAlloc => OpAt(plan, x).out = 1
        /\ OpAt(plan, x).kind = OpRealloc => OpAt(plan, x).out = OpAt(plan, x).wait + 1
    BY <1>1 DEF Shapes, Shape
  <1>5. OpAt(plan, x).kind # OpUnknownFree => SlotOf(x) \in SlotIds
    <2>1. plan.slots \in Nat
      BY <1>1 DEF Plans
    <2>2. OpAt(plan, x).kind # OpUnknownFree => OpAt(plan, x).slot < plan.slots
      BY <1>1 DEF SlotsHandedOut
    <2>3. QED
      BY <1>3, <2>1, <2>2 DEF SlotOf, SlotIds
  <1>6. Produces(x) => OpAt(plan, x).out >= 1
    BY <1>3, <1>4 DEF Produces
  <1>7. QED
    BY <1>3, <1>4, <1>5, <1>6

\* The operations that take or publish use a slot.
LEMMA SlotUsed ==
  ASSUME Typed, NEW x \in Positions(plan), Produces(x) \/ Takes(x)
  PROVE  SlotOf(x) \in SlotIds
  <1>1. OpAt(plan, x).kind # OpUnknownFree
    BY DEF Produces, Takes, OpAlloc, OpFree, OpRealloc, OpUnknownFree
  <1>2. QED
    BY <1>1, OperationTypes

\* Nobody publishes, and nobody takes, what another does.
LEMMA Unique ==
  ASSUME Typed, NEW x \in Positions(plan), NEW y \in Positions(plan), SlotOf(x) = SlotOf(y)
  PROVE  /\ Produces(x) /\ Produces(y) /\ OpAt(plan, x).out = OpAt(plan, y).out => x = y
         /\ Takes(x) /\ Takes(y) /\ OpAt(plan, x).wait = OpAt(plan, y).wait => x = y
  BY DEF Typed, Sound, OncePublishedOnceConsumed, Publishes, Consumes, Produces, Takes, SlotOf

\* What is taken was published, so it is not the 0 of a slot without a block.
LEMMA TakenIsPublished ==
  ASSUME Typed, NEW x \in Positions(plan), Takes(x)
  PROVE  OpAt(plan, x).wait >= 1
  <1>1. PICK y \in Positions(plan) : Publishes(plan, y, OpAt(plan, x).slot, OpAt(plan, x).wait)
    BY DEF Typed, Sound, PublishedBeforeConsumed, Takes
  <1>2. Produces(y) /\ OpAt(plan, y).out = OpAt(plan, x).wait
    BY <1>1 DEF Publishes, Produces
  <1>3. OpAt(plan, y).out >= 1
    BY <1>2, OperationTypes
  <1>4. QED
    BY <1>2, <1>3

\* A later generation is published by the reallocation that takes the one before.
LEMMA PublisherTakes ==
  ASSUME Typed, NEW x \in Positions(plan), Takes(x), NEW y \in Positions(plan),
         Publishes(plan, y, SlotOf(x), OpAt(plan, x).wait + 1)
  PROVE  x = y /\ OpAt(plan, x).kind = OpRealloc
  <1>1. /\ OpAt(plan, y).kind \in {OpAlloc, OpRealloc} /\ SlotOf(y) = SlotOf(x)
        /\ OpAt(plan, y).out = OpAt(plan, x).wait + 1
    BY DEF Publishes, SlotOf
  <1>2. OpAt(plan, x).wait \in Nat /\ OpAt(plan, x).wait >= 1
    BY OperationTypes, TakenIsPublished
  <1>3. OpAt(plan, y).kind # OpAlloc
    <2>1. OpAt(plan, y).kind = OpAlloc => OpAt(plan, y).out = 1
      BY OperationTypes
    <2>2. QED
      BY <1>1, <1>2, <2>1
  <1>4. OpAt(plan, y).kind = OpRealloc
    BY <1>1, <1>3
  <1>5. OpAt(plan, y).out = OpAt(plan, y).wait + 1 /\ OpAt(plan, y).wait \in Nat
    BY <1>4, OperationTypes
  <1>6. OpAt(plan, y).wait = OpAt(plan, x).wait
    BY <1>1, <1>2, <1>5
  <1>7. x = y
    BY <1>1, <1>4, <1>6, Unique DEF Takes
  <1>8. QED
    BY <1>4, <1>7

------------------------------------------------------------------------------
(* What the invariant of the slots gives *)

\* No generation is newer than one that nobody has taken yet.
LEMMA NoneNewer ==
  ASSUME Typed, SlotsInv, NEW x \in Positions(plan), Takes(x), ~Done(x)
  PROVE  gen[SlotOf(x)] <= OpAt(plan, x).wait
  <1>1. SlotOf(x) \in SlotIds /\ gen[SlotOf(x)] \in Nat /\ OpAt(plan, x).wait \in Nat
    <2>1. SlotOf(x) \in SlotIds
      BY SlotUsed
    <2>2. gen[SlotOf(x)] \in Nat
      BY <2>1 DEF Typed, TypeOK
    <2>3. QED
      BY <2>1, <2>2, OperationTypes
  <1>2. ASSUME OpAt(plan, x).wait < gen[SlotOf(x)]
        PROVE  FALSE
    <2>1. OpAt(plan, x).wait + 1 \in 1 .. gen[SlotOf(x)]
      BY <1>1, <1>2
    <2>2. PICK y \in Positions(plan) :
            Done(y) /\ Publishes(plan, y, SlotOf(x), OpAt(plan, x).wait + 1)
      BY <1>1, <2>1 DEF SlotsInv, Published
    <2>3. x = y
      BY <2>2, PublisherTakes
    <2>4. QED
      BY <2>2, <2>3
  <1>3. QED
    BY <1>1, <1>2

\* A slot that was freed keeps the generation of the free.
LEMMA FreeIsLast ==
  ASSUME Typed, SlotsInv, NEW z \in Positions(plan), Done(z), OpAt(plan, z).kind = OpFree
  PROVE  gen[SlotOf(z)] = OpAt(plan, z).wait
  <1>0. Takes(z)
    BY DEF Takes
  <1>1. SlotOf(z) \in SlotIds /\ gen[SlotOf(z)] \in Nat /\ OpAt(plan, z).wait \in Nat
    <2>1. SlotOf(z) \in SlotIds
      BY <1>0, SlotUsed
    <2>2. gen[SlotOf(z)] \in Nat
      BY <2>1 DEF Typed, TypeOK
    <2>3. QED
      BY <2>1, <2>2, OperationTypes
  <1>2. OpAt(plan, z).wait <= gen[SlotOf(z)]
    BY <1>0 DEF SlotsInv, Reached
  <1>3. ASSUME OpAt(plan, z).wait < gen[SlotOf(z)]
        PROVE  FALSE
    <2>1. OpAt(plan, z).wait + 1 \in 1 .. gen[SlotOf(z)]
      BY <1>1, <1>3
    <2>2. PICK y \in Positions(plan) : Publishes(plan, y, SlotOf(z), OpAt(plan, z).wait + 1)
      BY <1>1, <2>1 DEF SlotsInv, Published
    <2>3. OpAt(plan, z).kind = OpRealloc
      BY <1>0, <2>2, PublisherTakes
    <2>4. QED
      BY <2>3 DEF OpFree, OpRealloc
  <1>4. QED
    BY <1>1, <1>2, <1>3

\* A slot whose allocation is not done has no generation yet.
LEMMA AllocIsFirst ==
  ASSUME Typed, SlotsInv, NEW x \in Positions(plan), OpAt(plan, x).kind = OpAlloc, ~Done(x)
  PROVE  gen[SlotOf(x)] = 0
  <1>0. Produces(x) /\ OpAt(plan, x).out = 1
    BY OperationTypes DEF Produces
  <1>1. SlotOf(x) \in SlotIds
    BY <1>0, SlotUsed
  <1>2. gen[SlotOf(x)] \in Nat
    BY <1>1 DEF Typed, TypeOK
  <1>3. ASSUME gen[SlotOf(x)] # 0
        PROVE  FALSE
    <2>1. 1 \in 1 .. gen[SlotOf(x)]
      BY <1>2, <1>3
    <2>2. PICK y \in Positions(plan) : Done(y) /\ Publishes(plan, y, SlotOf(x), 1)
      BY <1>1, <2>1 DEF SlotsInv, Published
    <2>3. Produces(y) /\ SlotOf(y) = SlotOf(x) /\ OpAt(plan, y).out = 1
      BY <2>2 DEF Publishes, Produces, SlotOf
    <2>4. x = y
      BY <1>0, <2>3, Unique
    <2>5. QED
      BY <2>2, <2>4
  <1>4. QED
    BY <1>3

\* No operation that can go on uses a slot that was freed.
LEMMA NothingFollowsFree ==
  ASSUME Typed, SlotsInv, NEW x \in Positions(plan), ~Done(x),
         \/ OpAt(plan, x).kind = OpAlloc
         \/ Takes(x) /\ OpAt(plan, x).wait <= gen[SlotOf(x)]
  PROVE  ~Freed(SlotOf(x))
  <1> SUFFICES ASSUME NEW z \in Positions(plan), Done(z), OpAt(plan, z).kind = OpFree,
                      SlotOf(z) = SlotOf(x)
               PROVE  FALSE
    BY DEF Freed
  <1>1. Takes(z) /\ gen[SlotOf(x)] = OpAt(plan, z).wait /\ OpAt(plan, z).wait >= 1
    BY FreeIsLast, TakenIsPublished DEF Takes
  <1>2. CASE OpAt(plan, x).kind = OpAlloc
    BY <1>1, <1>2, AllocIsFirst
  <1>3. CASE Takes(x) /\ OpAt(plan, x).wait <= gen[SlotOf(x)]
    <2>1. gen[SlotOf(x)] <= OpAt(plan, x).wait
      BY <1>3, NoneNewer
    <2>2. OpAt(plan, x).wait \in Nat /\ OpAt(plan, z).wait \in Nat
      BY OperationTypes
    <2>3. OpAt(plan, x).wait = OpAt(plan, z).wait
      BY <1>1, <1>3, <2>1, <2>2
    <2>4. x = z
      BY <1>1, <1>3, <2>3, Unique
    <2>5. QED
      BY <2>4
  <1>4. QED
    BY <1>2, <1>3

\* An allocation that has not begun finds the null pointer.
LEMMA AllocFindsNull ==
  ASSUME Typed, SlotsInv, NEW x \in Positions(plan), OpAt(plan, x).kind = OpAlloc, ~Begun(x)
  PROVE  ptr[SlotOf(x)] = NULL
  <1>0. Produces(x) /\ OpAt(plan, x).out = 1 /\ ~Done(x)
    BY OperationTypes DEF Produces, Begun
  <1>1. SlotOf(x) \in SlotIds
    BY <1>0, SlotUsed
  <1>2. ASSUME ptr[SlotOf(x)] # NULL
        PROVE  FALSE
    <2>1. PICK y \in Positions(plan) : Begun(y) /\ Produces(y) /\ SlotOf(y) = SlotOf(x)
      BY <1>1, <1>2 DEF SlotsInv, PointersLive
    <2>2. y # x
      BY <2>1
    <2>3. gen[SlotOf(x)] = 0
      BY <1>0, AllocIsFirst
    <2>4. OpAt(plan, y).kind # OpAlloc
      BY <1>0, <2>1, <2>2, OperationTypes, Unique
    <2>5. OpAt(plan, y).kind = OpRealloc /\ Takes(y)
      BY <2>1, <2>4 DEF Produces, Takes
    <2>6. OpAt(plan, y).wait <= gen[SlotOf(x)]
      <3>1. CASE Done(y)
        BY <2>1, <2>5, <3>1 DEF SlotsInv, Reached
      <3>2. CASE at[y[1]] = Publishing /\ y[2] = pos[y[1]] + 1
        <4>1. y[1] \in Tids
          BY DEF Positions
        <4>2. Op(y[1]) = OpAt(plan, y)
          BY <3>2 DEF Op, OpAt
        <4>3. QED
          BY <2>1, <2>5, <3>2, <4>1, <4>2 DEF SlotsInv, UnderWay, SlotOf
      <3>3. QED
        BY <2>1, <3>1, <3>2 DEF Begun
    <2>7. OpAt(plan, y).wait >= 1 /\ OpAt(plan, y).wait \in Nat
      BY <2>5, TakenIsPublished, OperationTypes
    <2>8. QED
      BY <2>3, <2>6, <2>7
  <1>3. QED
    BY <1>2

------------------------------------------------------------------------------
(* Steps and the invariant of the slots *)

\* Where the inputs stay, so does what is read off them.
SameInputs == plan' = plan /\ order' = order /\ free_run' = free_run

\* x is the operation worker t comes to.
Facing(t, x) ==
  /\ x \in Positions(plan) /\ x[1] = t /\ x[2] = pos[t] + 1
  /\ OpAt(plan, x) = Op(t)

\* The operation of a worker that has one.
LEMMA FacesOperation ==
  ASSUME Typed, NEW t \in Tids, pos[t] < Len(plan.ops[t])
  PROVE  \E x : Facing(t, x) /\ ~Done(x)
  <1> DEFINE x == <<t, pos[t] + 1>>
  <1>1. pos[t] \in Nat /\ plan.ops[t] \in Seq(Operations)
    BY DEF Typed, TypeOK, Plans
  <1>2. pos[t] + 1 \in 1 .. Len(plan.ops[t])
    BY <1>1
  <1>3. x \in Positions(plan)
    BY <1>2 DEF Positions
  <1>4. Facing(t, x)
    BY <1>3 DEF Facing, OpAt, Op
  <1>5. ~Done(x)
    BY <1>1 DEF Done
  <1>6. QED
    BY <1>4, <1>5

\* A worker that goes on to its next operation has done one more.
LEMMA OneMoreDone ==
  ASSUME Typed, NEW t \in Tids, NEW x, Facing(t, x), pos' = [pos EXCEPT ![t] = @ + 1]
  PROVE  /\ \A y \in Positions(plan) : Done(y)' <=> Done(y) \/ y = x
         /\ \A u \in Tids : u # t => pos'[u] = pos[u]
  <1>1. pos \in [Tids -> Nat]
    BY DEF Typed, TypeOK
  <1>2. pos'[t] = pos[t] + 1 /\ pos[t] \in Nat /\ \A u \in Tids : u # t => pos'[u] = pos[u]
    BY <1>1
  <1>3. ASSUME NEW y \in Positions(plan)
        PROVE  Done(y)' <=> Done(y) \/ y = x
    <2>1. PICK u \in Tids : y \in {u} \X (1 .. Len(plan.ops[u]))
      BY DEF Positions
    <2>2. y = <<y[1], y[2]>> /\ y[1] = u /\ y[2] \in Nat
      BY <2>1
    <2>3. x = <<x[1], x[2]>>
      BY DEF Facing, Positions
    <2>4. CASE u # t
      BY <1>2, <2>2, <2>4 DEF Done, Facing
    <2>5. CASE u = t
      <3>1. y = x <=> y[2] = x[2]
        BY <2>2, <2>3, <2>5 DEF Facing
      <3>2. QED
        BY <1>2, <2>2, <2>5, <3>1 DEF Done, Facing
    <2>6. QED
      BY <2>4, <2>5
  <1>4. QED
    BY <1>2, <1>3

\* Steps that leave the slots alone.
LEMMA SlotsFrame ==
  ASSUME SlotsInv, plan' = plan, UNCHANGED slotVars, pos' = pos,
         \A t \in Tids : at'[t] = Publishing <=> at[t] = Publishing
  PROVE  SlotsInv'
  <1>1. gen' = gen /\ ptr' = ptr /\ heap' = heap
    BY DEF slotVars
  <1>2. Positions(plan') = Positions(plan) /\ SlotIds' = SlotIds
    BY DEF SlotIds
  <1>3. \A y \in Positions(plan) :
          /\ Done(y)' <=> Done(y)
          /\ Begun(y)' <=> Begun(y)
          /\ OpAt(plan', y) = OpAt(plan, y)
    BY DEF Done, Begun, Positions
  <1>4. \A s : Freed(s)' <=> Freed(s)
    BY <1>2, <1>3 DEF Freed, SlotOf
  <1>5. Published'
    BY <1>1, <1>2, <1>3 DEF SlotsInv, Published
  <1>6. Reached'
    BY <1>1, <1>2, <1>3 DEF SlotsInv, Reached, Produces, Takes, SlotOf
  <1>7. UnderWay'
    BY <1>1 DEF SlotsInv, UnderWay, Op
  <1>8. PointersLive'
    BY <1>1, <1>2, <1>3, <1>4 DEF SlotsInv, PointersLive, Produces, SlotOf
  <1>9. HeapHeld' /\ NothingLeft'
    BY <1>1, <1>2, <1>4 DEF SlotsInv, HeapHeld, NothingLeft
  <1>10. QED
    BY <1>5, <1>6, <1>7, <1>8, <1>9 DEF SlotsInv

\* A pointer belongs to one slot.
LEMMA PointersDiffer ==
  ASSUME SlotsInv, NEW s \in SlotIds, NEW u \in SlotIds, u # s, ptr[u] # NULL
  PROVE  ptr[u] # ptr[s]
  BY DEF SlotsInv, PointersLive

\* The allocator works for an operation that may.
LEMMA PerformedKeeps ==
  ASSUME Typed, SlotsInv, NEW t \in Tids, NEW x, Facing(t, x), ~Begun(x), Produces(x),
         Takes(x) => OpAt(plan, x).wait <= gen[SlotOf(x)],
         NEW fails \in BOOLEAN, Performed(t, fails), plan' = plan, gen' = gen,
         \A y \in Positions(plan) : Done(y)' <=> Done(y),
         \A y \in Positions(plan) : Begun(y) => Begun(y)', Begun(x)'
  PROVE  PointersLive' /\ HeapHeld' /\ NothingLeft'
  <1>0. x \in Positions(plan) /\ ~Done(x) /\ OpAt(plan, x) = Op(t)
    BY DEF Facing, Begun
  <1>1. PICK s \in SlotIds : s = SlotOf(x)
    BY <1>0, SlotUsed
  <1>2. ~Freed(s)
    BY <1>0, <1>1, NothingFollowsFree DEF Produces, Takes
  <1>3. PICK old : old = ptr[s]
    OBVIOUS
  <1>4. old = IF Op(t).kind = OpAlloc THEN NULL ELSE ptr[Op(t).slot]
    BY <1>0, <1>1, <1>3, AllocFindsNull DEF SlotOf
  <1>5. PICK block : block = <<s, Op(t).out>>
    OBVIOUS
  <1>6. block[1] = s /\ block # NULL
    <2>1. Op(t).out \in Nat /\ s \in Nat
      BY <1>0, <1>1, OperationTypes DEF SlotOf
    <2>2. QED
      BY <1>5, <2>1, EpochAssumption
  <1>7. PICK new : /\ new = IF Op(t).empty THEN NULL ELSE IF fails THEN old ELSE block
                   /\ heap' = IF new = old THEN heap ELSE (heap \ {old}) \cup ({new} \ {NULL})
                   /\ ptr' = [ptr EXCEPT ![s] = new]
    BY <1>0, <1>1, <1>4, <1>5, Zenon DEF Performed, SlotOf
  <1>8. new \in {NULL, old, block}
    BY <1>7
  <1>9. ptr'[s] = new /\ \A u \in SlotIds : u # s => ptr'[u] = ptr[u]
    BY <1>7 DEF Typed, TypeOK
  <1>10. SlotIds' = SlotIds /\ \A u : Freed(u)' <=> Freed(u)
    BY DEF SlotIds, Freed, SlotOf
  <1>11. old # NULL => old[1] = s /\ old \in heap
    BY <1>2, <1>3 DEF SlotsInv, PointersLive
  <1>12. \A b \in heap : b \in SlotIds \X (Nat \ {0}) /\ b # NULL /\ b = ptr[b[1]]
    <2>1. heap \subseteq SlotIds \X (Nat \ {0})
      BY DEF Typed, TypeOK
    <2>2. SlotIds \subseteq Nat
      BY DEF SlotIds, Typed, Plans
    <2>3. QED
      BY <2>1, <2>2, EpochAssumption DEF SlotsInv, HeapHeld
  <1>13. PointersLive'
    <2> SUFFICES ASSUME NEW u \in SlotIds, ptr'[u] # NULL
                 PROVE  /\ ptr'[u][1] = u
                        /\ ptr'[u] \in heap' \/ Freed(u)'
                        /\ \E y \in Positions(plan) : Begun(y)' /\ Produces(y)' /\ SlotOf(y)' = u
      BY <1>10 DEF PointersLive
    <2>1. CASE u = s
      <3>1. new # NULL /\ ptr'[u] = new
        BY <1>9, <2>1
      <3>2. new[1] = s /\ new \in heap'
        BY <1>6, <1>7, <1>8, <1>11, <3>1
      <3>3. Produces(x)' /\ SlotOf(x)' = s
        BY <1>1 DEF Produces, SlotOf
      <3>4. QED
        BY <1>0, <2>1, <3>1, <3>2, <3>3
    <2>2. CASE u # s
      <3>1. ptr'[u] = ptr[u] /\ ptr[u] # NULL
        BY <1>9, <2>2
      <3>2. ptr[u] # old
        BY <1>3, <2>2, <3>1, PointersDiffer
      <3>3. ptr[u][1] = u /\ (ptr[u] \in heap \/ Freed(u))
        BY <3>1 DEF SlotsInv, PointersLive
      <3>4. ptr[u] \in heap => ptr[u] \in heap'
        BY <1>7, <3>2
      <3>5. PICK y \in Positions(plan) : Begun(y) /\ Produces(y) /\ SlotOf(y) = u
        BY <3>1 DEF SlotsInv, PointersLive
      <3>6. Begun(y)' /\ Produces(y)' /\ SlotOf(y)' = u
        BY <3>5 DEF Produces, SlotOf
      <3>7. QED
        BY <1>10, <3>1, <3>3, <3>4, <3>6
    <2>3. QED
      BY <2>1, <2>2
  <1>14. \A b \in heap' : \/ b \in heap /\ (b # old \/ new = old)
                          \/ b = new /\ b = block
    BY <1>7, <1>8
  <1>15. HeapHeld'
    <2> SUFFICES ASSUME NEW b \in heap' PROVE b = ptr'[b[1]]
      BY DEF HeapHeld
    <2>1. CASE b \in heap /\ (b # old \/ new = old)
      <3>1. b[1] \in SlotIds /\ b = ptr[b[1]]
        BY <1>12, <2>1
      <3>2. CASE b[1] = s
        BY <1>3, <1>9, <2>1, <3>1, <3>2
      <3>3. CASE b[1] # s
        BY <1>9, <3>1, <3>3
      <3>4. QED
        BY <3>2, <3>3
    <2>2. CASE b = new /\ b = block
      BY <1>6, <1>9, <2>2
    <2>3. QED
      BY <1>14, <2>1, <2>2
  <1>16. NothingLeft'
    <2> SUFFICES ASSUME NEW u \in SlotIds, Freed(u), NEW b \in heap' PROVE b[1] # u
      BY <1>10 DEF NothingLeft
    <2>1. u # s
      BY <1>2
    <2>2. CASE b \in heap
      BY <2>2 DEF SlotsInv, NothingLeft
    <2>3. CASE b = block
      BY <1>6, <2>1, <2>3
    <2>4. QED
      BY <1>14, <2>2, <2>3
  <1>17. QED
    BY <1>13, <1>15, <1>16

\* An operation that publishes is under way.
LEMMA ProduceKeeps ==
  ASSUME Typed, SlotsInv, NEW t \in Tids, NEW fails \in BOOLEAN, Produce(t, fails)
  PROVE  SlotsInv'
  <1>1. /\ plan' = plan /\ pos' = pos /\ gen' = gen /\ at[t] = Executing
        /\ at' = [at EXCEPT ![t] = Publishing] /\ Performed(t, fails)
        /\ HasOp(t) /\ Ready(t) /\ Op(t).kind \in {OpAlloc, OpRealloc}
    BY DEF Produce, inputVars
  <1>2. PICK x : Facing(t, x) /\ ~Done(x)
    BY <1>1, FacesOperation DEF HasOp
  <1>3. x \in Positions(plan) /\ OpAt(plan, x) = Op(t) /\ Produces(x)
    BY <1>1, <1>2 DEF Facing, Produces
  <1>4. at'[t] = Publishing /\ \A u \in Tids : u # t => at'[u] = at[u]
    BY <1>1 DEF Typed, TypeOK
  <1>5. \A y \in Positions(plan) : Done(y)' <=> Done(y)
    BY <1>1 DEF Done
  <1>6. \A y \in Positions(plan) : Begun(y) => Begun(y)'
    <2> SUFFICES ASSUME NEW y \in Positions(plan), Begun(y) PROVE Begun(y)'
      OBVIOUS
    <2>1. y[1] \in Tids
      BY DEF Positions
    <2>2. QED
      BY <1>1, <1>4, <1>5, <2>1 DEF Begun
  <1>7. Begun(x)' /\ ~Begun(x)
    BY <1>1, <1>2, <1>4 DEF Begun, Facing, Executing, Publishing
  <1>8. Takes(x) => OpAt(plan, x).wait <= gen[SlotOf(x)]
    BY <1>1, <1>3 DEF Takes, Ready, SlotOf
  <1>9. PointersLive' /\ HeapHeld' /\ NothingLeft'
    BY <1>1, <1>2, <1>3, <1>5, <1>6, <1>7, <1>8, PerformedKeeps
  <1>10. Published'
    BY <1>1, <1>5 DEF SlotsInv, Published, SlotIds
  <1>11. Reached'
    BY <1>1, <1>5 DEF SlotsInv, Reached, Produces, Takes, SlotOf
  <1>12. UnderWay'
    <2> SUFFICES ASSUME NEW u \in Tids, at'[u] = Publishing
                 PROVE  /\ pos[u] < Len(plan.ops[u])
                        /\ Op(u).kind \in {OpAlloc, OpRealloc}
                        /\ Op(u).kind = OpRealloc => Op(u).wait <= gen[Op(u).slot]
      BY <1>1 DEF UnderWay, Op
    <2>1. CASE u = t
      BY <1>1, <2>1 DEF HasOp, Ready
    <2>2. CASE u # t
      BY <1>4, <2>2 DEF SlotsInv, UnderWay
    <2>3. QED
      BY <2>1, <2>2
  <1>13. QED
    BY <1>9, <1>10, <1>11, <1>12 DEF SlotsInv

\* What the second store of publish_slot publishes is the next generation.
LEMMA PublishesNext ==
  ASSUME Typed, SlotsInv, NEW x \in Positions(plan), Produces(x), ~Done(x)
  PROVE  gen[SlotOf(x)] < OpAt(plan, x).out
  <1>1. SlotOf(x) \in SlotIds
    BY SlotUsed
  <1>2. gen[SlotOf(x)] \in Nat /\ OpAt(plan, x).out \in Nat /\ OpAt(plan, x).wait \in Nat
    BY <1>1, OperationTypes DEF Typed, TypeOK
  <1>3. CASE OpAt(plan, x).kind = OpAlloc
    BY <1>2, <1>3, AllocIsFirst, OperationTypes
  <1>4. CASE OpAt(plan, x).kind = OpRealloc
    BY <1>2, <1>4, NoneNewer, OperationTypes DEF Takes
  <1>5. QED
    BY <1>3, <1>4 DEF Produces

\* A generation is published.
LEMMA PublishKeeps ==
  ASSUME Typed, SlotsInv, NEW t \in Tids, Publish(t)
  PROVE  SlotsInv'
  <1>1. /\ plan' = plan /\ ptr' = ptr /\ heap' = heap /\ at[t] = Publishing
        /\ at' = [at EXCEPT ![t] = Executing] /\ pos' = [pos EXCEPT ![t] = @ + 1]
        /\ gen' = [gen EXCEPT ![Op(t).slot] = Op(t).out]
    BY DEF Publish, inputVars
  <1>2. /\ pos[t] < Len(plan.ops[t]) /\ Op(t).kind \in {OpAlloc, OpRealloc}
        /\ Op(t).kind = OpRealloc => Op(t).wait <= gen[Op(t).slot]
    BY <1>1 DEF SlotsInv, UnderWay
  <1>3. PICK x : Facing(t, x) /\ ~Done(x)
    BY <1>2, FacesOperation
  <1>4. x \in Positions(plan) /\ OpAt(plan, x) = Op(t) /\ Produces(x)
    BY <1>2, <1>3 DEF Facing, Produces
  <1>5. /\ \A y \in Positions(plan) : Done(y)' <=> Done(y) \/ y = x
        /\ \A u \in Tids : u # t => pos'[u] = pos[u]
    BY <1>1, <1>3, OneMoreDone
  <1>6. at'[t] = Executing /\ \A u \in Tids : u # t => at'[u] = at[u]
    BY <1>1 DEF Typed, TypeOK
  <1>7. PICK s \in SlotIds : s = SlotOf(x)
    BY <1>4, SlotUsed
  <1>8. PICK k \in Nat : k = OpAt(plan, x).out
    BY <1>4, OperationTypes
  <1>9. gen'[s] = k /\ \A u \in SlotIds : u # s => gen'[u] = gen[u]
    BY <1>1, <1>4, <1>7, <1>8 DEF Typed, TypeOK, SlotOf
  <1>10. gen[s] < k /\ gen[s] \in Nat /\ \A u \in SlotIds : gen[u] \in Nat
    BY <1>3, <1>4, <1>7, <1>8, PublishesNext DEF Typed, TypeOK
  <1>11. \A u \in SlotIds : gen'[u] \in Nat /\ gen[u] <= gen'[u]
    BY <1>9, <1>10
  <1>12. SlotIds' = SlotIds
    BY <1>1 DEF SlotIds
  <1>13. Publishes(plan, x, s, k)
    BY <1>4, <1>7, <1>8 DEF Publishes, Produces, SlotOf
  <1>14. k <= gen[s] + 1
    <2>1. OpAt(plan, x).wait \in Nat
      BY <1>4, OperationTypes
    <2>2. CASE OpAt(plan, x).kind = OpAlloc
      BY <1>4, <1>8, <1>10, <2>2, OperationTypes
    <2>3. CASE OpAt(plan, x).kind = OpRealloc
      <3>1. OpAt(plan, x).wait <= gen[s]
        BY <1>2, <1>4, <1>7, <2>3 DEF SlotOf
      <3>2. k = OpAt(plan, x).wait + 1
        BY <1>4, <1>8, <2>3, OperationTypes
      <3>3. QED
        BY <1>10, <2>1, <3>1, <3>2
    <2>4. QED
      BY <1>4, <2>2, <2>3 DEF Produces
  <1>15. Published'
    <2> SUFFICES ASSUME NEW u \in SlotIds, NEW n \in 1 .. gen'[u]
                 PROVE  \E y \in Positions(plan) : Done(y)' /\ Publishes(plan, y, u, n)
      BY <1>1, <1>12 DEF Published
    <2>1. CASE u = s /\ n = k
      BY <1>4, <1>5, <1>13, <2>1
    <2>2. CASE ~(u = s /\ n = k)
      <3>1. n \in 1 .. gen[u]
        BY <1>9, <1>10, <1>14, <2>2
      <3>2. PICK y \in Positions(plan) : Done(y) /\ Publishes(plan, y, u, n)
        BY <3>1 DEF SlotsInv, Published
      <3>3. QED
        BY <1>5, <3>2
    <2>3. QED
      BY <2>1, <2>2
  <1>16. Reached'
    <2> SUFFICES ASSUME NEW y \in Positions(plan), Done(y)'
                 PROVE  /\ Produces(y) => OpAt(plan, y).out <= gen'[SlotOf(y)]
                        /\ Takes(y) => OpAt(plan, y).wait <= gen'[SlotOf(y)]
      BY <1>1 DEF Reached, Produces, Takes, SlotOf
    <2>1. CASE y = x
      <3>1. Takes(x) => OpAt(plan, x).wait <= k
        <4>1. OpAt(plan, x).wait \in Nat
          BY <1>4, OperationTypes
        <4>2. Takes(x) => OpAt(plan, x).kind = OpRealloc
          BY <1>4 DEF Takes, Produces, OpFree, OpAlloc, OpRealloc
        <4>3. QED
          BY <1>4, <1>8, <4>1, <4>2, OperationTypes
      <3>2. QED
        BY <1>7, <1>8, <1>9, <2>1, <3>1
    <2>2. CASE y # x
      <3>1. /\ Produces(y) => OpAt(plan, y).out <= gen[SlotOf(y)]
            /\ Takes(y) => OpAt(plan, y).wait <= gen[SlotOf(y)]
        BY <1>5, <2>2 DEF SlotsInv, Reached
      <3>2. OpAt(plan, y).wait \in Nat /\ OpAt(plan, y).out \in Nat
        BY OperationTypes
      <3>3. Produces(y) \/ Takes(y) => SlotOf(y) \in SlotIds
        BY SlotUsed
      <3>4. QED
        BY <1>10, <1>11, <3>1, <3>2, <3>3
    <2>3. QED
      BY <2>1, <2>2
  <1>17. UnderWay'
    <2> SUFFICES ASSUME NEW u \in Tids, at'[u] = Publishing
                 PROVE  /\ pos'[u] < Len(plan.ops[u])
                        /\ Op(u)'.kind \in {OpAlloc, OpRealloc}
                        /\ Op(u)'.kind = OpRealloc => Op(u)'.wait <= gen'[Op(u)'.slot]
      BY <1>1 DEF UnderWay, Op
    <2>1. u # t
      BY <1>6 DEF Executing, Publishing
    <2>2. pos'[u] = pos[u] /\ at[u] = Publishing /\ Op(u)' = Op(u)
      BY <1>1, <1>5, <1>6, <2>1 DEF Op
    <2>3. /\ pos[u] < Len(plan.ops[u]) /\ Op(u).kind \in {OpAlloc, OpRealloc}
          /\ Op(u).kind = OpRealloc => Op(u).wait <= gen[Op(u).slot]
      BY <2>2 DEF SlotsInv, UnderWay
    <2>4. PICK y : Facing(u, y)
      BY <2>3, FacesOperation
    <2>5. Op(u).slot \in SlotIds /\ Op(u).wait \in Nat
      BY <2>3, <2>4, SlotUsed, OperationTypes DEF Facing, Produces, SlotOf
    <2>6. QED
      BY <1>10, <1>11, <2>2, <2>3, <2>5
  <1>18. \A u : Freed(u)' <=> Freed(u)
    <2>1. OpAt(plan, x).kind # OpFree
      BY <1>4 DEF Produces, OpFree, OpAlloc, OpRealloc
    <2>2. QED
      BY <1>1, <1>5, <2>1 DEF Freed, SlotOf
  <1>19. PointersLive'
    <2>1. \A y \in Positions(plan) : Begun(y) => Begun(y)'
      <3> SUFFICES ASSUME NEW y \in Positions(plan), Begun(y) PROVE Begun(y)'
        OBVIOUS
      <3>1. CASE Done(y)
        BY <1>5, <3>1 DEF Begun
      <3>2. CASE y[1] = t /\ ~Done(y)
        <4>1. y[2] = x[2] /\ y[1] = x[1]
          BY <1>3, <3>2 DEF Begun, Facing
        <4>2. y = x
          BY <1>4, <4>1 DEF Positions
        <4>3. QED
          BY <1>5, <4>2 DEF Begun
      <3>3. CASE y[1] # t /\ ~Done(y)
        <4>1. y[1] \in Tids
          BY DEF Positions
        <4>2. QED
          BY <1>5, <1>6, <3>3, <4>1 DEF Begun
      <3>4. QED
        BY <3>1, <3>2, <3>3
    <2>2. \A u \in SlotIds : ptr[u] # NULL =>
            \E y \in Positions(plan) : Begun(y)' /\ Produces(y)' /\ SlotOf(y)' = u
      BY <1>1, <2>1 DEF SlotsInv, PointersLive, Produces, SlotOf
    <2>3. QED
      BY <1>1, <1>12, <1>18, <2>2 DEF SlotsInv, PointersLive
  <1>20. HeapHeld' /\ NothingLeft'
    BY <1>1, <1>12, <1>18 DEF SlotsInv, HeapHeld, NothingLeft
  <1>21. QED
    BY <1>15, <1>16, <1>17, <1>19, <1>20 DEF SlotsInv

\* A free is done, or skipped.
LEMMA ReleaseKeeps ==
  ASSUME Typed, SlotsInv, NEW t \in Tids, Release(t)
  PROVE  SlotsInv'
  <1>1. /\ plan' = plan /\ ptr' = ptr /\ gen' = gen /\ at' = at /\ at[t] = Executing
        /\ pos' = [pos EXCEPT ![t] = @ + 1] /\ HasOp(t) /\ Ready(t)
        /\ Op(t).kind \in {OpFree, OpUnknownFree}
        /\ heap' = IF Op(t).kind = OpFree THEN heap \ {ptr[Op(t).slot]} ELSE heap
    BY DEF Release, inputVars
  <1>2. PICK x : Facing(t, x) /\ ~Done(x)
    BY <1>1, FacesOperation DEF HasOp
  <1>3. x \in Positions(plan) /\ OpAt(plan, x) = Op(t) /\ ~Produces(x)
    BY <1>1, <1>2 DEF Facing, Produces, OpFree, OpUnknownFree, OpAlloc, OpRealloc
  <1>4. /\ \A y \in Positions(plan) : Done(y)' <=> Done(y) \/ y = x
        /\ \A u \in Tids : u # t => pos'[u] = pos[u]
    BY <1>1, <1>2, OneMoreDone
  <1>5. SlotIds' = SlotIds
    BY <1>1 DEF SlotIds
  <1>6. \A u : Freed(u)' <=> Freed(u) \/ (Op(t).kind = OpFree /\ u = Op(t).slot)
    BY <1>1, <1>3, <1>4 DEF Freed, SlotOf
  <1>7. heap' \subseteq heap
    BY <1>1
  <1>8. Published'
    BY <1>1, <1>4, <1>5 DEF SlotsInv, Published
  <1>9. Reached'
    <2>1. Takes(x) => OpAt(plan, x).wait <= gen[SlotOf(x)]
      BY <1>1, <1>3 DEF Takes, Ready, SlotOf
    <2>2. QED
      BY <1>1, <1>3, <1>4, <2>1 DEF SlotsInv, Reached, Produces, Takes, SlotOf
  <1>10. UnderWay'
    <2> SUFFICES ASSUME NEW u \in Tids, at[u] = Publishing
                 PROVE  /\ pos'[u] < Len(plan.ops[u])
                        /\ Op(u)'.kind \in {OpAlloc, OpRealloc}
                        /\ Op(u)'.kind = OpRealloc => Op(u)'.wait <= gen[Op(u)'.slot]
      BY <1>1 DEF UnderWay, Op
    <2>1. u # t
      BY <1>1 DEF Executing, Publishing
    <2>2. pos'[u] = pos[u] /\ Op(u)' = Op(u)
      BY <1>1, <1>4, <2>1 DEF Op
    <2>3. QED
      BY <2>2 DEF SlotsInv, UnderWay
  <1>11. PointersLive'
    <2> SUFFICES ASSUME NEW u \in SlotIds, ptr[u] # NULL
                 PROVE  /\ ptr[u][1] = u
                        /\ ptr[u] \in heap' \/ Freed(u)'
                        /\ \E y \in Positions(plan) : Begun(y)' /\ Produces(y)' /\ SlotOf(y)' = u
      BY <1>1, <1>5 DEF PointersLive
    <2>1. /\ ptr[u][1] = u /\ (ptr[u] \in heap \/ Freed(u))
          /\ \E y \in Positions(plan) : Begun(y) /\ Produces(y) /\ SlotOf(y) = u
      BY DEF SlotsInv, PointersLive
    <2>2. ptr[u] \in heap' \/ Freed(u)'
      <3>1. CASE Freed(u) \/ (Op(t).kind = OpFree /\ u = Op(t).slot)
        BY <1>6, <3>1
      <3>2. CASE ~Freed(u) /\ Op(t).kind # OpFree
        BY <1>1, <2>1, <3>2
      <3>3. CASE ~Freed(u) /\ Op(t).kind = OpFree /\ u # Op(t).slot
        <4>1. Op(t).slot \in SlotIds
          BY <1>3, <3>3, SlotUsed DEF Takes, SlotOf
        <4>2. ptr[u] # ptr[Op(t).slot]
          BY <3>3, <4>1, PointersDiffer
        <4>3. QED
          BY <1>1, <2>1, <3>3, <4>2
      <3>4. QED
        BY <3>1, <3>2, <3>3
    <2>3. PICK y \in Positions(plan) : Begun(y) /\ Produces(y) /\ SlotOf(y) = u
      BY <2>1
    <2>4. Begun(y)'
      <3>1. CASE Done(y)
        BY <1>4, <3>1 DEF Begun
      <3>2. CASE ~Done(y)
        <4>1. y[1] \in Tids /\ at[y[1]] = Publishing
          BY <2>3, <3>2 DEF Begun, Positions
        <4>2. y[1] # t
          BY <1>1, <4>1 DEF Executing, Publishing
        <4>3. QED
          BY <1>1, <1>4, <2>3, <4>1, <4>2 DEF Begun, Done
      <3>3. QED
        BY <3>1, <3>2
    <2>5. Produces(y)' /\ SlotOf(y)' = u
      BY <1>1, <2>3 DEF Produces, SlotOf
    <2>6. QED
      BY <2>1, <2>2, <2>4, <2>5
  <1>12. HeapHeld'
    BY <1>1, <1>7 DEF SlotsInv, HeapHeld
  <1>13. NothingLeft'
    <2> SUFFICES ASSUME NEW u \in SlotIds, Freed(u)', NEW b \in heap', b[1] = u PROVE FALSE
      BY <1>5 DEF NothingLeft
    <2>1. ~Freed(u)
      BY <1>7 DEF SlotsInv, NothingLeft
    <2>2. Op(t).kind = OpFree /\ u = Op(t).slot
      BY <1>6, <2>1
    <2>3. b = ptr[u]
      BY <1>7 DEF SlotsInv, HeapHeld
    <2>4. QED
      BY <1>1, <2>2, <2>3
  <1>14. QED
    BY <1>8, <1>9, <1>10, <1>11, <1>12, <1>13 DEF SlotsInv

------------------------------------------------------------------------------
(* Epochs *)

\* A quotient rounded up.
LEMMA CeilDivided ==
  ASSUME NEW x \in Nat, NEW y \in Nat \ {0}
  PROVE  /\ CeilDiv(x, y) \in Nat /\ CeilDiv(x, y) * y <= x + y - 1
         /\ x >= 1 => CeilDiv(x, y) >= 1
  <1>1. PICK n \in Nat : n = x + y - 1
    OBVIOUS
  <1>2. PICK q \in Int : q = n \div y
    BY <1>1
  <1>3. q * y <= n /\ n < q * y + y
    BY <1>2
  <1>4. q \in Nat
    <2>1. q < 0 => q * y + y <= 0
      BY <1>2
    <2>2. QED
      BY <1>1, <1>2, <1>3, <2>1
  <1>5. x >= 1 => q >= 1
    <2>1. q = 0 => q * y + y = y
      BY <1>2
    <2>2. QED
      BY <1>1, <1>3, <1>4, <2>1
  <1>6. CeilDiv(x, y) = q
    BY <1>1, <1>2 DEF CeilDiv
  <1>7. QED
    BY <1>1, <1>3, <1>4, <1>5, <1>6

\* The span of the trace and the length of an epoch.
LEMMA PlanNumbers ==
  ASSUME plan \in Plans, Lived(plan)
  PROVE  /\ MinTs \in Nat /\ plan.max \in Nat /\ MinTs <= plan.max
         /\ Span = plan.max - MinTs + 1 /\ EpochLength \in Nat \ {0}
         /\ Epochs \in Nat /\ Epochs >= 1 /\ Epochs * EpochLength <= Span + EpochLength - 1
         /\ EndOfTime = plan.max + EpochLength + 1 /\ EndOfTime \in Nat
  <1>1. MinTs \in Nat /\ plan.max \in Nat /\ MinTs <= plan.max
    BY DEF Plans, Lived, MinTs
  <1>2. Span = plan.max - MinTs + 1 /\ Span \in Nat /\ Span >= 1
    BY <1>1 DEF Span
  <1>3. EpochLength \in Nat \ {0}
    <2>1. CeilDiv(Span, EpochTarget) \in Nat /\ CeilDiv(Span, EpochTarget) >= 1
      BY <1>2, EpochAssumption, CeilDivided
    <2>2. EpochSize \in Nat
      BY EpochAssumption
    <2>3. QED
      BY <2>1, <2>2 DEF EpochLength
  <1>4. Epochs \in Nat /\ Epochs >= 1 /\ Epochs * EpochLength <= Span + EpochLength - 1
    BY <1>2, <1>3, CeilDivided DEF Epochs
  <1>5. EndOfTime = plan.max + EpochLength + 1 /\ EndOfTime \in Nat
    BY <1>1, <1>3 DEF EndOfTime
  <1>6. QED
    BY <1>1, <1>2, <1>3, <1>4, <1>5

\* The same of a typed state.
LEMMA EpochTypes ==
  ASSUME Typed
  PROVE  /\ MinTs \in Nat /\ plan.max \in Nat /\ MinTs <= plan.max
         /\ Span = plan.max - MinTs + 1 /\ EpochLength \in Nat \ {0}
         /\ Epochs \in Nat /\ Epochs >= 1 /\ Epochs * EpochLength <= Span + EpochLength - 1
         /\ EndOfTime = plan.max + EpochLength + 1 /\ EndOfTime \in Nat
  BY PlanNumbers DEF Typed

\* Epochs follow one another, and the last ends before the drain's.
LEMMA EpochEnds ==
  ASSUME Typed, NEW e \in Nat
  PROVE  /\ EndOfEpoch(e) \in Nat /\ EndOfEpoch(e) <= EndOfEpoch(e + 1)
         /\ EndOfEpoch(0) <= EndOfEpoch(e)
         /\ e < Epochs => EndOfEpoch(e) <= EndOfTime
  <1>1. PICK n \in Nat : n = EpochLength /\ n # 0
    BY EpochTypes
  <1>2. PICK m \in Nat : m = MinTs
    BY EpochTypes
  <1>3. PICK k \in Nat : k = Epochs
    BY EpochTypes
  <1>4. /\ EndOfEpoch(e) = m + (e + 1) * n /\ EndOfEpoch(e + 1) = m + (e + 1 + 1) * n
        /\ EndOfEpoch(0) = m + (0 + 1) * n
    BY <1>1, <1>2 DEF EndOfEpoch
  <1>5. /\ (e + 1) * n \in Nat /\ (e + 1 + 1) * n = (e + 1) * n + n
        /\ (0 + 1) * n = n /\ (e + 1) * n = e * n + n /\ e * n \in Nat
    OBVIOUS
  <1>6. ASSUME e < k
        PROVE  m + (e + 1) * n <= EndOfTime
    <2>1. k * n <= Span + n - 1 /\ Span = plan.max - m + 1 /\ plan.max \in Nat
      BY <1>1, <1>2, <1>3, EpochTypes
    <2>2. PICK d \in Nat : k = e + 1 + d
      <3>1. k - (e + 1) \in Nat /\ k = e + 1 + (k - (e + 1))
        BY <1>6
      <3>2. QED
        BY <3>1
    <2>3. k * n = (e + 1) * n + d * n /\ d * n \in Nat
      BY <2>2
    <2>4. EndOfTime = plan.max + n + 1
      BY <1>1, EpochTypes
    <2>5. PICK u \in Nat, v \in Nat : u = (e + 1) * n /\ v = d * n
      BY <1>5, <2>3
    <2>6. k * n = u + v
      BY <2>3, <2>5
    <2>7. m + u <= EndOfTime
      BY <2>1, <2>4, <2>6
    <2>8. QED
      BY <2>5, <2>7
  <1>7. QED
    BY <1>3, <1>4, <1>5, <1>6

\* A worker starts before the end of the drain's epoch.
LEMMA StartsInTime ==
  ASSUME Typed, NEW t \in Workers
  PROVE  StartOf(plan, t) < EndOfTime /\ StartOf(plan, t) \in Nat
  <1>1. t \in Tids /\ IsReplayed(plan, t)
    BY DEF Workers
  <1>2. /\ plan.min \in Nat \cup {NONE}
        /\ plan.start[t] \in Nat \cup {NONE} /\ plan.first[t] \in Nat \cup {NONE}
        /\ plan.ops[t] \in Seq(Operations)
    BY <1>1 DEF Typed, Plans
  <1>3. plan.min # NONE /\ plan.min <= plan.max
    <2>1. CASE plan.ops[t] # <<>>
      <3>1. 1 \in 1 .. Len(plan.ops[t])
        BY <1>2, <2>1
      <3>2. <<t, 1>> \in Positions(plan)
        BY <1>1, <3>1 DEF Positions
      <3>3. QED
        BY <3>2 DEF Typed, Sound, Stamps, Lived
    <2>2. CASE plan.start[t] # NONE \/ plan.end[t] # NONE
      BY <1>1, <2>2 DEF Typed, Lived
    <2>3. QED
      BY <1>1, <2>1, <2>2 DEF IsReplayed
  <1>4. StartOf(plan, t) \in Nat /\ StartOf(plan, t) <= plan.max
    BY <1>1, <1>2, <1>3 DEF StartOf, Typed, Lived
  <1>5. QED
    BY <1>4, EpochTypes

------------------------------------------------------------------------------
(* The order of the workers *)

\* The order is a list of all workers, each of them once.
LEMMA OrderList ==
  ASSUME Typed
  PROVE  /\ IsFiniteSet(Workers) /\ Workers \subseteq Tids
         /\ Len(order) = Cardinality(Workers) /\ Len(order) \in Nat
         /\ \A i \in 1 .. Len(order) : order[i] \in Workers
         /\ \A i, j \in 1 .. Len(order) : i # j => order[i] # order[j]
  <1>1. Workers \subseteq Tids
    BY DEF Workers
  <1>2. IsFiniteSet(Workers)
    BY <1>1, EpochAssumption, FS_Subset
  <1>3. PICK n \in Nat : n = Cardinality(Workers)
    BY <1>2, FS_CardinalityType
  <1>4. /\ order \in [1 .. n -> Workers]
        /\ \A i, j \in DOMAIN order : i < j => order[i] # order[j]
    BY <1>3 DEF Typed, StartOrders
  <1>5. Len(order) = n
    BY <1>4
  <1>6. ASSUME NEW i \in 1 .. Len(order), NEW j \in 1 .. Len(order), i # j
        PROVE  order[i] # order[j]
    <2>1. i < j \/ j < i
      BY <1>5, <1>6
    <2>2. QED
      BY <1>4, <1>5, <2>1
  <1>7. QED
    BY <1>1, <1>2, <1>3, <1>4, <1>5, <1>6

\* The workers launched, and their number.
LEMMA LaunchedWorkers ==
  ASSUME Typed
  PROVE  /\ next \in Nat /\ next <= Len(order)
         /\ Launched \subseteq Workers /\ IsFiniteSet(Launched) /\ Cardinality(Launched) = next
         /\ next = Len(order) => Launched = Workers
  <1>1. next \in Nat /\ next <= Len(order) /\ Len(order) \in Nat
    BY OrderList DEF Typed, TypeOK
  <1>2. Launched \subseteq Workers
    BY <1>1, OrderList DEF Launched
  <1> DEFINE f == [i \in 1 .. next |-> order[i]]
  <1>3. f \in Bijection(1 .. next, Launched)
    <2>1. f \in [1 .. next -> Launched] /\ \A l \in Launched : \E i \in 1 .. next : f[i] = l
      BY DEF Launched
    <2>2. \A i, j \in 1 .. next : f[i] = f[j] => i = j
      BY <1>1, OrderList
    <2> HIDE DEF f
    <2>3. QED
      BY <2>1, <2>2 DEF Bijection, Injection, Surjection, IsInjective
  <1>4. IsFiniteSet(1 .. next) /\ Cardinality(1 .. next) = next
    BY <1>1, FS_Interval
  <1>5. IsFiniteSet(Launched) /\ Cardinality(Launched) = next
    <2>1. ExistsBijection(1 .. next, Launched)
      BY <1>3 DEF ExistsBijection
    <2>2. QED
      BY <1>4, <2>1, FS_Bijection
  <1>6. next = Len(order) => Launched = Workers
    <2>1. next = Len(order) => Cardinality(Launched) = Cardinality(Workers)
      BY <1>5, OrderList
    <2>2. QED
      BY <1>2, <2>1, OrderList, FS_Subset
  <1>7. QED
    BY <1>1, <1>2, <1>5, <1>6

\* The next worker in the order has not been launched.
LEMMA NextIsNew ==
  ASSUME Typed, next < Len(order), next' = next + 1, order' = order
  PROVE  /\ order[next + 1] \in Workers /\ order[next + 1] \notin Launched
         /\ Launched' = Launched \cup {order[next + 1]}
  <1>1. next \in Nat /\ Len(order) \in Nat
    BY OrderList, LaunchedWorkers
  <1>2. next + 1 \in 1 .. Len(order)
    BY <1>1
  <1>3. order[next + 1] \in Workers
    BY <1>2, OrderList
  <1>4. order[next + 1] \notin Launched
    <2>1. \A i \in 1 .. next : i \in 1 .. Len(order) /\ i # next + 1
      BY <1>1
    <2>2. QED
      BY <1>2, <2>1, OrderList DEF Launched
  <1>5. Launched' = Launched \cup {order[next + 1]}
    <2>1. 1 .. (next + 1) = (1 .. next) \cup {next + 1}
      BY <1>1
    <2>2. QED
      BY <2>1 DEF Launched
  <1>6. QED
    BY <1>3, <1>4, <1>5

------------------------------------------------------------------------------
(* Types *)

ControlTyped ==
  /\ ctl \in {Launching, Awaiting, Joining, Draining, Finishing, Reaping, Collecting, Over}
  /\ epoch \in 0 .. Epochs
  /\ scan \in 0 .. next /\ next \in 0 .. Len(order)
  /\ joined \subseteq Launched /\ finished \subseteq Launched

WorkersTyped ==
  /\ at \in [Tids -> {NotStarted, AtGate, EpochWait, Executing, Publishing, Gone}]
  /\ seen_epoch \in [Tids -> 0 .. epoch_id]
  /\ ep_end \in [Tids -> 0 .. epoch_end]
  /\ pos \in [Tids -> Nat] /\ \A t \in Tids : pos[t] <= Len(plan.ops[t])

BarrierTyped ==
  epoch_id \in Nat /\ epoch_end \in Nat /\ epoch_target \in Nat /\ epoch_arrived \in Nat

SlotsTyped ==
  /\ gen \in [SlotIds -> Nat]
  /\ ptr \in [SlotIds -> {NULL} \cup (SlotIds \X (Nat \ {0}))]
  /\ heap \subseteq SlotIds \X (Nat \ {0})

\* The types, part by part.
LEMMA TypesSplit ==
  /\ TypeOK => ControlTyped /\ WorkersTyped /\ BarrierTyped /\ SlotsTyped
  /\ ControlTyped' /\ WorkersTyped' /\ BarrierTyped' /\ SlotsTyped' => TypeOK'
  <1>1. {epoch_id, epoch_end, epoch_target, epoch_arrived} \subseteq Nat => BarrierTyped
    BY DEF BarrierTyped
  <1>2. BarrierTyped' => {epoch_id', epoch_end', epoch_target', epoch_arrived'} \subseteq Nat
    BY DEF BarrierTyped
  <1>3. TypeOK => ControlTyped /\ WorkersTyped /\ BarrierTyped /\ SlotsTyped
    BY <1>1 DEF TypeOK, ControlTyped, WorkersTyped, SlotsTyped
  <1>4. ControlTyped' /\ WorkersTyped' /\ BarrierTyped' /\ SlotsTyped' => TypeOK'
    BY <1>2 DEF TypeOK, ControlTyped, WorkersTyped, SlotsTyped
  <1>5. QED
    BY <1>3, <1>4

\* Every step leaves the inputs, ...
LEMMA InputsStay ==
  ASSUME Next
  PROVE  SameInputs
  BY DEF Next, Controller, Worker, Launch, OpenEpoch, SkipEpoch, PassBarrier, JoinIfFinished,
         EndScan, Finish, LaunchFree, OpenGate, Collect, SeeEpoch, Publish, Release, Arrive,
         PassGate, FinishFree, Produce, SameInputs, inputVars

\* ... and what is computed from them.
LEMMA SameFromInputs ==
  ASSUME SameInputs
  PROVE  /\ SlotIds' = SlotIds /\ Workers' = Workers /\ Len(order)' = Len(order)
         /\ Epochs' = Epochs /\ EndOfTime' = EndOfTime /\ (Together' <=> Together)
         /\ MinTs' = MinTs /\ EpochLength' = EpochLength
         /\ next' = next => Launched' = Launched
  <1>1. plan' = plan /\ order' = order
    BY DEF SameInputs
  <1>2. Workers' = Workers /\ SlotIds' = SlotIds /\ MinTs' = MinTs
    BY <1>1 DEF Workers, SlotIds, MinTs
  <1>3. Span' = Span
    BY <1>1, <1>2 DEF Span
  <1>4. EpochLength' = EpochLength
    BY <1>3 DEF EpochLength
  <1>5. Epochs' = Epochs /\ EndOfTime' = EndOfTime
    BY <1>1, <1>3, <1>4 DEF Epochs, EndOfTime
  <1>6. Together' <=> Together
    BY <1>1, <1>2, <1>4 DEF Together, EndOfEpoch
  <1>7. next' = next => Launched' = Launched
    BY <1>1 DEF Launched
  <1>8. QED
    BY <1>1, <1>2, <1>4, <1>5, <1>6, <1>7

\* The plan and the order stay what they are.
LEMMA TypedStays ==
  ASSUME Typed, SameInputs, TypeOK'
  PROVE  Typed'
  <1>1. plan' = plan /\ order' = order /\ free_run' = free_run
    BY DEF SameInputs
  <1>2. StartOrders' = StartOrders
    BY <1>1, SameFromInputs DEF StartOrders
  <1>3. QED
    BY <1>1, <1>2 DEF Typed

\* Parts of the state that a step leaves alone keep their types.
LEMMA TypesFrame ==
  ASSUME Typed, SameInputs
  PROVE  /\ UNCHANGED controlVars /\ finished' = finished => ControlTyped'
         /\ UNCHANGED <<at, seen_epoch, ep_end, pos, epoch_id, epoch_end>> => WorkersTyped'
         /\ UNCHANGED barrierVars => BarrierTyped'
         /\ UNCHANGED slotVars => SlotsTyped'
  <1>1. /\ ControlTyped /\ WorkersTyped /\ BarrierTyped /\ SlotsTyped
        /\ SlotIds' = SlotIds /\ Len(order)' = Len(order) /\ Epochs' = Epochs
        /\ next' = next => Launched' = Launched
    BY TypesSplit, SameFromInputs DEF Typed
  <1>2. UNCHANGED controlVars /\ finished' = finished => ControlTyped'
    BY <1>1 DEF ControlTyped, controlVars, SameInputs
  <1>3. UNCHANGED <<at, seen_epoch, ep_end, pos, epoch_id, epoch_end>> => WorkersTyped'
    BY <1>1 DEF WorkersTyped, SameInputs
  <1>4. UNCHANGED barrierVars => BarrierTyped'
    BY <1>1 DEF BarrierTyped, barrierVars
  <1>5. UNCHANGED slotVars => SlotsTyped'
    BY <1>1 DEF SlotsTyped, slotVars
  <1>6. QED
    BY <1>2, <1>3, <1>4, <1>5

\* The end of the epoch to come, and the number of workers not joined.
LEMMA OpenedTypes ==
  ASSUME Typed, ControlInv
  PROVE  /\ ctl \in {Launching, Draining} => EndOfNext = Horizon
         /\ Horizon \in Nat /\ epoch_end <= Horizon /\ EndOfEpoch(0) <= Horizon
         /\ IsFiniteSet(joined) /\ Cardinality(joined) \in Nat /\ Active \in Nat
         /\ Active = Cardinality(Launched \ joined)
         /\ Active = 0 => joined = Launched
  <1>1. /\ ctl \in {Launching, Awaiting, Joining, Draining, Finishing, Reaping, Collecting, Over}
        /\ epoch \in Nat /\ joined \subseteq Launched
    BY EpochTypes DEF Typed, TypeOK
  <1>2. ctl \in {Launching, Draining} => EndOfNext = Horizon
    BY DEF EndOfNext, Horizon, Launching, Awaiting, Joining, Draining
  <1>3. Horizon \in Nat /\ EndOfEpoch(0) <= Horizon
    <2>1. /\ EndOfEpoch(epoch) \in Nat /\ EndOfEpoch(0) <= EndOfEpoch(epoch)
      BY <1>1, EpochEnds
    <2>2. EndOfTime \in Nat /\ EndOfEpoch(0) <= EndOfTime
      BY EpochTypes, EpochEnds
    <2>3. QED
      BY <2>1, <2>2 DEF Horizon
  <1>4. IsFiniteSet(Launched) /\ Cardinality(Launched) = next /\ next \in Nat
    BY LaunchedWorkers
  <1>5. IsFiniteSet(joined) /\ Cardinality(joined) <= next /\ Cardinality(joined) \in Nat
    BY <1>1, <1>4, FS_Subset, FS_CardinalityType
  <1>6. Active \in Nat
    BY <1>4, <1>5 DEF Active
  <1>7. Active = Cardinality(Launched \ joined)
    <2>1. Launched \cap joined = joined
      BY <1>1
    <2>2. QED
      BY <1>4, <2>1, FS_Difference DEF Active
  <1>8. Active = 0 => joined = Launched
    <2>1. Active = 0 => Cardinality(joined) = Cardinality(Launched)
      BY <1>4, <1>5 DEF Active
    <2>2. QED
      BY <1>1, <1>4, <2>1, FS_Subset
  <1>9. QED
    BY <1>2, <1>3, <1>5, <1>6, <1>7, <1>8 DEF ControlInv

------------------------------------------------------------------------------
(* Steps and the invariant of the threads *)

\* Steps in which nobody comes or goes.
LEMMA WorkersFrame ==
  ASSUME WorkersInv, SameInputs, UNCHANGED <<next, joined, finished>>,
         \A t \in Tids : /\ at'[t] = Gone <=> at[t] = Gone
                         /\ at'[t] = NotStarted <=> at[t] = NotStarted
                         /\ at[t] = Gone => pos'[t] = pos[t]
  PROVE  WorkersInv'
  <1>1. Launched' = Launched /\ plan' = plan /\ joined' = joined /\ finished' = finished
    BY SameFromInputs DEF SameInputs
  <1>2. \A t \in Tids : at'[t] = NotStarted <=> t \notin Launched'
    BY <1>1 DEF WorkersInv
  <1>3. finished' = { t \in Tids : at'[t] = Gone } /\ joined' \subseteq finished'
    BY <1>1 DEF WorkersInv
  <1>4. \A t \in Tids : at'[t] = Gone => pos'[t] = Len(plan'.ops[t])
    BY <1>1 DEF WorkersInv
  <1>5. QED
    BY <1>2, <1>3, <1>4 DEF WorkersInv

\* Steps of workers, who do not come back.
LEMMA ControlFrame ==
  ASSUME Typed, ControlInv, SameInputs, UNCHANGED controlVars, epoch_end' = epoch_end,
         \A t \in Tids : at[t] = Gone => at'[t] = Gone
  PROVE  ControlInv'
  <1>1. /\ ctl' = ctl /\ epoch' = epoch /\ next' = next /\ scan' = scan /\ joined' = joined
        /\ plan' = plan /\ order' = order /\ free_run' = free_run
    BY DEF controlVars, SameInputs
  <1>2. Launched' = Launched /\ Epochs' = Epochs /\ Horizon' = Horizon
    BY <1>1, SameFromInputs DEF Horizon, EndOfEpoch
  <1>3. /\ \A t \in Launched : t \in Tids
        /\ \A i \in 1 .. scan : order[i] \in Tids
    <2>1. scan \in Nat /\ scan <= next
      BY LaunchedWorkers DEF Typed, TypeOK
    <2>2. \A i \in 1 .. scan : i \in 1 .. Len(order)
      BY <2>1, LaunchedWorkers, OrderList
    <2>3. \A i \in 1 .. scan : order[i] \in Tids
      BY <2>2, OrderList
    <2>4. QED
      BY <2>3, LaunchedWorkers, OrderList
  <1>4. ctl' = Collecting => next' = Len(order') /\ \A i \in 1 .. scan' : at'[order'[i]] = Gone
    BY <1>1, <1>3 DEF ControlInv
  <1>5. ctl' = Over => next' = Len(order') /\ \A t \in Launched' : at'[t] = Gone
    BY <1>1, <1>2, <1>3 DEF ControlInv
  <1>6. QED
    BY <1>1, <1>2, <1>4, <1>5 DEF ControlInv

------------------------------------------------------------------------------
(* Where threads are *)

\* The places of a worker are different, and so are those of the controller.
LEMMA PlacesDiffer ==
  /\ Gone # NotStarted /\ Gone # AtGate /\ Gone # EpochWait /\ Gone # Executing /\ Gone # Publishing
  /\ NotStarted # AtGate /\ NotStarted # EpochWait /\ NotStarted # Executing
  /\ NotStarted # Publishing /\ AtGate # EpochWait /\ AtGate # Executing /\ AtGate # Publishing
  /\ EpochWait # Executing /\ EpochWait # Publishing /\ Executing # Publishing
  BY DEF Gone, NotStarted, AtGate, EpochWait, Executing, Publishing

\* A worker is launched.
LEMMA LaunchKeeps ==
  ASSUME Typed, WorkersInv, ControlInv, SameInputs, NEW place \in {EpochWait, AtGate},
         ctl \in {Launching, Draining}, next < Len(order), next' = next + 1,
         at' = [at EXCEPT ![order[next + 1]] = place],
         UNCHANGED <<ctl, epoch, scan, joined, barrierVars, seen_epoch, ep_end, pos, finished,
                     slotVars>>
  PROVE  TypeOK' /\ WorkersInv' /\ ControlInv'
  <1>1. /\ plan' = plan /\ order' = order /\ ctl' = ctl /\ epoch' = epoch /\ scan' = scan
        /\ joined' = joined /\ finished' = finished /\ seen_epoch' = seen_epoch
        /\ ep_end' = ep_end /\ pos' = pos /\ epoch_id' = epoch_id /\ epoch_end' = epoch_end
        /\ free_run' = free_run
    BY DEF SameInputs, barrierVars
  <1>2. PICK w \in Workers : w = order[next + 1] /\ w \notin Launched /\ Launched' = Launched \cup {w}
    BY <1>1, NextIsNew
  <1>3. w \in Tids /\ at \in [Tids -> {NotStarted, AtGate, EpochWait, Executing, Publishing, Gone}]
    BY OrderList DEF Typed, TypeOK
  <1>4. at'[w] = place /\ \A t \in Tids : t # w => at'[t] = at[t]
    BY <1>2, <1>3
  <1>5. at[w] = NotStarted /\ place # NotStarted /\ place # Gone /\ at[w] # Gone
    BY <1>2, <1>3, PlacesDiffer DEF WorkersInv
  <1>6. /\ ControlTyped /\ WorkersTyped /\ Len(order)' = Len(order) /\ Epochs' = Epochs
        /\ next \in Nat /\ Len(order) \in Nat
    BY TypesSplit, SameFromInputs, OrderList, LaunchedWorkers DEF Typed
  <1>7. ControlTyped'
    BY <1>1, <1>2, <1>6 DEF ControlTyped
  <1>8. WorkersTyped'
    <2>1. at' \in [Tids -> {NotStarted, AtGate, EpochWait, Executing, Publishing, Gone}]
      BY <1>3
    <2>2. QED
      BY <1>1, <1>6, <2>1 DEF WorkersTyped
  <1>9. TypeOK'
    BY <1>7, <1>8, TypesSplit, TypesFrame
  <1>10. WorkersInv'
    <2>1. ASSUME NEW t \in Tids
          PROVE  /\ at'[t] = NotStarted <=> t \notin Launched'
                 /\ at'[t] = Gone <=> at[t] = Gone
      <3>1. CASE t = w
        BY <1>2, <1>4, <1>5, <3>1
      <3>2. CASE t # w
        BY <1>2, <1>4, <3>2 DEF WorkersInv
      <3>3. QED
        BY <3>1, <3>2
    <2>2. finished' = { t \in Tids : at'[t] = Gone }
      BY <1>1, <2>1 DEF WorkersInv
    <2>3. QED
      BY <1>1, <2>1, <2>2 DEF WorkersInv
  <1>11. ControlInv'
    <2>1. ctl' # Collecting /\ ctl' # Over
      BY <1>1 DEF Launching, Draining, Collecting, Over
    <2>2. Horizon' = Horizon
      BY <1>1, SameFromInputs DEF Horizon, EndOfEpoch
    <2>3. QED
      BY <1>1, <1>6, <2>1, <2>2 DEF ControlInv
  <1>12. QED
    BY <1>9, <1>10, <1>11

\* Steps of the controller alone: workers stay where they are.
LEMMA ControllerAlone ==
  ASSUME Typed, WorkersInv, SameInputs, UNCHANGED <<next, workerVars>>,
         joined' \subseteq finished
  PROVE  WorkersInv'
  <1>1. Launched' = Launched /\ plan' = plan /\ at' = at /\ finished' = finished /\ pos' = pos
    BY SameFromInputs DEF SameInputs, workerVars
  <1>2. QED
    BY <1>1 DEF WorkersInv

\* An epoch is opened.
LEMMA OpenEpochKeeps ==
  ASSUME Typed, WorkersInv, ControlInv, SameInputs, OpenEpoch
  PROVE  TypeOK' /\ WorkersInv' /\ ControlInv'
  <1>1. /\ ~free_run /\ ctl \in {Launching, Draining} /\ UNCHANGED <<next, workerVars>>
        /\ epoch_end' = EndOfNext /\ epoch_arrived' = 0 /\ epoch_target' = Active
        /\ epoch_id' = epoch_id + 1 /\ UNCHANGED slotVars
        /\ ctl' = IF ctl = Launching THEN Awaiting ELSE Finishing
        /\ epoch' = epoch /\ scan' = scan /\ joined' = joined
    BY DEF OpenEpoch, OpenBarrier
  <1>2. /\ next' = next /\ at' = at /\ seen_epoch' = seen_epoch /\ ep_end' = ep_end
        /\ pos' = pos /\ finished' = finished /\ plan' = plan /\ order' = order
        /\ free_run' = free_run
    BY <1>1 DEF workerVars, SameInputs
  <1>3. /\ EndOfNext = Horizon /\ Horizon \in Nat /\ epoch_end <= Horizon /\ Active \in Nat
        /\ ControlTyped /\ WorkersTyped /\ BarrierTyped
        /\ Launched' = Launched /\ Len(order)' = Len(order) /\ Epochs' = Epochs
    BY <1>1, <1>2, OpenedTypes, TypesSplit, SameFromInputs DEF Typed
  <1>4. ControlTyped'
    BY <1>1, <1>2, <1>3 DEF ControlTyped
  <1>5. BarrierTyped'
    BY <1>1, <1>3 DEF BarrierTyped
  <1>6. WorkersTyped'
    <2>1. 0 .. epoch_id \subseteq 0 .. epoch_id' /\ 0 .. epoch_end \subseteq 0 .. epoch_end'
      BY <1>1, <1>3 DEF BarrierTyped
    <2>2. seen_epoch \in [Tids -> 0 .. epoch_id'] /\ ep_end \in [Tids -> 0 .. epoch_end']
      BY <1>3, <2>1 DEF WorkersTyped
    <2>3. QED
      BY <1>2, <1>3, <2>2 DEF WorkersTyped
  <1>7. TypeOK'
    BY <1>1, <1>4, <1>5, <1>6, TypesSplit, TypesFrame
  <1>8. WorkersInv'
    BY <1>1, ControllerAlone DEF WorkersInv
  <1>9. ControlInv'
    <2>1. Horizon' = Horizon
      BY <1>1, <1>2, SameFromInputs
        DEF Horizon, EndOfEpoch, Launching, Awaiting, Joining, Draining, Finishing
    <2>2. epoch_end' <= Horizon'
      BY <1>1, <1>3, <2>1
    <2>3. ctl' \in {Launching, Awaiting, Joining} => epoch' < Epochs'
      BY <1>1, <1>3 DEF ControlInv, Launching, Awaiting, Joining, Finishing
    <2>4. ctl' # Collecting /\ ctl' # Over
      BY <1>1 DEF Awaiting, Finishing, Collecting, Over
    <2>5. QED
      BY <1>1, <1>2, <2>2, <2>3, <2>4 DEF ControlInv
  <1>10. QED
    BY <1>7, <1>8, <1>9

\* The controller goes on to another place in the same epoch.
LEMMA MovesOn ==
  ASSUME Typed, WorkersInv, ControlInv, SameInputs, ~free_run,
         \/ ctl = Awaiting /\ ctl' \in {Joining}
         \/ ctl = Joining /\ ctl' \in {Joining}
         \/ ctl = Finishing /\ ctl' \in {Reaping}
         \/ ctl = Reaping /\ ctl' \in {Reaping, Draining},
         scan' \in 0 .. next, joined' \subseteq finished,
         UNCHANGED <<epoch, next, barrierVars, workerVars, slotVars>>
  PROVE  TypeOK' /\ WorkersInv' /\ ControlInv'
  <1>1. /\ next' = next /\ finished' = finished /\ plan' = plan /\ order' = order
        /\ epoch' = epoch /\ free_run' = free_run /\ epoch_end' = epoch_end
    BY DEF workerVars, barrierVars, SameInputs
  <1>2. /\ ControlTyped /\ Launched' = Launched /\ Len(order)' = Len(order) /\ Epochs' = Epochs
    BY <1>1, TypesSplit, SameFromInputs DEF Typed
  <1>3. ControlTyped'
    BY <1>1, <1>2 DEF ControlTyped
  <1>4. TypeOK'
    BY <1>3, TypesSplit, TypesFrame DEF workerVars, barrierVars
  <1>5. WorkersInv'
    BY ControllerAlone
  <1>6. ControlInv'
    <2>1. Horizon' = Horizon
      BY <1>1, SameFromInputs
        DEF Horizon, EndOfEpoch, Launching, Awaiting, Joining, Draining, Finishing, Reaping
    <2>2. ctl' \in {Launching, Awaiting, Joining} => epoch' < Epochs'
      BY <1>1, <1>2 DEF ControlInv, Launching, Awaiting, Joining, Draining, Finishing, Reaping
    <2>3. ctl' # Collecting /\ ctl' # Over
      BY DEF Joining, Reaping, Draining, Collecting, Over
    <2>4. QED
      BY <1>1, <2>1, <2>2, <2>3 DEF ControlInv
  <1>7. QED
    BY <1>4, <1>5, <1>6

\* The next epoch is prepared, or the drain begins.
LEMMA NextEpochKeeps ==
  ASSUME Typed, WorkersInv, ControlInv, SameInputs, ~free_run, ctl \in {Launching, Joining},
         NextEpoch, UNCHANGED <<next, scan, joined, barrierVars, workerVars, slotVars>>
  PROVE  TypeOK' /\ WorkersInv' /\ ControlInv'
  <1>1. /\ next' = next /\ finished' = finished /\ plan' = plan /\ order' = order /\ scan' = scan
        /\ joined' = joined /\ free_run' = free_run /\ epoch_end' = epoch_end
        /\ epoch' = epoch + 1 /\ ctl' = IF epoch + 1 < Epochs THEN Launching ELSE Draining
    BY DEF workerVars, barrierVars, SameInputs, NextEpoch
  <1>2. /\ ControlTyped /\ Launched' = Launched /\ Len(order)' = Len(order) /\ Epochs' = Epochs
        /\ epoch < Epochs /\ Epochs \in Nat /\ epoch \in Nat
    <2>1. ControlTyped /\ Launched' = Launched /\ Len(order)' = Len(order) /\ Epochs' = Epochs
      BY <1>1, TypesSplit, SameFromInputs DEF Typed
    <2>2. epoch < Epochs
      BY DEF ControlInv
    <2>3. QED
      BY <2>1, <2>2, EpochTypes DEF ControlTyped
  <1>3. ControlTyped'
    BY <1>1, <1>2 DEF ControlTyped
  <1>4. TypeOK'
    BY <1>3, TypesSplit, TypesFrame DEF workerVars, barrierVars
  <1>5. WorkersInv'
    BY <1>1, ControllerAlone DEF WorkersInv
  <1>6. Horizon = EndOfEpoch(epoch)
    BY DEF Horizon
  <1>7. Horizon' = IF epoch + 1 < Epochs THEN EndOfEpoch(epoch + 1) ELSE EndOfTime
    BY <1>1, SameFromInputs
      DEF Horizon, EndOfEpoch, Launching, Awaiting, Joining, Draining
  <1>8. epoch_end' <= Horizon'
    <2>a. PICK e \in Nat, d \in Nat : e = epoch /\ d = epoch + 1
      BY <1>2
    <2>b. EndOfEpoch(e) \in Nat /\ EndOfEpoch(e) <= EndOfEpoch(e + 1) /\ EndOfEpoch(d) \in Nat
      BY EpochEnds
    <2>c. EndOfEpoch(e) <= EndOfTime /\ EndOfTime \in Nat
      BY <1>2, <2>a, EpochEnds, EpochTypes
    <2>1. /\ EndOfEpoch(epoch) \in Nat /\ EndOfEpoch(epoch + 1) \in Nat /\ EndOfTime \in Nat
          /\ EndOfEpoch(epoch) <= EndOfEpoch(epoch + 1) /\ EndOfEpoch(epoch) <= EndOfTime
      BY <2>a, <2>b, <2>c
    <2>2. epoch_end <= EndOfEpoch(epoch) /\ epoch_end \in Nat
      BY <1>6, OpenedTypes DEF Typed, TypeOK
    <2>3. QED
      BY <1>1, <1>7, <2>1, <2>2
  <1>9. ControlInv'
    <2>1. ctl' \in {Launching, Awaiting, Joining} => epoch' < Epochs'
      BY <1>1, <1>2 DEF Launching, Awaiting, Joining, Draining
    <2>2. ctl' # Collecting /\ ctl' # Over
      BY <1>1 DEF Launching, Draining, Collecting, Over
    <2>3. QED
      BY <1>1, <1>8, <2>1, <2>2 DEF ControlInv
  <1>10. QED
    BY <1>4, <1>5, <1>9

\* The replay is over.
LEMMA FinishKeeps ==
  ASSUME Typed, WorkersInv, ControlInv, SameInputs, Finish
  PROVE  TypeOK' /\ WorkersInv' /\ ControlInv'
  <1>1. /\ ctl = Draining /\ ctl' = Over /\ ~Due /\ Active = 0
        /\ UNCHANGED <<next, workerVars, barrierVars, slotVars>>
        /\ epoch' = epoch /\ scan' = scan /\ joined' = joined
    BY DEF Finish
  <1>2. /\ next' = next /\ finished' = finished /\ plan' = plan /\ order' = order
        /\ free_run' = free_run /\ epoch_end' = epoch_end /\ at' = at
    BY <1>1 DEF workerVars, barrierVars, SameInputs
  <1>3. /\ ControlTyped /\ Launched' = Launched /\ Len(order)' = Len(order) /\ Epochs' = Epochs
    BY <1>2, TypesSplit, SameFromInputs DEF Typed
  <1>4. ControlTyped'
    BY <1>1, <1>2, <1>3 DEF ControlTyped
  <1>5. TypeOK'
    BY <1>1, <1>4, TypesSplit, TypesFrame DEF workerVars, barrierVars
  <1>6. WorkersInv'
    BY <1>1, ControllerAlone DEF WorkersInv
  <1>7. ~free_run
    BY <1>1 DEF ControlInv, Launching, Collecting, Over, Draining
  <1>8. next = Len(order)
    <2>1. ASSUME next < Len(order)
          PROVE  FALSE
      <3>1. next + 1 \in 1 .. Len(order)
        BY <2>1, LaunchedWorkers, OrderList
      <3>2. order[next + 1] \in Workers
        BY <3>1, OrderList
      <3>3. StartOf(plan, order[next + 1]) < EndOfTime
        BY <3>2, StartsInTime
      <3>4. QED
        BY <1>1, <2>1, <3>3 DEF Due, EndOfNext
    <2>2. QED
      BY <2>1, LaunchedWorkers, OrderList
  <1>9. \A t \in Launched : at[t] = Gone
    BY <1>1, OpenedTypes DEF WorkersInv
  <1>10. ControlInv'
    <2>1. Horizon' = Horizon
      BY <1>1, <1>2, SameFromInputs DEF Horizon, EndOfEpoch, Launching, Awaiting, Joining, Draining, Over
    <2>2. ctl' \notin {Launching, Awaiting, Joining, Collecting}
      BY <1>1 DEF Launching, Awaiting, Joining, Collecting, Over
    <2>3. QED
      BY <1>1, <1>2, <1>3, <1>7, <1>8, <1>9, <2>1, <2>2 DEF ControlInv
  <1>11. QED
    BY <1>5, <1>6, <1>10

\* The gate of a free run opens.
LEMMA OpenGateKeeps ==
  ASSUME Typed, WorkersInv, ControlInv, SameInputs, OpenGate
  PROVE  TypeOK' /\ WorkersInv' /\ ControlInv'
  <1>1. /\ free_run /\ ctl = Launching /\ next = Len(order) /\ ctl' = Collecting
        /\ UNCHANGED <<next, workerVars, barrierVars, slotVars>>
        /\ epoch' = epoch /\ scan' = scan /\ joined' = joined
    BY DEF OpenGate
  <1>2. /\ next' = next /\ finished' = finished /\ plan' = plan /\ order' = order
        /\ free_run' = free_run /\ epoch_end' = epoch_end /\ epoch_end <= Horizon
        /\ Horizon = EndOfEpoch(epoch) /\ epoch < Epochs /\ scan = 0
    BY <1>1 DEF workerVars, barrierVars, SameInputs, ControlInv, Horizon
  <1>3. /\ ControlTyped /\ Launched' = Launched /\ Len(order)' = Len(order) /\ Epochs' = Epochs
    BY <1>2, TypesSplit, SameFromInputs DEF Typed
  <1>4. ControlTyped'
    BY <1>1, <1>2, <1>3 DEF ControlTyped
  <1>5. TypeOK'
    BY <1>1, <1>4, TypesSplit, TypesFrame DEF workerVars, barrierVars
  <1>6. WorkersInv'
    BY <1>1, ControllerAlone DEF WorkersInv
  <1>7. epoch_end' <= Horizon'
    <2>1. Horizon' = EndOfTime
      BY <1>1, SameFromInputs DEF Horizon, Launching, Awaiting, Joining, Collecting
    <2>2. PICK e \in Nat : e = epoch
      BY <1>3, EpochTypes DEF ControlTyped
    <2>3. EndOfEpoch(e) \in Nat /\ EndOfEpoch(e) <= EndOfTime /\ EndOfTime \in Nat
      BY <1>2, <2>2, EpochEnds, EpochTypes
    <2>4. epoch_end \in Nat
      BY DEF Typed, TypeOK
    <2>5. QED
      BY <1>2, <2>1, <2>2, <2>3, <2>4
  <1>8. ControlInv'
    <2>1. ctl' \notin {Launching, Awaiting, Joining, Over}
      BY <1>1 DEF Launching, Awaiting, Joining, Collecting, Over
    <2>2. \A i \in 1 .. scan' : at'[order'[i]] = Gone
      BY <1>1, <1>2
    <2>3. QED
      BY <1>1, <1>2, <1>3, <1>7, <2>1, <2>2 DEF ControlInv
  <1>9. QED
    BY <1>5, <1>6, <1>8

\* A worker of a free run is joined, or all have been.
LEMMA CollectKeeps ==
  ASSUME Typed, WorkersInv, ControlInv, SameInputs, Collect
  PROVE  TypeOK' /\ WorkersInv' /\ ControlInv'
  <1>1. /\ ctl = Collecting /\ UNCHANGED <<next, workerVars, barrierVars, slotVars>>
        /\ epoch' = epoch
        /\ \/ scan = next /\ ctl' = Over /\ scan' = scan /\ joined' = joined
           \/ /\ scan # next /\ at[order[scan + 1]] = Gone
              /\ scan' = scan + 1 /\ joined' = joined \cup {order[scan + 1]} /\ ctl' = ctl
    BY DEF Collect
  <1>2. /\ next' = next /\ finished' = finished /\ plan' = plan /\ order' = order
        /\ free_run' = free_run /\ epoch_end' = epoch_end /\ at' = at
    BY <1>1 DEF workerVars, barrierVars, SameInputs
  <1>3. /\ ControlTyped /\ Launched' = Launched /\ Len(order)' = Len(order) /\ Epochs' = Epochs
    BY <1>2, TypesSplit, SameFromInputs DEF Typed
  <1>4. /\ free_run /\ next = Len(order) /\ \A i \in 1 .. scan : at[order[i]] = Gone
        /\ scan \in 0 .. next /\ next \in Nat
    BY <1>1, <1>3, LaunchedWorkers DEF ControlInv, ControlTyped
  <1>5. scan # next => /\ order[scan + 1] \in Launched /\ scan + 1 \in 0 .. next
                       /\ order[scan + 1] \in Tids
    <2>1. scan # next => scan + 1 \in 1 .. next /\ scan + 1 \in 1 .. Len(order)
      BY <1>4
    <2>2. scan # next => order[scan + 1] \in Workers /\ Workers \subseteq Tids
      BY <2>1, OrderList
    <2>3. scan # next => order[scan + 1] \in Launched
      BY <2>1 DEF Launched
    <2>4. QED
      BY <1>4, <2>1, <2>2, <2>3
  <1>6. ctl' \in {Collecting, Over} /\ scan' \in 0 .. next /\ joined' \subseteq Launched
    BY <1>1, <1>3, <1>4, <1>5 DEF ControlTyped
  <1>7. ControlTyped'
    BY <1>1, <1>2, <1>3, <1>6 DEF ControlTyped
  <1>8. TypeOK'
    BY <1>1, <1>7, TypesSplit, TypesFrame DEF workerVars, barrierVars
  <1>9. WorkersInv'
    <2>1. joined' \subseteq finished
      BY <1>1, <1>5 DEF WorkersInv
    <2>2. QED
      BY <1>1, <2>1, ControllerAlone
  <1>10. Horizon' = Horizon
    BY <1>1, SameFromInputs
      DEF Horizon, EndOfEpoch, Launching, Awaiting, Joining, Collecting, Over
  <1>11. ctl' = Over => \A t \in Launched : at[t] = Gone
    <2>1. ctl' = Over => scan = next
      BY <1>1 DEF Collecting, Over
    <2>2. QED
      BY <1>4, <2>1 DEF Launched
  <1>12. \A i \in 1 .. scan' : at[order[i]] = Gone
    <2>1. CASE scan' = scan
      BY <1>4, <2>1
    <2>2. CASE scan' = scan + 1 /\ at[order[scan + 1]] = Gone
      <3>1. \A i \in 1 .. scan + 1 : i \in 1 .. scan \/ i = scan + 1
        BY <1>4
      <3>2. QED
        BY <1>4, <2>2, <3>1
    <2>3. QED
      BY <1>1, <2>1, <2>2
  <1>13. ControlInv'
    <2>1. ctl' \notin {Launching, Awaiting, Joining}
      BY <1>6 DEF Launching, Awaiting, Joining, Collecting, Over
    <2>2. epoch_end' <= Horizon'
      BY <1>2, <1>10 DEF ControlInv
    <2>3. QED
      BY <1>2, <1>3, <1>4, <1>6, <1>11, <1>12, <2>1, <2>2 DEF ControlInv
  <1>14. QED
    BY <1>8, <1>9, <1>13

\* A worker goes away, or waits for the next epoch.
LEMMA LeaveKeeps ==
  ASSUME Typed, WorkersInv, ControlInv, SameInputs, NEW t \in Tids, at[t] = Executing,
         \/ /\ pos[t] >= Len(plan.ops[t]) /\ finished' = finished \cup {t}
            /\ at' = [at EXCEPT ![t] = Gone]
         \/ finished' = finished /\ at' = [at EXCEPT ![t] = EpochWait],
         epoch_arrived' \in {epoch_arrived, epoch_arrived + 1},
         UNCHANGED <<controlVars, epoch_id, epoch_end, epoch_target, seen_epoch, ep_end, pos, slotVars>>
  PROVE  TypeOK' /\ WorkersInv' /\ ControlInv'
  <1>1. /\ plan' = plan /\ joined' = joined /\ pos' = pos /\ next' = next /\ order' = order
        /\ ctl' = ctl /\ epoch' = epoch /\ scan' = scan /\ seen_epoch' = seen_epoch
        /\ ep_end' = ep_end /\ epoch_id' = epoch_id /\ epoch_end' = epoch_end
        /\ epoch_target' = epoch_target
    BY DEF SameInputs, controlVars
  <1>2. /\ ControlTyped /\ WorkersTyped /\ BarrierTyped
        /\ Launched' = Launched /\ Len(order)' = Len(order) /\ Epochs' = Epochs
    BY <1>1, TypesSplit, SameFromInputs DEF Typed
  <1>3. at[t] # Gone /\ at[t] # NotStarted /\ t \in Launched
    BY PlacesDiffer DEF WorkersInv
  <1>4. at'[t] \in {Gone, EpochWait} /\ \A u \in Tids : u # t => at'[u] = at[u]
    BY <1>2 DEF WorkersTyped
  <1>5. at' \in [Tids -> {NotStarted, AtGate, EpochWait, Executing, Publishing, Gone}]
    BY <1>2 DEF WorkersTyped
  <1>6. \/ at'[t] = Gone /\ finished' = finished \cup {t} /\ pos[t] >= Len(plan.ops[t])
        \/ at'[t] = EpochWait /\ finished' = finished
    BY <1>2 DEF WorkersTyped
  <1>7. ControlTyped'
    BY <1>1, <1>2, <1>3, <1>6 DEF ControlTyped
  <1>8. WorkersTyped' /\ BarrierTyped'
    BY <1>1, <1>2, <1>5 DEF WorkersTyped, BarrierTyped
  <1>9. TypeOK'
    BY <1>7, <1>8, TypesSplit, TypesFrame
  <1>10. WorkersInv'
    <2>1. \A u \in Tids : at'[u] = NotStarted <=> u \notin Launched
      BY <1>3, <1>4, PlacesDiffer DEF WorkersInv
    <2>2. finished' = { u \in Tids : at'[u] = Gone }
      <3>1. finished = { u \in Tids : at[u] = Gone }
        BY DEF WorkersInv
      <3>2. \A u \in Tids : u \in finished' <=> at'[u] = Gone
        BY <1>3, <1>4, <1>6, <3>1, PlacesDiffer
      <3>3. finished' \subseteq Tids
        BY <1>6, <3>1
      <3>4. QED
        BY <3>2, <3>3
    <2>3. joined \subseteq finished'
      BY <1>6 DEF WorkersInv
    <2>4. at'[t] = Gone => pos[t] = Len(plan.ops[t])
      <3>1. pos[t] \in Nat /\ pos[t] <= Len(plan.ops[t]) /\ Len(plan.ops[t]) \in Nat
        BY <1>2 DEF WorkersTyped, Typed, Plans
      <3>2. QED
        BY <1>6, <3>1, PlacesDiffer
    <2>5. \A u \in Tids : at'[u] = Gone => pos[u] = Len(plan.ops[u])
      BY <1>4, <2>4 DEF WorkersInv
    <2>6. QED
      BY <1>1, <1>2, <2>1, <2>2, <2>3, <2>5 DEF WorkersInv
  <1>11. ControlInv'
    BY <1>1, <1>3, <1>4, ControlFrame DEF controlVars
  <1>12. QED
    BY <1>9, <1>10, <1>11

\* A worker begins an epoch, or passes the gate.
LEMMA BeginKeeps ==
  ASSUME Typed, WorkersInv, ControlInv, SameInputs, NEW t \in Tids, SeeEpoch(t) \/ PassGate(t)
  PROVE  TypeOK' /\ WorkersInv' /\ ControlInv'
  <1>1. /\ at[t] \in {EpochWait, AtGate} /\ at' = [at EXCEPT ![t] = Executing]
        /\ \/ /\ seen_epoch' = [seen_epoch EXCEPT ![t] = epoch_id]
              /\ ep_end' = [ep_end EXCEPT ![t] = epoch_end]
           \/ seen_epoch' = seen_epoch /\ ep_end' = ep_end
        /\ UNCHANGED <<controlVars, barrierVars, pos, finished, slotVars>>
    BY DEF SeeEpoch, PassGate
  <1>2. /\ plan' = plan /\ pos' = pos /\ epoch_id' = epoch_id /\ epoch_end' = epoch_end
        /\ next' = next /\ joined' = joined /\ finished' = finished
    BY <1>1 DEF SameInputs, controlVars, barrierVars
  <1>3. WorkersTyped /\ epoch_id \in Nat /\ epoch_end \in Nat
    BY TypesSplit DEF Typed, TypeOK
  <1>4. WorkersTyped'
    <2>1. at' \in [Tids -> {NotStarted, AtGate, EpochWait, Executing, Publishing, Gone}]
      BY <1>1, <1>3 DEF WorkersTyped
    <2>2. seen_epoch' \in [Tids -> 0 .. epoch_id] /\ ep_end' \in [Tids -> 0 .. epoch_end]
      <3>1. epoch_id \in 0 .. epoch_id /\ epoch_end \in 0 .. epoch_end
        BY <1>3
      <3>2. QED
        BY <1>1, <1>3, <3>1 DEF WorkersTyped
    <2>3. QED
      BY <1>2, <1>3, <2>1, <2>2 DEF WorkersTyped
  <1>5. TypeOK'
    BY <1>1, <1>4, TypesSplit, TypesFrame
  <1>6. at'[t] = Executing /\ \A u \in Tids : u # t => at'[u] = at[u]
    BY <1>1, <1>3 DEF WorkersTyped
  <1>7. \A u \in Tids : /\ at'[u] = Gone <=> at[u] = Gone
                        /\ at'[u] = NotStarted <=> at[u] = NotStarted
    BY <1>1, <1>6, PlacesDiffer
  <1>8. WorkersInv'
    BY <1>2, <1>7, WorkersFrame
  <1>9. ControlInv'
    BY <1>1, <1>2, <1>7, ControlFrame
  <1>10. QED
    BY <1>5, <1>8, <1>9

\* A worker executes its next operation, or part of it.
LEMMA ExecuteKeeps ==
  ASSUME Typed, WorkersInv, ControlInv, SlotsInv, SameInputs, NEW t \in Tids,
         (\E fails \in BOOLEAN : Produce(t, fails)) \/ Publish(t) \/ Release(t)
  PROVE  TypeOK' /\ WorkersInv' /\ ControlInv'
  <1>1. /\ at[t] \in {Executing, Publishing} /\ pos[t] < Len(plan.ops[t])
        /\ at' = at \/ at' = [at EXCEPT ![t] = Executing] \/ at' = [at EXCEPT ![t] = Publishing]
        /\ pos' = pos \/ pos' = [pos EXCEPT ![t] = @ + 1]
        /\ UNCHANGED <<controlVars, barrierVars, seen_epoch, ep_end, finished>>
    BY DEF Produce, Publish, Release, HasOp, SlotsInv, UnderWay
  <1>2. /\ plan' = plan /\ epoch_id' = epoch_id /\ epoch_end' = epoch_end
        /\ next' = next /\ joined' = joined /\ finished' = finished
        /\ seen_epoch' = seen_epoch /\ ep_end' = ep_end
    BY <1>1 DEF SameInputs, controlVars, barrierVars
  <1>3. WorkersTyped /\ SlotsTyped
    BY TypesSplit DEF Typed
  <1>4. /\ at'[t] \in {Executing, Publishing} /\ \A u \in Tids : u # t => at'[u] = at[u]
        /\ at' \in [Tids -> {NotStarted, AtGate, EpochWait, Executing, Publishing, Gone}]
    BY <1>1, <1>3 DEF WorkersTyped
  <1>5. /\ pos' \in [Tids -> Nat] /\ pos'[t] \in {pos[t], pos[t] + 1}
        /\ \A u \in Tids : u # t => pos'[u] = pos[u]
    BY <1>1, <1>3 DEF WorkersTyped
  <1>6. WorkersTyped'
    <2>1. pos[t] + 1 <= Len(plan.ops[t]) /\ pos[t] <= Len(plan.ops[t])
      BY <1>1, <1>3 DEF WorkersTyped, Typed, Plans
    <2>2. \A u \in Tids : pos'[u] <= Len(plan.ops[u])
      BY <1>3, <1>5, <2>1 DEF WorkersTyped
    <2>3. QED
      BY <1>2, <1>3, <1>4, <1>5, <2>2 DEF WorkersTyped
  <1>7. PICK x \in Positions(plan) : OpAt(plan, x) = Op(t)
    BY <1>1, FacesOperation DEF Facing
  <1>8. SlotsTyped'
    <2>1. SlotIds' = SlotIds
      BY SameFromInputs
    <2>2. Op(t).out \in Nat
      BY <1>7, OperationTypes
    <2>3. CASE Release(t)
      <3>1. gen' = gen /\ ptr' = ptr /\ heap' \subseteq heap
        BY <2>3 DEF Release
      <3>2. QED
        BY <1>3, <2>1, <3>1 DEF SlotsTyped
    <2>4. CASE Publish(t)
      <3>1. gen' = [gen EXCEPT ![Op(t).slot] = Op(t).out] /\ ptr' = ptr /\ heap' = heap
        BY <2>4 DEF Publish
      <3>2. gen' \in [SlotIds -> Nat]
        BY <1>3, <2>2, <3>1 DEF SlotsTyped
      <3>3. QED
        BY <1>3, <2>1, <3>1, <3>2 DEF SlotsTyped
    <2>5. CASE \E fails \in BOOLEAN : Produce(t, fails)
      <3>1. PICK fails \in BOOLEAN : Produce(t, fails)
        BY <2>5
      <3>2. gen' = gen /\ Performed(t, fails) /\ Op(t).kind \in {OpAlloc, OpRealloc}
        BY <3>1 DEF Produce
      <3> DEFINE Addressed == SlotIds \X (Nat \ {0})
      <3>3. PICK s \in SlotIds : s = Op(t).slot
        BY <1>7, <3>2, SlotUsed DEF Produces, SlotOf
      <3>4. <<s, Op(t).out>> \in Addressed
        BY <1>7, <2>2, <3>2, OperationTypes DEF Produces
      <3> HIDE DEF Addressed
      <3>5. PICK old \in {NULL} \cup Addressed :
              old = IF Op(t).kind = OpAlloc THEN NULL ELSE ptr[Op(t).slot]
        BY <1>3, <3>3 DEF SlotsTyped, Addressed
      <3>6. PICK new \in {NULL} \cup Addressed :
              /\ heap' = IF new = old THEN heap ELSE (heap \ {old}) \cup ({new} \ {NULL})
              /\ ptr' = [ptr EXCEPT ![s] = new]
        <4>1. PICK new : /\ new = IF Op(t).empty THEN NULL
                                  ELSE IF fails THEN old ELSE <<s, Op(t).out>>
                         /\ heap' = IF new = old THEN heap ELSE (heap \ {old}) \cup ({new} \ {NULL})
                         /\ ptr' = [ptr EXCEPT ![s] = new]
          BY <3>2, <3>3, <3>5, Zenon DEF Performed
        <4>2. new \in {NULL} \cup Addressed
          BY <3>4, <4>1
        <4>3. QED
          BY <4>1, <4>2
      <3>7. heap \subseteq Addressed /\ ptr \in [SlotIds -> {NULL} \cup Addressed]
        BY <1>3 DEF SlotsTyped, Addressed
      <3>8. heap' \subseteq Addressed /\ ptr' \in [SlotIds -> {NULL} \cup Addressed]
        BY <3>6, <3>7
      <3>9. QED
        BY <1>3, <2>1, <3>2, <3>8 DEF SlotsTyped, Addressed
    <2>6. QED
      BY <2>3, <2>4, <2>5
  <1>9. TypeOK'
    BY <1>1, <1>6, <1>8, TypesSplit, TypesFrame
  <1>10. \A u \in Tids : /\ at'[u] = Gone <=> at[u] = Gone
                         /\ at'[u] = NotStarted <=> at[u] = NotStarted
                         /\ at[u] = Gone => pos'[u] = pos[u]
    BY <1>1, <1>4, <1>5, PlacesDiffer
  <1>11. WorkersInv'
    BY <1>2, <1>10, WorkersFrame
  <1>12. ControlInv'
    BY <1>1, <1>2, <1>10, ControlFrame
  <1>13. QED
    BY <1>9, <1>11, <1>12

------------------------------------------------------------------------------
(* Steps and the invariant of the barrier *)

\* The places at which the barrier is open are places of their own.
LEMMA OpenPlaces ==
  /\ Launching \notin {Awaiting, Joining, Draining, Finishing, Reaping, Collecting, Over}
  /\ Draining \notin {Awaiting, Joining, Finishing, Reaping, Collecting, Over}
  /\ Joining \notin {Awaiting, Finishing, Reaping, Collecting, Over}
  /\ Reaping \notin {Awaiting, Finishing, Collecting, Over}
  /\ Over \notin {Awaiting, Finishing, Collecting}
  BY DEF Launching, Awaiting, Joining, Draining, Finishing, Reaping, Collecting, Over

\* When nobody is due and all start together, all have been launched.
LEMMA AllLaunched ==
  ASSUME Typed, ControlInv, Together, ctl \in {Launching, Draining}, ~Due
  PROVE  next = Len(order)
  <1>1. ASSUME next < Len(order)
        PROVE  FALSE
    <2>1. next + 1 \in 1 .. Len(order)
      BY <1>1, LaunchedWorkers, OrderList
    <2>2. PICK w \in Workers : w = order[next + 1]
      BY <2>1, OrderList
    <2>3. StartOf(plan, w) < EndOfEpoch(0) /\ StartOf(plan, w) \in Nat
      BY StartsInTime DEF Together
    <2>4. EndOfEpoch(0) \in Nat /\ EndOfEpoch(0) <= EndOfNext /\ EndOfNext \in Nat
      BY OpenedTypes, EpochEnds
    <2>5. StartOf(plan, w) < EndOfNext
      BY <2>3, <2>4
    <2>6. QED
      BY <1>1, <2>2, <2>5 DEF Due
  <1>2. QED
    BY <1>1, LaunchedWorkers, OrderList

\* A barrier that is full lets nobody remain in the epoch.
LEMMA FullMeansQuiet ==
  ASSUME Typed, WorkersInv, Counting, epoch_arrived >= epoch_target
  PROVE  Quiet
  <1> DEFINE Awaited == Launched \ joined
  <1>1. IsFiniteSet(Launched) /\ joined \subseteq Launched
    BY LaunchedWorkers DEF Typed, TypeOK
  <1>2. IsFiniteSet(Awaited) /\ Cardinality(Awaited) \in Nat
    BY <1>1, FS_Subset, FS_CardinalityType
  <1>3. Arrived \subseteq Awaited
    BY DEF Arrived, Counting
  <1>4. Cardinality(Arrived) <= Cardinality(Awaited) /\ Cardinality(Arrived) \in Nat
    BY <1>2, <1>3, FS_Subset, FS_CardinalityType
  <1>5. Cardinality(Arrived) = Cardinality(Awaited)
    BY <1>2, <1>4 DEF Counting
  <1>6. Arrived = Awaited
    BY <1>2, <1>3, <1>5, FS_Subset
  <1>7. ASSUME NEW t \in Launched
        PROVE  at[t] = Gone \/ (at[t] = EpochWait /\ seen_epoch[t] = epoch_id)
    <2>1. CASE t \in joined
      BY <2>1 DEF WorkersInv
    <2>2. CASE t \notin joined
      BY <1>6, <1>7, <2>2 DEF Arrived
    <2>3. QED
      BY <2>1, <2>2
  <1>8. QED
    BY <1>7 DEF Quiet

\* Steps of the controller while nobody is in an epoch.
LEMMA QuietStep ==
  ASSUME Typed, BarrierInv, SameInputs, ctl' \notin {Awaiting, Finishing}, Quiet,
         UNCHANGED <<next, at, seen_epoch, epoch_id>>, joined \subseteq joined',
         ctl' \in {Joining, Reaping} =>
           /\ ctl \in {Awaiting, Joining, Finishing, Reaping}
           /\ \A i \in 1 .. scan' : at[order[i]] = Gone => order[i] \in joined',
         ctl' \in {Launching, Draining} => \A t \in Launched : at[t] = Gone => t \in joined'
  PROVE  BarrierInv'
  <1>1. /\ next' = next /\ at' = at /\ seen_epoch' = seen_epoch /\ epoch_id' = epoch_id
        /\ order' = order /\ Launched' = Launched
    BY SameFromInputs DEF SameInputs
  <1>2. Quiet'
    BY <1>1 DEF Quiet
  <1>3. QED
    BY <1>1, <1>2 DEF BarrierInv

\* Every step of the controller keeps the barrier.
LEMMA ControllerKeepsBarrier ==
  ASSUME Typed, WorkersInv, ControlInv, Together, ~free_run, BarrierInv, SameInputs, Controller
  PROVE  BarrierInv'
  <1>0. /\ IsFiniteSet(Launched) /\ Launched \subseteq Tids /\ joined \subseteq Launched
        /\ epoch_id \in Nat /\ order' = order
    BY LaunchedWorkers, OrderList DEF Typed, TypeOK, SameInputs
  <1>1. CASE Launch
    <2>1. /\ ctl' = ctl /\ ctl \in {Launching, Draining} /\ next < Len(order) /\ next' = next + 1
          /\ at' = [at EXCEPT ![order[next + 1]] = EpochWait]
          /\ UNCHANGED <<joined, barrierVars, seen_epoch>>
      BY <1>1 DEF Launch, Due
    <2>2. PICK w \in Workers : w = order[next + 1] /\ w \notin Launched /\ Launched' = Launched \cup {w}
      BY <1>0, <2>1, NextIsNew
    <2>3. w \in Tids /\ at \in [Tids -> {NotStarted, AtGate, EpochWait, Executing, Publishing, Gone}]
      BY OrderList DEF Typed, TypeOK
    <2>4. at'[w] = EpochWait /\ \A t \in Launched : at'[t] = at[t]
      BY <1>0, <2>1, <2>2, <2>3
    <2>5. epoch_id = 0 /\ epoch_id' = epoch_id /\ seen_epoch' = seen_epoch /\ joined' = joined
      <3>1. next # Len(order)
        BY <2>1, LaunchedWorkers, OrderList
      <3>2. QED
        BY <1>0, <2>1, <3>1 DEF BarrierInv, barrierVars
    <2>6. seen_epoch[w] = 0
      BY <2>3, <2>5 DEF Typed, TypeOK
    <2>7. ctl \notin {Awaiting, Joining, Finishing, Reaping}
      BY <2>1, OpenPlaces
    <2>8. Quiet'
      BY <2>2, <2>4, <2>5, <2>6, <2>7 DEF BarrierInv, Quiet
    <2>9. \A t \in Launched' : at'[t] = Gone => t \in joined'
      BY <2>1, <2>2, <2>4, <2>5, PlacesDiffer DEF BarrierInv
    <2>10. QED
      BY <2>1, <2>5, <2>7, <2>8, <2>9 DEF BarrierInv
  <1>2. CASE OpenEpoch
    <2>1. /\ ctl \in {Launching, Draining} /\ ~Due /\ Active > 0 /\ epoch_id' = epoch_id + 1
          /\ epoch_target' = Active /\ epoch_arrived' = 0
          /\ ctl' = IF ctl = Launching THEN Awaiting ELSE Finishing
          /\ UNCHANGED <<next, joined, workerVars>>
      BY <1>2 DEF OpenEpoch, OpenBarrier
    <2>2. next' = next /\ joined' = joined /\ at' = at /\ seen_epoch' = seen_epoch
      BY <2>1 DEF workerVars
    <2>3. Launched' = Launched /\ next = Len(order)
      BY <2>1, <2>2, SameFromInputs, AllLaunched
    <2>4. epoch_target' = Cardinality(Launched' \ joined')
      BY <2>1, <2>2, <2>3, OpenedTypes
    <2>5. \A t \in Launched : seen_epoch[t] # epoch_id'
      BY <1>0, <2>1 DEF Typed, TypeOK
    <2>6. Arrived' = {}
      BY <2>2, <2>3, <2>5 DEF Arrived
    <2>7. epoch_arrived' = Cardinality(Arrived')
      BY <2>1, <2>6, FS_EmptySet
    <2>8. \A t \in Launched : t \in joined \/ at[t] = EpochWait
      BY <2>1, OpenPlaces DEF BarrierInv, Quiet
    <2>9. Counting'
      BY <1>0, <2>2, <2>3, <2>4, <2>5, <2>7, <2>8 DEF Counting
    <2>10. ctl' \in {Awaiting, Finishing} /\ ctl' \notin {Joining, Reaping, Launching, Draining}
      BY <2>1, OpenPlaces
    <2>11. QED
      BY <1>0, <2>1, <2>2, <2>3, <2>9, <2>10 DEF BarrierInv
  <1>3. CASE SkipEpoch
    <2>1. /\ ctl = Launching /\ ctl' \in {Launching, Draining}
          /\ UNCHANGED <<next, joined, barrierVars, workerVars>>
      BY <1>3 DEF SkipEpoch, NextEpoch
    <2>2. Quiet /\ \A t \in Launched : at[t] = Gone => t \in joined
      BY <2>1, OpenPlaces DEF BarrierInv
    <2>3. QED
      BY <2>1, <2>2, QuietStep, OpenPlaces DEF barrierVars, workerVars
  <1>4. CASE PassBarrier
    <2>1. /\ ctl \in {Awaiting, Finishing} /\ ctl' \in {Joining, Reaping} /\ scan' = 0
          /\ epoch_arrived >= epoch_target /\ UNCHANGED <<next, joined, barrierVars, workerVars>>
      BY <1>4 DEF PassBarrier
    <2>2. Quiet
      BY <2>1, FullMeansQuiet DEF BarrierInv
    <2>3. QED
      BY <2>1, <2>2, QuietStep, OpenPlaces DEF barrierVars, workerVars
  <1>5. CASE JoinIfFinished
    <2>1. /\ ctl \in {Joining, Reaping} /\ ctl' = ctl /\ scan < next /\ scan' = scan + 1
          /\ joined' = joined \cup ({order[scan + 1]} \cap finished)
          /\ UNCHANGED <<next, barrierVars, workerVars>>
      BY <1>5 DEF JoinIfFinished
    <2>2. Quiet /\ \A i \in 1 .. scan : at[order[i]] = Gone => order[i] \in joined
      BY <2>1, OpenPlaces DEF BarrierInv
    <2>3. scan \in Nat /\ next \in Nat /\ next <= Len(order) /\ Len(order) \in Nat
      BY LaunchedWorkers, OrderList DEF Typed, TypeOK
    <2>4. order[scan + 1] \in Tids
      <3>1. scan + 1 \in 1 .. Len(order)
        BY <2>1, <2>3
      <3>2. QED
        BY <3>1, OrderList
    <2>5. at[order[scan + 1]] = Gone => order[scan + 1] \in joined'
      BY <2>1, <2>4 DEF WorkersInv
    <2>6. \A i \in 1 .. scan' : at[order[i]] = Gone => order[i] \in joined'
      <3>1. \A i \in 1 .. scan + 1 : i \in 1 .. scan \/ i = scan + 1
        BY <2>3
      <3>2. QED
        BY <2>1, <2>2, <2>5, <3>1
    <2>7. QED
      BY <2>1, <2>2, <2>6, QuietStep, OpenPlaces DEF barrierVars, workerVars
  <1>6. CASE EndScan
    <2>1. /\ ctl \in {Joining, Reaping} /\ ctl' \in {Launching, Draining} /\ scan = next
          /\ UNCHANGED <<next, joined, barrierVars, workerVars>>
      BY <1>6 DEF EndScan, NextEpoch
    <2>2. Quiet /\ \A i \in 1 .. next : at[order[i]] = Gone => order[i] \in joined
      BY <2>1, OpenPlaces DEF BarrierInv
    <2>3. \A t \in Launched : at[t] = Gone => t \in joined
      BY <2>2 DEF Launched
    <2>4. QED
      BY <2>1, <2>2, <2>3, QuietStep, OpenPlaces DEF barrierVars, workerVars
  <1>7. CASE Finish
    <2>1. ctl = Draining /\ ctl' = Over /\ UNCHANGED <<next, joined, barrierVars, workerVars>>
      BY <1>7 DEF Finish
    <2>2. Quiet
      BY <2>1, OpenPlaces DEF BarrierInv
    <2>3. QED
      BY <2>1, <2>2, QuietStep, OpenPlaces DEF barrierVars, workerVars
  <1>8. ~LaunchFree /\ ~OpenGate /\ ~Collect
    BY DEF LaunchFree, OpenGate, Collect, ControlInv
  <1>9. QED
    BY <1>1, <1>2, <1>3, <1>4, <1>5, <1>6, <1>7, <1>8 DEF Controller

\* A worker that moves does so in an epoch, and is counted.
LEMMA WorkerKeepsBarrier ==
  ASSUME Typed, WorkersInv, ControlInv, ~free_run, BarrierInv, SameInputs,
         NEW t \in Tids, Worker(t)
  PROVE  BarrierInv'
  <1>0. /\ IsFiniteSet(Launched) /\ Launched \subseteq Tids /\ order' = order
        /\ at \in [Tids -> {NotStarted, AtGate, EpochWait, Executing, Publishing, Gone}]
        /\ seen_epoch \in [Tids -> 0 .. epoch_id]
    BY LaunchedWorkers, OrderList DEF Typed, TypeOK, SameInputs
  <1>1. \/ /\ at[t] = EpochWait /\ seen_epoch[t] # epoch_id
           /\ at' = [at EXCEPT ![t] = Executing]
           /\ seen_epoch' = [seen_epoch EXCEPT ![t] = epoch_id] /\ epoch_arrived' = epoch_arrived
        \/ /\ at[t] \in {Executing, Publishing}
           /\ at' = at \/ at' = [at EXCEPT ![t] = Executing] \/ at' = [at EXCEPT ![t] = Publishing]
           /\ seen_epoch' = seen_epoch /\ epoch_arrived' = epoch_arrived
        \/ /\ at[t] = Executing /\ seen_epoch' = seen_epoch
           /\ at' = [at EXCEPT ![t] = Gone] \/ at' = [at EXCEPT ![t] = EpochWait]
           /\ epoch_arrived' = epoch_arrived + 1
    <2>1. ~PassGate(t) /\ ~FinishFree(t)
      BY DEF PassGate, FinishFree, ControlInv
    <2>2. CASE SeeEpoch(t)
      BY <2>2 DEF SeeEpoch, barrierVars
    <2>3. CASE Publish(t) \/ Release(t) \/ \E fails \in BOOLEAN : Produce(t, fails)
      BY <2>3 DEF Publish, Release, Produce, barrierVars
    <2>4. CASE Arrive(t)
      BY <2>4 DEF Arrive
    <2>5. QED
      BY <2>1, <2>2, <2>3, <2>4 DEF Worker
  <1>2. UNCHANGED <<controlVars, epoch_id, epoch_target>>
    BY DEF Worker, SeeEpoch, Publish, Release, Arrive, PassGate, FinishFree, Produce, barrierVars
  <1>3. /\ ctl' = ctl /\ next' = next /\ scan' = scan /\ joined' = joined /\ epoch_id' = epoch_id
        /\ epoch_target' = epoch_target /\ Launched' = Launched
    BY <1>2, SameFromInputs DEF controlVars
  <1>4. t \in Launched /\ at[t] # Gone /\ t \notin joined
    BY <1>1, PlacesDiffer DEF WorkersInv
  <1>5. /\ ctl \in {Awaiting, Finishing}
        /\ ctl \notin {Launching, Joining, Draining, Reaping}
    BY <1>1, <1>4, PlacesDiffer, OpenPlaces DEF BarrierInv, Quiet
  <1>6. Counting
    BY <1>5 DEF BarrierInv
  <1>7. /\ \A u \in Tids : u # t => at'[u] = at[u] /\ seen_epoch'[u] = seen_epoch[u]
        /\ seen_epoch'[t] = epoch_id
    BY <1>0, <1>1, <1>4, <1>6, PlacesDiffer DEF Counting
  <1>8. t \notin Arrived
    BY <1>1, PlacesDiffer DEF Arrived
  <1>9. \A u \in Launched : u # t => (u \in Arrived' <=> u \in Arrived)
    BY <1>0, <1>3, <1>7 DEF Arrived
  <1>10. IsFiniteSet(Arrived) /\ Arrived \subseteq Launched /\ Arrived' \subseteq Launched
    BY <1>0, <1>3, FS_Subset DEF Arrived
  <1>11. epoch_arrived' = Cardinality(Arrived')
    <2>1. CASE at'[t] \in {Executing, Publishing} /\ epoch_arrived' = epoch_arrived
      <3>1. t \notin Arrived'
        BY <2>1, PlacesDiffer DEF Arrived
      <3>2. Arrived' = Arrived
        BY <1>8, <1>9, <1>10, <3>1
      <3>3. QED
        BY <1>6, <2>1, <3>2 DEF Counting
    <2>2. CASE at'[t] \in {EpochWait, Gone} /\ epoch_arrived' = epoch_arrived + 1
      <3>1. t \in Arrived'
        BY <1>3, <1>4, <1>7, <2>2 DEF Arrived
      <3>2. Arrived' = Arrived \cup {t}
        BY <1>4, <1>8, <1>9, <1>10, <3>1
      <3>3. Cardinality(Arrived \cup {t}) = Cardinality(Arrived) + 1
        BY <1>8, <1>10, FS_AddElement
      <3>4. QED
        BY <1>6, <2>2, <3>2, <3>3 DEF Counting
    <2>3. QED
      BY <1>0, <1>1, <2>1, <2>2
  <1>12. Counting'
    <2>1. \A u \in joined : u \in Tids /\ u # t /\ seen_epoch[u] # epoch_id
      BY <1>0, <1>4, <1>6 DEF Counting, Typed, TypeOK
    <2>2. \A u \in joined : seen_epoch'[u] # epoch_id
      BY <1>7, <2>1
    <2>3. \A u \in Launched : u \in joined \/ at'[u] = EpochWait \/ seen_epoch'[u] = epoch_id
      BY <1>0, <1>6, <1>7 DEF Counting
    <2>4. QED
      BY <1>3, <1>6, <1>11, <2>2, <2>3 DEF Counting
  <1>13. epoch_id > 0 /\ next = Len(order)
    BY <1>5 DEF BarrierInv
  <1>14. Len(order)' = Len(order)
    BY <1>0
  <1>15. QED
    BY <1>3, <1>5, <1>12, <1>13, <1>14 DEF BarrierInv

------------------------------------------------------------------------------
(* The initial states *)

\* What the trace and the order give before the first step.
LEMMA InitGiven ==
  ASSUME Init
  PROVE  /\ plan \in Plans /\ Sound(plan) /\ Lived(plan)
         /\ order \in StartOrders /\ free_run \in BOOLEAN
         /\ Epochs \in Nat /\ Epochs >= 1 /\ Len(order) \in Nat /\ EndOfEpoch(0) \in Nat
  <1>1. plan \in Plans /\ Sound(plan) /\ Lived(plan)
    <2>1. PICK trace \in Traces : plan = Preprocessed(trace)
      BY DEF Init
    <2>2. trace \in Seq(Records)
      BY EpochAssumption
    <2>3. QED
      BY <2>1, <2>2, PreprocessedSound
  <1>2. order \in StartOrders /\ free_run \in BOOLEAN
    BY EpochAssumption DEF Init
  <1>3. /\ Epochs \in Nat /\ Epochs >= 1
        /\ MinTs \in Nat /\ EpochLength \in Nat
    BY <1>1, PlanNumbers
  <1>4. EndOfEpoch(0) \in Nat
    BY <1>3 DEF EndOfEpoch
  <1>5. Len(order) \in Nat
    <2>1. IsFiniteSet(Workers)
      BY EpochAssumption, FS_Subset DEF Workers
    <2>2. PICK n \in Nat : n = Cardinality(Workers)
      BY <2>1, FS_CardinalityType
    <2>3. order \in [1 .. n -> Workers]
      BY <1>2, <2>2 DEF StartOrders
    <2>4. QED
      BY <2>3
  <1>6. QED
    BY <1>1, <1>2, <1>3, <1>4, <1>5

\* Nothing is launched, and nothing is done.
LEMMA InitHolds ==
  ASSUME Init
  PROVE  IInv
  <1>1. /\ plan \in Plans /\ Sound(plan) /\ Lived(plan)
        /\ order \in StartOrders /\ free_run \in BOOLEAN
        /\ Epochs \in Nat /\ Epochs >= 1 /\ Len(order) \in Nat /\ EndOfEpoch(0) \in Nat
    BY InitGiven
  <1>2. /\ ctl = Launching /\ epoch = 0 /\ next = 0 /\ scan = 0 /\ joined = {} /\ finished = {}
        /\ epoch_id = 0 /\ epoch_end = 0 /\ epoch_target = 0 /\ epoch_arrived = 0 /\ heap = {}
        /\ \A t \in Tids : at[t] = NotStarted /\ pos[t] = 0
        /\ \A s \in SlotIds : gen[s] = 0 /\ ptr[s] = NULL
    BY DEF Init
  <1>3. Launched = {}
    BY <1>2 DEF Launched
  <1>4. \A t \in Tids : Len(plan.ops[t]) \in Nat
    BY <1>1 DEF Plans
  <1>5. TypeOK
    <2>1. ControlTyped
      BY <1>1, <1>2, <1>3 DEF ControlTyped
    <2>2. WorkersTyped
      BY <1>2, <1>4 DEF WorkersTyped, Init
    <2>3. BarrierTyped
      BY <1>2 DEF BarrierTyped
    <2>4. SlotsTyped
      BY DEF SlotsTyped, Init
    <2>5. {epoch_id, epoch_end, epoch_target, epoch_arrived} \subseteq Nat
      BY <2>3 DEF BarrierTyped
    <2>6. QED
      BY <2>1, <2>2, <2>4, <2>5 DEF TypeOK, ControlTyped, WorkersTyped, SlotsTyped
  <1>6. Typed
    BY <1>1, <1>5 DEF Typed
  <1>7. \A x \in Positions(plan) : ~Done(x)
    <2>1. ASSUME NEW x \in Positions(plan)
          PROVE  ~Done(x)
      <3>1. PICK u \in Tids : x \in {u} \X (1 .. Len(plan.ops[u]))
        BY DEF Positions
      <3>2. x[1] = u /\ x[2] \in 1 .. Len(plan.ops[u])
        BY <3>1
      <3>3. x[2] >= 1 /\ x[2] \in Nat /\ pos[x[1]] = 0
        BY <1>2, <1>4, <3>2
      <3>4. QED
        BY <3>3 DEF Done
    <2>2. QED
      BY <2>1
  <1>8. SlotsInv
    <2>1. Published
      BY <1>2 DEF Published
    <2>2. Reached
      BY <1>7 DEF Reached
    <2>3. UnderWay
      BY <1>2, PlacesDiffer DEF UnderWay
    <2>4. PointersLive /\ HeapHeld /\ NothingLeft
      BY <1>2 DEF PointersLive, HeapHeld, NothingLeft
    <2>5. QED
      BY <2>1, <2>2, <2>3, <2>4 DEF SlotsInv
  <1>9. WorkersInv
    BY <1>2, <1>3, PlacesDiffer DEF WorkersInv
  <1>10. ControlInv
    <2>1. epoch_end <= Horizon
      BY <1>1, <1>2 DEF Horizon
    <2>2. QED
      BY <1>1, <1>2, <2>1, OpenPlaces DEF ControlInv
  <1>11. BarrierInv
    BY <1>2, <1>3, OpenPlaces DEF BarrierInv, Quiet
  <1>12. QED
    BY <1>6, <1>8, <1>9, <1>10, <1>11 DEF IInv

------------------------------------------------------------------------------
(* The steps *)

\* The controller keeps the types, the workers' places and its own.
LEMMA ControllerKeeps ==
  ASSUME Typed, WorkersInv, ControlInv, SameInputs, Controller
  PROVE  TypeOK' /\ WorkersInv' /\ ControlInv'
  <1>1. CASE Launch \/ LaunchFree
    <2>1. PICK place \in {EpochWait, AtGate} : at' = [at EXCEPT ![order[next + 1]] = place]
      BY <1>1 DEF Launch, LaunchFree
    <2>2. /\ ctl \in {Launching, Draining} /\ next < Len(order) /\ next' = next + 1
          /\ UNCHANGED <<ctl, epoch, scan, joined, barrierVars, seen_epoch, ep_end, pos, finished,
                         slotVars>>
      BY <1>1 DEF Launch, LaunchFree, Due
    <2>3. QED
      BY <2>1, <2>2, LaunchKeeps
  <1>2. CASE OpenEpoch
    BY <1>2, OpenEpochKeeps
  <1>3. CASE SkipEpoch \/ (EndScan /\ ctl = Joining)
    <2>1. /\ ctl \in {Launching, Joining} /\ NextEpoch
          /\ UNCHANGED <<next, scan, joined, barrierVars, workerVars, slotVars>>
      BY <1>3 DEF SkipEpoch, EndScan
    <2>2. ~free_run
      BY <1>3, OpenPlaces DEF SkipEpoch, ControlInv
    <2>3. QED
      BY <2>1, <2>2, NextEpochKeeps
  <1>4. CASE PassBarrier \/ JoinIfFinished \/ (EndScan /\ ctl # Joining)
    <2>1. next \in Nat /\ scan \in 0 .. next /\ joined \subseteq finished
      BY LaunchedWorkers DEF Typed, TypeOK, WorkersInv
    <2>2. /\ \/ ctl = Awaiting /\ ctl' \in {Joining}
             \/ ctl = Joining /\ ctl' \in {Joining}
             \/ ctl = Finishing /\ ctl' \in {Reaping}
             \/ ctl = Reaping /\ ctl' \in {Reaping, Draining}
          /\ UNCHANGED <<epoch, next, barrierVars, workerVars, slotVars>>
      BY <1>4, OpenPlaces DEF PassBarrier, JoinIfFinished, EndScan
    <2>3. scan' \in 0 .. next
      BY <1>4, <2>1 DEF PassBarrier, JoinIfFinished, EndScan
    <2>4. joined' \subseteq finished
      BY <1>4, <2>1 DEF PassBarrier, JoinIfFinished, EndScan
    <2>5. ~free_run
      <3>1. ctl \notin {Launching, Collecting, Over}
        BY <2>2 DEF Launching, Awaiting, Joining, Finishing, Reaping, Collecting, Over
      <3>2. QED
        BY <3>1 DEF ControlInv
    <2>6. QED
      BY <2>2, <2>3, <2>4, <2>5, MovesOn
  <1>5. CASE Finish
    BY <1>5, FinishKeeps
  <1>6. CASE OpenGate
    BY <1>6, OpenGateKeeps
  <1>7. CASE Collect
    BY <1>7, CollectKeeps
  <1>8. QED
    BY <1>1, <1>2, <1>3, <1>4, <1>5, <1>6, <1>7 DEF Controller

\* A worker keeps them.
LEMMA WorkerKeeps ==
  ASSUME Typed, WorkersInv, ControlInv, SlotsInv, SameInputs, NEW t \in Tids, Worker(t)
  PROVE  TypeOK' /\ WorkersInv' /\ ControlInv'
  <1>1. CASE SeeEpoch(t) \/ PassGate(t)
    BY <1>1, BeginKeeps
  <1>2. CASE (\E fails \in BOOLEAN : Produce(t, fails)) \/ Publish(t) \/ Release(t)
    BY <1>2, ExecuteKeeps
  <1>3. CASE Arrive(t) \/ FinishFree(t)
    <2>1. pos[t] \in Nat /\ Len(plan.ops[t]) \in Nat /\ epoch_arrived \in Nat
      BY DEF Typed, TypeOK, Plans
    <2>2. /\ at[t] = Executing /\ epoch_arrived' \in {epoch_arrived, epoch_arrived + 1}
          /\ UNCHANGED <<controlVars, epoch_id, epoch_end, epoch_target, seen_epoch, ep_end, pos,
                         slotVars>>
      BY <1>3 DEF Arrive, FinishFree, barrierVars
    <2>3. \/ /\ pos[t] >= Len(plan.ops[t]) /\ finished' = finished \cup {t}
             /\ at' = [at EXCEPT ![t] = Gone]
          \/ finished' = finished /\ at' = [at EXCEPT ![t] = EpochWait]
      <3>1. CASE Arrive(t)
        BY <3>1 DEF Arrive, ShouldFinish
      <3>2. CASE FinishFree(t)
        BY <2>1, <3>2 DEF FinishFree, HasOp
      <3>3. QED
        BY <1>3, <3>1, <3>2
    <2>4. QED
      BY <2>2, <2>3, LeaveKeeps
  <1>4. QED
    BY <1>1, <1>2, <1>3 DEF Worker

\* Only the steps of an operation touch the slots.
LEMMA StepKeepsSlots ==
  ASSUME Typed, SlotsInv, WorkersInv, SameInputs, Next
  PROVE  SlotsInv'
  <1>0. plan' = plan /\ at \in [Tids -> {NotStarted, AtGate, EpochWait, Executing, Publishing, Gone}]
    BY DEF SameInputs, Typed, TypeOK
  <1>1. CASE \E t \in Tids : Publish(t) \/ Release(t) \/ \E fails \in BOOLEAN : Produce(t, fails)
    BY <1>1, PublishKeeps, ReleaseKeeps, ProduceKeeps
  <1>2. CASE Launch \/ LaunchFree
    <2>1. next < Len(order)
      BY <1>2 DEF Launch, LaunchFree, Due
    <2>2. PICK place \in {EpochWait, AtGate} : at' = [at EXCEPT ![order[next + 1]] = place]
      BY <1>2 DEF Launch, LaunchFree
    <2>3. next \in Nat /\ Len(order) \in Nat
      BY LaunchedWorkers, OrderList
    <2>4. next + 1 \in 1 .. Len(order)
      BY <2>1, <2>3
    <2>5. order[next + 1] \in Tids /\ order[next + 1] \notin Launched
      <3>1. order[next + 1] \in Workers /\ Workers \subseteq Tids
        BY <2>4, OrderList
      <3>2. \A i \in 1 .. next : order[i] # order[next + 1]
        <4>1. \A i \in 1 .. next : i \in 1 .. Len(order) /\ i # next + 1
          BY <2>3, <2>4
        <4>2. QED
          BY <2>4, <4>1, OrderList
      <3>3. QED
        BY <3>1, <3>2 DEF Launched
    <2>6. at[order[next + 1]] # Publishing
      BY <2>5, PlacesDiffer DEF WorkersInv
    <2>7. pos' = pos /\ UNCHANGED slotVars
      BY <1>2 DEF Launch, LaunchFree
    <2>8. \A u \in Tids : at'[u] = Publishing <=> at[u] = Publishing
      BY <1>0, <2>2, <2>5, <2>6, PlacesDiffer
    <2>9. QED
      BY <1>0, <2>7, <2>8, SlotsFrame
  <1>3. CASE OpenEpoch \/ SkipEpoch \/ PassBarrier \/ JoinIfFinished \/ EndScan \/ Finish
             \/ OpenGate \/ Collect
    <2>1. UNCHANGED <<slotVars, workerVars>>
      BY <1>3 DEF OpenEpoch, SkipEpoch, PassBarrier, JoinIfFinished, EndScan, Finish, OpenGate, Collect
    <2>2. QED
      BY <1>0, <2>1, SlotsFrame DEF workerVars
  <1>4. CASE \E t \in Tids : SeeEpoch(t) \/ PassGate(t) \/ Arrive(t) \/ FinishFree(t)
    <2>1. PICK t \in Tids : SeeEpoch(t) \/ PassGate(t) \/ Arrive(t) \/ FinishFree(t)
      BY <1>4
    <2>2. PICK place \in {Executing, EpochWait, Gone} : at' = [at EXCEPT ![t] = place]
      BY <2>1 DEF SeeEpoch, PassGate, Arrive, FinishFree
    <2>3. at[t] # Publishing
      BY <2>1, PlacesDiffer DEF SeeEpoch, PassGate, Arrive, FinishFree
    <2>4. pos' = pos /\ UNCHANGED slotVars
      BY <2>1 DEF SeeEpoch, PassGate, Arrive, FinishFree
    <2>5. \A u \in Tids : at'[u] = Publishing <=> at[u] = Publishing
      BY <1>0, <2>2, <2>3, PlacesDiffer
    <2>6. QED
      BY <1>0, <2>4, <2>5, SlotsFrame
  <1>5. QED
    BY <1>1, <1>2, <1>3, <1>4 DEF Next, Controller, Worker

\* Every step keeps the barrier of those who start together.
LEMMA StepKeepsBarrier ==
  ASSUME Typed, WorkersInv, ControlInv, SameInputs, Next,
         Together /\ ~free_run => BarrierInv
  PROVE  (Together /\ ~free_run => BarrierInv)'
  <1>1. (Together' <=> Together) /\ (free_run' = free_run)
    BY SameFromInputs DEF SameInputs
  <1>2. ASSUME Together, ~free_run
        PROVE  BarrierInv'
    <2>1. BarrierInv
      BY <1>2
    <2>2. CASE Controller
      BY <1>2, <2>1, <2>2, ControllerKeepsBarrier
    <2>3. CASE \E t \in Tids : Worker(t)
      BY <1>2, <2>1, <2>3, WorkerKeepsBarrier
    <2>4. QED
      BY <2>2, <2>3 DEF Next
  <1>3. QED
    BY <1>1, <1>2

\* Every step keeps the invariant, ...
LEMMA StepKeeps ==
  ASSUME IInv, Next
  PROVE  IInv'
  <1>1. /\ Typed /\ SlotsInv /\ WorkersInv /\ ControlInv
        /\ Together /\ ~free_run => BarrierInv
    BY DEF IInv
  <1>2. SameInputs
    BY InputsStay
  <1>3. TypeOK' /\ WorkersInv' /\ ControlInv'
    <2>1. CASE Controller
      BY <1>1, <1>2, <2>1, ControllerKeeps
    <2>2. CASE \E t \in Tids : Worker(t)
      BY <1>1, <1>2, <2>2, WorkerKeeps
    <2>3. QED
      BY <2>1, <2>2 DEF Next
  <1>4. Typed'
    BY <1>1, <1>2, <1>3, TypedStays
  <1>5. SlotsInv'
    BY <1>1, <1>2, StepKeepsSlots
  <1>6. (Together /\ ~free_run => BarrierInv)'
    BY <1>1, <1>2, StepKeepsBarrier
  <1>7. QED
    BY <1>3, <1>4, <1>5, <1>6 DEF IInv

\* ... and so does none.
LEMMA StutteringKeeps ==
  ASSUME IInv, UNCHANGED vars
  PROVE  IInv'
  <1>1. /\ Typed /\ SlotsInv /\ WorkersInv /\ ControlInv
        /\ Together /\ ~free_run => BarrierInv
    BY DEF IInv
  <1>2. SameInputs
    BY DEF vars, inputVars, SameInputs
  <1>3. /\ UNCHANGED <<controlVars, barrierVars, workerVars, slotVars>>
        /\ UNCHANGED <<next, joined, finished, scan, ctl, epoch_id, epoch_end, epoch_target,
                       epoch_arrived, at, seen_epoch, ep_end, pos>>
    BY DEF vars, controlVars, barrierVars, workerVars, slotVars
  <1>4. TypeOK'
    <2>1. ControlTyped' /\ WorkersTyped' /\ BarrierTyped' /\ SlotsTyped'
      BY <1>1, <1>2, <1>3, TypesFrame
    <2>2. QED
      BY <2>1, TypesSplit
  <1>5. Typed'
    BY <1>1, <1>2, <1>4, TypedStays
  <1>6. WorkersInv'
    BY <1>1, <1>2, <1>3, WorkersFrame
  <1>7. ControlInv'
    BY <1>1, <1>2, <1>3, ControlFrame
  <1>8. SlotsInv'
    BY <1>1, <1>2, <1>3, SlotsFrame DEF SameInputs
  <1>9. (Together /\ ~free_run => BarrierInv)'
    <2>1. (Together' <=> Together) /\ free_run' = free_run /\ Launched' = Launched
          /\ Len(order)' = Len(order) /\ order' = order
      BY <1>2, <1>3, SameFromInputs DEF SameInputs
    <2>2. Counting => Counting'
      BY <1>3, <2>1 DEF Counting, Arrived
    <2>3. Quiet => Quiet'
      BY <1>3, <2>1 DEF Quiet
    <2>4. BarrierInv => BarrierInv'
      BY <1>3, <2>1, <2>2, <2>3 DEF BarrierInv
    <2>5. QED
      BY <1>1, <2>1, <2>4
  <1>10. QED
    BY <1>5, <1>6, <1>7, <1>8, <1>9 DEF IInv

------------------------------------------------------------------------------
(* The theorems *)

\* The inductive invariant of both replays: what is published of a slot is what
\* its done operations published, and an open barrier counts who has arrived.
THEOREM Invariance == Spec => []IInv
  <1>1. Init => IInv
    BY InitHolds
  <1>2. IInv /\ [Next]_vars => IInv'
    BY StepKeeps, StutteringKeeps
  <1>3. QED
    BY <1>1, <1>2, PTL DEF Spec

\* The controller, the workers and the slots keep their types (worker_main,
\* worker_main_freerun and the loop of main).
THEOREM TypeCorrect == Spec => []TypeOK
  <1>1. IInv => TypeOK
    BY DEF IInv, Typed
  <1>2. QED
    BY <1>1, Invariance, PTL

\* Behind the barrier of an epoch no launched worker is still in it, nor has
\* yet to begin it, when the workers start together.
THEOREM BarrierSound == Spec => []BarrierHoldsTogether
  <1>1. IInv => BarrierHoldsTogether
    <2>1. SUFFICES ASSUME IInv, Together, ctl \in {Joining, Reaping}
                   PROVE  \A t \in Launched : \/ at[t] = Gone
                                              \/ at[t] = EpochWait /\ seen_epoch[t] = epoch_id
      BY DEF BarrierHoldsTogether, BarrierHolds
    <2>2. ~free_run
      BY <2>1, OpenPlaces DEF IInv, ControlInv
    <2>3. Quiet
      BY <2>1, <2>2, OpenPlaces DEF IInv, BarrierInv
    <2>4. QED
      BY <2>3 DEF Quiet
  <1>2. QED
    BY <1>1, Invariance, PTL

\* A worker that may go on takes the block it waited for: the generation of its
\* slot is that one, and the block lives.
LEMMA TakesItsBlock ==
  ASSUME IInv, NEW t \in Tids, HasOp(t), Op(t).kind \in {OpFree, OpRealloc}, Ready(t)
  PROVE  /\ gen[Op(t).slot] = Op(t).wait
         /\ ptr[Op(t).slot] \in heap \cup {NULL}
  <1>1. Typed /\ SlotsInv
    BY DEF IInv
  <1>2. PICK x : Facing(t, x) /\ ~Done(x)
    BY <1>1, FacesOperation DEF HasOp
  <1>3. x \in Positions(plan) /\ OpAt(plan, x) = Op(t) /\ SlotOf(x) = Op(t).slot /\ Takes(x)
    BY <1>2 DEF Facing, SlotOf, Takes
  <1>4. SlotOf(x) \in SlotIds /\ gen[SlotOf(x)] \in Nat /\ OpAt(plan, x).wait \in Nat
    <2>1. SlotOf(x) \in SlotIds
      BY <1>1, <1>3, SlotUsed
    <2>2. gen[SlotOf(x)] \in Nat
      BY <1>1, <2>1 DEF Typed, TypeOK
    <2>3. QED
      BY <1>1, <1>3, <2>1, <2>2, OperationTypes
  <1>5. gen[SlotOf(x)] >= OpAt(plan, x).wait
    BY <1>3 DEF Ready
  <1>6. gen[SlotOf(x)] <= OpAt(plan, x).wait
    BY <1>1, <1>2, <1>3, NoneNewer
  <1>7. ~Freed(SlotOf(x))
    BY <1>1, <1>2, <1>3, <1>4, <1>5, NothingFollowsFree
  <1>8. ptr[SlotOf(x)] \in heap \cup {NULL}
    BY <1>1, <1>4, <1>7 DEF SlotsInv, PointersLive
  <1>9. QED
    BY <1>3, <1>4, <1>5, <1>6, <1>8

\* Of a block that a done operation freed nothing is on the heap.
LEMMA FreedIsGone ==
  ASSUME IInv, NEW t \in Tids, NEW i \in 1 .. pos[t], plan.ops[t][i].kind = OpFree
  PROVE  \A b \in heap : b[1] # plan.ops[t][i].slot
  <1>1. Typed /\ SlotsInv
    BY DEF IInv
  <1>2. pos[t] \in Nat /\ pos[t] <= Len(plan.ops[t]) /\ plan.ops[t] \in Seq(Operations)
    BY <1>1 DEF Typed, TypeOK, Plans
  <1>3. PICK x : x = <<t, i>>
    OBVIOUS
  <1>4. x \in Positions(plan) /\ OpAt(plan, x) = plan.ops[t][i] /\ Done(x)
    <2>1. i \in 1 .. Len(plan.ops[t]) /\ i <= pos[t]
      BY <1>2
    <2>2. QED
      BY <1>3, <2>1 DEF Positions, OpAt, Done
  <1>5. SlotOf(x) \in SlotIds /\ SlotOf(x) = plan.ops[t][i].slot
    BY <1>1, <1>4, SlotUsed DEF Takes, SlotOf
  <1>6. Freed(SlotOf(x))
    BY <1>4 DEF Freed
  <1>7. QED
    BY <1>1, <1>5, <1>6 DEF SlotsInv, NothingLeft

\* When a replay is over every worker is through its operations.
LEMMA OverMeansDone ==
  ASSUME IInv, ctl = Over, NEW t \in Tids
  PROVE  pos[t] = Len(plan.ops[t])
  <1>1. Typed /\ WorkersInv /\ ControlInv
    BY DEF IInv
  <1>2. next = Len(order) /\ \A u \in Launched : at[u] = Gone
    BY <1>1 DEF ControlInv
  <1>3. Launched = Workers
    BY <1>1, <1>2, LaunchedWorkers
  <1>4. CASE t \in Workers
    BY <1>1, <1>2, <1>3, <1>4 DEF WorkersInv
  <1>5. CASE t \notin Workers
    <2>1. plan.ops[t] = <<>>
      BY <1>5 DEF Workers, IsReplayed
    <2>2. Len(plan.ops[t]) = 0
      BY <2>1
    <2>3. pos[t] \in Nat /\ pos[t] <= Len(plan.ops[t])
      BY <1>1 DEF Typed, TypeOK
    <2>4. QED
      BY <2>2, <2>3
  <1>6. QED
    BY <1>4, <1>5

\* "Matched free is never dropped", in both replays: who takes a block finds the
\* generation it waited for and the block alive (worker_exec_op,
\* wait_slot_gen), and a replay that is over has executed every operation and
\* freed every block that the trace frees.
THEOREM FreesMatched == Spec => []MatchedExactly
  <1>1. IInv => MatchedExactly
    <2>1. SUFFICES ASSUME IInv PROVE MatchedExactly
      OBVIOUS
    <2>2. \A t \in Tids :
            at[t] = Executing /\ HasOp(t) /\ Op(t).kind \in {OpFree, OpRealloc} /\ Ready(t) =>
              /\ gen[Op(t).slot] = Op(t).wait
              /\ ptr[Op(t).slot] \in heap \cup {NULL}
      BY <2>1, TakesItsBlock
    <2>3. ctl = Over => \A t \in Tids : pos[t] = Len(plan.ops[t])
      BY <2>1, OverMeansDone
    <2>4. \A t \in Tids : \A i \in 1 .. pos[t] : plan.ops[t][i].kind = OpFree =>
            \A b \in heap : b[1] # plan.ops[t][i].slot
      BY <2>1, FreedIsGone
    <2>5. QED
      BY <2>2, <2>3, <2>4 DEF MatchedExactly
  <1>2. QED
    BY <1>1, Invariance, PTL

==============================================================================
