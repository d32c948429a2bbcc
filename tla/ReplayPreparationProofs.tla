----------------------- MODULE ReplayPreparationProofs -----------------------
(***************************************************************************)
(* What preprocessing promises the replay, for every number of threads,    *)
(* addresses, timestamps and records: each generation of a slot is         *)
(* published and consumed once, and no wait looks forward.  The inductive  *)
(* invariant is the soundness of a plan, of ReplayTraceProofs.             *)
(***************************************************************************)
EXTENDS ReplayPreparation, ReplayTraceProofs

\* A step of the reading prepares one record.
LEMMA StepPrepares ==
  ASSUME TypeOK, Next
  PROVE  /\ \E e \in Records : plan' = Prepared(plan, e)
         /\ records' \in 0 .. MaxRecords
  <1>1. PICK t \in Tids, ts \in Timestamps :
          ReadAllocation(t, ts) \/ ReadFree(t, ts) \/ ReadRealloc(t, ts) \/ ReadLifecycle(t, ts)
    BY DEF Next
  <1>2. ts \in Nat
    BY PreparationAssumption
  <1>3. \E e \in Records : Read(e)
    <2>1. CASE ReadAllocation(t, ts)
      BY <1>2, <2>1 DEF ReadAllocation, Entry, Records, Funcs
    <2>2. CASE ReadFree(t, ts)
      BY <1>2, <2>2 DEF ReadFree, Entry, Records, Funcs
    <2>3. CASE ReadRealloc(t, ts)
      BY <1>2, <2>3 DEF ReadRealloc, Entry, Records, Funcs
    <2>4. CASE ReadLifecycle(t, ts)
      BY <1>2, <2>4 DEF ReadLifecycle, Entry, Records, Funcs
    <2>5. QED
      BY <1>1, <2>1, <2>2, <2>3, <2>4
  <1>4. PICK e \in Records : Read(e)
    BY <1>3
  <1>5. records' \in 0 .. MaxRecords
    BY <1>4, PreparationAssumption DEF Read, TypeOK
  <1>6. QED
    BY <1>4, <1>5 DEF Read

IInv == TypeOK /\ Sound(plan) /\ Lived(plan)

\* The plan stays sound, whatever is read.
THEOREM Invariance == Spec => []IInv
  <1>1. Init => IInv
    BY EmptyPlanSound, PreparationAssumption DEF Init, IInv, TypeOK
  <1>2. IInv /\ [Next]_vars => IInv'
    <2> SUFFICES ASSUME IInv, [Next]_vars PROVE IInv'
      OBVIOUS
    <2>1. CASE Next
      <3>1. TypeOK /\ plan \in Plans /\ Sound(plan) /\ Lived(plan)
        BY DEF IInv, TypeOK
      <3>2. PICK e \in Records : plan' = Prepared(plan, e)
        BY <2>1, <3>1, StepPrepares
      <3>3. plan' \in Plans /\ Sound(plan') /\ Lived(plan')
        BY <3>1, <3>2, PreparedKeeps
      <3>4. records' \in 0 .. MaxRecords
        BY <2>1, <3>1, StepPrepares
      <3>5. QED
        BY <3>3, <3>4 DEF IInv, TypeOK
    <2>2. CASE UNCHANGED vars
      <3>1. plan' = plan /\ records' = records
        BY <2>2 DEF vars
      <3>2. QED
        BY <3>1 DEF IInv, TypeOK
    <2>3. QED
      BY <2>1, <2>2
  <1>3. QED
    BY <1>1, <1>2, PTL DEF Spec

\* The plan keeps its type, whatever is read.
THEOREM TypeCorrect == Spec => []TypeOK
  BY Invariance, PTL DEF IInv

\* However records are lost, repeated or reordered, no generation of a slot is
\* freed twice or published twice by the replay.
THEOREM GenerationsOnce == Spec => []EachGenerationOnce
  <1>1. IInv => EachGenerationOnce
    BY DEF IInv, Sound, EachGenerationOnce
  <1>2. QED
    BY <1>1, Invariance, PTL

\* Every wait of a worker is for a generation that an operation publishes which
\* is not later on the epoch clock, nor behind the wait in the same list.
THEOREM BackwardWaits == Spec => []WaitsAreBackward
  <1>1. IInv => WaitsAreBackward
    BY DEF IInv, Sound, WaitsAreBackward
  <1>2. QED
    BY <1>1, Invariance, PTL

\* The epochs cover every operation of every trace.
THEOREM SpanCovers == Spec => []StampsInSpan
  <1>1. IInv => StampsInSpan
    BY DEF IInv, Sound, Stamps, StampsInSpan
  <1>2. QED
    BY <1>1, Invariance, PTL
==============================================================================
