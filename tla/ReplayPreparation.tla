-------------------------- MODULE ReplayPreparation --------------------------
(***************************************************************************)
(* replay_main.c reading a trace record by record.  A trace may have lost  *)
(* records and may have recorded them out of order, so every record may    *)
(* follow every other one.                                                 *)
(***************************************************************************)
EXTENDS ReplayTrace

CONSTANTS
  Timestamps,
  MaxRecords    \* bound on the records of a trace

ASSUME PreparationAssumption == Timestamps \subseteq Nat /\ MaxRecords \in Nat

VARIABLES
  plan,       \* workers, live-object map and slot counter
  records     \* records read so far

vars == <<plan, records>>

Entry(func, t, ts, address, result, empty) ==
  [func |-> func, tid |-> t, ts |-> ts, address |-> address, result |-> result,
   empty |-> empty]

Init == plan = EmptyPlan /\ records = 0

Read(e) ==
  /\ records < MaxRecords
  /\ records' = records + 1
  /\ plan' = Prepared(plan, e)

ReadAllocation(t, ts) ==
  \E result \in Addresses \cup {NULL} : Read(Entry(AllocI, t, ts, NULL, result, FALSE))

ReadFree(t, ts) ==
  \E address \in Addresses \cup {NULL} : Read(Entry(FreeI, t, ts, address, NULL, FALSE))

ReadRealloc(t, ts) ==
  \E address, result \in Addresses \cup {NULL}, empty \in BOOLEAN :
    Read(Entry(ReallocI, t, ts, address, result, empty))

ReadLifecycle(t, ts) ==
  \E func \in {ThreadStartI, ThreadEndI} : Read(Entry(func, t, ts, NULL, NULL, FALSE))

Next ==
  \E t \in Tids, ts \in Timestamps :
    ReadAllocation(t, ts) \/ ReadFree(t, ts) \/ ReadRealloc(t, ts) \/ ReadLifecycle(t, ts)

Spec == Init /\ [][Next]_vars

------------------------------------------------------------------------------

TypeOK == plan \in Plans /\ records \in 0 .. MaxRecords

\* However records are lost, repeated or reordered, no generation of a slot is
\* consumed by two operations (a double free in the replay) or published by two.
EachGenerationOnce == OncePublishedOnceConsumed(plan)

\* Every wait of a worker can end: the generation waited for is published by
\* an operation that is not later on the epoch clock, nor behind the waiting
\* one in the same worker's list.
WaitsAreBackward == PublishedBeforeConsumed(plan)

\* The epochs cover every operation: no stamp lies outside the trace's span.
StampsInSpan ==
  \A x \in Positions(plan) : plan.min <= OpAt(plan, x).ts /\ OpAt(plan, x).ts <= plan.max
==============================================================================
