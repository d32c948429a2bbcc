---------------------------- MODULE HoleTracking -----------------------------
(***************************************************************************)
(* The threads of a process whose malloc, free and realloc are interposed  *)
(* by malloc_hole_hook.c, the real allocator behind it and the sharded     *)
(* table of live allocations the hook maintains.                           *)
(*                                                                         *)
(* Each hooked call is a sequence of steps: the critical sections of a     *)
(* shard's lock and the calls of the real allocator.  Between two steps of *)
(* a thread any other thread may run, and the allocator may hand an        *)
(* address that was released to somebody else.                             *)
(***************************************************************************)
EXTENDS LiveTable, Functions

CONSTANTS
  Threads,
  Sampled,     \* live_pointer_is_sampled
  Inherited,   \* blocks that were live before recording was enabled
  Buckets,     \* live histogram buckets
  BucketOf,    \* live_histogram_bucket_index of a size
  HoleOf,      \* rounded_allocation_size(n) - n
  NONE,
  MaxCalls     \* bound on the hooked calls of one behaviour

ASSUME TrackingAssumption ==
  /\ Sampled \subseteq Pointers
  /\ Inherited \subseteq Pointers
  /\ BucketOf \in [Sizes -> Buckets]
  /\ HoleOf \in [Sizes -> Nat]
  /\ MaxCalls \in Nat

ASSUME NoneAssumption == NONE \notin Pointers /\ NONE \notin Sizes

ASSUME FiniteThreads == IsFiniteSet(Threads)

VARIABLES
  block,              \* real allocator: size requested for each address, or NONE
  avail,              \* blocks the application may pass to free or realloc
  live_table_ready,   \* initialize_live_table obtained its mapping
  live_table,
  allocations,        \* counters of a LiveStatisticsShard ...
  histogram,          \* ... histogram_allocations
  requested_bytes,    \* ... histogram_requested_bytes
  hole_bytes,
  free_events,
  untracked_frees,
  tracking_failures,
  measured,           \* statistics[].bucket_allocations, summed
  failed_allocations,
  calls,              \* hooked calls begun so far
  pc,                 \* where each thread is in its hooked call
  own,                \* the block only this thread refers to, or NONE
  old,                \* the pointer passed to realloc
  asked,              \* the size passed to realloc
  detached            \* DetachedAllocation of the thread's realloc

callVars == <<calls, pc, own, old, asked, detached>>
gaugeVars == <<live_table, allocations, histogram, requested_bytes, hole_bytes>>
eventVars == <<free_events, untracked_frees, tracking_failures>>
flowVars == <<measured, failed_allocations>>
vars == <<block, avail, live_table_ready, gaugeVars, eventVars, flowVars, callVars>>

\* Places between the steps of a hooked call.
Idle == "idle"             \* outside the hook
Measuring == "measuring"   \* entering record_successful_allocation
Tracking == "tracking"     \* before track_live_allocation
Freeing == "freeing"       \* record_free_allocation done, real free to come
Resizing == "resizing"     \* detached, real realloc to come
Restoring == "restoring"   \* real realloc failed
Releasing == "releasing"   \* real realloc succeeded
Phases == {Idle, Measuring, Tracking, Freeing, Resizing, Restoring, Releasing}

Detachments ==
  [observed : BOOLEAN, tracked : {TRUE}, requested : Sizes]
    \cup [observed : BOOLEAN, tracked : {FALSE}, requested : {0}]

NotDetached == [observed |-> FALSE, tracked |-> FALSE, requested |-> 0]

FreeAddresses == { p \in Pointers : block[p] = NONE }

Init ==
  /\ block \in { b \in [Pointers -> Sizes \cup {NONE}] :
                   { p \in Pointers : b[p] # NONE } = Inherited }
  /\ avail = Inherited
  /\ live_table_ready \in BOOLEAN
  /\ live_table = EmptyTable
  /\ allocations = [s \in Shards |-> 0]
  /\ histogram = [s \in Shards |-> [b \in Buckets |-> 0]]
  /\ requested_bytes = [s \in Shards |-> [b \in Buckets |-> 0]]
  /\ hole_bytes = [s \in Shards |-> 0]
  /\ free_events = [s \in Shards |-> 0]
  /\ untracked_frees = [s \in Shards |-> 0]
  /\ tracking_failures = [s \in Shards |-> 0]
  /\ measured = 0
  /\ failed_allocations = 0
  /\ calls = 0
  /\ pc = [t \in Threads |-> Idle]
  /\ own = [t \in Threads |-> NONE]
  /\ old = [t \in Threads |-> NONE]
  /\ asked = [t \in Threads |-> NONE]
  /\ detached = [t \in Threads |-> NotDetached]

------------------------------------------------------------------------------

GoTo(t, phase) == pc' = [pc EXCEPT ![t] = phase]

BeginCall(t) ==
  /\ pc[t] = Idle
  /\ calls < MaxCalls
  /\ calls' = calls + 1

\* A faulty count of an event: fetch_sub for fetch_add.
BumpDown(counter, s) == counter' = [counter EXCEPT ![s] = @ - 1]

Bump(counter, s) == counter' = [counter EXCEPT ![s] = @ + 1]

\* The code also keeps the shard's own sum of the requested bytes and the hole
\* bytes of each bucket; they are added to and subtracted from beside these.
AddLiveCounters(s, n) ==
  /\ allocations' = [allocations EXCEPT ![s] = @ + 1]
  /\ histogram' = [histogram EXCEPT ![s][BucketOf[n]] = @ + 1]
  /\ requested_bytes' = [requested_bytes EXCEPT ![s][BucketOf[n]] = @ + n]
  /\ hole_bytes' = [hole_bytes EXCEPT ![s] = @ + HoleOf[n]]

\* A faulty subtraction, which leaves the hole of the record counted.
SubtractKeepingHole(s, n) ==
  /\ allocations' = [allocations EXCEPT ![s] = @ - 1]
  /\ histogram' = [histogram EXCEPT ![s][BucketOf[n]] = @ - 1]
  /\ requested_bytes' = [requested_bytes EXCEPT ![s][BucketOf[n]] = @ - n]
  /\ UNCHANGED hole_bytes

SubtractLiveCounters(s, n) ==
  /\ allocations' = [allocations EXCEPT ![s] = @ - 1]
  /\ histogram' = [histogram EXCEPT ![s][BucketOf[n]] = @ - 1]
  /\ requested_bytes' = [requested_bytes EXCEPT ![s][BucketOf[n]] = @ - n]
  /\ hole_bytes' = [hole_bytes EXCEPT ![s] = @ - HoleOf[n]]

\* Faulty tracking: the counters are updated before the insertion can fail ...
TrackCountingFirst(p, n) ==
  LET candidates == IF live_table_ready THEN InsertProbes(live_table, p) ELSE {}
  IN  /\ AddLiveCounters(ShardOf[p], n)
      /\ \/ \E k \in candidates :
              live_table' = Inserted(live_table, p, k, n) /\ UNCHANGED tracking_failures
         \/ candidates = {} /\ Bump(tracking_failures, ShardOf[p]) /\ UNCHANGED live_table

\* ... or a failed insertion goes unreported.
TrackSilently(p, n) ==
  LET candidates == IF live_table_ready THEN InsertProbes(live_table, p) ELSE {}
  IN  /\ UNCHANGED tracking_failures
      /\ \/ \E k \in candidates : /\ live_table' = Inserted(live_table, p, k, n)
                                  /\ AddLiveCounters(ShardOf[p], n)
         \/ candidates = {} /\ UNCHANGED gaugeVars

\* track_live_allocation on a sampled pointer: insert, or report the failure.
TrackLive(p, n) ==
  LET candidates == IF live_table_ready THEN InsertProbes(live_table, p) ELSE {}
  IN  \/ \E k \in candidates :
           /\ live_table' = Inserted(live_table, p, k, n)
           /\ AddLiveCounters(ShardOf[p], n)
           /\ UNCHANGED tracking_failures
      \/ /\ candidates = {}
         /\ Bump(tracking_failures, ShardOf[p])
         /\ UNCHANGED gaugeVars

\* The removal both record_free_allocation and detach_live_allocation make.
Untrack(p, k) ==
  /\ live_table' = Removed(live_table, p, k)
  /\ SubtractLiveCounters(ShardOf[p], live_table[ProbeSlot(p, k)].requested)

------------------------------------------------------------------------------

(* malloc, calloc and the aligned allocators: the real call comes first. *)

Allocate(t, p, n) ==
  /\ BeginCall(t)
  /\ p \in FreeAddresses
  /\ block' = [block EXCEPT ![p] = n]
  /\ own' = [own EXCEPT ![t] = p]
  /\ GoTo(t, Measuring)
  /\ UNCHANGED <<avail, live_table_ready, gaugeVars, eventVars, flowVars,
                 old, asked, detached>>

AllocateFails(t) ==
  /\ BeginCall(t)
  /\ failed_allocations' = failed_allocations + 1
  /\ UNCHANGED <<block, avail, live_table_ready, gaugeVars, eventVars, measured,
                 pc, own, old, asked, detached>>

Measure(t) ==
  /\ pc[t] = Measuring
  /\ measured' = measured + 1
  /\ GoTo(t, Tracking)
  /\ UNCHANGED <<block, avail, live_table_ready, gaugeVars, eventVars,
                 failed_allocations, calls, own, old, asked, detached>>

\* The call returns the block to the application as soon as it is tracked.
Track(t) ==
  /\ pc[t] = Tracking
  /\ IF own[t] \in Sampled
       THEN TrackLive(own[t], block[own[t]])
       ELSE UNCHANGED <<gaugeVars, tracking_failures>>
  /\ avail' = avail \cup {own[t]}
  /\ own' = [own EXCEPT ![t] = NONE]
  /\ GoTo(t, Idle)
  /\ UNCHANGED <<block, live_table_ready, free_events, untracked_frees, flowVars,
                 calls, old, asked, detached>>

------------------------------------------------------------------------------

(* free and free_sized: the record is removed before the block is released. *)

RecordFree(t, p) ==
  LET s == ShardOf[p]
      found == IF live_table_ready THEN FoundProbes(live_table, p) ELSE {}
  IN  /\ BeginCall(t)
      /\ p \in avail
      /\ avail' = avail \ {p}
      /\ own' = [own EXCEPT ![t] = p]
      /\ GoTo(t, Freeing)
      /\ \/ /\ p \notin Sampled
            /\ UNCHANGED <<gaugeVars, free_events, untracked_frees>>
         \/ /\ p \in Sampled
            /\ Bump(free_events, s)
            /\ \/ \E k \in found : Untrack(p, k) /\ UNCHANGED untracked_frees
               \/ /\ found = {}
                  /\ Bump(untracked_frees, s)
                  /\ UNCHANGED gaugeVars
      /\ UNCHANGED <<block, live_table_ready, tracking_failures, flowVars,
                     old, asked, detached>>

RealFree(t) ==
  /\ pc[t] = Freeing
  /\ block' = [block EXCEPT ![own[t]] = NONE]
  /\ own' = [own EXCEPT ![t] = NONE]
  /\ GoTo(t, Idle)
  /\ UNCHANGED <<avail, live_table_ready, gaugeVars, eventVars, flowVars,
                 calls, old, asked, detached>>

------------------------------------------------------------------------------

(* realloc: the old record is detached before the real call, and restored
   when that call fails. *)

\* A faulty detachment, which reads the record and leaves it in the table.
DetachByReading(t, p, n) ==
  LET found == IF live_table_ready THEN FoundProbes(live_table, p) ELSE {}
  IN  /\ BeginCall(t)
      /\ p \in avail
      /\ avail' = avail \ {p}
      /\ own' = [own EXCEPT ![t] = p]
      /\ old' = [old EXCEPT ![t] = p]
      /\ asked' = [asked EXCEPT ![t] = n]
      /\ GoTo(t, Resizing)
      /\ detached' = [detached EXCEPT ![t] =
           IF p \in Sampled /\ found # {}
             THEN [observed |-> TRUE, tracked |-> TRUE, requested |-> block[p]]
             ELSE [observed |-> p \in Sampled, tracked |-> FALSE, requested |-> 0]]
      /\ UNCHANGED <<block, live_table_ready, gaugeVars, eventVars, flowVars>>

Detach(t, p, n) ==
  LET found == IF live_table_ready THEN FoundProbes(live_table, p) ELSE {}
  IN  /\ BeginCall(t)
      /\ p \in avail
      /\ avail' = avail \ {p}
      /\ own' = [own EXCEPT ![t] = p]
      /\ old' = [old EXCEPT ![t] = p]
      /\ asked' = [asked EXCEPT ![t] = n]
      /\ GoTo(t, Resizing)
      /\ \/ /\ p \notin Sampled
            /\ detached' = [detached EXCEPT ![t] = NotDetached]
            /\ UNCHANGED gaugeVars
         \/ /\ p \in Sampled
            /\ found = {}
            /\ detached' = [detached EXCEPT ![t] =
                 [observed |-> TRUE, tracked |-> FALSE, requested |-> 0]]
            /\ UNCHANGED gaugeVars
         \/ \E k \in found :
              /\ p \in Sampled
              /\ Untrack(p, k)
              /\ detached' = [detached EXCEPT ![t] =
                   [observed |-> TRUE, tracked |-> TRUE,
                    requested |-> live_table[ProbeSlot(p, k)].requested]]
      /\ UNCHANGED <<block, live_table_ready, eventVars, flowVars>>

\* The block keeps its address (q = p) or moves to a free one.
RealRealloc(t, q) ==
  /\ pc[t] = Resizing
  /\ q \in FreeAddresses \cup {own[t]}
  /\ block' = [block EXCEPT ![own[t]] = NONE, ![q] = asked[t]]
  /\ own' = [own EXCEPT ![t] = q]
  /\ GoTo(t, Releasing)
  /\ UNCHANGED <<avail, live_table_ready, gaugeVars, eventVars, flowVars,
                 calls, old, asked, detached>>

\* realloc(p, 0) that releases p and returns NULL.
RealReallocReleases(t) ==
  /\ pc[t] = Resizing
  /\ asked[t] = 0
  /\ block' = [block EXCEPT ![own[t]] = NONE]
  /\ own' = [own EXCEPT ![t] = NONE]
  /\ GoTo(t, Releasing)
  /\ UNCHANGED <<avail, live_table_ready, gaugeVars, eventVars, flowVars,
                 calls, old, asked, detached>>

RealReallocFails(t) ==
  /\ pc[t] = Resizing
  /\ asked[t] # 0
  /\ GoTo(t, Restoring)
  /\ UNCHANGED <<block, avail, live_table_ready, gaugeVars, eventVars, flowVars,
                 calls, own, old, asked, detached>>

ForgetCall(t) ==
  /\ old' = [old EXCEPT ![t] = NONE]
  /\ asked' = [asked EXCEPT ![t] = NONE]
  /\ detached' = [detached EXCEPT ![t] = NotDetached]

\* record_release_event, then record_successful_allocation when there is a
\* new block.
RecordRelease(t) ==
  LET s == ShardOf[old[t]]
  IN  /\ pc[t] = Releasing
      /\ IF detached[t].observed
           THEN Bump(free_events, s)
           ELSE UNCHANGED free_events
      /\ IF detached[t].observed /\ ~detached[t].tracked
           THEN Bump(untracked_frees, s)
           ELSE UNCHANGED untracked_frees
      /\ GoTo(t, IF own[t] = NONE THEN Idle ELSE Measuring)
      /\ ForgetCall(t)
      /\ UNCHANGED <<block, avail, live_table_ready, gaugeVars,
                     tracking_failures, flowVars, calls, own>>

\* restore_detached_allocation, then record_failed_allocation.
Restore(t) ==
  /\ pc[t] = Restoring
  /\ IF detached[t].tracked
       THEN TrackLive(old[t], detached[t].requested)
       ELSE UNCHANGED <<gaugeVars, tracking_failures>>
  /\ failed_allocations' = failed_allocations + 1
  /\ avail' = avail \cup {own[t]}
  /\ own' = [own EXCEPT ![t] = NONE]
  /\ GoTo(t, Idle)
  /\ ForgetCall(t)
  /\ UNCHANGED <<block, live_table_ready, free_events, untracked_frees,
                 measured, calls>>

------------------------------------------------------------------------------

Step(t) ==
  \/ AllocateFails(t)
  \/ Measure(t)
  \/ Track(t)
  \/ RealFree(t)
  \/ RealReallocReleases(t)
  \/ RealReallocFails(t)
  \/ RecordRelease(t)
  \/ Restore(t)
  \/ \E p \in Pointers :
       \/ RecordFree(t, p)
       \/ RealRealloc(t, p)
       \/ \E n \in Sizes : Allocate(t, p, n) \/ Detach(t, p, n)

Next == \E t \in Threads : Step(t)

Spec == Init /\ [][Next]_vars

------------------------------------------------------------------------------

TypeOK ==
  /\ block \in [Pointers -> Sizes \cup {NONE}]
  /\ avail \in SUBSET Pointers
  /\ live_table_ready \in BOOLEAN
  /\ live_table \in [Slots -> SlotValues]
  /\ allocations \in [Shards -> Int]
  /\ histogram \in [Shards -> [Buckets -> Int]]
  /\ requested_bytes \in [Shards -> [Buckets -> Int]]
  /\ hole_bytes \in [Shards -> Int]
  /\ free_events \in [Shards -> Nat]
  /\ untracked_frees \in [Shards -> Nat]
  /\ tracking_failures \in [Shards -> Nat]
  /\ measured \in Nat
  /\ failed_allocations \in Nat
  /\ calls \in Nat
  /\ pc \in [Threads -> Phases]
  /\ own \in [Threads -> Pointers \cup {NONE}]
  /\ old \in [Threads -> Pointers \cup {NONE}]
  /\ asked \in [Threads -> Sizes \cup {NONE}]
  /\ detached \in [Threads -> Detachments]

Tracked == Stored(live_table)

\* However calls and address reuse interleave, the shard tables never hold a
\* pointer twice (live_table_insert_locked does not look for a duplicate), and
\* the lookup of live_table_remove_locked can reach every pointer they hold.
TableSound == NoDuplicates(live_table) /\ Reachable(live_table)

\* Only blocks in the application's hands are in the table: a record is gone
\* before its address can be released, reused or resized, so no stale record
\* survives its block (the order of record_free_allocation and the real free,
\* of detach_live_allocation and the real realloc).
TrackedInHands ==
  /\ Tracked \subseteq avail
  /\ \A p \in avail : block[p] # NONE

\* The size a slot records is the size last requested for its block, also when
\* a realloc failed and its old record was restored.
SizesRecorded ==
  \A i \in Slots : live_table[i].pointer \in Pointers =>
    live_table[i].requested = block[live_table[i].pointer]

\* A record is of a live block, and of the size it has.
RecordsAreTrue == TrackedInHands /\ SizesRecorded

SlotsHolding(s) ==
  { i \in Slots : i[1] = s /\ live_table[i].pointer \in Pointers }

SlotsInBucket(s, b) ==
  { i \in SlotsHolding(s) : BucketOf[live_table[i].requested] = b }

\* The counters of a shard, updated incrementally by
\* add/subtract_live_counters_locked, always count the slots of its table.
CountsMatchTable ==
  \A s \in Shards :
    /\ allocations[s] = Cardinality(SlotsHolding(s))
    /\ \A b \in Buckets : histogram[s][b] = Cardinality(SlotsInBucket(s, b))

RequestedIn(S) == SumFunction([i \in S |-> live_table[i].requested])
HolesIn(S) == SumFunction([i \in S |-> HoleOf[live_table[i].requested]])

\* The byte counters are the sums over the table: what is subtracted for a
\* record is what was added for it.
BytesMatchTable ==
  \A s \in Shards :
    /\ \A b \in Buckets : requested_bytes[s][b] = RequestedIn(SlotsInBucket(s, b))
    /\ hole_bytes[s] = HolesIn(SlotsHolding(s))

\* What is shown as live is what the tables hold: add_live_counters_locked and
\* subtract_live_counters_locked are called when a record comes and goes.
CountersMatchTable == CountsMatchTable /\ BytesMatchTable

\* Sampled blocks of a shard that live untracked in the application's hands.
LostBlocks(s) == { p \in (avail \cap Sampled) \ Tracked : ShardOf[p] = s }

\* Threads whose realloc found its old block untracked and has not yet said so.
UntrackedReallocs(s) ==
  { t \in Threads : /\ detached[t].observed /\ ~detached[t].tracked
                    /\ ShardOf[old[t]] = s }

\* No block is lost silently: each sampled block that is missing from the table
\* was inherited or cost one tracking_failures, until the release that counts
\* it in untracked_frees.  With no failure and nothing inherited the live
\* values are exact, as the README says of a sample rate of 1.
LossesReported ==
  \A s \in Shards :
    tracking_failures[s] + Cardinality({ p \in Inherited \cap Sampled : ShardOf[p] = s })
      = untracked_frees[s] + Cardinality(LostBlocks(s))
                           + Cardinality(UntrackedReallocs(s))

Ledger ==
  INSTANCE LiveLedger
    WITH ledger <- [p \in Pointers |-> IF p \in Tracked
                                        THEN live_table[SlotOf(live_table, p)].requested
                                        ELSE NONE]

\* The hook implements the ledger of live blocks.
LedgerSpec == Ledger!Spec
==============================================================================
