------------------------------ MODULE LiveTable ------------------------------
(***************************************************************************)
(* The table of live allocations of malloc_hole_hook.c: open addressing in *)
(* a fixed number of shards, probing a bounded number of slots from the    *)
(* home of a pointer.  A slot is empty, holds a pointer with the size that *)
(* was requested for it, or is a tombstone.                                *)
(*                                                                         *)
(* The module has no state of its own: the operators take the table as an  *)
(* argument, and HoleTracking applies them under the lock of the shard.    *)
(***************************************************************************)
EXTENDS Integers, FiniteSets

CONSTANTS
  Pointers,       \* addresses the real allocator can hand out
  Sizes,          \* sizes a call can request
  Shards,         \* ATOMIC_STATISTICS_SHARD_COUNT shards
  SlotsPerShard,  \* live_table_capacity / ATOMIC_STATISTICS_SHARD_COUNT
  MaxProbes,      \* LIVE_TABLE_MAX_PROBES
  ShardOf,        \* live_shard_index(live_pointer_hash(p))
  Home,           \* (live_pointer_hash(p) >> 8) & (slots_per_shard - 1)
  EMPTY,          \* LIVE_SLOT_EMPTY, 0
  TOMBSTONE       \* LIVE_SLOT_TOMBSTONE, 1

ASSUME TableAssumption ==
  /\ SlotsPerShard \in Nat \ {0}
  /\ MaxProbes \in Nat \ {0}
  /\ Sizes \subseteq Nat
  /\ ShardOf \in [Pointers -> Shards]
  /\ Home \in [Pointers -> 0 .. SlotsPerShard - 1]

\* An allocator returns neither NULL nor address 1.
ASSUME SentinelAssumption ==
  EMPTY \notin Pointers /\ TOMBSTONE \notin Pointers /\ EMPTY # TOMBSTONE

ASSUME FiniteTable == IsFiniteSet(Pointers) /\ IsFiniteSet(Shards)

Slots == Shards \X (0 .. SlotsPerShard - 1)

Probes == IF SlotsPerShard < MaxProbes THEN SlotsPerShard ELSE MaxProbes

\* The slot inspected by the k-th probe for p.
ProbeSlot(p, k) == <<ShardOf[p], (Home[p] + k) % SlotsPerShard>>

\* A slot's "requested" is only meaningful while it holds a pointer; the model
\* forgets the stale size the code leaves in a tombstone.
SlotValues ==
  [pointer : Pointers, requested : Sizes]
    \cup [pointer : {EMPTY, TOMBSTONE}, requested : {0}]

EmptyTable == [i \in Slots |-> [pointer |-> EMPTY, requested |-> 0]]

IsVacant(table, i) == table[i].pointer \in {EMPTY, TOMBSTONE}

------------------------------------------------------------------------------

\* The first k probes for p meet no vacant slot.
NoVacancyBefore(table, p, k) ==
  \A j \in 0 .. k - 1 : ~IsVacant(table, ProbeSlot(p, j))

\* The first k probes for p meet neither p nor the end of its chain.
NotMetBefore(table, p, k) ==
  \A j \in 0 .. k - 1 : table[ProbeSlot(p, j)].pointer \notin {EMPTY, p}

\* live_table_insert_locked takes the first vacant slot of the probe sequence.
InsertProbes(table, p) ==
  { k \in 0 .. Probes - 1 : /\ IsVacant(table, ProbeSlot(p, k))
                            /\ NoVacancyBefore(table, p, k) }

\* A faulty lookup, which takes a tombstone for the end of the chain.
FoundUpToTombstone(table, p) ==
  { k \in 0 .. Probes - 1 : /\ table[ProbeSlot(p, k)].pointer = p
                            /\ NoVacancyBefore(table, p, k) }

\* live_table_remove_locked gives up at the first empty slot, but walks over
\* tombstones and other pointers.
FoundProbes(table, p) ==
  { k \in 0 .. Probes - 1 : /\ table[ProbeSlot(p, k)].pointer = p
                            /\ NotMetBefore(table, p, k) }

Inserted(table, p, k, n) ==
  [table EXCEPT ![ProbeSlot(p, k)] = [pointer |-> p, requested |-> n]]

\* A faulty removal, which leaves no tombstone.
RemovedToEmpty(table, p, k) ==
  [table EXCEPT ![ProbeSlot(p, k)] = [pointer |-> EMPTY, requested |-> 0]]

Removed(table, p, k) ==
  [table EXCEPT ![ProbeSlot(p, k)] = [pointer |-> TOMBSTONE, requested |-> 0]]

------------------------------------------------------------------------------

Holds(table, p) == \E i \in Slots : table[i].pointer = p

Stored(table) == { p \in Pointers : Holds(table, p) }

SlotOf(table, p) == CHOOSE i \in Slots : table[i].pointer = p

\* A stored pointer sits on its own probe sequence with no empty slot before
\* it, which is what the lookup needs to reach it.
Reachable(table) ==
  \A i \in Slots : table[i].pointer \in Pointers =>
    \E k \in 0 .. Probes - 1 :
      /\ ProbeSlot(table[i].pointer, k) = i
      /\ \A j \in 0 .. k - 1 :
           table[ProbeSlot(table[i].pointer, j)].pointer # EMPTY

NoDuplicates(table) ==
  \A i, j \in Slots :
    table[i].pointer \in Pointers /\ table[i].pointer = table[j].pointer => i = j
==============================================================================
