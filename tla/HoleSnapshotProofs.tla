-------------------------- MODULE HoleSnapshotProofs --------------------------
(***************************************************************************)
(* The statistics rows of malloc_hole_hook.c for every number of threads   *)
(* and shards and every length of a run: the rows of the log follow each   *)
(* other without a gap, each has what was counted when its snapshot began  *)
(* and nothing more than has been counted, no period has two rows, and the *)
(* last row is written.                                                    *)
(***************************************************************************)
EXTENDS HoleSnapshot, FiniteSums

Labels ==
  {"idle", "count", "track", "clock", "deadline", "move", "lock", "load", "loadLive", "write",
   "close", "gone"}

LiveCounters == [blocks : Nat, frees : Nat]
Differences == [requested : Int, allocs : Int]
Remembered == [total : TrafficCounters, frees : Nat, end : Nat]
Drafts ==
  [shard : ShardSet, total : TrafficCounters, live : LiveCounters, end : Nat,
   floor : TrafficCounters, seen : SUBSET LiveCounters]
RowRecords ==
  [start : Nat, end : Nat, total : TrafficCounters, period : Differences,
   frees : Nat, periodFrees : Int, blocks : Nat, purpose : Purposes, alone : BOOLEAN]
Locals == [shard : ShardSet, at : Nat, expected : Nat, purpose : Purposes]

Typed ==
  /\ traffic \in [ShardSet -> TrafficCounters] /\ live \in [ShardSet -> LiveCounters]
  /\ now \in 0 .. MaxTime /\ deadline \in Nat /\ logOpen \in BOOLEAN
  /\ lock \in Threads \cup {NoThread}
  /\ previous \in Remembered /\ rows \in Seq(RowRecords) /\ tail \in Tails /\ draft \in Drafts
  /\ pc \in [Threads -> Labels] /\ local \in [Threads -> Locals]
  /\ failures \in Nat /\ owed \in TrafficCounters

------------------------------------------------------------------------------
(* The invariant *)

\* A field of the shards that have been read, when shard k is next, and of
\* those that have not.
Column(counter, field) == [s \in ShardSet |-> counter[s][field]]
Before(counter, field, k) == SumFunctionOnSet(Column(counter, field), 1 .. k - 1)
From(counter, field, k) == SumFunctionOnSet(Column(counter, field), k .. Shards)

InSnapshot(t) == pc[t] \in {"load", "loadLive", "write"}

\* One thread is writing a row.
LockHeld == \A t \in Threads : InSnapshot(t) => lock = t

\* The rows that were written to their end follow each other without a gap or
\* an overlap, spoilt or not, ...
First == [total |-> NoTraffic, frees |-> 0, end |-> 0]
Follows(row, last) ==
  /\ row.start = last.end
  /\ row.period = Minus(row.total, last.total)
  /\ row.periodFrees = row.frees - last.frees
  /\ AtLeast(row.period, NoTraffic) /\ row.periodFrees >= 0
  /\ row.start <= row.end
RowsChain == \A i \in 1 .. Len(rows) : Follows(rows[i], IF i = 1 THEN First ELSE rows[i - 1])

\* ... so that none is below an earlier one.
NotBelow(row, earlier) ==
  earlier.end <= row.end /\ AtLeast(row.total, earlier.total) /\ earlier.frees <= row.frees
RowsGrow == \A i \in 1 .. Len(rows) : \A j \in 1 .. i : NotBelow(rows[i], rows[j])

\* What is remembered is the last row.
LastRemembered ==
  IF rows = <<>>
  THEN previous.total = NoTraffic /\ previous.frees = 0 /\ previous.end = 0
  ELSE LET last == rows[Len(rows)]
       IN  previous.total = last.total /\ previous.frees = last.frees /\ previous.end = last.end

TimeGoesOn ==
  /\ previous.end <= now
  /\ \A t \in Threads : pc[t] = "write" => previous.end <= draft.end /\ draft.end <= now

\* The row under construction has at least what the shards had when the lock
\* was taken, counting what is still to be read, and at most what those have
\* that were read; and it is not below the last row.
Counted(f) ==
  /\ previous.total[f] <= Total(traffic, f)
  /\ \A t \in Threads :
       /\ InSnapshot(t) => previous.total[f] <= draft.floor[f]
       /\ pc[t] = "load" =>
            /\ draft.total[f] <= Before(traffic, f, draft.shard)
            /\ draft.floor[f] <= draft.total[f] + From(traffic, f, draft.shard)
       /\ pc[t] \in {"loadLive", "write"} =>
            draft.floor[f] <= draft.total[f] /\ draft.total[f] <= Total(traffic, f)

\* The same of the free events, which have no floor of their own.
FreesCounted ==
  /\ previous.frees <= Total(live, "frees")
  /\ \A t \in Threads :
       /\ pc[t] = "load" => draft.live = NoLive
       /\ pc[t] = "loadLive" =>
            /\ draft.live.frees <= Before(live, "frees", draft.shard)
            /\ previous.frees <= draft.live.frees + From(live, "frees", draft.shard)
       /\ pc[t] = "write" =>
            previous.frees <= draft.live.frees /\ draft.live.frees <= Total(live, "frees")

\* Every event on a live block makes this greater, so that no live total comes
\* back.
Weight(l) == l.blocks + 2 * l.frees
Disturbed == \E l \in draft.seen : Weight(l) < Weight(LiveNow)

\* An undisturbed snapshot has read the exact live values.
LiveExact ==
  /\ lock # NoThread => LiveNow \in draft.seen /\ IsFiniteSet(draft.seen)
  /\ \A t \in Threads :
       /\ pc[t] = "loadLive" =>
            Disturbed \/ \A f \in {"blocks", "frees"} : draft.live[f] = Before(live, f, draft.shard)
       /\ pc[t] = "write" =>
            Disturbed \/ \A f \in {"blocks", "frees"} : draft.live[f] = Total(live, f)

\* One thread exits; it closes the log when the row it owes has been written.
ExitPlaces == {"lock", "load", "loadLive", "write", "close", "gone"}
OneExits ==
  /\ \A t, u \in Threads : local[t].purpose = "exit" /\ local[u].purpose = "exit" => t = u
  /\ \A t \in Threads : /\ local[t].purpose = "exit" => pc[t] \in ExitPlaces
                        /\ pc[t] \in {"close", "gone"} => local[t].purpose = "exit"
  /\ ~logOpen => \E t \in Threads : pc[t] = "gone"

Owed(f) ==
  /\ owed[f] <= Total(traffic, f)
  /\ \A t \in Threads :
       /\ local[t].purpose = "exit" /\ InSnapshot(t) => owed[f] <= draft.floor[f]
       /\ failures = 0 /\ pc[t] \in {"close", "gone"} =>
            rows # <<>> /\ owed[f] <= previous.total[f]

\* A row is paid for by moving the deadline, a period at a time.
PeriodicRows == { i \in DOMAIN rows : rows[i].purpose = "periodic" }
Pending ==
  { t \in Threads : local[t].purpose = "periodic" /\ pc[t] \in {"lock", "load", "loadLive", "write"} }
PaidFor ==
  /\ (Cardinality(PeriodicRows) + Cardinality(Pending)) * Interval <= deadline
  /\ deadline <= now + Interval
  /\ \A t \in Threads :
       /\ pc[t] \in {"deadline", "move"} => local[t].at <= now
       /\ pc[t] = "move" => local[t].expected <= local[t].at

IInv ==
  /\ Typed /\ LockHeld /\ RowsChain /\ RowsGrow /\ LastRemembered /\ TimeGoesOn
  /\ Counted("requested") /\ Counted("allocs") /\ FreesCounted /\ LiveExact
  /\ FailuresSpoilOneRow
  /\ OneExits /\ Owed("requested") /\ Owed("allocs") /\ PaidFor

------------------------------------------------------------------------------
(* Sums over the shards *)

\* The shards that come before one, and those that come from it on.
LEMMA ShardRanges ==
  ASSUME NEW k \in ShardSet
  PROVE  /\ 1 .. 0 = {} /\ IsFiniteSet(ShardSet) /\ 1 \in ShardSet /\ Shards \in ShardSet
         /\ (1 .. k - 1) \in SUBSET ShardSet /\ (k .. Shards) \in SUBSET ShardSet
         /\ IsFiniteSet(1 .. k - 1) /\ IsFiniteSet(k .. Shards) /\ IsFiniteSet(k + 1 .. Shards)
         /\ 1 .. k = (1 .. k - 1) \cup {k} /\ k \notin 1 .. k - 1
         /\ k .. Shards = (k + 1 .. Shards) \cup {k} /\ k \notin k + 1 .. Shards
         /\ k # Shards => k + 1 \in ShardSet
         /\ k = Shards => k + 1 .. Shards = {}
  <1>1. IsFiniteSet(1 .. k - 1) /\ IsFiniteSet(k .. Shards) /\ IsFiniteSet(k + 1 .. Shards)
        /\ IsFiniteSet(1 .. Shards)
    BY FS_Interval, SnapshotAssumption DEF ShardSet
  <1>2. QED
    BY <1>1, SnapshotAssumption DEF ShardSet

\* The sums of the counters that a snapshot compares: what has been read, what
\* is still to be read, and how a step of the loop takes from the one to the
\* other.
LEMMA ShardSums ==
  ASSUME NEW c, NEW f, \A s \in ShardSet : c[s][f] \in Nat
  PROVE  /\ Total(c, f) \in Nat /\ Before(c, f, 1) = 0 /\ From(c, f, 1) = Total(c, f)
         /\ \A k \in ShardSet :
              /\ Before(c, f, k) \in Nat /\ From(c, f, k) \in Nat
              /\ Before(c, f, k + 1) = Before(c, f, k) + c[k][f]
              /\ k # Shards => From(c, f, k) = c[k][f] + From(c, f, k + 1)
              /\ k = Shards => From(c, f, k) = c[k][f]
         /\ Before(c, f, Shards + 1) = Total(c, f)
  <1> DEFINE g == Column(c, f)
  <1>1. \A s \in ShardSet : g[s] \in Nat /\ g[s] \in Int /\ g[s] = c[s][f]
    BY DEF Column
  <1>2. Total(c, f) = SumFunctionOnSet(g, ShardSet)
    <2>1. DOMAIN g = ShardSet
      BY DEF Column
    <2>2. SumFunction(g) = SumFunctionOnSet(g, DOMAIN g)
      BY Zenon DEF SumFunction, SumFunctionOnSet, FoldFunction
    <2>3. QED
      BY <2>1, <2>2 DEF Total, Column
  <1>3. Before(c, f, Shards + 1) = Total(c, f) /\ From(c, f, 1) = Total(c, f)
    BY <1>2, SnapshotAssumption DEF Before, From, ShardSet
  <1>4. Before(c, f, 1) = 0
    <2>1. 1 .. 1 - 1 = {}
      OBVIOUS
    <2>2. QED
      BY <2>1, SumEmpty DEF Before
  <1> HIDE DEF g
  <1>5. ASSUME NEW k \in ShardSet
        PROVE  /\ Before(c, f, k) \in Nat /\ From(c, f, k) \in Nat
               /\ Before(c, f, k + 1) = Before(c, f, k) + c[k][f]
               /\ From(c, f, k) = c[k][f] + SumFunctionOnSet(g, k + 1 .. Shards)
               /\ k # Shards => From(c, f, k) = c[k][f] + From(c, f, k + 1)
               /\ k = Shards => From(c, f, k) = c[k][f]
    <2> DEFINE B == 1 .. k - 1
               A == k + 1 .. Shards
    <2>0. /\ IsFiniteSet(B) /\ IsFiniteSet(A) /\ k \notin A /\ k \notin B
          /\ 1 .. k = B \cup {k} /\ k .. Shards = A \cup {k}
          /\ B \in SUBSET ShardSet /\ k .. Shards \in SUBSET ShardSet
          /\ IsFiniteSet(k .. Shards)
      BY ShardRanges
    <2>1. /\ IsFiniteSet(B) /\ IsFiniteSet(A) /\ k \notin A /\ k \notin B
          /\ 1 .. k = B \cup {k} /\ k .. Shards = A \cup {k}
          /\ \A y \in B \cup {k} : g[y] \in Nat /\ g[y] \in Int
          /\ \A y \in A \cup {k} : g[y] \in Nat /\ g[y] \in Int
          /\ IsFiniteSet(A \cup {k})
      <3> HIDE DEF A, B
      <3>1. A \cup {k} \in SUBSET ShardSet /\ B \cup {k} \in SUBSET ShardSet
        BY <2>0
      <3>2. QED
        BY <2>0, <3>1, <1>1
    <2>2. /\ Before(c, f, k) = SumFunctionOnSet(g, B)
          /\ From(c, f, k) = SumFunctionOnSet(g, A \cup {k})
          /\ From(c, f, k + 1) = SumFunctionOnSet(g, A)
      BY <2>1 DEF Before, From, g
    <2>3. Before(c, f, k + 1) = SumFunctionOnSet(g, B \cup {k})
      <3>1. 1 .. (k + 1) - 1 = B \cup {k}
        <4>1. 1 .. (k + 1) - 1 = 1 .. k
          BY DEF ShardSet
        <4>2. QED
          BY <2>1, <4>1
      <3> HIDE DEF B
      <3>2. Before(c, f, k + 1) = SumFunctionOnSet(g, 1 .. (k + 1) - 1)
        BY DEF Before, g
      <3>3. QED
        BY Zenon, <3>1, <3>2
    <2>4. k = Shards => A = {}
      BY ShardRanges
    <2> HIDE DEF B, A
    <2>5. SumFunctionOnSet(g, B \cup {k}) = g[k] + SumFunctionOnSet(g, B)
      BY <2>1, SumInsert
    <2>6. SumFunctionOnSet(g, A \cup {k}) = g[k] + SumFunctionOnSet(g, A)
      BY <2>1, SumInsert
    <2>7. SumFunctionOnSet(g, B) \in Nat
      BY <2>1, SumNatural
    <2>8. SumFunctionOnSet(g, A \cup {k}) \in Nat
      BY <2>1, SumNatural
    <2>9. k = Shards => SumFunctionOnSet(g, A) = 0
      BY <2>4, SumEmpty
    <2>10. QED
      BY <1>1, <2>2, <2>3, <2>5, <2>6, <2>7, <2>8, <2>9 DEF A
  <1>6. Total(c, f) \in Nat
    BY <1>1, <1>2, SumNatural, ShardRanges, SnapshotAssumption DEF ShardSet
  <1>7. QED
    BY <1>3, <1>4, <1>5, <1>6

\* None of the sums falls when no counter does.
LEMMA ShardSumsGrow ==
  ASSUME NEW c, NEW d, NEW f,
         \A s \in ShardSet : c[s][f] \in Nat /\ d[s][f] \in Nat /\ c[s][f] <= d[s][f]
  PROVE  /\ Total(c, f) <= Total(d, f)
         /\ \A k \in ShardSet : /\ Before(c, f, k) <= Before(d, f, k)
                                /\ From(c, f, k) <= From(d, f, k)
  <1> DEFINE g == Column(c, f)
             h == Column(d, f)
  <1>1. \A s \in ShardSet : g[s] \in Int /\ h[s] \in Int /\ g[s] <= h[s]
    BY DEF Column
  <1> HIDE DEF g, h
  <1>2. ASSUME NEW k \in ShardSet
        PROVE  /\ Before(c, f, k) <= Before(d, f, k) /\ From(c, f, k) <= From(d, f, k)
    <2> DEFINE B == 1 .. k - 1
               A == k .. Shards
    <2>1. /\ IsFiniteSet(B) /\ \A s \in B : g[s] \in Int /\ h[s] \in Int /\ g[s] <= h[s]
          /\ IsFiniteSet(A) /\ \A s \in A : g[s] \in Int /\ h[s] \in Int /\ g[s] <= h[s]
      BY <1>1, ShardRanges
    <2> HIDE DEF A, B
    <2>2. /\ SumFunctionOnSet(g, B) <= SumFunctionOnSet(h, B)
          /\ SumFunctionOnSet(g, A) <= SumFunctionOnSet(h, A)
      BY <2>1, SumMonotone
    <2>3. QED
      BY <2>2 DEF Before, From, A, B, g, h
  <1>3. Total(c, f) <= Total(d, f)
    <2>1. From(c, f, 1) = Total(c, f) /\ From(d, f, 1) = Total(d, f)
      BY ShardSums
    <2>2. QED
      BY <1>2, <2>1, SnapshotAssumption DEF ShardSet
  <1>4. QED
    BY <1>2, <1>3

\* A total changes by as much as the counter of one shard.
LEMMA TotalChanges ==
  ASSUME NEW c, NEW d, NEW f, NEW x \in ShardSet,
         \A s \in ShardSet : c[s][f] \in Nat /\ d[s][f] \in Nat,
         \A s \in ShardSet \ {x} : d[s][f] = c[s][f]
  PROVE  Total(d, f) = Total(c, f) + (d[x][f] - c[x][f])
  <1> DEFINE g == Column(c, f)
             h == Column(d, f)
  <1>1. /\ \A s \in ShardSet : g[s] \in Int /\ h[s] \in Int
        /\ \A s \in ShardSet \ {x} : h[s] = g[s]
        /\ g[x] = c[x][f] /\ h[x] = d[x][f]
    BY DEF Column
  <1>2. /\ Total(c, f) = SumFunctionOnSet(g, ShardSet) /\ Total(d, f) = SumFunctionOnSet(h, ShardSet)
    <2>1. DOMAIN g = ShardSet /\ DOMAIN h = ShardSet
      BY DEF Column
    <2>2. /\ SumFunction(g) = SumFunctionOnSet(g, DOMAIN g)
          /\ SumFunction(h) = SumFunctionOnSet(h, DOMAIN h)
      BY Zenon DEF SumFunction, SumFunctionOnSet, FoldFunction
    <2>3. QED
      BY <2>1, <2>2 DEF Total, Column
  <1> HIDE DEF g, h
  <1>3. SumFunctionOnSet(h, ShardSet) = SumFunctionOnSet(g, ShardSet) + (h[x] - g[x])
    <2>1. IsFiniteSet(ShardSet)
      BY FS_Interval, SnapshotAssumption DEF ShardSet
    <2>2. QED
      BY <1>1, <2>1, SumChange
  <1>4. QED
    BY <1>1, <1>2, <1>3

------------------------------------------------------------------------------
(* Types *)

\* Counters add up to counters, field by field.
LEMMA PlusFields ==
  /\ \A a, b \in TrafficCounters :
       /\ Plus(a, b) \in TrafficCounters
       /\ Plus(a, b)["requested"] = a["requested"] + b["requested"]
       /\ Plus(a, b)["allocs"] = a["allocs"] + b["allocs"]
  /\ \A a, b \in LiveCounters :
       /\ Plus(a, b) \in LiveCounters
       /\ Plus(a, b)["blocks"] = a["blocks"] + b["blocks"]
       /\ Plus(a, b)["frees"] = a["frees"] + b["frees"]
  BY DEF Plus, TrafficCounters, LiveCounters

\* The differences of two counters, and their order.
LEMMA MinusFields ==
  \A a, b \in TrafficCounters :
    /\ Minus(a, b) \in Differences
    /\ AtLeast(a, b) <=> (b["requested"] <= a["requested"] /\ b["allocs"] <= a["allocs"])
    /\ AtLeast(Minus(a, b), NoTraffic)
         <=> (b["requested"] <= a["requested"] /\ b["allocs"] <= a["allocs"])
  BY DEF Minus, AtLeast, NoTraffic, TrafficCounters, Differences

\* What is taken away twice is back.
LEMMA TakenAgain ==
  \A a, b \in TrafficCounters : Minus(a, Minus(a, b)) = b
  BY DEF Minus, TrafficCounters

\* Of the live counters too the values are natural numbers.
LEMMA TotalsNow ==
  ASSUME Typed
  PROVE  /\ TrafficNow \in TrafficCounters /\ LiveNow \in LiveCounters
         /\ TrafficNow["requested"] = Total(traffic, "requested")
         /\ TrafficNow["allocs"] = Total(traffic, "allocs")
         /\ LiveNow["blocks"] = Total(live, "blocks") /\ LiveNow["frees"] = Total(live, "frees")
  <1>1. \A f \in {"requested", "allocs"} : Total(traffic, f) \in Nat
    <2>1. \A f \in {"requested", "allocs"} : \A s \in ShardSet : traffic[s][f] \in Nat
      BY DEF Typed, TrafficCounters
    <2>2. QED
      BY <2>1, ShardSums
  <1>2. \A f \in {"blocks", "frees"} : Total(live, f) \in Nat
    <2>1. \A f \in {"blocks", "frees"} : \A s \in ShardSet : live[s][f] \in Nat
      BY DEF Typed, LiveCounters
    <2>2. QED
      BY <2>1, ShardSums
  <1>3. QED
    BY <1>1, <1>2 DEF TrafficNow, LiveNow, TrafficCounters, LiveCounters

\* The steps of the draft, field by field.
NextShard(k) == IF k = Shards THEN 1 ELSE k + 1

Opened(a, l) == [NoDraft EXCEPT !.floor = a, !.seen = {l}]

\* A row begins with nothing read.
LEMMA NewDraft ==
  ASSUME NEW a \in TrafficCounters, NEW l \in LiveCounters, NEW e, e = Opened(a, l)
  PROVE  /\ e \in Drafts /\ e.shard = 1 /\ e.total = NoTraffic /\ e.live = NoLive
         /\ e.floor = a /\ e.seen = {l}
  <1>1. NoDraft \in Drafts
    BY SnapshotAssumption
       DEF Drafts, NoDraft, NoTraffic, NoLive, TrafficCounters, LiveCounters, ShardSet
  <1>2. NoDraft.shard = 1 /\ NoDraft.total = NoTraffic /\ NoDraft.live = NoLive
    BY DEF NoDraft
  <1>3. QED
    BY <1>1, <1>2 DEF Drafts, Opened

\* A live total is added to the history of the row.
LEMMA DraftSees ==
  ASSUME NEW d \in Drafts, NEW l \in LiveCounters, NEW e, e = [d EXCEPT !.seen = @ \cup {l}]
  PROVE  /\ e \in Drafts /\ e.shard = d.shard /\ e.total = d.total /\ e.live = d.live
         /\ e.end = d.end /\ e.floor = d.floor /\ e.seen = d.seen \cup {l}
  BY DEF Drafts

Loaded(d, a) == [d EXCEPT !.total = Plus(@, a), !.shard = IF @ = Shards THEN 1 ELSE @ + 1]

\* One shard of the statistics is added, ...
LEMMA DraftLoads ==
  ASSUME NEW d \in Drafts, NEW a \in TrafficCounters, NEW e, e = Loaded(d, a)
  PROVE  /\ e \in Drafts /\ e.shard = NextShard(d.shard) /\ e.total = Plus(d.total, a)
         /\ e.live = d.live /\ e.end = d.end /\ e.floor = d.floor /\ e.seen = d.seen
  <1>1. d.total \in TrafficCounters /\ d.shard \in ShardSet
    BY DEF Drafts
  <1>2. Plus(d.total, a) \in TrafficCounters
    BY <1>1, PlusFields
  <1>3. NextShard(d.shard) \in ShardSet
    BY <1>1, SnapshotAssumption DEF NextShard, ShardSet
  <1>4. e = [d EXCEPT !.total = Plus(d.total, a), !.shard = NextShard(d.shard)]
    BY DEF NextShard, Loaded
  <1>5. QED
    BY <1>2, <1>3, <1>4 DEF Drafts

LoadedLive(d, a, time) ==
  [d EXCEPT !.live = Plus(@, a), !.shard = IF @ = Shards THEN 1 ELSE @ + 1, !.end = time]

\* ... or one of the live statistics, and the time is read.
LEMMA DraftLoadsLive ==
  ASSUME NEW d \in Drafts, NEW a \in LiveCounters, NEW time \in Nat, NEW e,
         e = LoadedLive(d, a, time)
  PROVE  /\ e \in Drafts /\ e.shard = NextShard(d.shard) /\ e.live = Plus(d.live, a)
         /\ e.total = d.total /\ e.end = time /\ e.floor = d.floor /\ e.seen = d.seen
  <1>1. d.live \in LiveCounters /\ d.shard \in ShardSet
    BY DEF Drafts
  <1>2. Plus(d.live, a) \in LiveCounters
    BY <1>1, PlusFields
  <1>3. NextShard(d.shard) \in ShardSet
    BY <1>1, SnapshotAssumption DEF NextShard, ShardSet
  <1>4. e = [d EXCEPT !.live = Plus(d.live, a), !.shard = NextShard(d.shard), !.end = time]
    BY DEF NextShard, LoadedLive
  <1>5. QED
    BY <1>2, <1>3, <1>4 DEF Drafts

------------------------------------------------------------------------------
(* What the steps do *)

\* The other threads stay where they are.
Others(t) == \A u \in Threads \ {t} : pc'[u] = pc[u] /\ local'[u] = local[u]

\* The thread goes from one place to another.
Goes(t, from, to) == Others(t) /\ pc[t] = from /\ pc'[t] = to

SamePurpose(t) == local'[t].purpose = local[t].purpose

\* No counter falls, except that of the live blocks.
CountersGrow ==
  \A s \in ShardSet :
    /\ traffic[s].requested <= traffic'[s].requested /\ traffic[s].allocs <= traffic'[s].allocs
    /\ live[s].frees <= live'[s].frees

\* What has been read is kept.
SameDraft ==
  /\ draft'.shard = draft.shard /\ draft'.total = draft.total /\ draft'.live = draft.live
  /\ draft'.end = draft.end /\ draft'.floor = draft.floor

\* A thread goes on in its program.
LEMMA PlaceSteps ==
  ASSUME Typed, NEW t \in Threads, NEW label \in Labels, Goto(t, label)
  PROVE  /\ pc' \in [Threads -> Labels] /\ pc'[t] = label
         /\ \A u \in Threads \ {t} : pc'[u] = pc[u]
  BY DEF Typed, Goto

\* ... or returns, ...
LEMMA Returns ==
  ASSUME Typed, NEW t \in Threads, Return(t)
  PROVE  /\ pc' \in [Threads -> Labels] /\ local' \in [Threads -> Locals]
         /\ pc'[t] = "idle" /\ local'[t].purpose = "periodic" /\ Others(t)
  <1>1. Goto(t, "idle") /\ local' = [local EXCEPT ![t] = NoLocal]
    BY DEF Return
  <1>2. local \in [Threads -> Locals]
    BY DEF Typed
  <1>3. /\ local' \in [Threads -> Locals] /\ local'[t].purpose = "periodic"
        /\ \A u \in Threads : u # t => local'[u] = local[u]
    <2>1. NoLocal \in Locals /\ NoLocal.purpose = "periodic"
      BY SnapshotAssumption DEF NoLocal, Locals, ShardSet, Purposes
    <2>2. QED
      BY <1>1, <1>2, <2>1
  <1>4. QED
    BY <1>1, <1>3, PlaceSteps DEF Labels, Others

\* ... or ends a row, after which it closes the log if it is the one to exit.
LEMMA EndsRow ==
  ASSUME Typed, NEW t \in Threads, Afterwards(t)
  PROVE  /\ pc' \in [Threads -> Labels] /\ local' \in [Threads -> Locals] /\ Others(t)
         /\ local[t].purpose = "exit" => pc'[t] = "close" /\ SamePurpose(t)
         /\ local[t].purpose # "exit" => pc'[t] = "idle" /\ local'[t].purpose = "periodic"
  <1>1. CASE local[t].purpose = "exit"
    BY <1>1, PlaceSteps DEF Afterwards, Typed, Labels, Others, SamePurpose
  <1>2. CASE local[t].purpose # "exit"
    BY <1>2, Returns DEF Afterwards
  <1>3. QED
    BY <1>1, <1>2

\* A new live total is recorded in the history of the row.
LEMMA Witnesses ==
  ASSUME Typed, live' \in [ShardSet -> LiveCounters], Witnessed
  PROVE  /\ draft' \in Drafts /\ SameDraft
         /\ lock # NoThread => draft'.seen = draft.seen \cup {LiveNow'}
  <1>1. LiveNow' \in LiveCounters
    <2>1. \A f \in {"blocks", "frees"} : \A s1 \in ShardSet : live'[s1][f] \in Nat
      BY DEF LiveCounters
    <2>2. \A f \in {"blocks", "frees"} : Total(live', f) \in Nat
      BY <2>1, ShardSums
    <2>3. QED
      BY <2>2 DEF LiveNow, LiveCounters
  <1>2. CASE lock = NoThread
    BY <1>2 DEF Witnessed, Typed, SameDraft
  <1>3. CASE lock # NoThread
    <2>1. draft' = [draft EXCEPT !.seen = @ \cup {LiveNow'}] /\ draft \in Drafts
      BY <1>3 DEF Witnessed, Typed
    <2>2. QED
      BY <1>1, <2>1, DraftSees DEF SameDraft
  <1>4. QED
    BY <1>2, <1>3

\* The history aside, the following lemmas repeat the actions in terms of the
\* fields that the invariant speaks of, and add that the types are kept.
LEMMA TickStep ==
  ASSUME Typed, Tick
  PROVE  /\ Typed' /\ now' = now + 1
         /\ UNCHANGED <<counters, deadline, lock, logOpen, previous, rows, tail, draft, pc, local,
                        bounds,
                        owed>>
  BY SnapshotAssumption DEF Tick, Typed, counters, bounds, log

\* An allocation counts its bytes in a shard of its own choice, ...
LEMMA AllocateStep ==
  ASSUME Typed, NEW t \in Threads, Allocate(t)
  PROVE  /\ Typed' /\ CountersGrow /\ Goes(t, "idle", "count") /\ SamePurpose(t)
         /\ UNCHANGED <<live, now, deadline, lock, logOpen, previous, rows, tail, draft, failures,
                        owed>>
  <1>1. PICK s \in ShardSet : /\ traffic' = [traffic EXCEPT ![s].requested = @ + 1]
                              /\ local' = [local EXCEPT ![t].shard = s]
    BY DEF Allocate, log
  <1>2. /\ traffic \in [ShardSet -> TrafficCounters] /\ live \in [ShardSet -> LiveCounters]
        /\ local \in [Threads -> Locals]
    BY DEF Typed
  <1>3. /\ traffic' \in [ShardSet -> TrafficCounters]
        /\ traffic'[s].requested = traffic[s].requested + 1 /\ traffic'[s].allocs = traffic[s].allocs
        /\ \A u \in ShardSet : u # s => traffic'[u] = traffic[u]
    BY <1>1, <1>2 DEF TrafficCounters
  <1>4. /\ local' \in [Threads -> Locals] /\ SamePurpose(t)
        /\ \A u \in Threads : u # t => local'[u] = local[u]
    BY <1>1, <1>2 DEF SamePurpose, Locals
  <1>5. /\ pc' \in [Threads -> Labels] /\ pc'[t] = "count" /\ pc[t] = "idle"
        /\ \A u \in Threads \ {t} : pc'[u] = pc[u]
    BY PlaceSteps DEF Allocate, Labels, log
  <1>6. UNCHANGED <<live, now, deadline, lock, logOpen, previous, rows, tail, draft, failures,
                    owed>>
    BY DEF Allocate, log
  <1>7. CountersGrow
    BY <1>2, <1>3, <1>6 DEF CountersGrow, TrafficCounters, LiveCounters
  <1>8. QED
    BY <1>3, <1>4, <1>5, <1>6, <1>7 DEF Typed, Goes, Others

\* ... then itself, in the same shard, ...
LEMMA CountAllocationStep ==
  ASSUME Typed, NEW t \in Threads, CountAllocation(t)
  PROVE  /\ Typed' /\ CountersGrow /\ Goes(t, "count", "track") /\ SamePurpose(t)
         /\ UNCHANGED <<live, now, deadline, lock, logOpen, previous, rows, tail, draft, local,
                        bounds,
                        owed>>
  <1> DEFINE s == local[t].shard
  <1>1. traffic' = [traffic EXCEPT ![s].allocs = @ + 1]
    BY DEF CountAllocation, log
  <1>2. /\ traffic \in [ShardSet -> TrafficCounters] /\ live \in [ShardSet -> LiveCounters]
        /\ s \in ShardSet
    BY DEF Typed, Locals
  <1> HIDE DEF s
  <1>3. /\ traffic' \in [ShardSet -> TrafficCounters]
        /\ traffic'[s].requested = traffic[s].requested
        /\ traffic'[s].allocs = traffic[s].allocs + 1
        /\ \A u \in ShardSet : u # s => traffic'[u] = traffic[u]
    BY <1>1, <1>2 DEF TrafficCounters
  <1>5. /\ pc' \in [Threads -> Labels] /\ pc'[t] = "track" /\ pc[t] = "count"
        /\ \A u \in Threads \ {t} : pc'[u] = pc[u]
    BY PlaceSteps DEF CountAllocation, Labels, log
  <1>6. UNCHANGED <<live, now, deadline, lock, logOpen, previous, rows, tail, draft, local,
                    bounds, owed>>
    BY DEF CountAllocation, log
  <1>7. CountersGrow
    BY <1>2, <1>3, <1>6 DEF CountersGrow, TrafficCounters, LiveCounters
  <1>8. QED
    BY <1>3, <1>5, <1>6, <1>7 DEF Typed, Goes, Others, SamePurpose, bounds

\* A live event: a block more, or a block less and a free more.
LiveEvent ==
  \E s \in ShardSet :
    /\ \/ live'[s].blocks = live[s].blocks + 1 /\ live'[s].frees = live[s].frees
       \/ live'[s].blocks = live[s].blocks - 1 /\ live'[s].frees = live[s].frees + 1
    /\ \A u \in ShardSet : u # s => live'[u] = live[u]

\* Both kinds of live events are updates of one shard.
LEMMA LiveEvents ==
  ASSUME Typed, NEW s \in ShardSet,
         \/ live' = [live EXCEPT ![s].blocks = @ + 1]
         \/ /\ live[s].blocks > 0
            /\ live' = [live EXCEPT ![s].blocks = @ - 1, ![s].frees = @ + 1]
  PROVE  live' \in [ShardSet -> LiveCounters] /\ LiveEvent
  <1>1. live \in [ShardSet -> LiveCounters]
    BY DEF Typed
  <1>2. CASE live' = [live EXCEPT ![s].blocks = @ + 1]
    <2>1. /\ live' \in [ShardSet -> LiveCounters]
          /\ live'[s].blocks = live[s].blocks + 1 /\ live'[s].frees = live[s].frees
          /\ \A u \in ShardSet : u # s => live'[u] = live[u]
      BY <1>1, <1>2 DEF LiveCounters
    <2>2. QED
      BY <2>1 DEF LiveEvent
  <1>3. CASE /\ live[s].blocks > 0
             /\ live' = [live EXCEPT ![s].blocks = @ - 1, ![s].frees = @ + 1]
    <2>1. /\ live' \in [ShardSet -> LiveCounters]
          /\ live'[s].blocks = live[s].blocks - 1 /\ live'[s].frees = live[s].frees + 1
          /\ \A u \in ShardSet : u # s => live'[u] = live[u]
      BY <1>1, <1>3 DEF LiveCounters
    <2>2. QED
      BY <2>1 DEF LiveEvent
  <1>4. QED
    BY <1>2, <1>3

\* ... and is a live event, which the row under construction witnesses.
LEMMA TrackAllocationStep ==
  ASSUME Typed, NEW t \in Threads, TrackAllocation(t)
  PROVE  /\ Typed' /\ Goes(t, "track", "clock") /\ SamePurpose(t) /\ LiveEvent /\ SameDraft
         /\ lock # NoThread => draft'.seen = draft.seen \cup {LiveNow'}
         /\ UNCHANGED <<traffic, now, deadline, lock, logOpen, previous, rows, tail, local,
                        bounds, owed>>
  <1> DEFINE s == local[t].shard
  <1>1. live' = [live EXCEPT ![s].blocks = @ + 1] /\ s \in ShardSet
    BY DEF TrackAllocation, Typed, Locals, log
  <1> HIDE DEF s
  <1>2. live' \in [ShardSet -> LiveCounters] /\ LiveEvent
    BY <1>1, LiveEvents
  <1>3. /\ draft' \in Drafts /\ SameDraft
        /\ lock # NoThread => draft'.seen = draft.seen \cup {LiveNow'}
    BY <1>2, Witnesses DEF TrackAllocation, log
  <1>5. /\ pc' \in [Threads -> Labels] /\ pc'[t] = "clock" /\ pc[t] = "track"
        /\ \A u \in Threads \ {t} : pc'[u] = pc[u]
    BY PlaceSteps DEF TrackAllocation, Labels, log
  <1>6. UNCHANGED <<traffic, now, deadline, lock, logOpen, previous, rows, tail, local, bounds,
                    owed>>
    BY DEF TrackAllocation, log
  <1>8. QED
    BY <1>2, <1>3, <1>5, <1>6 DEF Typed, Goes, Others, SamePurpose, bounds

\* So is a free.
LEMMA FreeStep ==
  ASSUME Typed, NEW t \in Threads, Free(t)
  PROVE  /\ Typed' /\ Goes(t, "idle", "clock") /\ SamePurpose(t) /\ LiveEvent /\ SameDraft
         /\ lock # NoThread => draft'.seen = draft.seen \cup {LiveNow'}
         /\ UNCHANGED <<traffic, now, deadline, lock, logOpen, previous, rows, tail, local,
                        failures, owed>>
  <1>1. PICK s \in ShardSet : /\ live[s].blocks > 0
                              /\ live' = [live EXCEPT ![s].blocks = @ - 1, ![s].frees = @ + 1]
    BY DEF Free, log
  <1>2. live' \in [ShardSet -> LiveCounters] /\ LiveEvent
    BY <1>1, LiveEvents
  <1>3. /\ draft' \in Drafts /\ SameDraft
        /\ lock # NoThread => draft'.seen = draft.seen \cup {LiveNow'}
    BY <1>2, Witnesses DEF Free, log
  <1>5. /\ pc' \in [Threads -> Labels] /\ pc'[t] = "clock" /\ pc[t] = "idle"
        /\ \A u \in Threads \ {t} : pc'[u] = pc[u]
    BY PlaceSteps DEF Free, Labels, log
  <1>6. UNCHANGED <<traffic, now, deadline, lock, logOpen, previous, rows, tail, local, failures,
                    owed>>
    BY DEF Free, log
  <1>8. QED
    BY <1>2, <1>3, <1>5, <1>6 DEF Typed, Goes, Others, SamePurpose

\* Most events do not look at the clock.
LEMMA SkipClockStep ==
  ASSUME Typed, NEW t \in Threads, SkipClock(t)
  PROVE  /\ Typed' /\ Goes(t, "clock", "idle") /\ local'[t].purpose = "periodic"
         /\ UNCHANGED <<counters, now, deadline, lock, logOpen, previous, rows, tail, draft,
                        bounds, owed>>
  BY Returns DEF SkipClock, Typed, Goes, counters, bounds, log

\* The others remember what it shows, ...
LEMMA ReadClockStep ==
  ASSUME Typed, NEW t \in Threads, ReadClock(t)
  PROVE  /\ Typed' /\ Goes(t, "clock", "deadline") /\ SamePurpose(t) /\ local'[t].at = now
         /\ UNCHANGED <<counters, now, deadline, lock, logOpen, previous, rows, tail, draft,
                        bounds, owed>>
  <1>1. local \in [Threads -> Locals] /\ now \in Nat /\ local' = [local EXCEPT ![t].at = now]
    BY SnapshotAssumption DEF Typed, ReadClock, log
  <1>2. /\ local' \in [Threads -> Locals] /\ local'[t].at = now /\ SamePurpose(t)
        /\ \A u \in Threads : u # t => local'[u] = local[u]
    BY <1>1 DEF SamePurpose, Locals
  <1>3. /\ pc' \in [Threads -> Labels] /\ pc'[t] = "deadline" /\ pc[t] = "clock"
        /\ \A u \in Threads \ {t} : pc'[u] = pc[u]
    BY PlaceSteps DEF ReadClock, Labels, log
  <1>4. UNCHANGED <<counters, now, deadline, lock, logOpen, previous, rows, tail, draft, bounds,
                    owed>>
    BY DEF ReadClock, log
  <1>5. QED
    BY <1>2, <1>3, <1>4 DEF Typed, Goes, Others, counters, bounds

\* ... compare it with the deadline, ...
LEMMA ReadDeadlineStep ==
  ASSUME Typed, NEW t \in Threads, ReadDeadline(t)
  PROVE  /\ Typed'
         /\ \/ Goes(t, "deadline", "idle") /\ local'[t].purpose = "periodic"
            \/ /\ Goes(t, "deadline", "move") /\ SamePurpose(t)
               /\ deadline <= local[t].at
               /\ local'[t].expected = deadline /\ local'[t].at = local[t].at
         /\ UNCHANGED <<counters, now, deadline, lock, logOpen, previous, rows, tail, draft,
                        bounds, owed>>
  <1>0. UNCHANGED <<counters, now, deadline, lock, logOpen, previous, rows, tail, draft, bounds,
                    owed>>
    BY DEF ReadDeadline, log
  <1>1. CASE local[t].at < deadline
    <2>1. /\ pc' \in [Threads -> Labels] /\ local' \in [Threads -> Locals]
          /\ pc'[t] = "idle" /\ local'[t].purpose = "periodic" /\ Others(t) /\ pc[t] = "deadline"
      BY <1>1, Returns DEF ReadDeadline, log
    <2>2. QED
      BY <1>0, <2>1 DEF Typed, Goes, counters, bounds
  <1>2. CASE ~(local[t].at < deadline)
    <2>1. /\ local \in [Threads -> Locals] /\ deadline \in Nat /\ local[t].at \in Nat
          /\ local' = [local EXCEPT ![t].expected = deadline]
      BY <1>2 DEF Typed, ReadDeadline, Locals, log
    <2>2. /\ local' \in [Threads -> Locals] /\ local'[t].expected = deadline
          /\ local'[t].at = local[t].at /\ SamePurpose(t)
          /\ \A u \in Threads : u # t => local'[u] = local[u]
      BY <2>1 DEF SamePurpose, Locals
    <2>3. /\ pc' \in [Threads -> Labels] /\ pc'[t] = "move" /\ pc[t] = "deadline"
          /\ \A u \in Threads \ {t} : pc'[u] = pc[u]
      BY <1>2, PlaceSteps DEF ReadDeadline, Labels, log
    <2>4. deadline <= local[t].at
      BY <1>2, <2>1
    <2>5. QED
      BY <1>0, <2>2, <2>3, <2>4 DEF Typed, Goes, Others, counters, bounds
  <1>3. QED
    BY <1>1, <1>2

\* ... and move the deadline, unless another thread did.
LEMMA MoveDeadlineStep ==
  ASSUME Typed, NEW t \in Threads, MoveDeadline(t)
  PROVE  /\ Typed'
         /\ \/ /\ Goes(t, "move", "lock") /\ local'[t].purpose = "periodic"
               /\ deadline = local[t].expected /\ deadline' = local[t].at + Interval
            \/ Goes(t, "move", "idle") /\ local'[t].purpose = "periodic" /\ UNCHANGED deadline
         /\ UNCHANGED <<counters, now, lock, logOpen, previous, rows, tail, draft, bounds, owed>>
  <1>0. UNCHANGED <<counters, now, lock, logOpen, previous, rows, tail, draft, bounds, owed>>
    BY DEF MoveDeadline, log
  <1>1. CASE deadline # local[t].expected
    <2>1. /\ pc' \in [Threads -> Labels] /\ local' \in [Threads -> Locals]
          /\ pc'[t] = "idle" /\ local'[t].purpose = "periodic" /\ Others(t) /\ pc[t] = "move"
          /\ deadline' = deadline
      BY <1>1, Returns DEF MoveDeadline, log
    <2>2. QED
      BY <1>0, <2>1 DEF Typed, Goes, counters, bounds
  <1>2. CASE deadline = local[t].expected
    <2>1. /\ local \in [Threads -> Locals] /\ "periodic" \in Purposes /\ local[t].at \in Nat
          /\ local' = [local EXCEPT ![t].purpose = "periodic"]
          /\ deadline' = local[t].at + Interval /\ deadline' \in Nat
      BY <1>2, SnapshotAssumption DEF Typed, MoveDeadline, Locals, Purposes, log
    <2>2. /\ local' \in [Threads -> Locals] /\ local'[t].purpose = "periodic"
          /\ \A u \in Threads : u # t => local'[u] = local[u]
      BY <2>1 DEF Locals
    <2>3. /\ pc' \in [Threads -> Labels] /\ pc'[t] = "lock" /\ pc[t] = "move"
          /\ \A u \in Threads \ {t} : pc'[u] = pc[u]
      BY <1>2, PlaceSteps DEF MoveDeadline, Labels, log
    <2>5. QED
      BY <1>0, <1>2, <2>1, <2>2, <2>3 DEF Typed, Goes, Others, counters, bounds
  <1>3. QED
    BY <1>1, <1>2

\* A row begins with the totals of this moment as its floor; when the log is
\* closed there is none.
LEMMA TakeLockStep ==
  ASSUME Typed, NEW t \in Threads, TakeLock(t)
  PROVE  /\ Typed' /\ Others(t) /\ pc[t] = "lock" /\ lock = NoThread
         /\ \/ /\ logOpen /\ lock' = t /\ pc'[t] = "load" /\ SamePurpose(t)
               /\ draft'.shard = 1 /\ draft'.total = NoTraffic /\ draft'.live = NoLive
               /\ draft'.floor = TrafficNow /\ draft'.seen = {LiveNow}
            \/ /\ ~logOpen /\ UNCHANGED <<lock, draft>>
               /\ local[t].purpose = "exit" => pc'[t] = "close" /\ SamePurpose(t)
               /\ local[t].purpose # "exit" => pc'[t] = "idle" /\ local'[t].purpose = "periodic"
         /\ UNCHANGED <<counters, now, deadline, logOpen, previous, rows, tail, bounds, owed>>
  <1>0. /\ UNCHANGED <<counters, now, deadline, logOpen, previous, rows, tail, bounds, owed>>
        /\ pc[t] = "lock" /\ lock = NoThread
    BY DEF TakeLock, log
  <1>1. CASE ~logOpen
    <2>1. /\ pc' \in [Threads -> Labels] /\ local' \in [Threads -> Locals] /\ Others(t)
          /\ local[t].purpose = "exit" => pc'[t] = "close" /\ SamePurpose(t)
          /\ local[t].purpose # "exit" => pc'[t] = "idle" /\ local'[t].purpose = "periodic"
          /\ UNCHANGED <<lock, draft>>
      BY <1>1, EndsRow DEF TakeLock, log
    <2>2. QED
      BY <1>0, <1>1, <2>1 DEF Typed, counters, bounds
  <1>2. CASE logOpen
    <2>1. /\ draft' = Opened(TrafficNow, LiveNow)
          /\ lock' = t /\ UNCHANGED local
      BY <1>2 DEF TakeLock, Opened, log
    <2>2. TrafficNow \in TrafficCounters /\ LiveNow \in LiveCounters
      BY TotalsNow
    <2>3. /\ draft' \in Drafts /\ draft'.shard = 1 /\ draft'.total = NoTraffic
          /\ draft'.live = NoLive /\ draft'.floor = TrafficNow /\ draft'.seen = {LiveNow}
      BY <2>1, <2>2, NewDraft
    <2>4. /\ pc' \in [Threads -> Labels] /\ pc'[t] = "load"
          /\ \A u \in Threads \ {t} : pc'[u] = pc[u]
      BY <1>2, PlaceSteps DEF TakeLock, Labels, log
    <2>5. QED
      BY <1>0, <1>2, <2>1, <2>3, <2>4 DEF Typed, Others, SamePurpose, counters, bounds
  <1>3. QED
    BY <1>1, <1>2

\* A shard is read; after the last the live shards are next, ...
LEMMA LoadTrafficStep ==
  ASSUME Typed, NEW t \in Threads, LoadTraffic(t)
  PROVE  /\ Typed' /\ Others(t) /\ pc[t] = "load" /\ UNCHANGED local
         /\ pc'[t] = IF draft.shard = Shards THEN "loadLive" ELSE "load"
         /\ draft'.shard = NextShard(draft.shard)
         /\ \A f \in {"requested", "allocs"} :
              draft'.total[f] = draft.total[f] + traffic[draft.shard][f]
         /\ draft'.live = draft.live /\ draft'.floor = draft.floor /\ draft'.seen = draft.seen
         /\ UNCHANGED <<counters, now, deadline, lock, logOpen, previous, rows, tail, bounds, owed>>
  <1> DEFINE c == traffic[draft.shard]
  <1>1. /\ draft \in Drafts /\ draft.total \in TrafficCounters /\ c \in TrafficCounters
        /\ draft' = Loaded(draft, c)
    BY DEF LoadTraffic, Typed, Drafts, Loaded, log
  <1> HIDE DEF c
  <1>2. /\ draft' \in Drafts /\ draft'.shard = NextShard(draft.shard)
        /\ draft'.total = Plus(draft.total, c)
        /\ draft'.live = draft.live /\ draft'.floor = draft.floor /\ draft'.seen = draft.seen
    BY <1>1, DraftLoads
  <1>3. \A f \in {"requested", "allocs"} : draft'.total[f] = draft.total[f] + c[f]
    BY <1>1, <1>2, PlusFields
  <1>4. /\ pc' \in [Threads -> Labels] /\ pc[t] = "load"
        /\ pc'[t] = IF draft.shard = Shards THEN "loadLive" ELSE "load"
        /\ \A u \in Threads \ {t} : pc'[u] = pc[u]
    BY PlaceSteps DEF LoadTraffic, Labels, log
  <1>5. UNCHANGED <<counters, now, deadline, lock, logOpen, previous, rows, tail, local, bounds,
                    owed>>
    BY DEF LoadTraffic, log
  <1>6. QED
    BY <1>2, <1>3, <1>4, <1>5 DEF Typed, Others, counters, bounds, c

\* ... and after the last of those the row can be written.
LEMMA LoadLiveStep ==
  ASSUME Typed, NEW t \in Threads, LoadLive(t)
  PROVE  /\ Typed' /\ Others(t) /\ pc[t] = "loadLive" /\ UNCHANGED local
         /\ pc'[t] = IF draft.shard = Shards THEN "write" ELSE "loadLive"
         /\ draft'.shard = NextShard(draft.shard)
         /\ \A f \in {"blocks", "frees"} :
              draft'.live[f] = draft.live[f] + live[draft.shard][f]
         /\ draft'.total = draft.total /\ draft'.floor = draft.floor /\ draft'.seen = draft.seen
         /\ draft'.end = now
         /\ UNCHANGED <<counters, now, deadline, lock, logOpen, previous, rows, tail, bounds, owed>>
  <1> DEFINE c == live[draft.shard]
  <1>1. /\ draft \in Drafts /\ draft.live \in LiveCounters /\ c \in LiveCounters /\ now \in Nat
        /\ draft' = LoadedLive(draft, c, now)
    BY SnapshotAssumption DEF LoadLive, Typed, Drafts, LoadedLive, log
  <1> HIDE DEF c
  <1>2. /\ draft' \in Drafts /\ draft'.shard = NextShard(draft.shard) /\ draft'.end = now
        /\ draft'.live = Plus(draft.live, c)
        /\ draft'.total = draft.total /\ draft'.floor = draft.floor /\ draft'.seen = draft.seen
    BY <1>1, DraftLoadsLive
  <1>3. \A f \in {"blocks", "frees"} : draft'.live[f] = draft.live[f] + c[f]
    BY <1>1, <1>2, PlusFields
  <1>4. /\ pc' \in [Threads -> Labels] /\ pc[t] = "loadLive"
        /\ pc'[t] = IF draft.shard = Shards THEN "write" ELSE "loadLive"
        /\ \A u \in Threads \ {t} : pc'[u] = pc[u]
    BY PlaceSteps DEF LoadLive, Labels, log
  <1>5. UNCHANGED <<counters, now, deadline, lock, logOpen, previous, rows, tail, local, bounds,
                    owed>>
    BY DEF LoadLive, log
  <1>6. QED
    BY <1>2, <1>3, <1>4, <1>5 DEF Typed, Others, counters, bounds, c

\* The row is written or is not; the lock is given back either way.
LEMMA WriteStep ==
  ASSUME Typed, NEW t \in Threads, Write(t)
  PROVE  /\ Typed' /\ Others(t) /\ pc[t] = "write" /\ lock' = NoThread /\ Row(t) \in RowRecords
         /\ \/ Written(t) /\ previous' \in Remembered
            \/ NotWritten
         /\ local[t].purpose = "exit" => pc'[t] = "close" /\ SamePurpose(t)
         /\ local[t].purpose # "exit" => pc'[t] = "idle" /\ local'[t].purpose = "periodic"
         /\ UNCHANGED <<counters, now, deadline, logOpen, owed>>
  <1>1. /\ draft.total \in TrafficCounters /\ draft.live \in LiveCounters /\ draft.end \in Nat
        /\ previous.total \in TrafficCounters /\ previous.frees \in Nat /\ previous.end \in Nat
        /\ draft.live.frees \in Nat /\ draft.live.blocks \in Nat /\ local[t].purpose \in Purposes
    BY DEF Typed, Drafts, Remembered, LiveCounters, Locals
  <1>2. Row(t) \in RowRecords
    BY <1>1, MinusFields DEF Row, RowRecords
  <1>3. (Written(t) /\ previous' \in Remembered) \/ NotWritten
    BY <1>1 DEF Write, Written, Remember, Remembered
  <1>4. /\ rows' \in Seq(RowRecords) /\ tail' \in Tails /\ previous' \in Remembered
        /\ failures' \in Nat
    <2>1. CASE Written(t)
      BY <2>1, <1>1, <1>2 DEF Written, Remember, Remembered, Typed, Tails
    <2>2. CASE NotWritten
      BY <2>2 DEF NotWritten, WriteFails, Typed, Tails
    <2>3. QED
      BY <1>3, <2>1, <2>2
  <1>5. /\ pc' \in [Threads -> Labels] /\ local' \in [Threads -> Locals] /\ Others(t)
        /\ local[t].purpose = "exit" => pc'[t] = "close" /\ SamePurpose(t)
        /\ local[t].purpose # "exit" => pc'[t] = "idle" /\ local'[t].purpose = "periodic"
        /\ pc[t] = "write"
    BY EndsRow DEF Write
  <1>6. lock' = NoThread /\ draft' \in Drafts
    <2>1. NoDraft \in Drafts
      BY SnapshotAssumption
         DEF Drafts, NoDraft, NoTraffic, NoLive, TrafficCounters, LiveCounters, ShardSet
    <2>2. QED
      BY <2>1 DEF Write, Unlock
  <1>7. UNCHANGED <<counters, now, deadline, logOpen, events, asked, owed>>
    BY DEF Write
  <1>8. QED
    BY <1>2, <1>3, <1>4, <1>5, <1>6, <1>7 DEF Typed, counters

\* A part of the row is written, which nothing but the end of the file shows.
LEMMA WritePartStep ==
  ASSUME Typed, NEW t \in Threads, WritePart(t)
  PROVE  /\ Typed' /\ tail = "nothing" /\ tail' = "part"
         /\ UNCHANGED <<counters, now, deadline, lock, logOpen, previous, rows, draft, pc, local,
                        bounds, owed>>
  BY DEF WritePart, Typed, Tails, counters, bounds

\* A row is asked for.
LEMMA AskStep ==
  ASSUME Typed, NEW t \in Threads, Ask(t)
  PROVE  /\ Typed' /\ Goes(t, "idle", "lock") /\ local'[t].purpose = "asked"
         /\ UNCHANGED <<counters, now, deadline, lock, logOpen, previous, rows, tail, draft,
                        failures, owed>>
  <1>1. /\ local \in [Threads -> Locals] /\ "asked" \in Purposes
        /\ local' = [local EXCEPT ![t].purpose = "asked"]
    BY DEF Typed, Ask, Purposes, log
  <1>2. /\ local' \in [Threads -> Locals] /\ local'[t].purpose = "asked"
        /\ \A u \in Threads : u # t => local'[u] = local[u]
    BY <1>1 DEF Locals
  <1>3. /\ pc' \in [Threads -> Labels] /\ pc'[t] = "lock" /\ pc[t] = "idle"
        /\ \A u \in Threads \ {t} : pc'[u] = pc[u]
    BY PlaceSteps DEF Ask, Labels, log
  <1>4. UNCHANGED <<counters, now, deadline, lock, logOpen, previous, rows, tail, draft, failures,
                    owed>>
    BY DEF Ask, log
  <1>5. QED
    BY <1>2, <1>3, <1>4 DEF Typed, Goes, Others, counters

\* One thread exits and owes a row with what has been counted.
LEMMA ExitStep ==
  ASSUME Typed, NEW t \in Threads, Exit(t)
  PROVE  /\ Typed' /\ Goes(t, "idle", "lock") /\ local'[t].purpose = "exit"
         /\ owed' = TrafficNow /\ \A u \in Threads : local[u].purpose # "exit"
         /\ UNCHANGED <<counters, now, deadline, lock, logOpen, previous, rows, tail, draft,
                        bounds>>
  <1>1. /\ local \in [Threads -> Locals] /\ "exit" \in Purposes
        /\ local' = [local EXCEPT ![t].purpose = "exit"]
        /\ owed' = TrafficNow /\ \A u \in Threads : local[u].purpose # "exit"
    BY DEF Typed, Exit, Purposes, log
  <1>2. /\ local' \in [Threads -> Locals] /\ local'[t].purpose = "exit"
        /\ \A u \in Threads : u # t => local'[u] = local[u]
    BY <1>1 DEF Locals
  <1>3. /\ pc' \in [Threads -> Labels] /\ pc'[t] = "lock" /\ pc[t] = "idle"
        /\ \A u \in Threads \ {t} : pc'[u] = pc[u]
    BY PlaceSteps DEF Exit, Labels, log
  <1>4. UNCHANGED <<counters, now, deadline, lock, logOpen, previous, rows, tail, draft, bounds>>
    BY DEF Exit, log
  <1>5. owed' \in TrafficCounters
    BY <1>1, TotalsNow
  <1>6. QED
    BY <1>1, <1>2, <1>3, <1>4, <1>5 DEF Typed, Goes, Others, counters, bounds

\* The log is closed.
LEMMA CloseStep ==
  ASSUME Typed, NEW t \in Threads, Close(t)
  PROVE  /\ Typed' /\ Goes(t, "close", "gone") /\ UNCHANGED local /\ logOpen' = FALSE
         /\ UNCHANGED <<counters, now, deadline, lock, previous, rows, tail, draft, bounds, owed>>
  BY PlaceSteps DEF Close, Typed, counters, bounds, Labels, Goes, Others, log

------------------------------------------------------------------------------
(* The steps that do not work on a row *)

\* Nothing of the snapshot moves, but counters and the clock may.
Calm ==
  /\ UNCHANGED <<lock, previous, rows>> /\ SameDraft /\ now <= now' /\ CountersGrow
  /\ \A t \in Threads : InSnapshot(t) \/ InSnapshot(t)' => pc'[t] = pc[t]

\* A thread begins a row.
Begins(t) == TakeLock(t) /\ logOpen

\* A live event never takes back a free.
LEMMA LiveEventGrows ==
  ASSUME Typed, Typed', LiveEvent, UNCHANGED traffic
  PROVE  CountersGrow
  <1>1. /\ traffic \in [ShardSet -> TrafficCounters] /\ live \in [ShardSet -> LiveCounters]
        /\ live' \in [ShardSet -> LiveCounters] /\ traffic' = traffic
    BY DEF Typed
  <1>2. PICK s \in ShardSet :
          /\ \/ live'[s].blocks = live[s].blocks + 1 /\ live'[s].frees = live[s].frees
             \/ live'[s].blocks = live[s].blocks - 1 /\ live'[s].frees = live[s].frees + 1
          /\ \A u \in ShardSet : u # s => live'[u] = live[u]
    BY DEF LiveEvent
  <1>3. \A u \in ShardSet : live[u].frees <= live'[u].frees
    BY <1>1, <1>2 DEF LiveCounters
  <1>4. QED
    BY <1>1, <1>3 DEF CountersGrow, TrafficCounters

\* ... and counters that stay do not fall.
LEMMA SameCounters ==
  ASSUME Typed, UNCHANGED counters
  PROVE  CountersGrow
  BY DEF Typed, counters, CountersGrow, TrafficCounters, LiveCounters

\* Every step is calm, or one of the four that write a row.
LEMMA CalmSteps ==
  ASSUME Typed, Next
  PROVE  /\ Typed'
         /\ Calm \/ \E t \in Threads : Begins(t) \/ LoadTraffic(t) \/ LoadLive(t) \/ Write(t)
  <1>0. now \in Int
    BY SnapshotAssumption DEF Typed
  <1>a. UNCHANGED draft => SameDraft
    BY DEF SameDraft
  <1>b. ASSUME NEW t \in Threads, Others(t), ~InSnapshot(t),
               pc'[t] \notin {"load", "loadLive", "write"}
        PROVE  \A u \in Threads : InSnapshot(u) \/ InSnapshot(u)' => pc'[u] = pc[u]
    BY <1>b DEF Others, InSnapshot
  <1>1. CASE Tick
    BY <1>0, <1>1, <1>a, TickStep, SameCounters DEF Calm, counters
  <1>2. ASSUME NEW t \in Threads, Allocate(t)
        PROVE  Typed' /\ Calm
    BY <1>0, <1>2, <1>a, <1>b, AllocateStep DEF Calm, Goes, InSnapshot
  <1>3. ASSUME NEW t \in Threads, Free(t)
        PROVE  Typed' /\ Calm
    BY <1>0, <1>3, <1>b, FreeStep, LiveEventGrows DEF Calm, Goes, InSnapshot
  <1>4. ASSUME NEW t \in Threads, Ask(t)
        PROVE  Typed' /\ Calm
    BY <1>0, <1>4, <1>a, <1>b, AskStep, SameCounters DEF Calm, Goes, InSnapshot
  <1>5. ASSUME NEW t \in Threads, Exit(t)
        PROVE  Typed' /\ Calm
    BY <1>0, <1>5, <1>a, <1>b, ExitStep, SameCounters DEF Calm, Goes, InSnapshot
  <1>6. ASSUME NEW t \in Threads, CountAllocation(t)
        PROVE  Typed' /\ Calm
    BY <1>0, <1>6, <1>a, <1>b, CountAllocationStep DEF Calm, Goes, InSnapshot
  <1>7. ASSUME NEW t \in Threads, TrackAllocation(t)
        PROVE  Typed' /\ Calm
    BY <1>0, <1>7, <1>b, TrackAllocationStep, LiveEventGrows DEF Calm, Goes, InSnapshot
  <1>8. ASSUME NEW t \in Threads, SkipClock(t)
        PROVE  Typed' /\ Calm
    BY <1>0, <1>8, <1>a, <1>b, SkipClockStep, SameCounters DEF Calm, Goes, InSnapshot
  <1>9. ASSUME NEW t \in Threads, ReadClock(t)
        PROVE  Typed' /\ Calm
    BY <1>0, <1>9, <1>a, <1>b, ReadClockStep, SameCounters DEF Calm, Goes, InSnapshot
  <1>10. ASSUME NEW t \in Threads, ReadDeadline(t)
         PROVE  Typed' /\ Calm
    BY <1>0, <1>10, <1>a, <1>b, ReadDeadlineStep, SameCounters DEF Calm, Goes, InSnapshot
  <1>11. ASSUME NEW t \in Threads, MoveDeadline(t)
         PROVE  Typed' /\ Calm
    BY <1>0, <1>11, <1>a, <1>b, MoveDeadlineStep, SameCounters DEF Calm, Goes, InSnapshot
  <1>12. ASSUME NEW t \in Threads, TakeLock(t)
         PROVE  Typed' /\ (Calm \/ Begins(t))
    <2>1. CASE logOpen
      BY <1>12, <2>1, TakeLockStep DEF Begins
    <2>2. CASE ~logOpen
      <3>1. /\ Typed' /\ UNCHANGED <<lock, draft, counters, now, previous, rows>> /\ Others(t)
            /\ pc[t] = "lock" /\ pc'[t] \in {"close", "idle"}
        BY <1>12, <2>2, TakeLockStep
      <3>2. QED
        BY <1>0, <3>1, <1>a, <1>b, SameCounters DEF Calm, InSnapshot
    <2>3. QED
      BY <2>1, <2>2
  <1>13. ASSUME NEW t \in Threads, Close(t)
         PROVE  Typed' /\ Calm
    <2>1. /\ Typed' /\ UNCHANGED <<lock, draft, counters, now, previous, rows>> /\ Others(t)
          /\ pc[t] = "close" /\ pc'[t] = "gone"
      BY <1>13, CloseStep DEF Goes
    <2>2. QED
      BY <1>0, <2>1, <1>a, <1>b, SameCounters DEF Calm, InSnapshot
  <1>14. ASSUME NEW t \in Threads, LoadTraffic(t) \/ LoadLive(t) \/ Write(t)
         PROVE  Typed'
    BY <1>14, LoadTrafficStep, LoadLiveStep, WriteStep
  <1>15. ASSUME NEW t \in Threads, WritePart(t)
         PROVE  Typed' /\ Calm
    BY <1>0, <1>15, <1>a, WritePartStep, SameCounters DEF Calm, counters, InSnapshot
  <1>16. QED
    BY <1>1, <1>2, <1>3, <1>4, <1>5, <1>6, <1>7, <1>8, <1>9, <1>10, <1>11, <1>12, <1>13, <1>14,
       <1>15 DEF Next, Proceed

\* The sums of the counters of this state and the next.
LEMMA TrafficSums ==
  ASSUME Typed, NEW f \in {"requested", "allocs"}
  PROVE  /\ \A s \in ShardSet : traffic[s][f] \in Nat
         /\ Total(traffic, f) \in Nat /\ Before(traffic, f, 1) = 0
         /\ From(traffic, f, 1) = Total(traffic, f)
         /\ \A k \in ShardSet :
              /\ Before(traffic, f, k) \in Nat /\ From(traffic, f, k) \in Nat
              /\ Before(traffic, f, k + 1) = Before(traffic, f, k) + traffic[k][f]
              /\ k # Shards => From(traffic, f, k) = traffic[k][f] + From(traffic, f, k + 1)
              /\ k = Shards => From(traffic, f, k) = traffic[k][f]
         /\ Before(traffic, f, Shards + 1) = Total(traffic, f)
  <1>1. \A s \in ShardSet : traffic[s][f] \in Nat
    BY DEF Typed, TrafficCounters
  <1>2. QED
    BY <1>1, ShardSums

\* The same sums of the live counters.
LEMMA LiveSums ==
  ASSUME Typed, NEW f \in {"blocks", "frees"}
  PROVE  /\ \A s \in ShardSet : live[s][f] \in Nat
         /\ Total(live, f) \in Nat /\ Before(live, f, 1) = 0
         /\ From(live, f, 1) = Total(live, f)
         /\ \A k \in ShardSet :
              /\ Before(live, f, k) \in Nat /\ From(live, f, k) \in Nat
              /\ Before(live, f, k + 1) = Before(live, f, k) + live[k][f]
              /\ k # Shards => From(live, f, k) = live[k][f] + From(live, f, k + 1)
              /\ k = Shards => From(live, f, k) = live[k][f]
         /\ Before(live, f, Shards + 1) = Total(live, f)
  <1>1. ASSUME NEW s \in ShardSet
        PROVE  live[s][f] \in Nat
    <2>1. live[s] \in LiveCounters
      BY DEF Typed
    <2>2. live[s].blocks \in Nat /\ live[s].frees \in Nat
      BY <2>1 DEF LiveCounters
    <2>3. QED
      BY <2>2
  <1>2. QED
    BY <1>1, ShardSums

\* None of them falls.
LEMMA SumsGrow ==
  ASSUME Typed, Typed', CountersGrow
  PROVE  /\ \A f \in {"requested", "allocs"} :
              /\ Total(traffic, f) \in Nat /\ Total(traffic, f)' \in Nat
              /\ Total(traffic, f) <= Total(traffic, f)'
              /\ \A k \in ShardSet :
                   /\ Before(traffic, f, k) \in Nat /\ Before(traffic, f, k)' \in Nat
                   /\ From(traffic, f, k) \in Nat /\ From(traffic, f, k)' \in Nat
                   /\ Before(traffic, f, k) <= Before(traffic, f, k)'
                   /\ From(traffic, f, k) <= From(traffic, f, k)'
         /\ Total(live, "frees") \in Nat /\ Total(live, "frees")' \in Nat
         /\ Total(live, "frees") <= Total(live, "frees")'
         /\ \A k \in ShardSet :
              /\ Before(live, "frees", k) \in Nat /\ Before(live, "frees", k)' \in Nat
              /\ From(live, "frees", k) \in Nat /\ From(live, "frees", k)' \in Nat
              /\ Before(live, "frees", k) <= Before(live, "frees", k)'
              /\ From(live, "frees", k) <= From(live, "frees", k)'
  <1>1. ASSUME NEW f \in {"requested", "allocs"}
        PROVE  /\ Total(traffic, f) \in Nat /\ Total(traffic, f)' \in Nat
               /\ Total(traffic, f) <= Total(traffic, f)'
               /\ \A k \in ShardSet :
                    /\ Before(traffic, f, k) \in Nat /\ Before(traffic, f, k)' \in Nat
                    /\ From(traffic, f, k) \in Nat /\ From(traffic, f, k)' \in Nat
                    /\ Before(traffic, f, k) <= Before(traffic, f, k)'
                    /\ From(traffic, f, k) <= From(traffic, f, k)'
    <2>1. \A s \in ShardSet :
            traffic[s][f] \in Nat /\ traffic'[s][f] \in Nat /\ traffic[s][f] <= traffic'[s][f]
      BY DEF Typed, TrafficCounters, CountersGrow
    <2>2. /\ Total(traffic, f) <= Total(traffic', f)
          /\ \A k \in ShardSet : /\ Before(traffic, f, k) <= Before(traffic', f, k)
                                 /\ From(traffic, f, k) <= From(traffic', f, k)
      BY <2>1, ShardSumsGrow
    <2>3. /\ Total(traffic, f) \in Nat
          /\ \A k \in ShardSet : Before(traffic, f, k) \in Nat /\ From(traffic, f, k) \in Nat
      BY <2>1, ShardSums
    <2>4. /\ Total(traffic', f) \in Nat
          /\ \A k \in ShardSet : Before(traffic', f, k) \in Nat /\ From(traffic', f, k) \in Nat
      BY <2>1, ShardSums
    <2>5. QED
      BY <2>2, <2>3, <2>4
  <1>2. /\ Total(live, "frees") \in Nat /\ Total(live, "frees")' \in Nat
        /\ Total(live, "frees") <= Total(live, "frees")'
        /\ \A k \in ShardSet :
             /\ Before(live, "frees", k) \in Nat /\ Before(live, "frees", k)' \in Nat
             /\ From(live, "frees", k) \in Nat /\ From(live, "frees", k)' \in Nat
             /\ Before(live, "frees", k) <= Before(live, "frees", k)'
             /\ From(live, "frees", k) <= From(live, "frees", k)'
    <2>1. \A s \in ShardSet : /\ live[s]["frees"] \in Nat /\ live'[s]["frees"] \in Nat
                              /\ live[s]["frees"] <= live'[s]["frees"]
      BY DEF Typed, LiveCounters, CountersGrow
    <2>2. /\ Total(live, "frees") <= Total(live', "frees")
          /\ \A k \in ShardSet : /\ Before(live, "frees", k) <= Before(live', "frees", k)
                                 /\ From(live, "frees", k) <= From(live', "frees", k)
      BY <2>1, ShardSumsGrow
    <2>3. /\ Total(live, "frees") \in Nat
          /\ \A k \in ShardSet : Before(live, "frees", k) \in Nat /\ From(live, "frees", k) \in Nat
      BY <2>1, ShardSums
    <2>4. /\ Total(live', "frees") \in Nat
          /\ \A k \in ShardSet :
               Before(live', "frees", k) \in Nat /\ From(live', "frees", k) \in Nat
      BY <2>1, ShardSums
    <2>5. QED
      BY <2>2, <2>3, <2>4
  <1>3. QED
    BY <1>1, <1>2

------------------------------------------------------------------------------
(* The invariant of the rows *)

Fields == {"requested", "allocs"}

\* The numbers of the draft, of what is remembered and of the events.
LEMMA Numbers ==
  ASSUME Typed
  PROVE  /\ draft.shard \in ShardSet /\ draft.end \in Nat /\ previous.end \in Nat /\ now \in Nat
         /\ previous.frees \in Nat /\ draft.live["frees"] \in Nat /\ draft.live["blocks"] \in Nat
         /\ draft.live.frees = draft.live["frees"]
         /\ \A f \in Fields :
              /\ draft.total[f] \in Nat /\ draft.floor[f] \in Nat /\ previous.total[f] \in Nat
              /\ owed[f] \in Nat
         /\ draft.total \in TrafficCounters /\ previous.total \in TrafficCounters
         /\ draft.live \in LiveCounters
<1>1. /\ draft \in Drafts /\ previous \in Remembered /\ now \in Nat
      /\ owed \in TrafficCounters
  BY DEF Typed
<1>2. /\ draft.shard \in ShardSet /\ draft.end \in Nat
      /\ draft.total \in TrafficCounters /\ draft.floor \in TrafficCounters
      /\ draft.live \in LiveCounters
  BY <1>1 DEF Drafts
<1>3. previous.end \in Nat /\ previous.frees \in Nat /\ previous.total \in TrafficCounters
  BY <1>1 DEF Remembered
<1>4. /\ draft.live["frees"] \in Nat /\ draft.live["blocks"] \in Nat
      /\ draft.live.frees = draft.live["frees"]
  BY <1>2 DEF LiveCounters
<1>5. \A f \in Fields :
        /\ draft.total[f] \in Nat /\ draft.floor[f] \in Nat /\ previous.total[f] \in Nat
        /\ owed[f] \in Nat
  BY <1>1, <1>2, <1>3 DEF TrafficCounters, Fields
<1>6. QED
  BY <1>1, <1>2, <1>3, <1>4, <1>5

\* What a row under construction and the rows of the log have to satisfy.
RowInv ==
  /\ LockHeld /\ LastRemembered /\ RowsChain /\ RowsGrow /\ TimeGoesOn
  /\ \A f \in Fields : Counted(f)
  /\ FreesCounted

\* A calm step keeps the invariant of the rows: counters grow under the row that
\* is read.
LEMMA CalmKeepsRows ==
  ASSUME Typed, Typed', Calm, RowInv
  PROVE  RowInv'
  <1>0. /\ draft'.shard = draft.shard /\ draft'.total = draft.total /\ draft'.live = draft.live
        /\ draft'.end = draft.end /\ draft'.floor = draft.floor
        /\ lock' = lock /\ previous' = previous /\ rows' = rows
        /\ \A t \in Threads : InSnapshot(t) \/ InSnapshot(t)' => pc'[t] = pc[t]
    BY DEF Calm, SameDraft
  <1>a. \A t \in Threads : \A label \in {"load", "loadLive", "write"} :
          pc'[t] = label => pc[t] = label
    BY <1>0 DEF InSnapshot
  <1>1. LockHeld'
    BY <1>0 DEF RowInv, LockHeld, InSnapshot
  <1>2. LastRemembered' /\ RowsChain' /\ RowsGrow'
    BY <1>0 DEF RowInv, LastRemembered, RowsChain, RowsGrow
  <1>3. TimeGoesOn'
    <2>1. now \in Nat /\ now' \in Nat /\ now <= now' /\ previous.end \in Nat /\ draft.end \in Nat
      BY Numbers, SnapshotAssumption DEF Calm, Typed
    <2>2. QED
      BY <1>0, <1>a, <2>1 DEF RowInv, TimeGoesOn
  <1>4. ASSUME NEW f \in Fields
        PROVE  Counted(f)'
    <2>1. /\ draft.shard \in ShardSet /\ draft.total[f] \in Nat /\ draft.floor[f] \in Nat
          /\ previous.total[f] \in Nat
      BY Numbers
    <2>2. /\ Total(traffic, f) \in Nat /\ Total(traffic', f) \in Nat
          /\ Total(traffic, f) <= Total(traffic', f)
          /\ Before(traffic, f, draft.shard) \in Nat /\ Before(traffic', f, draft.shard) \in Nat
          /\ From(traffic, f, draft.shard) \in Nat /\ From(traffic', f, draft.shard) \in Nat
          /\ Before(traffic, f, draft.shard) <= Before(traffic', f, draft.shard)
          /\ From(traffic, f, draft.shard) <= From(traffic', f, draft.shard)
      BY <2>1, SumsGrow DEF Calm, Fields
    <2>3. Counted(f)
      BY DEF RowInv
    <2>4. QED
      BY <1>0, <1>a, <2>1, <2>2, <2>3 DEF Counted, InSnapshot
  <1>5. FreesCounted'
    <2>1. draft.shard \in ShardSet /\ draft.live["frees"] \in Nat /\ previous.frees \in Nat
          /\ draft.live.frees = draft.live["frees"]
      BY Numbers
    <2>2. /\ Total(live, "frees") \in Nat /\ Total(live', "frees") \in Nat
          /\ Total(live, "frees") <= Total(live', "frees")
          /\ Before(live, "frees", draft.shard) \in Nat
          /\ Before(live', "frees", draft.shard) \in Nat
          /\ From(live, "frees", draft.shard) \in Nat /\ From(live', "frees", draft.shard) \in Nat
          /\ Before(live, "frees", draft.shard) <= Before(live', "frees", draft.shard)
          /\ From(live, "frees", draft.shard) <= From(live', "frees", draft.shard)
      BY <2>1, SumsGrow DEF Calm
    <2>3. QED
      BY <1>0, <1>a, <2>1, <2>2 DEF RowInv, FreesCounted
  <1>6. QED
    BY <1>1, <1>2, <1>3, <1>4, <1>5 DEF RowInv

\* While a thread works on a row no other does.
LEMMA OneWriter ==
  ASSUME Typed, RowInv, NEW t \in Threads, InSnapshot(t)
  PROVE  lock = t /\ \A u \in Threads \ {t} : ~InSnapshot(u)
  BY DEF RowInv, LockHeld

\* A new row has nothing read and its floor still to be read.
LEMMA BeginKeepsRows ==
  ASSUME Typed, RowInv, NEW t \in Threads, Begins(t)
  PROVE  RowInv'
  <1>0. /\ Typed' /\ Others(t) /\ pc[t] = "lock" /\ lock = NoThread
        /\ lock' = t /\ pc'[t] = "load"
        /\ draft'.shard = 1 /\ draft'.total = NoTraffic /\ draft'.live = NoLive
        /\ draft'.floor = TrafficNow
        /\ traffic' = traffic /\ live' = live /\ now' = now
        /\ previous' = previous /\ rows' = rows
    BY TakeLockStep DEF Begins, counters
  <1>a. \A u \in Threads : ~InSnapshot(u)
    BY <1>0, SnapshotAssumption DEF RowInv, LockHeld
  <1>b. \A u \in Threads : InSnapshot(u)' => u = t
    BY <1>0, <1>a DEF Others, InSnapshot
  <1>1. LockHeld'
    BY <1>0, <1>b DEF LockHeld
  <1>2. LastRemembered' /\ RowsChain' /\ RowsGrow'
    BY <1>0 DEF RowInv, LastRemembered, RowsChain, RowsGrow
  <1>3. TimeGoesOn'
    BY <1>0, <1>b DEF RowInv, TimeGoesOn, InSnapshot
  <1>4. ASSUME NEW f \in Fields
        PROVE  Counted(f)'
    <2>1. /\ Total(traffic, f) \in Nat /\ Before(traffic, f, 1) = 0
          /\ From(traffic, f, 1) = Total(traffic, f)
      BY TrafficSums DEF Fields
    <2>2. NoTraffic[f] = 0 /\ TrafficNow[f] = Total(traffic, f) /\ previous.total[f] \in Nat
      BY TotalsNow, Numbers DEF Fields, NoTraffic
    <2>3. previous.total[f] <= Total(traffic, f)
      BY DEF RowInv, Counted
    <2>4. QED
      BY <1>0, <1>b, <2>1, <2>2, <2>3 DEF Counted, InSnapshot
  <1>5. FreesCounted'
    BY <1>0, <1>b DEF RowInv, FreesCounted, InSnapshot
  <1>6. QED
    BY <1>1, <1>2, <1>3, <1>4, <1>5 DEF RowInv

\* A shard that is read goes from what is to be read to what has been read.
LEMMA LoadTrafficKeepsRows ==
  ASSUME Typed, RowInv, NEW t \in Threads, LoadTraffic(t)
  PROVE  RowInv'
  <1>0. /\ Typed' /\ Others(t) /\ pc[t] = "load"
        /\ pc'[t] = IF draft.shard = Shards THEN "loadLive" ELSE "load"
        /\ draft'.shard = NextShard(draft.shard)
        /\ \A f \in Fields : draft'.total[f] = draft.total[f] + traffic[draft.shard][f]
        /\ draft'.live = draft.live /\ draft'.floor = draft.floor
        /\ traffic' = traffic /\ live' = live /\ now' = now /\ lock' = lock
        /\ previous' = previous /\ rows' = rows
    BY LoadTrafficStep DEF counters, Fields
  <1>a. InSnapshot(t) /\ lock = t /\ \A u \in Threads \ {t} : ~InSnapshot(u)
    BY <1>0, OneWriter DEF InSnapshot
  <1>b. \A u \in Threads : InSnapshot(u)' => u = t
    BY <1>0, <1>a DEF Others, InSnapshot
  <1>1. LockHeld'
    BY <1>0, <1>a, <1>b DEF LockHeld
  <1>2. LastRemembered' /\ RowsChain' /\ RowsGrow'
    BY <1>0 DEF RowInv, LastRemembered, RowsChain, RowsGrow
  <1>3. TimeGoesOn'
    BY <1>0, <1>b DEF RowInv, TimeGoesOn, InSnapshot
  <1>4. ASSUME NEW f \in Fields
        PROVE  Counted(f)'
    <2> DEFINE k == draft.shard
    <2>1. /\ k \in ShardSet /\ draft.total[f] \in Nat /\ draft.floor[f] \in Nat
          /\ previous.total[f] \in Nat
      BY Numbers
    <2>2. /\ traffic[k][f] \in Nat /\ Total(traffic, f) \in Nat
          /\ Before(traffic, f, k) \in Nat /\ From(traffic, f, k) \in Nat
          /\ Before(traffic, f, k + 1) = Before(traffic, f, k) + traffic[k][f]
          /\ k # Shards => From(traffic, f, k) = traffic[k][f] + From(traffic, f, k + 1)
          /\ k = Shards => From(traffic, f, k) = traffic[k][f]
          /\ Before(traffic, f, Shards + 1) = Total(traffic, f)
      BY <2>1, TrafficSums DEF Fields
    <2>3. /\ previous.total[f] <= Total(traffic, f) /\ previous.total[f] <= draft.floor[f]
          /\ draft.total[f] <= Before(traffic, f, k)
          /\ draft.floor[f] <= draft.total[f] + From(traffic, f, k)
      BY <1>0, <1>a DEF RowInv, Counted
    <2>4. draft'.total[f] = draft.total[f] + traffic[k][f]
      BY <1>0
    <2> HIDE DEF k
    <2>5. CASE k = Shards
      <3>1. pc'[t] = "loadLive"
        BY <1>0, <2>5 DEF k
      <3>2. draft.floor[f] <= draft'.total[f] /\ draft'.total[f] <= Total(traffic, f)
        BY <2>1, <2>2, <2>3, <2>4, <2>5
      <3>3. QED
        BY <1>0, <1>b, <2>3, <3>1, <3>2 DEF Counted, InSnapshot
    <2>6. CASE k # Shards
      <3>1. pc'[t] = "load" /\ draft'.shard = k + 1
        BY <1>0, <2>6 DEF k, NextShard
      <3>2. k + 1 \in ShardSet
        BY <2>1, <2>6, SnapshotAssumption DEF ShardSet
      <3>3. From(traffic, f, k + 1) \in Nat
        BY <3>2, TrafficSums DEF Fields
      <3>4. /\ draft'.total[f] <= Before(traffic, f, k + 1)
            /\ draft.floor[f] <= draft'.total[f] + From(traffic, f, k + 1)
        BY <2>1, <2>2, <2>3, <2>4, <2>6, <3>3
      <3>5. QED
        BY <1>0, <1>b, <2>3, <3>1, <3>4 DEF Counted, InSnapshot
    <2>7. QED
      BY <2>5, <2>6
  <1>5. FreesCounted'
    <2>1. /\ draft.live = NoLive /\ previous.frees <= Total(live, "frees")
      BY <1>0, <1>a DEF RowInv, FreesCounted
    <2>2. /\ Total(live, "frees") \in Nat /\ Before(live, "frees", 1) = 0
          /\ From(live, "frees", 1) = Total(live, "frees")
      BY LiveSums
    <2>3. pc'[t] = "loadLive" => draft'.shard = 1
      BY <1>0 DEF NextShard
    <2>4. NoLive.frees = 0 /\ previous.frees \in Nat
      BY Numbers DEF NoLive
    <2>5. pc'[t] \in {"load", "loadLive"}
      BY <1>0
    <2>6. QED
      BY <1>0, <1>b, <2>1, <2>2, <2>3, <2>4, <2>5 DEF FreesCounted, InSnapshot
  <1>6. QED
    BY <1>1, <1>2, <1>3, <1>4, <1>5 DEF RowInv

\* The live shards are read in the same way.
LEMMA LoadLiveKeepsRows ==
  ASSUME Typed, RowInv, NEW t \in Threads, LoadLive(t)
  PROVE  RowInv'
  <1>0. /\ Typed' /\ Others(t) /\ pc[t] = "loadLive"
        /\ pc'[t] = IF draft.shard = Shards THEN "write" ELSE "loadLive"
        /\ draft'.shard = NextShard(draft.shard)
        /\ draft'.live["frees"] = draft.live["frees"] + live[draft.shard]["frees"]
        /\ draft'.total = draft.total /\ draft'.floor = draft.floor /\ draft'.end = now
        /\ traffic' = traffic /\ live' = live /\ now' = now /\ lock' = lock
        /\ previous' = previous /\ rows' = rows
    BY LoadLiveStep DEF counters
  <1>a. InSnapshot(t) /\ lock = t /\ \A u \in Threads \ {t} : ~InSnapshot(u)
    BY <1>0, OneWriter DEF InSnapshot
  <1>b. \A u \in Threads : InSnapshot(u)' => u = t
    BY <1>0, <1>a DEF Others, InSnapshot
  <1>c. pc'[t] \in {"loadLive", "write"}
    BY <1>0
  <1>1. LockHeld'
    BY <1>0, <1>a, <1>b DEF LockHeld
  <1>2. LastRemembered' /\ RowsChain' /\ RowsGrow'
    BY <1>0 DEF RowInv, LastRemembered, RowsChain, RowsGrow
  <1>3. TimeGoesOn'
    BY <1>0, <1>b, Numbers DEF RowInv, TimeGoesOn, InSnapshot
  <1>4. ASSUME NEW f \in Fields
        PROVE  Counted(f)'
    BY <1>0, <1>a, <1>b, <1>c DEF RowInv, Counted, InSnapshot
  <1>5. FreesCounted'
    <2> DEFINE k == draft.shard
    <2>1. /\ k \in ShardSet /\ draft.live["frees"] \in Nat /\ previous.frees \in Nat
          /\ draft.live.frees = draft.live["frees"] /\ draft'.live.frees = draft'.live["frees"]
      BY <1>0, Numbers
    <2>2. /\ live[k]["frees"] \in Nat /\ Total(live, "frees") \in Nat
          /\ Before(live, "frees", k) \in Nat /\ From(live, "frees", k) \in Nat
          /\ Before(live, "frees", k + 1) = Before(live, "frees", k) + live[k]["frees"]
          /\ k # Shards => From(live, "frees", k) = live[k]["frees"] + From(live, "frees", k + 1)
          /\ k = Shards => From(live, "frees", k) = live[k]["frees"]
          /\ Before(live, "frees", Shards + 1) = Total(live, "frees")
      BY <2>1, LiveSums
    <2>3. /\ previous.frees <= Total(live, "frees")
          /\ draft.live.frees <= Before(live, "frees", k)
          /\ previous.frees <= draft.live.frees + From(live, "frees", k)
      BY <1>0, <1>a DEF RowInv, FreesCounted
    <2>4. draft'.live.frees = draft.live.frees + live[k]["frees"]
      BY <1>0, <2>1
    <2> HIDE DEF k
    <2>5. CASE k = Shards
      <3>1. pc'[t] = "write"
        BY <1>0, <2>5 DEF k
      <3>2. previous.frees <= draft'.live.frees /\ draft'.live.frees <= Total(live, "frees")
        BY <2>1, <2>2, <2>3, <2>4, <2>5
      <3>3. QED
        BY <1>0, <1>b, <2>3, <3>1, <3>2 DEF FreesCounted, InSnapshot
    <2>6. CASE k # Shards
      <3>1. pc'[t] = "loadLive" /\ draft'.shard = k + 1
        BY <1>0, <2>6 DEF k, NextShard
      <3>2. k + 1 \in ShardSet
        BY <2>1, <2>6, SnapshotAssumption DEF ShardSet
      <3>3. From(live, "frees", k + 1) \in Nat
        BY <3>2, LiveSums
      <3>4. /\ draft'.live.frees <= Before(live, "frees", k + 1)
            /\ previous.frees <= draft'.live.frees + From(live, "frees", k + 1)
        BY <2>1, <2>2, <2>3, <2>4, <2>6, <3>3
      <3>5. QED
        BY <1>0, <1>b, <2>3, <3>1, <3>4 DEF FreesCounted, InSnapshot
    <2>7. QED
      BY <2>5, <2>6
  <1>6. QED
    BY <1>1, <1>2, <1>3, <1>4, <1>5 DEF RowInv

\* A row that is written continues the last one.
LEMMA NewRow ==
  ASSUME Typed, RowInv, NEW t \in Threads, pc[t] = "write"
  PROVE  /\ Row(t).start = previous.end /\ Row(t).start <= Row(t).end
         /\ Row(t).period = Minus(Row(t).total, previous.total)
         /\ Row(t).periodFrees = Row(t).frees - previous.frees
         /\ AtLeast(Row(t).period, NoTraffic) /\ Row(t).periodFrees >= 0
         /\ Row(t).total = draft.total /\ Row(t).frees = draft.live.frees
         /\ Row(t).end = draft.end /\ Row(t).purpose = local[t].purpose
         /\ draft.end <= now
         /\ \A f \in Fields :
              /\ draft.floor[f] <= draft.total[f] /\ previous.total[f] <= draft.total[f]
              /\ draft.total[f] <= Total(traffic, f)
         /\ draft.live.frees <= Total(live, "frees")
  <1>1. /\ Row(t).start = previous.end /\ Row(t).end = draft.end
        /\ Row(t).period = Minus(draft.total, previous.total)
        /\ Row(t).periodFrees = draft.live.frees - previous.frees
        /\ Row(t).total = draft.total /\ Row(t).frees = draft.live.frees
        /\ Row(t).purpose = local[t].purpose
    BY DEF Row
  <1>2. ASSUME NEW f \in Fields
        PROVE  /\ draft.floor[f] <= draft.total[f] /\ previous.total[f] <= draft.total[f]
               /\ draft.total[f] <= Total(traffic, f)
    <2>1. /\ draft.floor[f] <= draft.total[f] /\ previous.total[f] <= draft.floor[f]
          /\ draft.total[f] <= Total(traffic, f)
      BY DEF RowInv, Counted, InSnapshot
    <2>2. draft.floor[f] \in Nat /\ draft.total[f] \in Nat /\ previous.total[f] \in Nat
      BY Numbers
    <2>3. QED
      BY <2>1, <2>2
  <1>3. AtLeast(Minus(draft.total, previous.total), NoTraffic)
    BY <1>2, Numbers, MinusFields DEF Fields
  <1>4. previous.frees <= draft.live.frees /\ draft.live.frees <= Total(live, "frees")
    BY DEF RowInv, FreesCounted
  <1>5. previous.end <= draft.end /\ draft.end <= now
    BY DEF RowInv, TimeGoesOn
  <1>6. QED
    BY <1>1, <1>2, <1>3, <1>4, <1>5, Numbers

\* Totals that are not below each other, from row to row.
LEMMA LaterRows ==
  \A a, b, c \in TrafficCounters :
    /\ AtLeast(a, a)
    /\ AtLeast(a, b) /\ AtLeast(b, c) => AtLeast(a, c)
  BY DEF AtLeast, TrafficCounters

\* What is written is remembered, and nothing else is.
LEMMA WriteKeepsRows ==
  ASSUME Typed, RowInv, NEW t \in Threads, Write(t)
  PROVE  RowInv'
  <1>0. /\ Typed' /\ Others(t) /\ pc[t] = "write" /\ lock' = NoThread
        /\ (Written(t) /\ previous' \in Remembered) \/ NotWritten
        /\ pc'[t] \in {"close", "idle"}
        /\ traffic' = traffic /\ live' = live /\ now' = now
    BY WriteStep DEF counters
  <1>a. InSnapshot(t) /\ lock = t /\ \A u \in Threads \ {t} : ~InSnapshot(u)
    BY <1>0, OneWriter DEF InSnapshot
  <1>b. \A u \in Threads : ~InSnapshot(u)'
    BY <1>0, <1>a DEF Others, InSnapshot
  <1>1. LockHeld'
    BY <1>b DEF LockHeld
  <1>2. CASE NotWritten
    <2>1. rows' = rows /\ previous' = previous
      BY <1>2 DEF NotWritten, WriteFails
    <2>2. QED
      BY <1>0, <1>1, <1>b, <2>1
         DEF RowInv, LastRemembered, RowsChain, RowsGrow, TimeGoesOn, Counted, FreesCounted,
             InSnapshot
  <1>3. CASE Written(t) /\ previous' \in Remembered
    <2> DEFINE r == Row(t)
    <2>0. /\ r.start = previous.end /\ r.start <= r.end
          /\ r.period = Minus(r.total, previous.total)
          /\ r.periodFrees = r.frees - previous.frees
          /\ AtLeast(r.period, NoTraffic) /\ r.periodFrees >= 0
          /\ r.total = draft.total /\ r.frees = draft.live.frees /\ r.end = draft.end
      BY <1>0, NewRow
    <2>1. /\ rows' = Append(rows, r) /\ rows \in Seq(RowRecords)
          /\ previous'.total = draft.total /\ previous'.frees = draft.live.frees
          /\ previous'.end = draft.end
      BY <1>3 DEF Written, Remember, Typed
    <2> HIDE DEF r
    <2>2. /\ Len(rows') = Len(rows) + 1 /\ Len(rows) \in Nat /\ rows' # <<>>
          /\ rows'[Len(rows) + 1] = r /\ \A i \in 1 .. Len(rows) : rows'[i] = rows[i]
          /\ rows = <<>> <=> Len(rows) = 0
      BY <2>1
    <2>3. LastRemembered'
      BY <2>0, <2>1, <2>2 DEF LastRemembered
    <2>4. RowsChain'
      <3>1. \A i \in 1 .. Len(rows) : Follows(rows[i], IF i = 1 THEN First ELSE rows[i - 1])
        BY DEF RowInv, RowsChain
      <3>2. Follows(r, IF rows = <<>> THEN First ELSE rows[Len(rows)])
        <4>1. CASE rows = <<>>
          BY <2>0, <4>1 DEF RowInv, LastRemembered, First, Follows
        <4>2. CASE rows # <<>>
          BY <2>0, <4>2 DEF RowInv, LastRemembered, First, Follows
        <4>3. QED
          BY <4>1, <4>2
      <3>3. \A i \in 1 .. Len(rows') : Follows(rows'[i], IF i = 1 THEN First ELSE rows'[i - 1])
        <4> SUFFICES ASSUME NEW i \in 1 .. Len(rows')
                     PROVE  Follows(rows'[i], IF i = 1 THEN First ELSE rows'[i - 1])
          OBVIOUS
        <4>1. CASE i \in 1 .. Len(rows)
          <5>1. rows'[i] = rows[i] /\ (i # 1 => rows'[i - 1] = rows[i - 1])
            BY <2>2, <4>1
          <5>2. QED
            BY <3>1, <4>1, <5>1
        <4>2. CASE i = Len(rows) + 1
          <5>1. rows'[i] = r /\ (i = 1 <=> rows = <<>>)
            BY <2>2, <4>2
          <5>2. i # 1 => rows'[i - 1] = rows[Len(rows)]
            BY <2>2, <4>2
          <5>3. QED
            BY <3>2, <5>1, <5>2
        <4>3. QED
          BY <2>2, <4>1, <4>2
      <3>4. QED
        BY <3>3 DEF RowsChain
    <2>a. RowsGrow'
      <3>0. r \in RowRecords
        BY WriteStep DEF r
      <3>1. \A j \in 1 .. Len(rows) : NotBelow(r, rows[j])
        <4> SUFFICES ASSUME NEW j \in 1 .. Len(rows)
                     PROVE  NotBelow(r, rows[j])
          OBVIOUS
        <4> DEFINE last == rows[Len(rows)]
        <4>1. /\ previous.total = last.total /\ previous.frees = last.frees
              /\ previous.end = last.end
          BY <2>2 DEF RowInv, LastRemembered
        <4>2. NotBelow(last, rows[j])
          BY <2>2 DEF RowInv, RowsGrow
        <4>3. rows[j] \in RowRecords /\ last \in RowRecords
          BY <2>1, <2>2
        <4> HIDE DEF last
        <4>4. /\ rows[j].total \in TrafficCounters /\ last.total \in TrafficCounters
              /\ r.total \in TrafficCounters
              /\ rows[j].end \in Nat /\ last.end \in Nat /\ r.end \in Nat
              /\ rows[j].frees \in Nat /\ last.frees \in Nat /\ r.frees \in Nat
              /\ r.start \in Nat /\ r.periodFrees = r.frees - last.frees
          BY <2>0, <3>0, <4>1, <4>3 DEF RowRecords
        <4>5. /\ AtLeast(r.total, last.total) /\ last.frees <= r.frees /\ last.end <= r.end
          BY <2>0, <4>1, <4>4, MinusFields
        <4>6. AtLeast(r.total, rows[j].total)
          BY <4>2, <4>4, <4>5, LaterRows DEF NotBelow
        <4>7. QED
          BY <4>2, <4>4, <4>5, <4>6 DEF NotBelow
      <3>2. NotBelow(r, r)
        <4>1. r.total \in TrafficCounters /\ r.end \in Nat /\ r.frees \in Nat
          BY <3>0 DEF RowRecords
        <4>2. QED
          BY <4>1, LaterRows DEF NotBelow
      <3>3. \A i \in 1 .. Len(rows) : \A j \in 1 .. i : NotBelow(rows[i], rows[j])
        BY DEF RowInv, RowsGrow
      <3>4. \A i \in 1 .. Len(rows') : \A j \in 1 .. i : NotBelow(rows'[i], rows'[j])
        BY <2>2, <3>1, <3>2, <3>3
      <3>5. QED
        BY <3>4 DEF RowsGrow
    <2>5. /\ draft.end <= now /\ draft.live.frees <= Total(live, "frees")
          /\ \A f \in Fields : draft.total[f] <= Total(traffic, f)
      BY <1>0, NewRow
    <2>6. TimeGoesOn'
      BY <1>0, <1>b, <2>1, <2>5 DEF TimeGoesOn, InSnapshot
    <2>7. \A f \in Fields : Counted(f)'
      BY <1>0, <1>b, <2>1, <2>5 DEF Counted, InSnapshot
    <2>8. FreesCounted'
      BY <1>0, <1>b, <2>1, <2>5 DEF FreesCounted, InSnapshot
    <2>9. QED
      BY <1>1, <2>3, <2>4, <2>6, <2>7, <2>8, <2>a DEF RowInv
  <1>4. QED
    BY <1>0, <1>2, <1>3

\* The invariant of the rows is inductive.
LEMMA RowsStep ==
  ASSUME Typed, RowInv, Next
  PROVE  Typed' /\ RowInv'
  BY CalmSteps, CalmKeepsRows, BeginKeepsRows, LoadTrafficKeepsRows, LoadLiveKeepsRows,
     WriteKeepsRows

------------------------------------------------------------------------------
(* The live values of a row *)

\* Every live event makes the weight greater.
LEMMA LiveEventWeighs ==
  ASSUME Typed, Typed', LiveEvent
  PROVE  Weight(LiveNow) < Weight(LiveNow')
  <1>1. /\ \A f \in {"blocks", "frees"} : \A s \in ShardSet :
             live[s][f] \in Nat /\ live'[s][f] \in Nat
        /\ \A s \in ShardSet : /\ live[s].blocks = live[s]["blocks"]
                               /\ live'[s].blocks = live'[s]["blocks"]
                               /\ live[s].frees = live[s]["frees"]
                               /\ live'[s].frees = live'[s]["frees"]
    BY DEF Typed, LiveCounters
  <1>2. PICK s \in ShardSet :
          /\ \/ live'[s].blocks = live[s].blocks + 1 /\ live'[s].frees = live[s].frees
             \/ live'[s].blocks = live[s].blocks - 1 /\ live'[s].frees = live[s].frees + 1
          /\ \A u \in ShardSet : u # s => live'[u] = live[u]
    BY DEF LiveEvent
  <1>3. ASSUME NEW f \in {"blocks", "frees"}
        PROVE  Total(live', f) = Total(live, f) + (live'[s][f] - live[s][f])
    <2>1. /\ \A u \in ShardSet : live[u][f] \in Nat /\ live'[u][f] \in Nat
          /\ \A u \in ShardSet \ {s} : live'[u][f] = live[u][f]
      BY <1>1, <1>2
    <2>2. PICK c : c = live
      OBVIOUS
    <2>3. PICK d : d = live'
      OBVIOUS
    <2>4. /\ \A u \in ShardSet : c[u][f] \in Nat /\ d[u][f] \in Nat
          /\ \A u \in ShardSet \ {s} : d[u][f] = c[u][f]
      BY <2>1, <2>2, <2>3
    <2>a. \A u \in ShardSet : c[u][f] \in Nat
      BY <2>4
    <2>b. \A u \in ShardSet : d[u][f] \in Nat
      BY <2>4
    <2>c. Total(c, f) \in Nat
      BY <2>a, ShardSums
    <2>d. Total(d, f) \in Nat
      BY <2>b, ShardSums
    <2>5. /\ Total(c, f) \in Int /\ Total(d, f) \in Int
          /\ c[s][f] \in Int /\ d[s][f] \in Int
      BY <2>a, <2>b, <2>c, <2>d
    <2> HIDE <2>1, <2>2, <2>3
    <2>6. Total(d, f) = Total(c, f) + (d[s][f] - c[s][f])
      BY <2>4, <2>5, TotalChanges
    <2>7. QED
      BY <2>2, <2>3, <2>6
  <1>4. Total(live, "blocks") \in Nat /\ Total(live, "frees") \in Nat
    BY LiveSums
  <1>5. /\ LiveNow.blocks = Total(live, "blocks") /\ LiveNow.frees = Total(live, "frees")
        /\ (LiveNow').blocks = Total(live', "blocks") /\ (LiveNow').frees = Total(live', "frees")
    BY DEF LiveNow
  <1>6. /\ Total(live', "blocks") = Total(live, "blocks") + (live'[s].blocks - live[s].blocks)
        /\ Total(live', "frees") = Total(live, "frees") + (live'[s].frees - live[s].frees)
        /\ live[s].blocks \in Nat /\ live[s].frees \in Nat
    BY <1>1, <1>3
  <1>7. Weight(LiveNow') = Weight(LiveNow) + 1 /\ Weight(LiveNow) \in Nat
    BY <1>2, <1>4, <1>5, <1>6 DEF Weight
  <1>8. QED
    BY <1>7

\* A snapshot that is disturbed remains so, and is disturbed by a live event.
LEMMA EventKeepsLive ==
  ASSUME Typed, Typed', RowInv, LiveExact, LiveEvent, NEW t \in Threads, Others(t),
         ~InSnapshot(t), ~InSnapshot(t)', UNCHANGED lock,
         lock # NoThread => draft'.seen = draft.seen \cup {LiveNow'}
  PROVE  LiveExact'
  <1>a. \A u \in Threads : InSnapshot(u)' => InSnapshot(u)
    BY DEF Others, InSnapshot
  <1>1. CASE lock = NoThread
    <2>1. \A u \in Threads : ~InSnapshot(u)'
      BY <1>a, <1>1, SnapshotAssumption DEF RowInv, LockHeld
    <2>2. QED
      BY <1>1, <2>1 DEF LiveExact, InSnapshot
  <1>2. CASE lock # NoThread
    <2>1. /\ LiveNow \in draft.seen /\ IsFiniteSet(draft.seen)
          /\ draft'.seen = draft.seen \cup {LiveNow'}
      BY <1>2 DEF LiveExact
    <2>2. Weight(LiveNow) < Weight(LiveNow')
      BY LiveEventWeighs
    <2>3. Disturbed'
      BY <2>1, <2>2 DEF Disturbed
    <2>4. (LiveNow \in draft.seen)' /\ IsFiniteSet(draft.seen)'
      BY <2>1, FS_AddElement
    <2>5. QED
      BY <2>3, <2>4 DEF LiveExact
  <1>3. QED
    BY <1>1, <1>2

\* The other steps, of which those that write a row are treated apart.
LEMMA StayKeepsLive ==
  ASSUME LiveExact, UNCHANGED <<live, lock, draft>>,
         \A t \in Threads : InSnapshot(t)' => pc'[t] = pc[t]
  PROVE  LiveExact'
  <1>1. LiveNow' = LiveNow /\ (Disturbed <=> Disturbed')
    BY DEF LiveNow, Disturbed
  <1>2. QED
    BY <1>1 DEF LiveExact, InSnapshot

\* A new row has seen the present live total.
LEMMA BeginKeepsLive ==
  ASSUME Typed, RowInv, NEW t \in Threads, Begins(t)
  PROVE  LiveExact'
  <1>1. /\ Others(t) /\ lock = NoThread /\ pc'[t] = "load"
        /\ draft'.seen = {LiveNow} /\ live' = live
    BY TakeLockStep DEF Begins, counters
  <1>2. \A u \in Threads : pc'[u] \notin {"loadLive", "write"}
    BY <1>1, SnapshotAssumption DEF RowInv, LockHeld, Others, InSnapshot
  <1>3. LiveNow' = LiveNow
    BY <1>1 DEF LiveNow
  <1>4. (LiveNow \in draft.seen)' /\ IsFiniteSet(draft.seen)'
    BY <1>1, <1>3, FS_Singleton
  <1>5. QED
    BY <1>2, <1>4 DEF LiveExact

\* The statistics are read before the live statistics.
LEMMA LoadTrafficKeepsLive ==
  ASSUME Typed, RowInv, LiveExact, NEW t \in Threads, LoadTraffic(t)
  PROVE  LiveExact'
  <1>1. /\ Others(t) /\ pc[t] = "load" /\ lock' = lock /\ live' = live
        /\ pc'[t] = IF draft.shard = Shards THEN "loadLive" ELSE "load"
        /\ draft'.shard = NextShard(draft.shard)
        /\ draft'.live = draft.live /\ draft'.seen = draft.seen
    BY LoadTrafficStep DEF counters
  <1>2. lock = t /\ \A u \in Threads \ {t} : ~InSnapshot(u)
    BY <1>1, OneWriter DEF InSnapshot
  <1>3. \A u \in Threads : InSnapshot(u)' => u = t
    BY <1>1, <1>2 DEF Others, InSnapshot
  <1>4. LiveNow' = LiveNow
    BY <1>1 DEF LiveNow
  <1>5. draft.live = NoLive
    BY <1>1 DEF RowInv, FreesCounted
  <1>6. \A f \in {"blocks", "frees"} : NoLive[f] = 0 /\ Before(live, f, 1) = 0
    BY LiveSums DEF NoLive
  <1>7. pc'[t] = "loadLive" => draft'.shard = 1
    BY <1>1 DEF NextShard
  <1>8. pc'[t] # "write"
    BY <1>1
  <1>9. QED
    BY <1>1, <1>3, <1>4, <1>5, <1>6, <1>7, <1>8 DEF LiveExact, InSnapshot

\* What has been read of the live shards stays exact, or disturbed.
LEMMA LoadLiveKeepsLive ==
  ASSUME Typed, RowInv, LiveExact, NEW t \in Threads, LoadLive(t)
  PROVE  LiveExact'
  <1>1. /\ Others(t) /\ pc[t] = "loadLive" /\ lock' = lock /\ live' = live
        /\ pc'[t] = IF draft.shard = Shards THEN "write" ELSE "loadLive"
        /\ draft'.shard = NextShard(draft.shard)
        /\ \A f \in {"blocks", "frees"} :
             draft'.live[f] = draft.live[f] + live[draft.shard][f]
        /\ draft'.seen = draft.seen
    BY LoadLiveStep DEF counters
  <1>2. lock = t /\ \A u \in Threads \ {t} : ~InSnapshot(u)
    BY <1>1, OneWriter DEF InSnapshot
  <1>3. \A u \in Threads : InSnapshot(u)' => u = t
    BY <1>1, <1>2 DEF Others, InSnapshot
  <1>4. LiveNow' = LiveNow /\ (Disturbed <=> Disturbed')
    BY <1>1 DEF LiveNow, Disturbed
  <1>5. (lock # NoThread => LiveNow \in draft.seen /\ IsFiniteSet(draft.seen))'
    BY <1>1, <1>4 DEF LiveExact
  <1>6. CASE Disturbed
    BY <1>4, <1>5, <1>6 DEF LiveExact
  <1>7. CASE ~Disturbed
    <2>1. \A f \in {"blocks", "frees"} : draft.live[f] = Before(live, f, draft.shard)
      BY <1>1, <1>7 DEF LiveExact
    <2>2. draft.shard \in ShardSet
      BY Numbers
    <2>3. \A f \in {"blocks", "frees"} :
            /\ Before(live, f, draft.shard + 1)
                 = Before(live, f, draft.shard) + live[draft.shard][f]
            /\ Before(live, f, Shards + 1) = Total(live, f)
      BY <2>2, LiveSums
    <2>4. \A f \in {"blocks", "frees"} : draft'.live[f] = Before(live, f, draft.shard + 1)
      BY <1>1, <2>1, <2>3
    <2>5. CASE draft.shard = Shards
      <3>1. pc'[t] = "write" /\ \A f \in {"blocks", "frees"} : draft'.live[f] = Total(live, f)
        BY <1>1, <2>3, <2>4, <2>5
      <3>2. QED
        BY <1>1, <1>3, <1>5, <3>1 DEF LiveExact, InSnapshot
    <2>6. CASE draft.shard # Shards
      <3>1. pc'[t] = "loadLive" /\ draft'.shard = draft.shard + 1
        BY <1>1, <2>6 DEF NextShard
      <3>2. QED
        BY <1>1, <1>3, <1>5, <2>4, <3>1 DEF LiveExact, InSnapshot
    <2>7. QED
      BY <2>5, <2>6
  <1>8. QED
    BY <1>6, <1>7

\* A written row is no longer compared.
LEMMA WriteKeepsLive ==
  ASSUME Typed, RowInv, NEW t \in Threads, Write(t)
  PROVE  LiveExact'
  <1>1. Others(t) /\ pc[t] = "write" /\ lock' = NoThread /\ pc'[t] \in {"close", "idle"}
    BY WriteStep
  <1>2. \A u \in Threads \ {t} : ~InSnapshot(u)
    BY <1>1, OneWriter DEF InSnapshot
  <1>3. \A u \in Threads : ~InSnapshot(u)'
    BY <1>1, <1>2 DEF Others, InSnapshot
  <1>4. QED
    BY <1>1, <1>3 DEF LiveExact, InSnapshot

\* The live values stay exact until the snapshot is disturbed.
LEMMA LiveStep ==
  ASSUME Typed, RowInv, LiveExact, Next
  PROVE  LiveExact'
  <1>0. Typed' /\ RowInv'
    BY RowsStep
  <1>b. ASSUME NEW t \in Threads, UNCHANGED <<live, lock, draft>>, Others(t),
               pc'[t] \notin {"load", "loadLive", "write"}
        PROVE  LiveExact'
    BY <1>b, StayKeepsLive DEF Others, InSnapshot
  <1>1. CASE Tick
    BY <1>1, TickStep, StayKeepsLive DEF counters, InSnapshot
  <1>2. ASSUME NEW t \in Threads, Allocate(t)
        PROVE  LiveExact'
    BY <1>2, <1>b, AllocateStep DEF Goes
  <1>3. ASSUME NEW t \in Threads, Free(t)
        PROVE  LiveExact'
    BY <1>0, <1>3, FreeStep, EventKeepsLive DEF Goes, InSnapshot
  <1>4. ASSUME NEW t \in Threads, Ask(t) \/ Exit(t)
        PROVE  LiveExact'
    BY <1>4, <1>b, AskStep, ExitStep DEF Goes, counters
  <1>5. ASSUME NEW t \in Threads, CountAllocation(t)
        PROVE  LiveExact'
    BY <1>5, <1>b, CountAllocationStep DEF Goes
  <1>6. ASSUME NEW t \in Threads, TrackAllocation(t)
        PROVE  LiveExact'
    BY <1>0, <1>6, TrackAllocationStep, EventKeepsLive DEF Goes, InSnapshot
  <1>7. ASSUME NEW t \in Threads, SkipClock(t) \/ ReadClock(t)
        PROVE  LiveExact'
    BY <1>7, <1>b, SkipClockStep, ReadClockStep DEF Goes, counters
  <1>8. ASSUME NEW t \in Threads, ReadDeadline(t)
        PROVE  LiveExact'
    BY <1>8, <1>b, ReadDeadlineStep DEF Goes, counters
  <1>9. ASSUME NEW t \in Threads, MoveDeadline(t)
        PROVE  LiveExact'
    BY <1>9, <1>b, MoveDeadlineStep DEF Goes, counters
  <1>10. ASSUME NEW t \in Threads, TakeLock(t)
         PROVE  LiveExact'
    <2>1. CASE logOpen
      BY <1>10, <2>1, BeginKeepsLive DEF Begins
    <2>2. CASE ~logOpen
      <3>1. UNCHANGED <<live, lock, draft>> /\ Others(t) /\ pc'[t] \in {"close", "idle"}
        BY <1>10, <2>2, TakeLockStep DEF counters
      <3>2. QED
        BY <3>1, <1>b
    <2>3. QED
      BY <2>1, <2>2
  <1>11. ASSUME NEW t \in Threads, LoadTraffic(t) \/ LoadLive(t) \/ Write(t)
         PROVE  LiveExact'
    BY <1>11, LoadTrafficKeepsLive, LoadLiveKeepsLive, WriteKeepsLive
  <1>12. ASSUME NEW t \in Threads, Close(t)
         PROVE  LiveExact'
    BY <1>12, <1>b, CloseStep DEF Goes, counters
  <1>13. ASSUME NEW t \in Threads, WritePart(t)
         PROVE  LiveExact'
    BY <1>13, WritePartStep, StayKeepsLive DEF counters, InSnapshot
  <1>14. QED
    BY <1>1, <1>2, <1>3, <1>4, <1>5, <1>6, <1>7, <1>8, <1>9, <1>10, <1>11, <1>12, <1>13
       DEF Next, Proceed

------------------------------------------------------------------------------
(* The end of the log *)

\* A thread that does not exit, or goes on to exit, leaves one that exits.
LEMMA ExitsAlone ==
  ASSUME OneExits, NEW t \in Threads, Others(t), pc[t] # "gone",
         \/ /\ SamePurpose(t) /\ (logOpen' = logOpen \/ pc'[t] = "gone")
            /\ local[t].purpose = "exit" => pc'[t] \in ExitPlaces
            /\ pc'[t] \in {"close", "gone"} => local[t].purpose = "exit"
         \/ /\ local'[t].purpose # "exit" /\ pc'[t] \notin {"close", "gone"} /\ UNCHANGED logOpen
         \/ /\ \A u \in Threads : local[u].purpose # "exit"
            /\ local'[t].purpose = "exit" /\ pc'[t] = "lock" /\ UNCHANGED logOpen
  PROVE  OneExits'
  <1>1. \A u \in Threads \ {t} : pc'[u] = pc[u] /\ local'[u] = local[u]
    BY DEF Others
  <1>2. (\A u, v \in Threads : local[u].purpose = "exit" /\ local[v].purpose = "exit" => u = v)'
    BY <1>1 DEF OneExits, SamePurpose
  <1>3. (\A u \in Threads : /\ local[u].purpose = "exit" => pc[u] \in ExitPlaces
                            /\ pc[u] \in {"close", "gone"} => local[u].purpose = "exit")'
    BY <1>1 DEF OneExits, SamePurpose, ExitPlaces
  <1>4. (~logOpen => \E u \in Threads : pc[u] = "gone")'
    BY <1>1 DEF OneExits
  <1>5. QED
    BY <1>2, <1>3, <1>4 DEF OneExits

\* One thread exits, and nothing is logged after it is gone.
LEMMA ExitsStep ==
  ASSUME Typed, OneExits, Next
  PROVE  OneExits'
  <1>1. CASE Tick
    BY <1>1, TickStep DEF OneExits
  <1>2. ASSUME NEW t \in Threads, Allocate(t)
        PROVE  OneExits'
    <2>1. local[t].purpose # "exit"
      BY <1>2, AllocateStep DEF OneExits, ExitPlaces, Goes
    <2>2. QED
      BY <1>2, <2>1, AllocateStep, ExitsAlone DEF Goes
  <1>3. ASSUME NEW t \in Threads, Free(t)
        PROVE  OneExits'
    <2>1. local[t].purpose # "exit"
      BY <1>3, FreeStep DEF OneExits, ExitPlaces, Goes
    <2>2. QED
      BY <1>3, <2>1, FreeStep, ExitsAlone DEF Goes
  <1>4. ASSUME NEW t \in Threads, Ask(t)
        PROVE  OneExits'
    BY <1>4, AskStep, ExitsAlone DEF Goes
  <1>5. ASSUME NEW t \in Threads, Exit(t)
        PROVE  OneExits'
    BY <1>5, ExitStep, ExitsAlone DEF Goes
  <1>6. ASSUME NEW t \in Threads, CountAllocation(t)
        PROVE  OneExits'
    <2>1. local[t].purpose # "exit"
      BY <1>6, CountAllocationStep DEF OneExits, ExitPlaces, Goes
    <2>2. QED
      BY <1>6, <2>1, CountAllocationStep, ExitsAlone DEF Goes
  <1>7. ASSUME NEW t \in Threads, TrackAllocation(t)
        PROVE  OneExits'
    <2>1. local[t].purpose # "exit"
      BY <1>7, TrackAllocationStep DEF OneExits, ExitPlaces, Goes
    <2>2. QED
      BY <1>7, <2>1, TrackAllocationStep, ExitsAlone DEF Goes
  <1>8. ASSUME NEW t \in Threads, SkipClock(t)
        PROVE  OneExits'
    BY <1>8, SkipClockStep, ExitsAlone DEF Goes
  <1>9. ASSUME NEW t \in Threads, ReadClock(t)
        PROVE  OneExits'
    <2>1. local[t].purpose # "exit"
      BY <1>9, ReadClockStep DEF OneExits, ExitPlaces, Goes
    <2>2. QED
      BY <1>9, <2>1, ReadClockStep, ExitsAlone DEF Goes
  <1>10. ASSUME NEW t \in Threads, ReadDeadline(t)
         PROVE  OneExits'
    <2>1. local[t].purpose # "exit"
      BY <1>10, ReadDeadlineStep DEF OneExits, ExitPlaces, Goes
    <2>2. QED
      BY <1>10, <2>1, ReadDeadlineStep, ExitsAlone DEF Goes
  <1>11. ASSUME NEW t \in Threads, MoveDeadline(t)
         PROVE  OneExits'
    BY <1>11, MoveDeadlineStep, ExitsAlone DEF Goes
  <1>12. ASSUME NEW t \in Threads, TakeLock(t)
         PROVE  OneExits'
    BY <1>12, TakeLockStep, ExitsAlone DEF ExitPlaces
  <1>13. ASSUME NEW t \in Threads, LoadTraffic(t)
         PROVE  OneExits'
    BY <1>13, LoadTrafficStep, ExitsAlone DEF ExitPlaces, SamePurpose
  <1>14. ASSUME NEW t \in Threads, LoadLive(t)
         PROVE  OneExits'
    BY <1>14, LoadLiveStep, ExitsAlone DEF ExitPlaces, SamePurpose
  <1>15. ASSUME NEW t \in Threads, Write(t)
         PROVE  OneExits'
    BY <1>15, WriteStep, ExitsAlone DEF ExitPlaces
  <1>16. ASSUME NEW t \in Threads, Close(t)
         PROVE  OneExits'
    <2>1. local[t].purpose = "exit"
      BY <1>16, CloseStep DEF OneExits, Goes
    <2>2. QED
      BY <1>16, <2>1, CloseStep, ExitsAlone DEF Goes, ExitPlaces, SamePurpose
  <1>17. ASSUME NEW t \in Threads, WritePart(t)
         PROVE  OneExits'
    BY <1>17, WritePartStep DEF OneExits
  <1>18. QED
    BY <1>1, <1>2, <1>3, <1>4, <1>5, <1>6, <1>7, <1>8, <1>9, <1>10, <1>11, <1>12, <1>13, <1>14,
       <1>15, <1>16, <1>17 DEF Next, Proceed

\* What is owed does not grow once a thread exits, and the counters do not fall.
LEMMA CalmKeepsOwed ==
  ASSUME Typed, Typed', RowInv, OneExits, OneExits', NEW f \in Fields, Owed(f), Calm,
         UNCHANGED <<owed, failures>>,
         \A t \in Threads : InSnapshot(t)' => local'[t].purpose = local[t].purpose,
         \A t \in Threads : pc'[t] \in {"close", "gone"} => pc[t] \in {"close", "gone"}
  PROVE  Owed(f)'
  <1>1. /\ draft'.floor = draft.floor /\ rows' = rows /\ previous' = previous
        /\ \A t \in Threads : InSnapshot(t)' => InSnapshot(t)
    BY DEF Calm, SameDraft, InSnapshot
  <1>2. /\ Total(traffic, f) \in Nat /\ Total(traffic', f) \in Nat /\ owed[f] \in Nat
        /\ Total(traffic, f) <= Total(traffic', f)
    BY SumsGrow, Numbers DEF Calm, Fields
  <1>3. QED
    BY <1>1, <1>2 DEF Owed

\* The final row has what is owed.
LEMMA WriteKeepsOwed ==
  ASSUME Typed, RowInv, OneExits, NEW f \in Fields, Owed(f), NEW t \in Threads, Write(t)
  PROVE  Owed(f)'
  <1>1. /\ Typed' /\ Others(t) /\ pc[t] = "write"
        /\ (Written(t) /\ previous' \in Remembered) \/ NotWritten
        /\ local[t].purpose = "exit" => pc'[t] = "close" /\ SamePurpose(t)
        /\ local[t].purpose # "exit" => pc'[t] = "idle" /\ local'[t].purpose = "periodic"
        /\ traffic' = traffic /\ owed' = owed /\ logOpen' = logOpen
    BY WriteStep DEF counters
  <1>2. \A u \in Threads \ {t} : ~InSnapshot(u)
    BY <1>1, OneWriter DEF InSnapshot
  <1>3. \A u \in Threads : ~InSnapshot(u)'
    BY <1>1, <1>2 DEF Others, InSnapshot
  <1>4. /\ draft.floor[f] <= draft.total[f] /\ previous.total[f] <= draft.total[f]
        /\ owed[f] \in Nat /\ draft.floor[f] \in Nat /\ draft.total[f] \in Nat
        /\ previous.total[f] \in Nat /\ failures \in Nat
    BY <1>1, NewRow, Numbers DEF Typed
  <1>5. /\ owed[f] <= Total(traffic, f)
        /\ local[t].purpose = "exit" => owed[f] <= draft.floor[f]
        /\ \A u \in Threads : failures = 0 /\ pc[u] \in {"close", "gone"} =>
             rows # <<>> /\ owed[f] <= previous.total[f]
    BY <1>1 DEF Owed, InSnapshot
  <1>6. SUFFICES ASSUME NEW u \in Threads, failures' = 0, pc'[u] \in {"close", "gone"}
                 PROVE  rows' # <<>> /\ owed[f] <= previous'.total[f]
    BY <1>1, <1>3, <1>5 DEF Owed
  <1>7. CASE Written(t)
    <2>1. rows' # <<>> /\ previous'.total = draft.total /\ failures' = failures
      <3>1. rows' = Append(rows, Row(t)) /\ rows \in Seq(RowRecords) /\ failures' = failures
            /\ previous'.total = draft.total
        BY <1>7 DEF Written, Remember, Typed
      <3>2. QED
        BY <3>1
    <2>2. CASE u = t
      <3>1. local[t].purpose = "exit"
        BY <1>1, <1>6, <2>2
      <3>2. QED
        BY <1>4, <1>5, <2>1, <3>1
    <2>3. CASE u # t
      <3>1. owed[f] <= previous.total[f]
        BY <1>1, <1>5, <1>6, <2>1, <2>3 DEF Others
      <3>2. QED
        BY <1>4, <2>1, <3>1
    <2>4. QED
      BY <2>2, <2>3
  <1>8. CASE NotWritten
    <2>1. ~logOpen /\ failures' = failures /\ rows' = rows /\ previous' = previous
      BY <1>4, <1>6, <1>8 DEF NotWritten, WriteFails
    <2>2. PICK v \in Threads : pc[v] = "gone"
      BY <2>1 DEF OneExits
    <2>3. QED
      BY <1>5, <1>6, <2>1, <2>2
  <1>9. QED
    BY <1>1, <1>7, <1>8

\* When a thread exits it owes what the counters show, ...
LEMMA ExitKeepsOwed ==
  ASSUME Typed, OneExits, NEW f \in Fields, NEW t \in Threads, Exit(t)
  PROVE  Owed(f)'
  <1>1. /\ Others(t) /\ pc[t] = "idle" /\ pc'[t] = "lock"
        /\ owed' = TrafficNow /\ \A u \in Threads : local[u].purpose # "exit"
        /\ traffic' = traffic
    BY ExitStep DEF Goes, counters
  <1>2. TrafficNow[f] = Total(traffic, f) /\ Total(traffic, f) \in Nat
    BY TotalsNow, TrafficSums DEF Fields
  <1>3. \A u \in Threads : pc[u] \notin {"close", "gone"}
    BY <1>1 DEF OneExits
  <1>4. \A u \in Threads : /\ pc'[u] \notin {"close", "gone"}
                           /\ InSnapshot(u)' => local'[u].purpose # "exit"
    BY <1>1, <1>3 DEF Others, InSnapshot
  <1>5. QED
    BY <1>1, <1>2, <1>4 DEF Owed

\* ... its row begins with at least that, ...
LEMMA BeginKeepsOwed ==
  ASSUME Typed, RowInv, NEW f \in Fields, Owed(f), NEW t \in Threads, Begins(t)
  PROVE  Owed(f)'
  <1>1. /\ Others(t) /\ lock = NoThread /\ pc'[t] = "load" /\ draft'.floor = TrafficNow
        /\ traffic' = traffic /\ owed' = owed /\ previous' = previous /\ rows' = rows
        /\ failures' = failures
    BY TakeLockStep DEF Begins, counters, bounds
  <1>2. TrafficNow[f] = Total(traffic, f) /\ owed[f] <= Total(traffic, f)
    BY TotalsNow DEF Fields, Owed
  <1>3. \A u \in Threads : InSnapshot(u)' => u = t
    BY <1>1, SnapshotAssumption DEF RowInv, LockHeld, Others, InSnapshot
  <1>4. \A u \in Threads : pc'[u] \in {"close", "gone"} => pc[u] = pc'[u]
    BY <1>1 DEF Others
  <1>5. QED
    BY <1>1, <1>2, <1>3, <1>4 DEF Owed

\* ... and keeps it as its floor.
LEMMA LoadKeepsOwed ==
  ASSUME NEW f \in Fields, Owed(f), NEW t \in Threads, Others(t), InSnapshot(t), InSnapshot(t)',
         UNCHANGED <<local, traffic, owed, previous, rows, failures>>, draft'.floor = draft.floor
  PROVE  Owed(f)'
  <1>1. \A u \in Threads : InSnapshot(u)' => InSnapshot(u)
    BY DEF Others, InSnapshot
  <1>2. \A u \in Threads : pc'[u] \in {"close", "gone"} => pc[u] = pc'[u]
    BY DEF Others, InSnapshot
  <1>3. QED
    BY <1>1, <1>2 DEF Owed

\* What is owed is in the final row.
LEMMA OwedStep ==
  ASSUME Typed, RowInv, OneExits, NEW f \in Fields, Owed(f), Next
  PROVE  Owed(f)'
  <1>0. Typed' /\ OneExits' /\ RowInv'
    BY RowsStep, ExitsStep
  <1>1. ASSUME NEW t \in Threads, Begins(t)
        PROVE  Owed(f)'
    BY <1>1, BeginKeepsOwed
  <1>2. ASSUME NEW t \in Threads, LoadTraffic(t)
        PROVE  Owed(f)'
    BY <1>2, LoadTrafficStep, LoadKeepsOwed DEF counters, bounds, InSnapshot
  <1>3. ASSUME NEW t \in Threads, LoadLive(t)
        PROVE  Owed(f)'
    BY <1>3, LoadLiveStep, LoadKeepsOwed DEF counters, bounds, InSnapshot
  <1>4. ASSUME NEW t \in Threads, Write(t)
        PROVE  Owed(f)'
    BY <1>4, WriteKeepsOwed
  <1>5. ASSUME NEW t \in Threads, Exit(t)
        PROVE  Owed(f)'
    BY <1>5, ExitKeepsOwed
  <1>6. CASE Calm
    <2>b. ASSUME NEW t \in Threads, Others(t), ~InSnapshot(t), UNCHANGED <<owed, failures>>,
                 pc'[t] \in {"close", "gone"} => pc[t] \in {"close", "gone"}
          PROVE  Owed(f)'
      <3>1. ~InSnapshot(t)'
        BY <1>6, <2>b DEF Calm, InSnapshot
      <3>2. \A u \in Threads : InSnapshot(u)' => local'[u].purpose = local[u].purpose
        BY <2>b, <3>1 DEF Others
      <3>3. \A u \in Threads : pc'[u] \in {"close", "gone"} => pc[u] \in {"close", "gone"}
        BY <2>b DEF Others
      <3>4. QED
        BY <1>0, <1>6, <2>b, <3>2, <3>3, CalmKeepsOwed
    <2>1. CASE Tick
      BY <1>0, <1>6, <2>1, TickStep, CalmKeepsOwed DEF bounds
    <2>2. ASSUME NEW t \in Threads, Allocate(t)
          PROVE  Owed(f)'
      BY <2>2, <2>b, AllocateStep DEF Goes, InSnapshot
    <2>3. ASSUME NEW t \in Threads, Free(t)
          PROVE  Owed(f)'
      BY <2>3, <2>b, FreeStep DEF Goes, InSnapshot
    <2>4. ASSUME NEW t \in Threads, Ask(t)
          PROVE  Owed(f)'
      BY <2>4, <2>b, AskStep DEF Goes, InSnapshot
    <2>5. ASSUME NEW t \in Threads, CountAllocation(t)
          PROVE  Owed(f)'
      BY <2>5, <2>b, CountAllocationStep DEF Goes, InSnapshot, bounds
    <2>6. ASSUME NEW t \in Threads, TrackAllocation(t)
          PROVE  Owed(f)'
      BY <2>6, <2>b, TrackAllocationStep DEF Goes, InSnapshot, bounds
    <2>7. ASSUME NEW t \in Threads, SkipClock(t)
          PROVE  Owed(f)'
      BY <2>7, <2>b, SkipClockStep DEF Goes, InSnapshot, bounds
    <2>8. ASSUME NEW t \in Threads, ReadClock(t)
          PROVE  Owed(f)'
      BY <2>8, <2>b, ReadClockStep DEF Goes, InSnapshot, bounds
    <2>9. ASSUME NEW t \in Threads, ReadDeadline(t)
          PROVE  Owed(f)'
      BY <2>9, <2>b, ReadDeadlineStep DEF Goes, InSnapshot, bounds
    <2>10. ASSUME NEW t \in Threads, MoveDeadline(t)
           PROVE  Owed(f)'
      BY <2>10, <2>b, MoveDeadlineStep DEF Goes, InSnapshot, bounds
    <2>11. ASSUME NEW t \in Threads, TakeLock(t)
           PROVE  Owed(f)'
      <3>1. CASE logOpen
        BY <1>1, <2>11, <3>1 DEF Begins
      <3>2. CASE ~logOpen
        <4>1. /\ Others(t) /\ pc[t] = "lock" /\ UNCHANGED <<owed, failures>>
              /\ local[t].purpose # "exit" => pc'[t] = "idle"
          BY <2>11, <3>2, TakeLockStep DEF bounds
        <4>2. local[t].purpose # "exit"
          BY <3>2, <4>1 DEF OneExits
        <4>3. QED
          BY <2>b, <4>1, <4>2 DEF InSnapshot
      <3>3. QED
        BY <3>1, <3>2
    <2>12. ASSUME NEW t \in Threads, Close(t)
           PROVE  Owed(f)'
      BY <2>12, <2>b, CloseStep DEF Goes, InSnapshot, bounds
    <2>13. ASSUME NEW t \in Threads, WritePart(t)
           PROVE  Owed(f)'
      BY <1>0, <1>6, <2>13, WritePartStep, CalmKeepsOwed DEF bounds
    <2>14. QED
      BY <1>2, <1>3, <1>4, <1>5, <2>1, <2>2, <2>3, <2>4, <2>5, <2>6, <2>7, <2>8, <2>9, <2>10,
         <2>11, <2>12, <2>13 DEF Next, Proceed
  <1>7. QED
    BY <1>1, <1>2, <1>3, <1>4, <1>6, CalmSteps

------------------------------------------------------------------------------
(* The deadline *)

\* The rows and the threads that are about to write one are counted.
LEMMA Counts ==
  ASSUME Typed
  PROVE  /\ IsFiniteSet(PeriodicRows) /\ Cardinality(PeriodicRows) \in Nat
         /\ IsFiniteSet(Pending) /\ Cardinality(Pending) \in Nat
         /\ Pending \in SUBSET Threads
  <1>1. PeriodicRows \in SUBSET (1 .. Len(rows)) /\ Len(rows) \in Nat
    BY DEF PeriodicRows, Typed
  <1>2. IsFiniteSet(1 .. Len(rows))
    BY <1>1, FS_Interval
  <1>3. IsFiniteSet(PeriodicRows)
    BY <1>1, <1>2, FS_Subset
  <1>4. Pending \in SUBSET Threads
    BY DEF Pending
  <1>5. IsFiniteSet(Pending)
    BY <1>4, FS_Subset, SnapshotAssumption
  <1>6. QED
    BY <1>3, <1>4, <1>5, FS_CardinalityType

\* Periods add up.
LEMMA Periods ==
  \A a, b \in Nat : /\ a * Interval \in Nat
                    /\ a <= b => a * Interval <= b * Interval
                    /\ (a + 1) * Interval = a * Interval + Interval
  BY SnapshotAssumption

\* A thread that neither moves the deadline nor writes a row leaves what was
\* paid.
LEMMA StayPaid ==
  ASSUME Typed, Typed', PaidFor, NEW t \in Threads, Others(t), UNCHANGED <<rows, now, deadline>>,
         t \in Pending' => t \in Pending,
         pc'[t] \in {"deadline", "move"} => local'[t].at <= now,
         pc'[t] = "move" => local'[t].expected <= local'[t].at
  PROVE  PaidFor'
  <1>1. PeriodicRows' = PeriodicRows
    BY DEF PeriodicRows
  <1>2. Pending' \subseteq Pending
    BY DEF Pending, Others
  <1>3. Cardinality(Pending') <= Cardinality(Pending)
    BY <1>2, Counts, FS_Subset
  <1> DEFINE r == Cardinality(PeriodicRows)
             p == Cardinality(Pending)
             q == Cardinality(Pending')
  <1>4. r \in Nat /\ p \in Nat /\ q \in Nat /\ q <= p
    BY <1>3, Counts, FS_CardinalityType, FS_Subset, <1>2
  <1>5. (r + p) * Interval <= deadline /\ deadline \in Nat
    BY DEF PaidFor, Typed
  <1> HIDE DEF r, p, q
  <1>6. (r + q) * Interval <= deadline
    <2>1. r + q \in Nat /\ r + p \in Nat /\ r + q <= r + p
      BY <1>4
    <2>2. (r + q) * Interval <= (r + p) * Interval /\ (r + q) * Interval \in Nat
          /\ (r + p) * Interval \in Nat
      BY <2>1, Periods
    <2>3. QED
      BY <1>5, <2>2
  <1>7. ((Cardinality(PeriodicRows) + Cardinality(Pending)) * Interval <= deadline)'
    BY <1>1, <1>6 DEF r, q
  <1>8. QED
    BY <1>7 DEF PaidFor, Others

\* A period passes before the deadline is moved, ...
LEMMA TickPaid ==
  ASSUME Typed, PaidFor, Tick
  PROVE  PaidFor'
  <1>1. /\ now' = now + 1 /\ rows' = rows /\ deadline' = deadline /\ pc' = pc /\ local' = local
        /\ now \in Nat /\ deadline \in Nat
    BY TickStep, Numbers DEF Typed
  <1>2. PeriodicRows' = PeriodicRows /\ Pending' = Pending
    BY <1>1 DEF PeriodicRows, Pending
  <1>3. \A t \in Threads : local[t].at \in Nat
    BY DEF Typed, Locals
  <1>4. QED
    BY <1>1, <1>2, <1>3, SnapshotAssumption DEF PaidFor

\* ... which pays for one row, whatever thread has seen the clock, ...
LEMMA MovePaid ==
  ASSUME Typed, PaidFor, NEW t \in Threads, Goes(t, "move", "lock"),
         local'[t].purpose = "periodic", deadline = local[t].expected,
         deadline' = local[t].at + Interval, UNCHANGED <<now, rows>>
  PROVE  PaidFor'
  <1>1. /\ local[t].at <= now /\ local[t].expected <= local[t].at
        /\ deadline <= local[t].at /\ local[t].at \in Nat /\ deadline \in Nat /\ now \in Nat
        /\ Interval \in Nat
    BY Numbers, SnapshotAssumption DEF PaidFor, Goes, Typed, Locals
  <1>2. PeriodicRows' = PeriodicRows /\ Pending' = Pending \cup {t} /\ t \notin Pending
    BY DEF PeriodicRows, Pending, Goes, Others
  <1>3. Cardinality(Pending') = Cardinality(Pending) + 1
    BY <1>2, Counts, FS_AddElement
  <1> DEFINE r == Cardinality(PeriodicRows)
             p == Cardinality(Pending)
  <1>4. r \in Nat /\ p \in Nat /\ (r + p) * Interval <= deadline
    BY Counts DEF PaidFor
  <1> HIDE DEF r, p
  <1>5. (r + (p + 1)) * Interval <= deadline'
    <2>1. r + p \in Nat /\ r + (p + 1) = (r + p) + 1
      BY <1>4
    <2>2. ((r + p) + 1) * Interval = (r + p) * Interval + Interval /\ (r + p) * Interval \in Nat
      BY <2>1, Periods
    <2>3. QED
      BY <1>1, <1>4, <2>1, <2>2
  <1>6. ((Cardinality(PeriodicRows) + Cardinality(Pending)) * Interval <= deadline)'
    BY <1>2, <1>3, <1>5 DEF r, p
  <1>7. (deadline <= now + Interval)'
    BY <1>1
  <1>8. (\A u \in Threads : /\ pc[u] \in {"deadline", "move"} => local[u].at <= now
                            /\ pc[u] = "move" => local[u].expected <= local[u].at)'
    BY DEF PaidFor, Goes, Others
  <1>9. QED
    BY <1>6, <1>7, <1>8 DEF PaidFor

\* ... and is spent when the row is written.
LEMMA WritePaid ==
  ASSUME Typed, PaidFor, NEW t \in Threads, Write(t)
  PROVE  PaidFor'
  <1>1. /\ Typed' /\ Others(t) /\ pc[t] = "write"
        /\ Written(t) \/ NotWritten
        /\ local[t].purpose = "exit" => pc'[t] = "close" /\ SamePurpose(t)
        /\ local[t].purpose # "exit" => pc'[t] = "idle" /\ local'[t].purpose = "periodic"
        /\ now' = now /\ deadline' = deadline
    BY WriteStep
  <1>2. t \notin Pending' /\ pc'[t] \notin {"deadline", "move"}
    BY <1>1 DEF Pending
  <1>3. CASE rows' = rows
    BY <1>1, <1>2, <1>3, StayPaid
  <1>4. CASE rows' # rows
    <2>1. /\ rows' = Append(rows, Row(t)) /\ rows \in Seq(RowRecords)
          /\ Row(t).purpose = local[t].purpose
      BY <1>1, <1>4 DEF Written, NotWritten, WriteFails, Typed, Row
    <2> DEFINE r == Row(t)
               n == Len(rows) + 1
    <2> HIDE DEF r
    <2>2. /\ rows' = Append(rows, r) /\ r.purpose = local[t].purpose
      BY <2>1 DEF r
    <2>3. /\ DOMAIN rows = 1 .. Len(rows) /\ DOMAIN rows' = 1 .. n /\ Len(rows) \in Nat
          /\ rows'[n] = r /\ \A i \in 1 .. Len(rows) : rows'[i] = rows[i]
      BY <2>1, <2>2
    <2> HIDE DEF n
    <2>4. n \notin PeriodicRows
      BY <2>3 DEF PeriodicRows, n
    <2>5. CASE local[t].purpose = "periodic"
      <3>1. PeriodicRows' = PeriodicRows \cup {n}
        BY <2>2, <2>3, <2>5 DEF PeriodicRows, n
      <3>2. Pending' = Pending \ {t} /\ t \in Pending
        BY <1>1, <1>2, <2>5 DEF Pending, Others
      <3>3. /\ Cardinality(PeriodicRows') = Cardinality(PeriodicRows) + 1
            /\ Cardinality(Pending') = Cardinality(Pending) - 1
        BY <2>4, <3>1, <3>2, Counts, FS_AddElement, FS_RemoveElement
      <3>4. Cardinality(PeriodicRows') + Cardinality(Pending')
              = Cardinality(PeriodicRows) + Cardinality(Pending)
        BY <3>3, Counts
      <3>5. QED
        BY <1>1, <1>2, <3>4 DEF PaidFor, Others
    <2>6. CASE local[t].purpose # "periodic"
      <3>1. PeriodicRows' = PeriodicRows
        BY <2>2, <2>3, <2>6 DEF PeriodicRows, n
      <3>2. Pending' = Pending
        BY <1>1, <1>2, <2>6 DEF Pending, Others
      <3>3. QED
        BY <1>1, <1>2, <3>1, <3>2 DEF PaidFor, Others
    <2>7. QED
      BY <2>5, <2>6
  <1>5. QED
    BY <1>3, <1>4

\* Every row is paid for by a period.
LEMMA PaidStep ==
  ASSUME Typed, OneExits, PaidFor, Next
  PROVE  PaidFor'
  <1>a. ASSUME NEW t \in Threads, Typed', Others(t), UNCHANGED <<rows, now, deadline>>,
               t \notin Pending', pc'[t] \notin {"deadline", "move"}
        PROVE  PaidFor'
    BY <1>a, StayPaid
  <1>1. CASE Tick
    BY <1>1, TickPaid
  <1>2. ASSUME NEW t \in Threads, Allocate(t)
        PROVE  PaidFor'
    BY <1>2, <1>a, AllocateStep DEF Goes, Pending
  <1>3. ASSUME NEW t \in Threads, Free(t)
        PROVE  PaidFor'
    BY <1>3, <1>a, FreeStep DEF Goes, Pending
  <1>4. ASSUME NEW t \in Threads, Ask(t)
        PROVE  PaidFor'
    BY <1>4, <1>a, AskStep DEF Goes, Pending
  <1>5. ASSUME NEW t \in Threads, Exit(t)
        PROVE  PaidFor'
    BY <1>5, <1>a, ExitStep DEF Goes, Pending
  <1>6. ASSUME NEW t \in Threads, CountAllocation(t)
        PROVE  PaidFor'
    BY <1>6, <1>a, CountAllocationStep DEF Goes, Pending
  <1>7. ASSUME NEW t \in Threads, TrackAllocation(t)
        PROVE  PaidFor'
    BY <1>7, <1>a, TrackAllocationStep DEF Goes, Pending
  <1>8. ASSUME NEW t \in Threads, SkipClock(t)
        PROVE  PaidFor'
    BY <1>8, <1>a, SkipClockStep DEF Goes, Pending
  <1>9. ASSUME NEW t \in Threads, ReadClock(t)
        PROVE  PaidFor'
    <2>1. /\ Typed' /\ Others(t) /\ pc'[t] = "deadline" /\ local'[t].at = now
          /\ UNCHANGED <<rows, now, deadline>>
      BY <1>9, ReadClockStep DEF Goes
    <2>2. t \notin Pending' /\ local'[t].at <= now
      BY <2>1, Numbers DEF Pending
    <2>3. QED
      BY <2>1, <2>2, StayPaid
  <1>10. ASSUME NEW t \in Threads, ReadDeadline(t)
         PROVE  PaidFor'
    <2>1. /\ Typed' /\ UNCHANGED <<rows, now, deadline>>
          /\ \/ Goes(t, "deadline", "idle")
             \/ /\ Goes(t, "deadline", "move") /\ deadline <= local[t].at
                /\ local'[t].expected = deadline /\ local'[t].at = local[t].at
      BY <1>10, ReadDeadlineStep
    <2>2. CASE Goes(t, "deadline", "idle")
      BY <1>a, <2>1, <2>2 DEF Goes, Pending
    <2>3. CASE /\ Goes(t, "deadline", "move") /\ deadline <= local[t].at
               /\ local'[t].expected = deadline /\ local'[t].at = local[t].at
      <3>1. local[t].at <= now
        BY <2>3 DEF Goes, PaidFor
      <3>2. t \notin Pending' /\ Others(t) /\ pc'[t] = "move"
        BY <2>3 DEF Goes, Pending
      <3>3. QED
        BY <2>1, <2>3, <3>1, <3>2, StayPaid
    <2>4. QED
      BY <2>1, <2>2, <2>3
  <1>11. ASSUME NEW t \in Threads, MoveDeadline(t)
         PROVE  PaidFor'
    <2>1. /\ Typed' /\ UNCHANGED <<now, rows>>
          /\ \/ /\ Goes(t, "move", "lock") /\ local'[t].purpose = "periodic"
                /\ deadline = local[t].expected /\ deadline' = local[t].at + Interval
             \/ Goes(t, "move", "idle") /\ UNCHANGED deadline
      BY <1>11, MoveDeadlineStep
    <2>2. CASE Goes(t, "move", "idle") /\ UNCHANGED deadline
      BY <1>a, <2>1, <2>2 DEF Goes, Pending
    <2>3. CASE /\ Goes(t, "move", "lock") /\ local'[t].purpose = "periodic"
               /\ deadline = local[t].expected /\ deadline' = local[t].at + Interval
      BY <2>1, <2>3, MovePaid
    <2>4. QED
      BY <2>1, <2>2, <2>3
  <1>12. ASSUME NEW t \in Threads, TakeLock(t)
         PROVE  PaidFor'
    <2>1. /\ Typed' /\ Others(t) /\ pc[t] = "lock" /\ UNCHANGED <<rows, now, deadline>>
          /\ \/ pc'[t] = "load" /\ SamePurpose(t)
             \/ pc'[t] \in {"close", "idle"}
      BY <1>12, TakeLockStep
    <2>2. (t \in Pending' => t \in Pending) /\ pc'[t] \notin {"deadline", "move"}
      BY <2>1 DEF Pending, SamePurpose
    <2>3. QED
      BY <2>1, <2>2, StayPaid
  <1>13. ASSUME NEW t \in Threads, LoadTraffic(t) \/ LoadLive(t)
         PROVE  PaidFor'
    <2>1. /\ Typed' /\ Others(t) /\ pc[t] \in {"load", "loadLive"} /\ UNCHANGED local
          /\ UNCHANGED <<rows, now, deadline>> /\ pc'[t] \in {"load", "loadLive", "write"}
      BY <1>13, LoadTrafficStep, LoadLiveStep
    <2>2. (t \in Pending' => t \in Pending) /\ pc'[t] \notin {"deadline", "move"}
      BY <2>1 DEF Pending
    <2>3. QED
      BY <2>1, <2>2, StayPaid
  <1>14. ASSUME NEW t \in Threads, Write(t)
         PROVE  PaidFor'
    BY <1>14, WritePaid
  <1>15. ASSUME NEW t \in Threads, Close(t)
         PROVE  PaidFor'
    BY <1>15, <1>a, CloseStep DEF Goes, Pending
  <1>16. ASSUME NEW t \in Threads, WritePart(t)
         PROVE  PaidFor'
    BY <1>16, WritePartStep DEF PaidFor, PeriodicRows, Pending
  <1>17. QED
    BY <1>1, <1>2, <1>3, <1>4, <1>5, <1>6, <1>7, <1>8, <1>9, <1>10, <1>11, <1>12, <1>13, <1>14,
       <1>15, <1>16 DEF Next, Proceed

------------------------------------------------------------------------------
(* The rows that readers cannot read *)

\* The rows are finitely many.
LEMMA SpoiltCounts ==
  ASSUME Typed
  PROVE  /\ IsFiniteSet(Spoilt) /\ Cardinality(Spoilt) \in Nat
         /\ DOMAIN rows = 1 .. Len(rows) /\ Len(rows) \in Nat
  <1>1. DOMAIN rows = 1 .. Len(rows) /\ Len(rows) \in Nat
    BY DEF Typed
  <1>2. Spoilt \in SUBSET (1 .. Len(rows))
    BY <1>1 DEF Spoilt
  <1>3. IsFiniteSet(1 .. Len(rows))
    BY <1>1, FS_Interval
  <1>4. IsFiniteSet(Spoilt)
    BY <1>2, <1>3, FS_Subset
  <1>5. QED
    BY <1>1, <1>4, FS_CardinalityType

\* What is in the file changes when a row is written, or half of one; and the
\* log is closed once.
LEMMA FileSteps ==
  ASSUME Typed, Next
  PROVE  \/ UNCHANGED <<rows, tail, logOpen, failures>>
         \/ UNCHANGED <<rows, tail, failures>> /\ logOpen' = FALSE
         \/ UNCHANGED <<rows, logOpen, failures>> /\ tail = "nothing" /\ tail' = "part"
         \/ \E t \in Threads : Write(t)
  <1>1. Tick => UNCHANGED <<rows, tail, logOpen, failures>>
    BY TickStep DEF bounds
  <1>2. ASSUME NEW t \in Threads, Allocate(t) \/ Free(t) \/ Ask(t)
        PROVE  UNCHANGED <<rows, tail, logOpen, failures>>
    BY <1>2, AllocateStep, FreeStep, AskStep
  <1>3. ASSUME NEW t \in Threads, Exit(t) \/ CountAllocation(t) \/ TrackAllocation(t)
        PROVE  UNCHANGED <<rows, tail, logOpen, failures>>
    BY <1>3, ExitStep, CountAllocationStep, TrackAllocationStep DEF bounds
  <1>4. ASSUME NEW t \in Threads, SkipClock(t) \/ ReadClock(t) \/ ReadDeadline(t)
        PROVE  UNCHANGED <<rows, tail, logOpen, failures>>
    BY <1>4, SkipClockStep, ReadClockStep, ReadDeadlineStep DEF bounds
  <1>5. ASSUME NEW t \in Threads, MoveDeadline(t) \/ TakeLock(t)
        PROVE  UNCHANGED <<rows, tail, logOpen, failures>>
    BY <1>5, MoveDeadlineStep, TakeLockStep DEF bounds
  <1>6. ASSUME NEW t \in Threads, LoadTraffic(t) \/ LoadLive(t)
        PROVE  UNCHANGED <<rows, tail, logOpen, failures>>
    BY <1>6, LoadTrafficStep, LoadLiveStep DEF bounds
  <1>7. ASSUME NEW t \in Threads, WritePart(t)
        PROVE  UNCHANGED <<rows, logOpen, failures>> /\ tail = "nothing" /\ tail' = "part"
    BY <1>7, WritePartStep DEF bounds
  <1>8. ASSUME NEW t \in Threads, Close(t)
        PROVE  UNCHANGED <<rows, tail, failures>> /\ logOpen' = FALSE
    BY <1>8, CloseStep DEF bounds
  <1>9. QED
    BY <1>1, <1>2, <1>3, <1>4, <1>5, <1>6, <1>7, <1>8 DEF Next, Proceed

\* What a failed write has left behind, as long as a row can be glued to it.
Debris == IF logOpen /\ tail = "debris" THEN 1 ELSE 0

\* Whatever a count may grow by, its budget may.
LEMMA Budget ==
  ASSUME NEW c \in Nat, NEW d \in Nat, NEW e \in Nat, NEW f \in Nat, NEW g \in Nat,
         c + d <= f, e <= d + (g - f)
  PROVE  c + e <= g
  OBVIOUS

\* A failed write leaves debris, and the row that is glued to it takes it away.
LEMMA WriteSpoils ==
  ASSUME Typed, FailuresSpoilOneRow, NEW t \in Threads, Write(t)
  PROVE  FailuresSpoilOneRow'
  <1>1. /\ Typed' /\ logOpen' = logOpen
        /\ Written(t) \/ NotWritten
    BY WriteStep
  <1>2. failures \in Nat /\ tail \in Tails /\ Cardinality(Spoilt) \in Nat /\ IsFiniteSet(Spoilt)
    BY SpoiltCounts DEF Typed
  <1>3. Cardinality(Spoilt) + Debris <= failures
    BY DEF FailuresSpoilOneRow, Debris
  <1>4. CASE NotWritten
    <2>1. rows' = rows
      BY <1>4 DEF NotWritten, WriteFails
    <2>2. Spoilt' = Spoilt
      BY <2>1 DEF Spoilt, Readable
    <2>3. Debris' <= Debris + (failures' - failures) /\ failures' \in Nat /\ Debris' \in Nat
      <3>1. CASE logOpen
        BY <1>1, <1>2, <1>4, <3>1 DEF NotWritten, WriteFails, Debris, Tails
      <3>2. CASE ~logOpen
        BY <1>1, <1>2, <1>4, <3>2 DEF NotWritten, WriteFails, Debris
      <3>3. QED
        BY <3>1, <3>2
    <2>4. Debris \in Nat
      BY DEF Debris
    <2>5. Cardinality(Spoilt') + Debris' <= failures'
      <3>1. Cardinality(Spoilt') = Cardinality(Spoilt)
        BY <2>2
      <3>2. Cardinality(Spoilt) + Debris' <= failures'
        BY <1>2, <1>3, <2>3, <2>4, Budget
      <3>3. QED
        BY <3>1, <3>2
    <2>6. QED
      BY <2>5 DEF FailuresSpoilOneRow, Debris
  <1>5. CASE Written(t)
    <2> DEFINE n == Len(rows) + 1
               alone == tail # "debris"
    <2>1. /\ rows' = Append(rows, Row(t)) /\ Row(t).alone = alone /\ rows \in Seq(RowRecords)
          /\ logOpen /\ tail' = "nothing" /\ failures' = failures
      BY <1>5 DEF Written, Row, Typed
    <2>2. /\ DOMAIN rows = 1 .. Len(rows) /\ DOMAIN rows' = 1 .. n /\ n \notin 1 .. Len(rows)
          /\ 1 .. n = (1 .. Len(rows)) \cup {n}
          /\ rows'[n].alone = alone /\ \A i \in 1 .. Len(rows) : rows'[i] = rows[i]
      BY <2>1
    <2> HIDE DEF n
    <2>3. n \notin Spoilt
      BY <2>2 DEF Spoilt
    <2>4. Debris' = 0
      BY <2>1 DEF Debris
    <2>5. CASE tail # "debris"
      <3>1. Spoilt' = Spoilt
        BY <2>2, <2>5 DEF Spoilt, Readable
      <3>2. QED
        BY <1>2, <1>3, <2>1, <2>4, <3>1 DEF FailuresSpoilOneRow, Debris
    <2>6. CASE tail = "debris"
      <3>1. Spoilt' = Spoilt \cup {n}
        BY <2>2, <2>6 DEF Spoilt, Readable
      <3>2. Cardinality(Spoilt') = Cardinality(Spoilt) + 1
        BY <1>2, <2>3, <3>1, FS_AddElement
      <3>3. Debris = 1
        BY <2>1, <2>6 DEF Debris
      <3>4. QED
        BY <1>2, <1>3, <2>1, <2>4, <3>2, <3>3 DEF FailuresSpoilOneRow, Debris
    <2>7. QED
      BY <2>5, <2>6
  <1>6. QED
    BY <1>1, <1>4, <1>5

\* Each unreadable row has been paid for by a failed write.
LEMMA SpoiltStep ==
  ASSUME Typed, FailuresSpoilOneRow, Next
  PROVE  FailuresSpoilOneRow'
  <1>1. Cardinality(Spoilt) \in Nat /\ failures \in Nat
    BY SpoiltCounts DEF Typed
  <1>2. CASE /\ UNCHANGED <<rows, failures>>
             /\ logOpen' /\ tail' = "debris" => logOpen /\ tail = "debris"
    <2>1. Spoilt' = Spoilt
      BY <1>2 DEF Spoilt, Readable
    <2>2. QED
      BY <1>1, <1>2, <2>1 DEF FailuresSpoilOneRow
  <1>3. ASSUME NEW t \in Threads, Write(t)
        PROVE  FailuresSpoilOneRow'
    BY <1>3, WriteSpoils
  <1>4. QED
    BY <1>2, <1>3, FileSteps

------------------------------------------------------------------------------
(* The theorems *)

\* Nothing has been counted, and no row written, in the initial states.
LEMMA InitInvariant ==
  ASSUME Init
  PROVE  IInv
  <1> USE SnapshotAssumption
  <1>1. Typed
    BY DEF Init, Typed, TrafficCounters, LiveCounters, Remembered, RowRecords, Drafts, Labels,
           Locals, NoTraffic, NoLive, NoDraft, NoLocal, ShardSet, Purposes, Tails
  <1>2. \A t \in Threads : ~InSnapshot(t) /\ pc[t] = "idle" /\ local[t].purpose = "periodic"
    BY DEF Init, InSnapshot, NoLocal
  <1>3. \A f \in Fields : Total(traffic, f) \in Nat /\ NoTraffic[f] = 0
    BY <1>1, TrafficSums DEF Fields, NoTraffic
  <1>4. Total(live, "frees") \in Nat
    BY <1>1, LiveSums
  <1>5. LockHeld /\ LastRemembered /\ TimeGoesOn /\ RowsChain /\ RowsGrow
    BY <1>2 DEF Init, LockHeld, LastRemembered, TimeGoesOn, RowsChain, RowsGrow
  <1>6. \A f \in Fields : Counted(f) /\ Owed(f)
    BY <1>2, <1>3 DEF Init, Counted, Owed, InSnapshot
  <1>7. FreesCounted
    BY <1>2, <1>4 DEF Init, FreesCounted
  <1>8. LiveExact /\ OneExits
    BY <1>2 DEF Init, LiveExact, OneExits
  <1>9. PaidFor
    <2>1. PeriodicRows = {} /\ Pending = {}
      BY <1>2 DEF Init, PeriodicRows, Pending
    <2>2. Cardinality(PeriodicRows) = 0 /\ Cardinality(Pending) = 0
      BY <2>1, FS_EmptySet
    <2>3. QED
      BY <1>2, <2>2 DEF Init, PaidFor
  <1>10. FailuresSpoilOneRow
    <2>1. Spoilt = {}
      BY DEF Init, Spoilt
    <2>2. QED
      BY <2>1, FS_EmptySet DEF Init, FailuresSpoilOneRow
  <1>11. QED
    BY <1>1, <1>5, <1>6, <1>7, <1>8, <1>9, <1>10 DEF IInv, Fields

\* The invariant is inductive.
LEMMA StepInvariant ==
  ASSUME IInv, [Next]_vars
  PROVE  IInv'
  <1>0. /\ Typed /\ RowInv /\ LiveExact /\ OneExits /\ (\A f \in Fields : Owed(f)) /\ PaidFor
        /\ FailuresSpoilOneRow
    BY DEF IInv, RowInv, Fields
  <1>1. CASE Next
    <2>1. /\ Typed' /\ RowInv' /\ LiveExact' /\ OneExits' /\ (\A f \in Fields : Owed(f)') /\ PaidFor'
          /\ FailuresSpoilOneRow'
      BY <1>0, <1>1, RowsStep, LiveStep, ExitsStep, OwedStep, PaidStep, SpoiltStep
    <2>2. QED
      BY <2>1 DEF IInv, RowInv, Fields
  <1>2. CASE UNCHANGED vars
    BY <1>2
       DEF vars, counters, bounds, log, IInv, Typed, LockHeld, RowsChain, RowsGrow, LastRemembered,
           FailuresSpoilOneRow, Spoilt, Readable,
           TimeGoesOn, Counted, FreesCounted, LiveExact, OneExits, Owed, PaidFor, Disturbed,
           LiveNow, PeriodicRows, Pending, InSnapshot
  <1>3. QED
    BY <1>1, <1>2

\* In every state of every run the rows, the live values, the end of the log
\* and the deadline are as the invariant says.
THEOREM Invariance == Spec => []IInv
  <1>1. Init => IInv
    BY InitInvariant
  <1>2. IInv /\ [Next]_vars => IInv'
    BY StepInvariant
  <1>3. QED
    BY <1>1, <1>2, PTL DEF Spec

\* The variables keep the types of the code, for every number of threads and
\* shards.
THEOREM TypeCorrect == Spec => []TypeOK
  <1>1. IInv => TypeOK
    BY Numbers DEF IInv, TypeOK, Typed, Remembered, Locals, LiveCounters
  <1>2. QED
    BY <1>1, Invariance, PTL

\* write_snapshot: a readable row of the log begins, in time and in counts,
\* where the row before it ended, if that is readable too, and never before the
\* end of an earlier one; the unsigned differences never wrap around, whatever
\* threads record while the shards are read and whatever writes fail.
THEOREM RowsContinue == Spec => []RowsTelescope
  <1>1. ASSUME IInv
        PROVE  RowsTelescope
    <2>0. rows \in Seq(RowRecords)
      BY <1>1 DEF IInv, Typed
    <2>1. SUFFICES ASSUME NEW i \in 1 .. Len(rows)
                   PROVE  LET base == Minus(rows[i].total, rows[i].period)
                              baseFrees == rows[i].frees - rows[i].periodFrees
                          IN  /\ rows[i].start <= rows[i].end
                              /\ AtLeast(rows[i].period, NoTraffic) /\ rows[i].periodFrees >= 0
                              /\ i = 1 => rows[i].start = 0 /\ base = NoTraffic /\ baseFrees = 0
                              /\ \A j \in 1 .. i - 1 :
                                   /\ rows[j].end <= rows[i].start
                                   /\ AtLeast(base, rows[j].total) /\ rows[j].frees <= baseFrees
                                   /\ j = i - 1 => /\ rows[i].start = rows[j].end
                                                   /\ base = rows[j].total
                                                   /\ baseFrees = rows[j].frees
      BY <2>0 DEF RowsTelescope, Readable
    <2> DEFINE row == rows[i]
               last == IF i = 1 THEN First ELSE rows[i - 1]
    <2>2. Follows(row, last)
      BY <1>1 DEF IInv, RowsChain
    <2>3. /\ row.total \in TrafficCounters /\ row.frees \in Nat
          /\ last.total \in TrafficCounters /\ last.frees \in Nat
      <3>1. CASE i = 1
        <4>1. rows[i] \in RowRecords
          BY <2>0
        <4>2. First.total \in TrafficCounters /\ First.frees \in Nat
          BY DEF First, NoTraffic, TrafficCounters
        <4>3. QED
          BY <3>1, <4>1, <4>2 DEF RowRecords
      <3>2. CASE i # 1
        <4>1. rows[i] \in RowRecords /\ rows[i - 1] \in RowRecords
          BY <2>0, <3>2
        <4>2. QED
          BY <3>2, <4>1 DEF RowRecords
      <3>3. QED
        BY <3>1, <3>2
    <2>4. ASSUME NEW j \in 1 .. i - 1
          PROVE  i # 1 /\ NotBelow(last, rows[j])
      BY <1>1, <2>0 DEF IInv, RowsGrow
    <2> HIDE DEF row, last
    <2>5. Minus(row.total, row.period) = last.total /\ row.frees - row.periodFrees = last.frees
      <3>1. row.period = Minus(row.total, last.total) /\ row.periodFrees = row.frees - last.frees
        BY <2>2 DEF Follows
      <3>2. Minus(row.total, Minus(row.total, last.total)) = last.total
        BY <2>3, TakenAgain
      <3>3. QED
        BY <2>3, <3>1, <3>2
    <2>6. /\ row.start = last.end /\ row.start <= row.end
          /\ AtLeast(row.period, NoTraffic) /\ row.periodFrees >= 0
      BY <2>2 DEF Follows
    <2>7. i = 1 => last.end = 0 /\ last.total = NoTraffic /\ last.frees = 0
      BY DEF last, First
    <2>8. ASSUME NEW j \in 1 .. i - 1
          PROVE  /\ rows[j].end <= last.end /\ AtLeast(last.total, rows[j].total)
                 /\ rows[j].frees <= last.frees
                 /\ j = i - 1 => last = rows[j]
      BY <2>4, <2>8 DEF NotBelow, last
    <2>9. QED
      BY <2>5, <2>6, <2>7, <2>8 DEF row
  <1>2. QED
    BY <1>1, Invariance, PTL

\* raw_write_all and close_log: a failed write costs the readers of the log at
\* most one later row, and closing the log under a half-written row costs none.
THEOREM FailuresSpoil == Spec => []FailuresSpoilOneRow
  <1>1. IInv => FailuresSpoilOneRow
    BY DEF IInv
  <1>2. QED
    BY <1>1, Invariance, PTL

\* load_statistics and load_live_statistics: a row that is about to be written
\* has what was counted when the snapshot began and nothing that has not been
\* counted; the live values are exact when nothing disturbed the snapshot.
THEOREM RowsWitness == Spec => []RowsAreWitnessed
  <1>1. ASSUME IInv
        PROVE  RowsAreWitnessed
    <2>0. Typed /\ RowInv /\ LiveExact
      BY <1>1 DEF IInv, RowInv, Fields
    <2> SUFFICES ASSUME NEW t \in Threads, pc[t] = "write"
                 PROVE  /\ AtLeast(draft.total, draft.floor) /\ AtLeast(TrafficNow, draft.total)
                        /\ Cardinality(draft.seen) = 1 => LiveNow = draft.live
      BY DEF RowsAreWitnessed
    <2>1. \A f \in Fields : draft.floor[f] <= draft.total[f] /\ draft.total[f] <= TrafficNow[f]
      BY <2>0, NewRow, TotalsNow DEF Fields
    <2>2. /\ draft.floor \in TrafficCounters /\ draft.total \in TrafficCounters
          /\ TrafficNow \in TrafficCounters
      BY <2>0, TotalsNow DEF Typed, Drafts
    <2>3. AtLeast(draft.total, draft.floor) /\ AtLeast(TrafficNow, draft.total)
      BY <2>1, <2>2, MinusFields DEF Fields
    <2>4. ASSUME Cardinality(draft.seen) = 1
          PROVE  LiveNow = draft.live
      <3>1. lock = t /\ LiveNow \in draft.seen /\ IsFiniteSet(draft.seen)
        BY <2>0, OneWriter, SnapshotAssumption DEF InSnapshot, LiveExact
      <3>2. draft.seen = {LiveNow}
        BY <2>4, <3>1, FS_Singleton
      <3>3. LiveNow \in LiveCounters /\ draft.live \in LiveCounters
        BY <2>0, TotalsNow, Numbers
      <3>4. ~Disturbed
        BY <3>2, <3>3 DEF Disturbed, Weight, LiveCounters
      <3>5. \A f \in {"blocks", "frees"} : draft.live[f] = LiveNow[f]
        BY <2>0, <3>4, TotalsNow DEF LiveExact
      <3>6. QED
        BY <3>3, <3>5 DEF LiveCounters
    <2>5. QED
      BY <2>3, <2>4
  <1>2. QED
    BY <1>1, Invariance, PTL

\* maybe_write_periodic_snapshot: threads that find the same period over write
\* one row for it.
THEOREM PeriodsHaveOneRow == Spec => []OneRowPerPeriod
  <1>1. ASSUME IInv
        PROVE  OneRowPerPeriod
    <2> DEFINE r == Cardinality(PeriodicRows)
               p == Cardinality(Pending)
    <2>1. /\ r \in Nat /\ p \in Nat /\ now \in Nat /\ deadline \in Nat
          /\ (r + p) * Interval <= deadline /\ deadline <= now + Interval
      BY <1>1, Counts, Numbers DEF IInv, PaidFor, Typed
    <2> HIDE DEF r, p
    <2>2. r * Interval <= now + Interval
      <3>1. r * Interval <= (r + p) * Interval /\ r * Interval \in Nat /\ (r + p) * Interval \in Nat
        BY <2>1, Periods
      <3>2. QED
        BY <2>1, <3>1, SnapshotAssumption
    <2>3. r <= 1 + now \div Interval
      <3> DEFINE q == now \div Interval
      <3>1. q \in Nat /\ now < (q + 1) * Interval
        BY <2>1, SnapshotAssumption
      <3> HIDE DEF q
      <3>2. ASSUME q + 2 <= r
            PROVE  FALSE
        <4>1. (q + 2) * Interval <= r * Interval
          BY <2>1, <3>1, <3>2, Periods
        <4>2. (q + 2) * Interval = (q + 1) * Interval + Interval
          BY <3>1, SnapshotAssumption
        <4>3. (q + 1) * Interval \in Nat /\ r * Interval \in Nat /\ Interval \in Nat
          BY <2>1, <3>1, Periods, SnapshotAssumption
        <4>4. QED
          BY <2>1, <2>2, <3>1, <4>1, <4>2, <4>3
      <3>3. QED
        BY <2>1, <3>1, <3>2 DEF q
    <2>4. QED
      BY <2>3 DEF OneRowPerPeriod, PeriodicRows, r
  <1>2. QED
    BY <1>1, Invariance, PTL

\* finalize_hook: when a thread has closed the log and no write has failed, a
\* reader finds a row with everything that was counted when the exit began.
THEOREM LastRowIsWritten == Spec => []FinalRowIsWritten
  <1>1. ASSUME IInv
        PROVE  FinalRowIsWritten
    <2>1. SUFFICES ASSUME NEW t \in Threads, pc[t] = "gone", failures = 0
                   PROVE  \E i \in Readable : AtLeast(rows[i].total, owed)
      BY DEF FinalRowIsWritten
    <2>2. rows # <<>> /\ \A f \in Fields : owed[f] <= previous.total[f]
      BY <1>1, <2>1 DEF IInv, Owed, Fields
    <2>3. previous.total = rows[Len(rows)].total
      BY <1>1, <2>2 DEF IInv, LastRemembered
    <2>4. previous.total \in TrafficCounters /\ owed \in TrafficCounters
      BY <1>1, Numbers DEF IInv, Typed
    <2>5. Spoilt = {}
      <3>1. IsFiniteSet(Spoilt) /\ Cardinality(Spoilt) \in Nat
        BY <1>1, SpoiltCounts DEF IInv
      <3>2. Cardinality(Spoilt) = 0
        BY <1>1, <2>1, <3>1 DEF IInv, FailuresSpoilOneRow
      <3>3. QED
        BY <3>1, <3>2, FS_EmptySet
    <2>6. Len(rows) \in DOMAIN rows
      BY <1>1, <2>2 DEF IInv, Typed
    <2>7. Len(rows) \in Readable
      BY <2>5, <2>6 DEF Spoilt
    <2>8. AtLeast(rows[Len(rows)].total, owed)
      BY <2>2, <2>3, <2>4, MinusFields DEF Fields
    <2>9. QED
      BY <2>7, <2>8
  <1>2. QED
    BY <1>1, Invariance, PTL
==============================================================================
