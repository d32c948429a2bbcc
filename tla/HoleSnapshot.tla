---------------------------- MODULE HoleSnapshot ----------------------------
(***************************************************************************)
(* The statistics rows of malloc_hole_hook.c in its atomic, sharded build  *)
(* without a writer thread.  Threads record allocations and frees in       *)
(* sharded counters; a thread that finds the period over moves the         *)
(* deadline and writes a row, reading the shards one after the other while *)
(* the others go on recording.  Any thread may ask for a row, and the      *)
(* finalizer writes the last one and closes the log.                       *)
(*                                                                         *)
(* A recorded allocation has one unit of requested bytes.  Holes, classes  *)
(* and failures are further counters of the same kind as "allocs".  One    *)
(* clock stands for both clocks of the code.                               *)
(***************************************************************************)
EXTENDS Integers, Sequences, FiniteSets, Functions

CONSTANTS
  Threads, NoThread,
  Shards,       \* ATOMIC_STATISTICS_SHARD_COUNT, visited from 1 to Shards
  Interval,     \* interval_seconds
  MaxTime,      \* bound of the clock
  MaxEvents,    \* bound of the recorded events
  MaxFailures,  \* bound of the failing writes
  MaxAsked      \* bound of the calls of mini_hole_snapshot_now

ASSUME SnapshotAssumption ==
  /\ NoThread \notin Threads /\ IsFiniteSet(Threads)
  /\ Shards \in Nat \ {0} /\ Interval \in Nat \ {0}
  /\ MaxTime \in Nat /\ MaxEvents \in Nat /\ MaxFailures \in Nat /\ MaxAsked \in Nat

VARIABLES
  traffic,   \* statistics: shard -> counters that only grow
  live,      \* live_statistics: shard -> live blocks and free events
  now,       \* the clock
  deadline,  \* next_snapshot_monotonic_ns
  lock,      \* snapshot_lock: its holder, or NoThread
  logOpen,   \* log_fd >= 0
  previous,  \* previous_snapshot, previous_live_snapshot and their time
  rows,      \* the rows that were written to their end, in the order of the file
  tail,      \* what the file has behind the last of them: see Tails
  draft,     \* the row under construction by the holder of the lock
  pc, local, \* what each thread does, and with which values
  events, failures, asked,
  owed       \* history: the traffic when the process began to exit

counters == <<traffic, live>>
bounds == <<events, failures, asked>>
log == <<rows, tail>>
vars == <<traffic, live, now, deadline, lock, logOpen, previous, log, draft, pc, local, bounds, owed>>

ShardSet == 1 .. Shards

Plus(a, b) == [f \in DOMAIN a |-> a[f] + b[f]]
Minus(a, b) == [f \in DOMAIN a |-> a[f] - b[f]]
AtLeast(a, b) == \A f \in DOMAIN a : a[f] >= b[f]

NoTraffic == [requested |-> 0, allocs |-> 0]
NoLive == [blocks |-> 0, frees |-> 0]

\* A field of a counter, over all shards.
Total(counter, field) == SumFunction([s \in ShardSet |-> counter[s][field]])

TrafficNow == [requested |-> Total(traffic, "requested"), allocs |-> Total(traffic, "allocs")]
LiveNow == [blocks |-> Total(live, "blocks"), frees |-> Total(live, "frees")]

Purposes == {"periodic", "asked", "exit"}

\* Nothing, a part of the row that is being written, or debris: a part of a
\* row that nobody will complete, to which the next row is glued.
Tails == {"nothing", "part", "debris"}

\* "floor" and "seen" are history, for the properties only: the traffic when
\* the lock was taken, and the live totals there have been since.
NoDraft ==
  [shard |-> 1, total |-> NoTraffic, live |-> NoLive, end |-> 0, floor |-> NoTraffic, seen |-> {}]

NoLocal == [shard |-> 1, at |-> 0, expected |-> 0, purpose |-> "periodic"]

Goto(t, label) == pc' = [pc EXCEPT ![t] = label]

Return(t) == Goto(t, "idle") /\ local' = [local EXCEPT ![t] = NoLocal]

Init ==
  /\ traffic = [s \in ShardSet |-> NoTraffic]
  /\ live = [s \in ShardSet |-> NoLive]
  /\ now = 0 /\ deadline = 0
  /\ lock = NoThread /\ logOpen = TRUE
  /\ previous = [total |-> NoTraffic, frees |-> 0, end |-> 0]
  /\ rows = <<>> /\ tail = "nothing"
  /\ draft = NoDraft
  /\ pc = [t \in Threads |-> "idle"]
  /\ local = [t \in Threads |-> NoLocal]
  /\ events = 0 /\ failures = 0 /\ asked = 0
  /\ owed = NoTraffic


------------------------------------------------------------------------------
(* Recording *)

\* The history of the draft: every live total since the lock was taken.
Witnessed ==
  IF lock = NoThread THEN UNCHANGED draft
  ELSE draft' = [draft EXCEPT !.seen = @ \cup {LiveNow'}]

\* record_successful_allocation, up to its first counter.
Allocate(t) ==
  /\ pc[t] = "idle" /\ events < MaxEvents
  /\ \E s \in ShardSet :
       /\ traffic' = [traffic EXCEPT ![s].requested = @ + 1]
       /\ local' = [local EXCEPT ![t].shard = s]
  /\ events' = events + 1
  /\ Goto(t, "count")
  /\ UNCHANGED <<live, now, deadline, lock, logOpen, previous, log, draft, failures, asked, owed>>

\* Its counter of the bucket.
CountAllocation(t) ==
  /\ pc[t] = "count"
  /\ traffic' = [traffic EXCEPT ![local[t].shard].allocs = @ + 1]
  /\ Goto(t, "track")
  /\ UNCHANGED <<live, now, deadline, lock, logOpen, previous, log, draft, local, bounds, owed>>

\* track_live_allocation, under the lock of the shard.
TrackAllocation(t) ==
  /\ pc[t] = "track"
  /\ live' = [live EXCEPT ![local[t].shard].blocks = @ + 1]
  /\ Witnessed
  /\ Goto(t, "clock")
  /\ UNCHANGED <<traffic, now, deadline, lock, logOpen, previous, log, local, bounds, owed>>

\* record_free_allocation of a tracked block, under the lock of the shard.
Free(t) ==
  /\ pc[t] = "idle" /\ events < MaxEvents
  /\ \E s \in ShardSet :
       /\ live[s].blocks > 0
       /\ live' = [live EXCEPT ![s].blocks = @ - 1, ![s].frees = @ + 1]
  /\ Witnessed
  /\ events' = events + 1
  /\ Goto(t, "clock")
  /\ UNCHANGED <<traffic, now, deadline, lock, logOpen, previous, log, local, failures, asked, owed>>

------------------------------------------------------------------------------
(* maybe_write_periodic_snapshot *)

\* clock_check_is_due, for one event of many; it decides which go on here.
SkipClock(t) ==
  /\ pc[t] = "clock"
  /\ Return(t)
  /\ UNCHANGED <<counters, now, deadline, lock, logOpen, previous, log, draft, bounds, owed>>

ReadClock(t) ==
  /\ pc[t] = "clock"
  /\ local' = [local EXCEPT ![t].at = now]
  /\ Goto(t, "deadline")
  /\ UNCHANGED <<counters, now, deadline, lock, logOpen, previous, log, draft, bounds, owed>>

\* A faulty check, which forgets that another thread may move the deadline.
MoveWithoutComparing(t) ==
  /\ pc[t] = "move"
  /\ deadline' = local[t].at + Interval
  /\ local' = [local EXCEPT ![t].purpose = "periodic"]
  /\ Goto(t, "lock")
  /\ UNCHANGED <<counters, now, lock, logOpen, previous, log, draft, bounds, owed>>

\* The deadline is read, and compared with the clock that was read before.
ReadDeadline(t) ==
  /\ pc[t] = "deadline"
  /\ IF local[t].at < deadline
       THEN Return(t)
       ELSE Goto(t, "move") /\ local' = [local EXCEPT ![t].expected = deadline]
  /\ UNCHANGED <<counters, now, deadline, lock, logOpen, previous, log, draft, bounds, owed>>

\* The compare-and-exchange that one of the threads wins.
MoveDeadline(t) ==
  /\ pc[t] = "move"
  /\ IF deadline = local[t].expected
       THEN /\ deadline' = local[t].at + Interval
            /\ local' = [local EXCEPT ![t].purpose = "periodic"]
            /\ Goto(t, "lock")
       ELSE Return(t) /\ UNCHANGED deadline
  /\ UNCHANGED <<counters, now, lock, logOpen, previous, log, draft, bounds, owed>>

------------------------------------------------------------------------------
(* write_snapshot *)

Afterwards(t) ==
  IF local[t].purpose = "exit" THEN Goto(t, "close") /\ UNCHANGED local ELSE Return(t)

\* lock_flag(&snapshot_lock); once the log is closed there is nothing to do.
TakeLock(t) ==
  /\ pc[t] = "lock" /\ lock = NoThread
  /\ IF logOpen
       THEN /\ lock' = t
            /\ draft' = [NoDraft EXCEPT !.floor = TrafficNow, !.seen = {LiveNow}]
            /\ Goto(t, "load") /\ UNCHANGED local
       ELSE Afterwards(t) /\ UNCHANGED <<lock, draft>>
  /\ UNCHANGED <<counters, now, deadline, logOpen, previous, log, bounds, owed>>

\* A faulty load, which does not start the live shards at the first.
LoadTrafficLeavingShard(t) ==
  /\ pc[t] = "load"
  /\ draft' = [draft EXCEPT !.total = Plus(@, traffic[draft.shard]), !.shard = @ + 1]
  /\ Goto(t, IF draft.shard = Shards THEN "loadLive" ELSE "load")
  /\ UNCHANGED <<counters, now, deadline, lock, logOpen, previous, log, local, bounds, owed>>

\* load_statistics, one shard: the code loads its counters one by one, and
\* nothing below compares two counters of a row with each other.
LoadTraffic(t) ==
  /\ pc[t] = "load"
  /\ draft' = [draft EXCEPT !.total = Plus(@, traffic[draft.shard]),
                           !.shard = IF @ = Shards THEN 1 ELSE @ + 1]
  /\ Goto(t, IF draft.shard = Shards THEN "loadLive" ELSE "load")
  /\ UNCHANGED <<counters, now, deadline, lock, logOpen, previous, log, local, bounds, owed>>

\* A faulty load, which leaves out the last shard.
LoadLiveButLast(t) ==
  /\ pc[t] = "loadLive"
  /\ draft' = [draft EXCEPT !.live = IF draft.shard = Shards THEN @ ELSE Plus(@, live[draft.shard]),
                           !.shard = IF @ = Shards THEN 1 ELSE @ + 1,
                           !.end = now]
  /\ Goto(t, IF draft.shard = Shards THEN "write" ELSE "loadLive")
  /\ UNCHANGED <<counters, now, deadline, lock, logOpen, previous, log, local, bounds, owed>>

\* load_live_statistics, one shard under its lock; the time is read at the end.
LoadLive(t) ==
  /\ pc[t] = "loadLive"
  /\ draft' = [draft EXCEPT !.live = Plus(@, live[draft.shard]),
                           !.shard = IF @ = Shards THEN 1 ELSE @ + 1,
                           !.end = now]
  /\ Goto(t, IF draft.shard = Shards THEN "write" ELSE "loadLive")
  /\ UNCHANGED <<counters, now, deadline, lock, logOpen, previous, log, local, bounds, owed>>

\* A row that follows debris has no line of its own.
Row(t) ==
  [start |-> previous.end, end |-> draft.end,
   total |-> draft.total, period |-> Minus(draft.total, previous.total),
   frees |-> draft.live.frees, periodFrees |-> draft.live.frees - previous.frees,
   blocks |-> draft.live.blocks, purpose |-> local[t].purpose, alone |-> tail # "debris"]

Remember == previous' = [total |-> draft.total, frees |-> draft.live.frees, end |-> draft.end]

Unlock == lock' = NoThread /\ draft' = NoDraft

\* A faulty write, which takes a part of the row for all of it.
WriteOnce(t) ==
  /\ pc[t] = "write" /\ logOpen /\ tail = "nothing"
  /\ tail' = "debris"
  /\ Remember
  /\ Unlock
  /\ Afterwards(t)
  /\ UNCHANGED <<counters, now, deadline, logOpen, rows, bounds, owed>>

\* A write call that takes a part of the row: raw_write_all goes on with the
\* rest, if nothing happens to it.
WritePart(t) ==
  /\ pc[t] = "write" /\ logOpen /\ tail = "nothing"
  /\ tail' = "part"
  /\ UNCHANGED <<counters, now, deadline, lock, logOpen, previous, rows, draft, pc, local, bounds,
                 owed>>

\* The row, or what was missing of it, is written.
Written(t) ==
  /\ logOpen
  /\ rows' = Append(rows, Row(t)) /\ tail' = "nothing"
  /\ Remember
  /\ UNCHANGED failures

\* The write of the row, or of what was missing of it, fails, or the finalizer
\* has closed the log.  What has been written of the row stays in the file.
WriteFails ==
  /\ IF logOpen THEN failures < MaxFailures /\ failures' = failures + 1 ELSE UNCHANGED failures
  /\ tail' = IF tail = "part" THEN "debris" ELSE tail
  /\ UNCHANGED rows

NotWritten == WriteFails /\ UNCHANGED previous

\* A faulty end, which remembers the totals of a row that was not written.
WriteRememberingAll(t) ==
  /\ pc[t] = "write"
  /\ Written(t) \/ (WriteFails /\ Remember)
  /\ Unlock
  /\ Afterwards(t)
  /\ UNCHANGED <<counters, now, deadline, logOpen, events, asked, owed>>

\* The previous totals advance only when the row was written to its end.
Write(t) ==
  /\ pc[t] = "write"
  /\ Written(t) \/ NotWritten
  /\ Unlock
  /\ Afterwards(t)
  /\ UNCHANGED <<counters, now, deadline, logOpen, events, asked, owed>>

------------------------------------------------------------------------------
(* The other callers *)

\* mini_hole_snapshot_now
Ask(t) ==
  /\ pc[t] = "idle" /\ asked < MaxAsked
  /\ asked' = asked + 1
  /\ local' = [local EXCEPT ![t].purpose = "asked"]
  /\ Goto(t, "lock")
  /\ UNCHANGED <<counters, now, deadline, lock, logOpen, previous, log, draft, events, failures, owed>>

\* A faulty finalizer, which closes the log without a last row.
ExitWithoutRow(t) ==
  /\ pc[t] = "idle" /\ \A u \in Threads : local[u].purpose # "exit"
  /\ local' = [local EXCEPT ![t].purpose = "exit"]
  /\ owed' = TrafficNow
  /\ Goto(t, "close")
  /\ UNCHANGED <<counters, now, deadline, lock, logOpen, previous, log, draft, bounds>>

\* finalize_hook, called by one thread while the others may be anywhere.
Exit(t) ==
  /\ pc[t] = "idle" /\ \A u \in Threads : local[u].purpose # "exit"
  /\ local' = [local EXCEPT ![t].purpose = "exit"]
  /\ owed' = TrafficNow
  /\ Goto(t, "lock")
  /\ UNCHANGED <<counters, now, deadline, lock, logOpen, previous, log, draft, bounds>>

\* close_log takes no lock: another thread may be about to write.
Close(t) ==
  /\ pc[t] = "close"
  /\ logOpen' = FALSE
  /\ Goto(t, "gone")
  /\ UNCHANGED <<counters, now, deadline, lock, previous, log, draft, local, bounds, owed>>

Tick ==
  /\ now < MaxTime
  /\ now' = now + 1
  /\ UNCHANGED <<counters, deadline, lock, logOpen, previous, log, draft, pc, local, bounds, owed>>

\* What a thread does once it is in a call.
Proceed(t) ==
  \/ CountAllocation(t) \/ TrackAllocation(t)
  \/ SkipClock(t) \/ ReadClock(t) \/ ReadDeadline(t) \/ MoveDeadline(t)
  \/ TakeLock(t) \/ LoadTraffic(t) \/ LoadLive(t) \/ WritePart(t) \/ Write(t)
  \/ Close(t)

Next ==
  \/ Tick
  \/ \E t \in Threads : Allocate(t) \/ Free(t) \/ Ask(t) \/ Exit(t) \/ Proceed(t)

Spec == Init /\ [][Next]_vars

------------------------------------------------------------------------------

TrafficCounters == [requested : Nat, allocs : Nat]

\* The variables have the types of the code.
TypeOK ==
  /\ traffic \in [ShardSet -> TrafficCounters]
  /\ live \in [ShardSet -> [blocks : Nat, frees : Nat]]
  /\ now \in 0 .. MaxTime /\ deadline \in Nat /\ logOpen \in BOOLEAN
  /\ lock \in Threads \cup {NoThread} /\ tail \in Tails
  /\ draft.shard \in ShardSet
  /\ local \in [Threads -> [shard : ShardSet, at : Nat, expected : Nat, purpose : Purposes]]
  /\ previous.total \in TrafficCounters /\ previous.frees \in Nat /\ previous.end \in Nat

\* The rows a reader of the log finds: the others are glued to debris.
Readable == { i \in DOMAIN rows : rows[i].alone }
Spoilt == DOMAIN rows \ Readable

\* "The complete cumulative interval since the last snapshot" (README.md:145,
\* translated): a readable row begins, in time and in counts, where the row
\* before it ended, if that one is readable too or there is none; a row that
\* was not written is covered by the next one.  A spoilt row takes its interval
\* with it, and then readers find a gap; but no interval is in two rows,
\* whatever failed between them.  No total of a row is below an earlier one,
\* though shards are read one after the other, so that the unsigned
\* differences of write_snapshot never wrap around.
RowsTelescope ==
  \A i \in Readable :
    LET base == Minus(rows[i].total, rows[i].period)
        baseFrees == rows[i].frees - rows[i].periodFrees
    IN  /\ rows[i].start <= rows[i].end
        /\ AtLeast(rows[i].period, NoTraffic) /\ rows[i].periodFrees >= 0
        /\ i = 1 => rows[i].start = 0 /\ base = NoTraffic /\ baseFrees = 0
        /\ \A j \in Readable : j < i =>
             /\ rows[j].end <= rows[i].start
             /\ AtLeast(base, rows[j].total) /\ rows[j].frees <= baseFrees
             /\ j = i - 1 => /\ rows[i].start = rows[j].end
                             /\ base = rows[j].total /\ baseFrees = rows[j].frees

\* A failed write costs the readers no more than one later row, which is glued
\* to what the failed write left in the file; and the finalizer, who may close
\* the log when another thread has written a part of its row, leaves that part
\* at the very end and spoils nothing.
FailuresSpoilOneRow ==
  Cardinality(Spoilt) + (IF logOpen /\ tail = "debris" THEN 1 ELSE 0) <= failures

\* A row has everything that was counted when its snapshot began, and nothing
\* that has not been counted when it is written.  Its live values, which are
\* read shard by shard too, are exact when nobody recorded a block or a free
\* during the snapshot.
RowsAreWitnessed ==
  \A t \in Threads :
    pc[t] = "write" =>
      /\ AtLeast(draft.total, draft.floor) /\ AtLeast(TrafficNow, draft.total)
      /\ Cardinality(draft.seen) = 1 => LiveNow = draft.live

\* Threads that find the same period over write one row for it.
OneRowPerPeriod ==
  Cardinality({ i \in DOMAIN rows : rows[i].purpose = "periodic" }) <= 1 + now \div Interval

\* After a normal exit, if no write has failed, a reader finds a row with
\* everything counted before it.
FinalRowIsWritten ==
  (\E t \in Threads : pc[t] = "gone") /\ failures = 0 =>
    \E i \in Readable : AtLeast(rows[i].total, owed)
==============================================================================
