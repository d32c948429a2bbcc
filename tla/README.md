# A verification project for mini_hook

mini_hook is a set of small `LD_PRELOAD` hooks around the allocator and of programs that replay what
the hooks recorded. This directory holds TLA+ specifications of its core logic, model-checking
configurations for TLC, and theorems checked by TLAPS. Paths such as `malloc_hole_hook.c:1673` are
relative to `src/`.

- [The system](#the-system): components, state, operations, interactions, hard behaviours
- [The modules](#the-modules): which module models what, and how
- [The runs](#the-runs): what TLC checks, with which bounds
- [What the runs found](#what-the-runs-found)
- [The proofs](#the-proofs)
- [What is not modelled, and the plan](#what-is-not-modelled-and-the-plan)

## The system

Two independent tool chains share a repository.

**Statistics.** `malloc_hole_hook.c` interposes `malloc`, `calloc`, `realloc`, `memalign`,
`free` and friends. It counts, per size bucket, the requested bytes and the bytes a size-class
allocator would waste ("holes"), follows a sample of live pointers, and appends cumulative rows to a CSV
file per process. The production build has the macros `MINI_HOLE_ATOMIC_STATS`,
`MINI_HOLE_NO_WRITER` and `MINI_HOLE_OPPORTUNISTIC_SNAPSHOT`: sharded counters, no writer thread, and rows
written by whichever allocating thread finds the period over. That build is the one modelled.

**Replay.** `malloc_free_hook.c` records every allocator call in a file mapped with `MAP_SHARED`;
`bin_to_rply.c` converts it to the RPLY format; `replay_main.c` replays an RPLY file with one worker per
recorded thread, or `trace_to_native.py` and `native_replay_runtime.c` turn it into a program of its own, or
`rply_to_mstress.py` and `synthetic_mstress_runtime.c` into a statistical imitation.

| component | state | operations | interacts with |
|---|---|---|---|
| live allocation tracking (`malloc_hole_hook.c:560–800, 1590–1800, 2150–2330`) | per-shard open-addressing tables of sampled live pointers, counters per shard | insert after an allocation; remove before a free or realloc; restore after a failed realloc | every thread of the program calls it inside its allocator calls; the real allocator hands addresses from thread to thread |
| statistics snapshots (`malloc_hole_hook.c:1100–1320, 1830–2150`) | sharded cumulative counters, deadline, snapshot lock, previous totals, the log's descriptor | periodic row, requested row, final row | reads the shards of the tracking while threads go on changing them |
| size classes (`malloc_hole_hook.c:100–560, 1320–1590`) | constant tables | round a request to a class, its hole, its two buckets | both of the above |
| process life cycle (`malloc_hole_hook.c:1384–1455, 2031–2150`) | owning process, initialisation state and lock, log per process | constructor, fork, `appspawndf` child, exit | resets tracking and statistics; decides which call is recorded at all |
| event capture (`malloc_free_hook.c`) | a counter of reserved slots, slots with a commit flag, a table of threads | reserve, commit, overflow; thread start, end, join, detach | every thread; a reader after a crash |
| BIN to RPLY (`bin_to_rply.c`) | none kept | validate, filter, convert | the capture's file |
| trace preprocessing (`replay_main.c:1663–1985`, sorting and epochs at 1166–1400) | open hash map of live addresses, slots with generations, per-thread streams | one step per record; matching frees; rewriting; epochs | gives workers their operations |
| epoch replay, free run (`replay_main.c:880–1165, 1400–1530`) | current epoch, arrival counter, slot generations, worker states | launch, open an epoch or the gate, wait for the barrier, execute, drain, join | a controller and one worker per thread |
| synthetic workload (`synthetic_mstress_runtime.c`) | per thread: two stacks (`inbound_head`, `recycled_head`), a list of local objects, quotas and debts per function; `g_generated_done`, `g_ready`, `g_start` | waves of workers; allocations, local and remote frees, final debts | workers among themselves and with main |
| native replay (`trace_to_native.py:90–337`, `native_replay_runtime.c`) | compiler: live addresses, stacks of free slots per thread; program: slots with generations, gate, last finish time | compile a record; create workers, open the gate, wait for the time, wait for a generation, call, publish, join | the image the compiler embeds; workers among themselves |
| viewers, plots, optimizers, benchmarks, tests | files | — | read what the others wrote |

What is hard in each of them, and what makes it correct:

- *Tracking.* The address of a block is somebody else's as soon as the real `free` ran, so the order of
  table update and real call decides whether a record is ever stale. Tombstones, a bounded probe, a table that
  is full, a failed `realloc` that must be undone. Correct means: the table holds a record for a sampled
  block exactly when the block is live or the insertion was reported as lost; counters are the sums over the
  table.
- *Snapshots.* Shards are read one at a time while they grow; several threads can find the period over;
  a write can fail, before or after it has put a part of the row in the file; the process can exit meanwhile. Correct
  means: rows follow each other without overlap, and without gap as long as each of them can be read; a failed
  write costs no more than one row; every row lies between what had happened when it was begun and when it was
  finished; and the final row has what no other row has.
- *Size classes.* Arithmetic close to the end of `size_t`, hand-computed offsets between tables.
  Correct means: a rounded size is the smallest class that fits, the buckets agree with the tables the CSV header is
  written from, and live buckets are fine enough to recompute every other allocator's hole.
- *Preprocessing.* A trace can have lost, repeated and reordered records. Correct means: each generation
  of a block is consumed at most once, waits only go backwards (so that replay cannot deadlock), and a failed
  `realloc` leaves the block as it was.
- *Epoch replay.* A barrier built on a counter that is reset by the controller while workers start and
  finish. Correct means: no worker is in an epoch the controller has left, every operation finds
  the generation it was matched with, everything runs, and the replay ends.
- *Capture.* Slots are reserved and filled by different instructions; a crash leaves holes; `realloc`
  is logged after the real call, `free` before. Correct means: no slot is written twice, an overflow is visible
  to the converter, and each thread's records are in its program order.
- *Process life cycle.* A child inherits the memory of its parent, with locks held by threads that
  do not exist in it. The process id is looked at only while the fork server's id is stored as the owner. Correct means: a
  process writes in its own log only and counts its own blocks only, is initialised once while no other thread of it is in
  the tables, and no measured process waits for a lock of a thread that it does not have.
- *Native replay.* A slot is used for one block after the other, and a wait ends at any generation not below the awaited one.
  Correct means: an operation finds its own generation, slots used again add no waits between threads, the waits end, and what the
  replay leaves allocated is what the trace left.
- *Synthetic workload.* Several threads push on a lock-free stack while its owner pops; frees that cannot be
  made yet become debts that other frees pay. Correct means: a descriptor is in one place only, a wave makes exactly
  the calls of its profile, what is left on a stack when it ends is what later waves free, and nobody waits for ever.

`PROJECT.json` lists the hazards of each part with the line where they bite, and the properties that
watch them.

## The modules

```
LiveTable ─── HoleTracking ─┬─ MCHoleTracking      ReplayTrace ─┬─ ReplayPreparation ─┬─ MCReplayPreparation
                └ LiveLedger│  (INSTANCE)                       ├─ ReplayTraceProofs ─┼─ ReplayPreparationProofs
SizeClasses ─┬──────────────┴─ HoleTrackingProofs               │                     └─ EpochReplayProofs
             └─ MCSizeClasses                                   └─ EpochReplay ─── MCEpochReplay, EpochReplayProofs

CaptureLog ───┬─ MCCaptureLog                      HoleProcess ─┬─ MCHoleProcess
              └─ CaptureLogProofs                               └─ HoleProcessProofs
HoleSnapshot ─┬─ MCHoleSnapshot                    NativeImage ─── NativeReplay ─── MCNativeReplay
              └─ HoleSnapshotProofs                SyntheticWorkload ─── MCSyntheticWorkload
```

A line leads from a module to those that extend it. `FiniteSums` serves `HoleTrackingProofs`, `HoleSnapshotProofs`, `CaptureLogProofs` and
`ReplayTraceProofs`.

### LiveTable, LiveLedger, HoleTracking — live allocation tracking

`LiveTable` has the open-addressing table as pure operators: the probe sequence with its limit,
finding a record, the slot an insertion takes (the first tombstone of the probe, or the empty slot that ends it), and
the removal that leaves a tombstone. The table of a shard is a function from slots to a record, `EMPTY` or
`TOMBSTONE`. The two hash functions are constants: nothing but their range matters.

`HoleTracking` is the calls. A thread is in one of the phases *idle*, *measuring* (allocated, not yet
recorded), *tracking*, *freeing* (record removed, real `free` not yet called), *resizing*, *restoring* (realloc
failed) and *releasing*. Each action is one critical section of a shard's lock or one call of the real
allocator, which is modelled from its contract: it gives out a pointer that nobody has, and takes
back one the caller has. The blocks each thread has in its hands are explicit, and any thread may free any
shared block. Pointers that are not sampled and pointers inherited from before the hook was ready go through
the same paths and find no record.

`LiveLedger` is what all this promises: a set of live blocks with their sizes to which a block is added or
not (a reported loss), and from which it is taken before its address can be given out again. `HoleTracking` implements it under
`Ledger == INSTANCE LiveLedger WITH ...` (property `LedgerSpec`).

### SizeClasses

Rounding, holes, buckets and the tables as functions of a size; `SizeWalk` visits one size after
another. `SizeMax` is the end of `size_t`: TLC takes 2^20 − 1, the theorems hold for every `SizeMax` that
ends a page. Shifts and leading-zero counts are modelled by their meaning on numbers. The class tables of the
other allocators are those of the source.

### HoleSnapshot — rows of the statistics

A recorded event increments one shard. A thread that records an allocation then looks at the clock; if the period is
over it moves the deadline by compare-and-exchange, takes the snapshot lock, checks that the log is open, reads shard
after shard (the cumulative counters and then the live counters), reads the clock, writes the row, stores the previous
totals if the whole row was written, and gives the lock back. `mini_hole_snapshot_now` enters the same path without a deadline, the
finalizer runs it and closes the log without the lock.

`raw_write_all` calls `write` until the row is in the file or a call fails. `WritePart` is a call that takes a part of the row,
`Written` the one that takes the rest, and `NotWritten` the failure, which leaves in the file what has been
written. `tail` is what the file has behind the last row: nothing, a part of the row being written, or debris, a part that nobody
will complete. The part has no end of line, so the next row is glued to it: its `alone` is false, and it is spoilt
(`Spoilt`) for a reader, though the hook remembers it as written. A reader finds the `Readable` rows. Where in the row a write
is cut is not modelled, nor that a part of the first field glued to a row gives a line that still parses, with a wrong start time, or
that a row which lacks only its end of line parses at the end of the file.

Two steps of the code are one step of the model in these places only: reading the counters of one shard, taking the lock and checking the log's descriptor, and
reading the last live shard and the clock. The last two touch state no other thread can tell apart in between; as to the first, no
property compares two counters of a row with each other. One clock
stands for the monotonic and the realtime clock. `draft.floor`, `draft.seen` and `owed` are history: they record what was true
when the row was begun, which live totals there were meanwhile, and what had been counted when the process began to
exit. `SkipClock` is the branch in which `clock_check_is_due` lets a thread go without reading the clock. The
reuse of the descriptor number after the log is closed is not modelled, nor a failure to write the header, after which the log is closed
and there are no rows.

### ReplayTrace, ReplayPreparation — from records to operations

`ReplayTrace` has one pure step, `Prepared`, that takes the state of the preprocessing and one record and returns the
next state: the handling of malloc, free and realloc records, of missing predecessors, of repeated frees and of
failed reallocs, the matching of addresses with slots and generations, the shift of timestamps that
keeps a wait behind what it waits for. `Preprocessed` is the loop: that step, from the first record to the last. The open-addressing map from addresses to slots is a function here: its
probing is plain linear probing that grows before it is full.

`ReplayPreparation` feeds it every trace within the bounds, record after record. What a plan promises the replay
(`OncePublishedOnceConsumed`, `PublishedBeforeConsumed`) is stated in `ReplayTrace`, where the proofs of both users find it.

### EpochReplay — the controller, the barrier and the workers, and the free run

The trace is chosen from a set in the initial state, prepared by the operators of `ReplayTrace` and replayed by epochs or,
with `free_run`, without them. By epochs, the controller launches the workers whose first operation is due (`Launch`), opens an epoch
(`OpenEpoch`), waits until the arrivals are what it expects (`PassBarrier`), joins the finished workers (`JoinIfFinished`), and after
the last epoch drains: workers run on to their ends and are joined. A worker waits for an epoch it has not seen (`SeeEpoch`), executes its
operations of that epoch one by one, each waiting for the generation it needs, and arrives (`Arrive`). In a free run all
workers are launched, `g_start` lets them go (`OpenGate`), they ignore the clock of the trace, and they are joined one after the other
(`Collect`). Every critical section, and every store of `publish_slot`, is a step.

`order` is the array that `qsort` leaves, chosen in the initial state among the lists of all workers that are sorted by start time
(`StartOrders`). `cmp_worker_start` breaks ties by the index of a worker, which is the order of first records; any order of equal starts is
allowed here, so that more traces are covered than are listed.

Launching and opening are written once and used for both the loop and the drain (`EndOfNext`, `Due`). The
drain's own launch loop (`replay_main.c:1441–1449`) never launches anybody, since a worker's first operation lies within the
epochs, and has no action. The watchdog (exit code 5 after 30 s without progress, `README.md:635`) is left out: the question is
whether the replay needs it. The free run is chosen by `--free-run` only; `--epoch-size 0`, which the usage text calls free-run
(`replay_main.c:1537`), chooses the automatic epoch size (`replay_main.c:1374`), and so it does here.

### NativeImage, NativeReplay — the natively compiled replay

`NativeImage` is the loop of `transform_trace` as one pure step, `Converted`: from a record to an operation with its slot, the
generation it waits for and the one it publishes. A slot that was freed goes on the stack of the thread that freed it and keeps its
generations. Errors that end the compilation set `refused`. The scaling by microseconds and `--quantum-us` is in `Target`.

`NativeReplay` compiles a trace in its initial state and replays it. Main creates the workers (`Create`, which may fail), waits for
`g_ready`, opens the gate and joins. A worker passes the gate, waits for the time of its operation (`Begin`) and for its
generation (`Await`), makes the call (`Call`, whose `Outcomes` are what the real allocator may do: a block, a failure, for `realloc(p, 0)`
either), and publishes with two stores. At its end it raises `g_last_finish_ns` by a compare-and-exchange loop, which is split at its
accesses (`Observe`, `Raise`). `Tick` is the clock. Processor affinity, lateness statistics, the checks of the image's layout, options and
output are left out.

### HoleProcess — constructor, fork, appspawndf, exit

A process has a copy of the hook's variables (`mem`), which `Fork` copies as it is, locks included; the child has one thread. A
call goes through `Gate` (the first half of `prepare_recording`, which compares process ids only under an `appspawndf` that still owns
the memory), through the two loads of `ensure_current_process`, the try-lock, the second look under it, and the steps of
`initialize_process`: `Clear` (log, counters, locks of the shards, table), `Own`, `OpenLog`, `Publish`. Recording is one step under the lock of
the shard (`Update`), which decides freely whether a row is due; writing a row is `TakeLock`, `Load`, `Write`. `Exit` and `Close` are the
finalizer. `HoleTracking` and `HoleSnapshot` have the details of the last two; one shard stands for all, and an address is not used
twice. Mapping the table, opening the log and writing its header may fail, within `MaxFailures`.

The program is restricted in this: `mini_hole_snapshot_now` is called when its process has one thread, as in the tests that call it, and
a process that is exiting does not fork. What the module makes visible, beside its properties:
- The child of a process other than `appspawndf` keeps its parent's `owner_pid`, table and `statistics_ready`. It goes on
  recording in its copy and never writes a row (`write_snapshot` compares the process id); `README.md:60–63` says that the table is
  cleared when the process id changes. The same holds for grandchildren of `appspawndf`.
- If another thread of the parent was in a shard or writing a row, such a child waits for that lock for ever. `CallsReturn` is
  therefore stated of the initial process and of the children of the fork server: the fork server records nothing, so its children
  inherit no held lock.
- A thread that finds the initialisation lock taken gives up, and its event is not recorded.

### CaptureLog — the event capture, and what the converter accepts of it

A thread is *idle* or at a step of a call. Whatever the call, it logs by the same three steps: reserve a slot with the shared
counter, fill it, set its sequence number. The last two are one action, `Commit`, because a slot without its sequence number does not count. `then`
is where the call goes on. `Malloc` and `Realloc` make the real call first, `Free` logs first and frees in `RealFree`.
`pthread_create` registers the handle after the real call (`Create`, `Register`), logs, and lets the new thread go
(`Release`, `Begin`). `pthread_join` looks the instance up, joins, logs, and removes the entry of the handle in four steps (`Join`, `RealJoin`,
the log, `Forget`), `pthread_detach` likewise. The map of handles is the code's: linear probing in a table whose
deleted entries are reused, but where an insertion needs an empty entry to stop at.

`Refused` and `Rows` are `bin_to_rply.c`: which files it refuses, and the slots it makes rows of, in the order of
the file. They are defined in every state, so that each invariant about `Rows` also speaks of a process that was killed at that moment. The real allocator
and the threads library give out any address and any handle that nobody has. `did` is history: what each thread
asked to log. The program is assumed to join or detach a thread once, after `pthread_create` returned. Calls that
thread-specific destructors make after the end of a thread is logged, and everything between processes that share a log, are left out.

### SyntheticWorkload — waves of the synthetic mstress runtime

Main launches the workers of a wave, waits until they have all arrived, opens the wave, and joins them. A worker goes through its phases;
in each it chooses an allocation or a free among the calls left, in any order (the code's random choice), until the quotas are used up or
somebody failed; then it adds itself to `g_generated_done` and pays its debts. A block goes to the worker's own list or, when a
route is due, on the stack of its receiver. Labels between two atomic accesses are steps of their own: a push reads the head, links the
object, and compares and exchanges; a pop reads the head and its link, which only the owner changes, and compares and exchanges.
The tag in the stack heads is left out: without it a compare-and-exchange succeeds in more states than in the code, never in fewer.

`malloc` stands for the seven allocation functions other than `realloc`, which differ in the call made and in nothing the module keeps. A
profile has the shape that `load_profile` gives it (`IsProfile`); those of the runs have routes that fit the remote frees, as
`rply_to_mstress.py` writes them. `Outcomes` says what a real allocation may
return: a block, a failure, or null for size 0. Failing `pthread_create` calls are left out.

## The runs

| run | what it shows | bounds |
|---|---|---|
| `hole_tracking` | the tables are sound, hold no stale record and the requested sizes, agree with the counters, every loss is reported, and the whole implements the ledger | 2 threads, 5 pointers, sizes 0 and 9, 2 shards of 2 slots, 4 calls |
| `replay_preparation` | each generation is consumed once, waits go backwards, stamps lie in the span of the epochs | traces of ≤ 5 records over 2 threads, 2 addresses, timestamps 1 and 2 |
| `epoch_replay` | operations find their own generation, a replay that ends dropped nothing, with all workers there from the start the barrier holds and the replay ends, and so does a free run | every exchange of 4 records between 2 threads in turn, and 4 longer traces of ≤ 3 threads; ≤ 4 epochs |
| `epoch_hang` | see below | the trace with a late thread |
| `size_classes` | rounding, buckets and tables agree, nothing wraps, live buckets are fine enough | all sizes to 16 KiB, both neighbours of every larger boundary, the last page of a 20-bit `size_t` |
| `hole_snapshot` | readable rows follow each other without overlap or negative periods and, where none is spoilt, without gap; a failed write spoils at most one; each row is bracketed and a quiet one exact, one row per period, a final row | 2 threads, 2 shards, period 1, clock to 2, 2 events, 1 failing write, 1 requested row |
| `hole_process` | a process writes only in its own log and counts only its own blocks, is initialised once and undisturbed, calls return | 2 processes of 2 threads, `appspawndf` or not, 2 calls, 1 failing system call |
| `native_replay` | operations find their own generation of a slot, allocations never wait for another thread, the replay ends and leaves what the trace left | every exchange of 4 records in which 2 threads pass 2 blocks, and 7 longer traces of ≤ 3 threads; generations to 4; clock to 2; any call may fail |
| `synthetic_workload` | a descriptor is in one place, a wave that nobody fails makes its calls and leaves on the stacks what later waves free, the run ends | 5 profiles: 3 threads, ≤ 2 waves of ≤ 2 phases, ≤ 5 calls of a thread in a phase; allocations that give a block, fail, or give nothing |
| `synthetic_exhausted` | see below | 1 profile, 3 threads, one push by each of two on the third's stack |
| `capture_log` | an accepted file tells each thread's events in order, blocks alternate between allocation and free, thread lives are in order | 3 threads, 2 addresses, 2 handles of the same hash; 2 blocks and 1 more thread, or 2 more threads; 8 slots; a map of 1 or 2 entries |
| `capture_join` | see below | 4 threads, 2 handles, 10 slots, a map of 3 entries |

*Why the bounds are enough.* In `hole_tracking` three of the five pointers have the same shard, which has two
slots, so that chains, tombstones in the middle of a chain, a probe that meets its end and a lost insertion all occur; one
pointer was allocated before the hook and one is never sampled; four calls are enough for a block to be allocated by one thread,
freed by the other, allocated again while the first is between its table update and its real call, and resized. Sizes 0 and 9 fall in
different buckets and 0 is the size the code treats apart. In `replay_preparation` five records are enough for an
allocation, a free, another allocation at the same address, a realloc of it and a repeated or reordered free, on two threads.
`epoch_replay` takes every trace in which two threads in turn, at the same time or an epoch later, free, resize or allocate blocks, beginning with an
allocation: with four records a block can be handed over, moved and freed, and its address used again. Its four longer
traces are: two workers that hand blocks to each other in every epoch, with reallocs (*Exchange*); three workers of
which one ends early and one has no operations (*Company*); a second thread that starts while the first is under way and outlives it
(*Latecomer*); and one that starts when nobody is left (*Relay*). Every interleaving of controller and workers is
explored. The profiles of `synthetic_workload` each have one difficulty: two producers on one stack, two consumers that give
descriptors back while their owner allocates, blocks that a later wave frees, reallocations with and without a block, and
too few descriptors. In `capture_log` a log of 8 slots is too small for the longest lives and large enough for the others; with one entry in
the map the second thread finds it full, with two it meets the other's entry on its probe. `capture_join` needs four threads: one
that joins, one that is joined, one that creates the next meanwhile, and that next one.
`native_replay` takes every such trace in which two threads pass two blocks, with all failures of the real allocator; its longer
traces have a slot that goes to another thread and comes back, three threads on one block, reallocations that fail, release or have no
block, unknown blocks, and the three ways to be refused. Two blocks of a slot use up the four generations, so that a third is refused.
`hole_process` needs a child, two threads in it that may both find it not initialised, and two calls, so that one is in a shard or at a row
while the other forks, exits or initialises. Three processes have been explored with one thread each, where nothing new happens: a grandchild is to its parent
what a child of another program is.
`hole_snapshot` needs two threads, one that reads and one that records meanwhile, two shards, so that one is read and
one is not, and enough clock for two periods and a final row. One failing write is enough for a row to be lost before, after and between
others, to be cut in the middle and glued to the next, and to be cut by the finalizer who closes the log. All bounds are CONSTANTS (`MaxCalls`, `MaxRecords`, `MaxTime`,
`MaxEvents`, `MaxFailures`, `MaxAsked`) that only guard actions that begin something new: what has begun always ends.

*Deadlock* is not checked in these runs because every bounded behaviour stops: the calls, records, events and epochs are used
up. That nobody waits for ever is checked as liveness where there is waiting: `FinishesTogether`, `ReplayEnds`, `RunEnds`, and
`CallsReturn` for the locks of the hole hook.

*Symmetry* is used for threads, pointers, addresses and handles that the constants do not tell apart, in runs without liveness.

*Fairness.* `EpochReplay`, `NativeReplay`, `SyntheticWorkload` and `HoleProcess` state liveness. They assume weak fairness of the
controller (main) and of each worker, in `HoleProcess` of each thread that is in a call: all are operating-system threads that spin or sleep
on shared variables, and a scheduler eventually runs a thread that stays runnable. In `NativeReplay` the clock advances too. No step of
a thread is assumed fair by itself, nor does any program have to begin a call, fork or exit. The other modules are about safety only.

*Mutants.* Each property of a passing run is violated by at least one small change of a definition that
models code (a dropped guard, a tombstone that becomes an empty slot, a wrong order, an offset off by one);
they are listed in `PROJECT.json`.

## What the runs found

- `epoch_hang` (`EveryOperationRuns`). A worker launched in a later epoch starts with `seen_epoch` 0 (`replay_main.c:1091`), finds the
  current epoch different, and arrives once for the epoch before its own and again for its own. The controller can pass the barrier on the
  doubled arrival while another worker is still executing, though `README.md:684` describes a barrier of all workers. The other
  worker's arrival can then be wiped out by the reset for the next epoch (`replay_main.c:1419`): the controller waits for arrivals that will
  not come, and operations are never run, against `replay_main.c:8` ("Matched free is never dropped"). In the program the watchdog ends
  such a replay with an error. `epoch_replay` shows that neither happens when all workers start together, nor in a free run.
- `synthetic_exhausted` (`GivesUpWithoutBlocks`). `finish_debts` pops from the stack of blocks owed to the worker and then reads `g_generated_done`
  (`synthetic_mstress_runtime.c:577`). When the last producers push and count themselves done between the two, the worker
  fails the run as exhausted with the block on its stack, against `README.md:473` and `rply_to_mstress.py:6` ("remote-free routes are exact").
  Reading the counter before the pop would close the window.
- `capture_join` (`JoinsAreRecorded`). `pthread_join` removes the entry of the joined handle after the real join
  (`malloc_free_hook.c:1072`). The handle can by then belong to a thread that another one created meanwhile, whose entry is the one that
  goes; the join of that thread is never recorded, against `README.md:333` and `README.md:349`. Removing the entry before the
  real join would avoid it.

Three more things the runs make plain without calling them errors. A failed write that had begun (`malloc_hole_hook.c:834`, a full disk, say)
leaves a part of a row to which the next is glued, and which the hook remembers as written: no later row covers that
interval again, and readers such as `visualize_hole_csv.py:489`, which skip lines with a wrong number of fields, miss it in
their sums. `RowsTelescope` therefore promises no gap only between neighbours that are readable; `FailuresSpoilOneRow` says
that a failed write costs no more. `load_live_statistics` (`malloc_hole_hook.c:1179`) locks one shard
after the other, so the live values of a row need not have been true at any moment; they are when nobody records meanwhile
(`RowsAreWitnessed`). And a plain `fork` leaves a child that records and never writes (see `HoleProcess`).

## The proofs

TLC checks small instances; these theorems hold for all values of the constants that satisfy the named assumptions: any
set of threads, pointers, processes and handles, any number of shards, slots, records and events, any probe limit and hash
functions, any sampling, any length of a run.

| module | theorems | argument |
|---|---|---|
| `HoleTrackingProofs` (sizes) | `SizesTyped`, `SizesAreRounded` | Rounding to classes, case by case over the bands of the table, for any end of `size_t` that ends a page. |
| `HoleTrackingProofs` (table) | `FoundIffStored`, `InsertSound`, `RemoveSound` | What the table operations do, given that the table is sound: every stored pointer is at a slot of its own probe sequence with no empty slot before it, and no pointer is stored twice. The rest of the module uses these facts only, never the probing. |
| `HoleTrackingProofs` (calls) | `TypeCorrect`, `TableStaysSound`, `NoStaleRecord`, `ImplementsLedger`, `CountersMatch`, `EveryLossIsReported` | The inductive invariant `IInv`, below; for the counters also the cardinality and the sum of the records of a shard, which an insertion or removal changes by one record. |
| `ReplayTraceProofs` | `PreprocessedSound` | What one record of the trace does to a plan (`Outcome`), what that does to the generations and time stamps (`PreparedKeeps`), and so what the loop makes of a whole trace, by its least record after which the plan is not sound. |
| `ReplayPreparationProofs` | `TypeCorrect`, `GenerationsOnce`, `BackwardWaits`, `SpanCovers` | The same lemmas, for the reading of a trace record by record. |
| `EpochReplayProofs` | `TypeCorrect`, `BarrierSound`, `FreesMatched` | Of each slot, what the operations done have published and taken; of the barrier, that the arrivals it counts are the workers that have arrived. |
| `HoleSnapshotProofs` | `TypeCorrect`, `RowsContinue`, `FailuresSpoil`, `RowsWitness`, `PeriodsHaveOneRow`, `LastRowIsWritten` | What a snapshot half-way has read, against what the shards had when it began and have now; and of each failed write, the row it may still spoil. |
| `HoleProcessProofs` | `TypeCorrect`, `RowsTheirOwn`, `InitialisedAlone` | Who owns a process's memory, and who else is in it meanwhile. |
| `CaptureLogProofs` | `TypeCorrect`, `RowsArePrefix`, `BlocksTakeTurns`, `LivesInOrder` | Every step of the hook reserves, commits, begins an event, ends the process, or leaves the log alone; one thread has a block until it is free; and the map has one entry of a handle, with the number of the thread that has it. |
| `FiniteSums` | lemmas | Sums over finite sets: taking an element out, changing one value, comparing two functions. `SumFunctionOnSet` is defined by recursion over the subsets; the lemmas are proved by a minimal counterexample, since the library's induction theorems cannot be instantiated. |

*Tracking.* `RecordsAreTrue` (a record is of a block that its owner has, and nobody else's, with the size requested last) is not
inductive. A step that hands a block to a thread keeps it only if nobody still has the address, and a step that frees only if the record is
gone before. `IInv` adds: for every phase, which blocks the thread in it has, and whether they have a record (`PhaseInv`); that no
block is in two hands (`Ownership`); that only sampled pointers have records and that there are none before the hook is ready (`SampledOnly`,
`ReadyOrEmpty`). Each action then disturbs one thread's phase and at most one slot. `ImplementsLedger` maps each step to a step of
`LiveLedger` or to a stutter, by the same invariant.

*Preprocessing.* That a wait looks back needs the map of live addresses in the invariant: each live address has the last
generation of its slot, which nobody has consumed, published by an operation whose stamp is the one in the map. A record that ends
a generation takes it out of the map in the same step, so that no second one can.

*Replay.* `MatchedExactly` speaks of a worker about to take a block; that it finds the generation it waited for, and not a newer one, is a
matter of all the others. `IInv` of `EpochReplayProofs` says of every slot (`SlotsInv`) that each generation up to the present one was
published by an operation that is done (`Published`), that every operation done has found its generations (`Reached`), that a pointer is a block of the
slot that lives unless the slot was freed (`PointersLive`), that every block is its slot's pointer (`HeapHeld`), and that of a freed slot nothing is left.
Preprocessing closes the argument: a generation newer than the awaited one would have been published by the one operation that takes
the awaited one, which is the worker's own and is not done (`NoneNewer`); an operation on a freed slot would have to wait for a generation that only the
free itself takes (`NothingFollowsFree`). None of this uses the barrier, so it holds for late workers too, where the barrier does not, and for the free run.
`WorkersInv` and `ControlInv` say where workers can be while the controller is at each of its places, and that no worker has an epoch that
ends behind the controller's. A worker leaves only when it has executed its list, so a replay that is over has executed all of it.

*Barrier.* `BarrierInv` is kept only if all workers start in the first epoch (`Together`); then all are launched before the first epoch is opened. While the
barrier is open, its target is the number of workers launched and not joined, the arrivals are the number of workers that have seen this epoch and wait
or are gone, no joined worker has seen it, and every other one either has or still waits to (`Counting`). When the arrivals reach the target
the two sets are equal, and everyone is at rest (`FullMeansQuiet`). Behind the barrier `joined` must catch up with the workers that are gone, or the next
target would count one that never arrives: the scan has joined every worker that it has passed and that is gone, and nobody leaves while it scans.
`epoch_hang` is what happens without `Together`: the second clause fails for a worker launched into a running count.

*Snapshots.* A row is read while the shards grow. `Counted` compares what a snapshot has added up so far: it has at most
what the shards read have now, and with what the shards still to be read have now it is at least what all had when the lock was
taken. Both are differences of sums that one event changes at one shard. All rows that were written, spoilt or not, then continue each
other (`RowsChain`) and never fall (`RowsGrow`), since the remembered totals are those of the last row (`LastRemembered`) and not above the next
floor. `RowsTelescope` is what is left of both for a reader who finds only the rows that are alone. `FailuresSpoilOneRow` is inductive: debris
comes from one more failure, and the row glued to it takes it away; what the finalizer cuts off has no row behind it. That a row nobody disturbed has the exact live values (`LiveExact`)
needs a weight that every event on a live block increases, blocks + 2 · frees, so that a live total cannot come back
unnoticed. That no period has two rows is a matter of paying: a periodic row costs one move of the deadline by at least a period, and the
deadline is never more than a period ahead of the clock (`PaidFor`). For the last row, `OneExits` says who exits and `Owed` that the row
that thread writes has what had been counted.

*Process life cycle.* Per process `p`, `RInv(p)`: whoever owns the memory of `p`, or is about to, has a log and a table of `p` alone,
and a row half-written is an owner's. `AInv(p)`: the initialisation lock is held by the thread that initialises, who clears only what
nobody owns; a process that was initialised owns its memory, is about to, or has ended; the threads that can meet in an
initialisation are those of a child of the fork server, whose memory nobody is recorded in while it still names the
server as its owner.

*Capture.* The inductive invariant `Recorded` has: a slot reserved is empty, behind the reserved ones, and one thread's (`SlotsInv`); numbers
are of one thread each (`NamesInv`); a thread that logs has the last event of its history in hand, and knows where to go on
(`EventsInv`); the rows of a thread are its history but for that event, whose slot is behind them (`RowsInv`); the hook ends a process
with the overflow flag set only (`ExitInv`); a block is the program's or in one thread's hands (`Ownership`); a thread that is being
created waits and keeps its handle, and no two threads serve the same one (`CallInv`). `AlternationInv` adds, for an address that
no realloc was given: it is given back behind every slot that gave it out if it is free, or about to be logged as given out, or about
to be freed. The last case is where free's order (the log before the real call) is needed; realloc has the other order, which is
why its addresses are the exception. `LifeInv`, for the lives of the threads, rests on the map of handles: a search for a handle that is
in the map ends at its only entry, whatever was deleted or reused on its probe (`OneEntry`), and while a thread has the handle and is registered, that
entry has its number (`RightEntry`). So a join or a detach logs the number it looked up, even when the handle is another thread's by then. What is
told of a number, by a slot or by a thread about to fill one, then comes once and after what it presupposes (`ToldInv`); the other
parts say who has told what: a thread of itself, its start and its end (`StandingInv`), the handle of a thread, its creation, detachment and join
(`HandledInv`), and a call of the thread it creates, joins or detaches (`SubjectInv`).

*Assumptions:* `TableAssumption` and `SentinelAssumption` (at least one slot; hashes in range; the sentinels are not records),
`FiniteTable` and `FiniteThreads` where cardinalities are taken, `TrackingAssumption`, `NoneAssumption`, `SizeAssumption`,
`TraceAssumption` and `PreparationAssumption` (values that stand for nothing are not values; time stamps are natural numbers),
`EpochAssumption` (traces are finite sequences of records; finitely many threads; the epoch size a number and the target of the automatic one not 0; the null
pointer is no block),
`SnapshotAssumption` (a finite set of threads, at least one shard, a positive period), `ProcessAssumption`, and `CaptureAssumption` (a slot for the start of
the process, a map with an entry). All are evaluated by TLC for the constants of the runs.

*Only model-checked:* `Reconstructible` (a comparison of constant tables, on every size of the run), and the properties of
the native replay and of the synthetic workload. The runs that expect a violation are counterexamples, which
need no proof. Out of the prover's reach stay liveness under fairness (`FinishesTogether`, `ReplayEnds`, `RunEnds`, `CallsReturn`), ENABLED,
and what a recursive definition computes for every input.

## What is not modelled, and the plan

| part | why, or when |
|---|---|
| writer-thread build of the hole hook | not the production build; it has the same shards and rows with another caller |
| fork handlers of the writer-thread build | `pthread_atfork` takes and returns the locks there; the modelled build has none |
| event capture between processes | the file created and validated once, `appspawndf` and its children on one counter, the converter's choice of a process: to be added to `CaptureLog` |
| profiles of the synthetic workload | reading and checking them; `rply_to_mstress.py` that writes them is sequential analysis and gives the inputs |
| image of the native replay | writing, embedding and validating it is sequential, and a layout rather than a behaviour |
| pacing, watchdog, synthetic unknown frees of `replay_main.c` | real time decides the first two; the last gives each unknown free a block of its own, which no other operation names |
| bootstrap allocator, symbol resolution | a small module of the recursion guard and the three states of resolution |
| viewers, plots, benchmarks, tests, generated directories | sequential, read-only or not part of the program; the bucket optimizer's dynamic programme may be checked against a reference definition |

Theorems that would come next: `OwnGeneration` of `NativeReplay`, along the lines of `FreesMatched`; its image is built with `FoldLeft`,
of which a lemma like `PreprocessedSound` would come first, and its slots are used again, so that a freed slot is not the end of its generations. Then
`OnePlace` of `SyntheticWorkload`, whose lists need lemmas about `Walk`.
