----------------------------- MODULE HoleProcess ----------------------------
(***************************************************************************)
(* The life of a process under malloc_hole_hook.c in its atomic build:     *)
(* constructor, calls, fork, finalizer.  Processes have copies of the      *)
(* hook's memory, taken by fork with every lock as it is.  The initial     *)
(* process is appspawndf, a fork server that is not measured and whose     *)
(* children start statistics of their own, or any other program, whose     *)
(* children keep the parent's memory and write nothing.                    *)
(*                                                                         *)
(* A step is an access of what the threads of a process share.  One shard  *)
(* stands for all.  HoleTracking has the calls and the table in detail,    *)
(* HoleSnapshot the counters and the rows; an address is not used twice    *)
(* here.  The initial process has the pid 0, a child the next number.      *)
(***************************************************************************)
EXTENDS Integers, FiniteSets

CONSTANTS
  MaxProcesses,   \* bound of the processes
  ThreadsPer,     \* threads of a process
  MaxCalls,       \* bound of the calls of all processes
  MaxFailures,    \* bound of the failing system calls
  None

ASSUME ProcessAssumption ==
  /\ MaxProcesses \in Nat \ {0} /\ ThreadsPer \in Nat \ {0}
  /\ MaxCalls \in Nat /\ MaxFailures \in Nat
  /\ None \notin Nat /\ None \notin Nat \X Nat

VARIABLES
  initial_process_is_appspawndf,
  parent,         \* process -> the process that forked it, or None
  mem,            \* process -> its copy of the hook's variables
  heap,           \* process -> blocks of the real allocator
  pc, call,       \* what each thread does, and the call it is in
  calls, failures,
  inits           \* history: how often a process was initialised

vars == <<initial_process_is_appspawndf, parent, mem, heap, pc, call, calls, failures, inits>>

Processes == 0 .. MaxProcesses - 1
initial_process_pid == 0
Threads == Processes \X (1 .. ThreadsPer)
Blocks == Processes \X (0 .. MaxCalls)

\* getpid()
Pid(t) == t[1]

\* The variables as they are when the library is loaded.  A lock is given by
\* its holder, which need not be a thread of the process: fork copies it.
Loaded ==
  [owner_pid |-> None, statistics_ready |-> FALSE, live_table_ready |-> FALSE, live_table |-> {},
   log |-> None, process_init_lock |-> None, snapshot_lock |-> None, shard_lock |-> None]

NoCall == [kind |-> "none", block |-> None, live |-> {}]

\* A block was allocated before the constructor ran.
Init ==
  /\ initial_process_is_appspawndf \in BOOLEAN
  /\ parent = [p \in Processes |-> None]
  /\ mem = [p \in Processes |-> Loaded]
  /\ heap = [p \in Processes |-> IF p = initial_process_pid THEN {<<p, 0>>} ELSE {}]
  /\ pc = [t \in Threads |-> IF t = <<initial_process_pid, 1>> THEN "loading" ELSE "none"]
  /\ call = [t \in Threads |-> NoCall]
  /\ calls = 0 /\ failures = 0
  /\ inits = [p \in Processes |-> 0]

Goto(t, label) == pc' = [pc EXCEPT ![t] = label]

\* The hook's variables of t's process.
Memory(t) == mem[Pid(t)]
Store(t, field, value) == mem' = [mem EXCEPT ![Pid(t)] = [@ EXCEPT ![field] = value]]

ThreadsOf(p) == { t \in Threads : Pid(t) = p /\ pc[t] \notin {"none", "gone"} }

\* A system call fails.
Fails == failures < MaxFailures /\ failures' = failures + 1

------------------------------------------------------------------------------
(* The program *)

\* initialize_hook, up to ensure_current_process.
Construct(t) ==
  /\ pc[t] = "loading"
  /\ call' = [call EXCEPT ![t].kind = "construct"]
  /\ Goto(t, "owner")
  /\ UNCHANGED <<initial_process_is_appspawndf, parent, mem, heap, calls, failures, inits>>

Call(t, kind, block) ==
  /\ pc[t] = "idle" /\ calls < MaxCalls
  /\ calls' = calls + 1
  /\ call' = [call EXCEPT ![t] = [kind |-> kind, block |-> block, live |-> {}]]
  /\ UNCHANGED <<initial_process_is_appspawndf, parent, mem, failures, inits>>

\* malloc, up to the return of the real call.
Malloc(t) ==
  LET block == <<Pid(t), calls + 1>>
  IN  /\ Call(t, "malloc", block)
      /\ heap' = [heap EXCEPT ![Pid(t)] = @ \cup {block}]
      /\ Goto(t, "gate")

\* free, of a block that no other thread of the process is freeing.
Free(t) ==
  \E block \in heap[Pid(t)] :
    /\ \A u \in ThreadsOf(Pid(t)) : call[u].block # block
    /\ Call(t, "free", block)
    /\ Goto(t, "gate")
    /\ UNCHANGED heap

\* mini_hole_snapshot_now; the tests that call it have one thread.
Ask(t) ==
  /\ ThreadsOf(Pid(t)) = {t}
  /\ Call(t, "ask", None)
  /\ Goto(t, "owner")
  /\ UNCHANGED heap

StartThread(t) ==
  /\ pc[t] = "none" /\ \E u \in ThreadsOf(Pid(t)) : pc[u] = "idle"
  /\ Goto(t, "idle")
  /\ UNCHANGED <<initial_process_is_appspawndf, parent, mem, heap, call, calls, failures, inits>>

\* fork: the child has the one thread, and the memory as it is.  A process that
\* exits does not fork.
Fork(t, child) ==
  /\ pc[t] = "idle"
  /\ \A u \in ThreadsOf(Pid(t)) : call[u].kind # "exit"
  /\ \A p \in 1 .. child - 1 : parent[p] # None
  /\ child # initial_process_pid /\ parent[child] = None
  /\ parent' = [parent EXCEPT ![child] = Pid(t)]
  /\ mem' = [mem EXCEPT ![child] = mem[Pid(t)]]
  /\ heap' = [heap EXCEPT ![child] = heap[Pid(t)]]
  /\ Goto(<<child, 1>>, "idle")
  /\ UNCHANGED <<initial_process_is_appspawndf, call, calls, failures, inits>>

\* The end of a process, with its threads and its memory.
Vanish(p) ==
  /\ pc' = [t \in Threads |-> IF Pid(t) = p THEN "gone" ELSE pc[t]]
  /\ call' = [t \in Threads |-> IF Pid(t) = p THEN NoCall ELSE call[t]]
  /\ mem' = [mem EXCEPT ![p] = Loaded]
  /\ heap' = [heap EXCEPT ![p] = {}]

\* finalize_hook, up to write_snapshot; another process' memory is let alone.
Exit(t) ==
  /\ pc[t] = "idle"
  /\ \A u \in ThreadsOf(Pid(t)) : call[u].kind # "exit"
  /\ IF Memory(t).owner_pid # Pid(t)
       THEN Vanish(Pid(t))
       ELSE /\ Goto(t, "lock") /\ call' = [call EXCEPT ![t].kind = "exit"]
            /\ UNCHANGED <<mem, heap>>
  /\ UNCHANGED <<initial_process_is_appspawndf, parent, calls, failures, inits>>

\* close_log; the process ends at any time after it.
Close(t) ==
  /\ pc[t] = "close"
  /\ Store(t, "log", None)
  /\ Goto(t, "ending")
  /\ UNCHANGED <<initial_process_is_appspawndf, parent, heap, call, calls, failures, inits>>

End(t) ==
  /\ pc[t] = "ending"
  /\ Vanish(Pid(t))
  /\ UNCHANGED <<initial_process_is_appspawndf, parent, calls, failures, inits>>

\* The real free, and the return.
Return(t) ==
  /\ pc[t] = "return"
  /\ heap' = IF call[t].kind = "free" THEN [heap EXCEPT ![Pid(t)] = @ \ {call[t].block}] ELSE heap
  /\ call' = [call EXCEPT ![t] = NoCall]
  /\ Goto(t, "idle")
  /\ UNCHANGED <<initial_process_is_appspawndf, parent, mem, calls, failures, inits>>

Program(t) ==
  \/ Malloc(t) \/ Free(t) \/ Ask(t) \/ StartThread(t) \/ Exit(t)
  \/ \E child \in Processes : Fork(t, child)

------------------------------------------------------------------------------
(* prepare_recording and ensure_current_process *)

Elsewhere == <<initial_process_is_appspawndf, parent, heap, call, calls>>

\* Where a call goes on when it may be recorded.
Allowed(t) ==
  CASE call[t].kind = "construct" -> "return"
    [] call[t].kind = "ask"       -> "lock"
    [] OTHER                      -> "record"

\* Mutant: the fork server is measured like any process.
GateMeasuringServer(t) ==
  /\ pc[t] = "gate"
  /\ Goto(t, IF initial_process_is_appspawndf /\ Memory(t).owner_pid = initial_process_pid
               THEN "owner" ELSE "ready")
  /\ UNCHANGED <<Elsewhere, mem, failures, inits>>

\* prepare_recording: only under appspawndf is the process id looked at.
Gate(t) ==
  /\ pc[t] = "gate"
  /\ IF initial_process_is_appspawndf /\ Memory(t).owner_pid = initial_process_pid
       THEN Goto(t, IF Pid(t) = initial_process_pid THEN "return" ELSE "owner")
       ELSE Goto(t, "ready")
  /\ UNCHANGED <<Elsewhere, mem, failures, inits>>

ReadReady(t) ==
  /\ pc[t] = "ready"
  /\ Goto(t, IF Memory(t).statistics_ready THEN Allowed(t) ELSE "return")
  /\ UNCHANGED <<Elsewhere, mem, failures, inits>>

\* ensure_current_process; the two loads of its first condition.
ReadOwner(t) ==
  /\ pc[t] = "owner"
  /\ Goto(t, IF Memory(t).owner_pid = Pid(t) THEN "owned" ELSE "trylock")
  /\ UNCHANGED <<Elsewhere, mem, failures, inits>>

ReadOwned(t) ==
  /\ pc[t] = "owned"
  /\ Goto(t, IF Memory(t).statistics_ready THEN Allowed(t) ELSE "trylock")
  /\ UNCHANGED <<Elsewhere, mem, failures, inits>>

\* A thread that finds the lock taken gives up, and its call is not recorded.
TryInitLock(t) ==
  /\ pc[t] = "trylock"
  /\ IF Memory(t).process_init_lock = None
       THEN Store(t, "process_init_lock", t) /\ Goto(t, "recheck")
       ELSE Goto(t, "return") /\ UNCHANGED mem
  /\ UNCHANGED <<Elsewhere, failures, inits>>

\* Mutant: whoever gets the lock initialises.
RecheckForgotten(t) ==
  /\ pc[t] = "recheck"
  /\ Store(t, "statistics_ready", FALSE) /\ Goto(t, "clear")
  /\ inits' = [inits EXCEPT ![Pid(t)] = @ + 1]
  /\ UNCHANGED <<Elsewhere, failures>>

\* The condition is looked at again under the lock, and initialize_process begun.
Recheck(t) ==
  /\ pc[t] = "recheck"
  /\ IF Memory(t).owner_pid = Pid(t) /\ Memory(t).statistics_ready
       THEN Goto(t, "unlock") /\ UNCHANGED <<mem, inits>>
       ELSE /\ Store(t, "statistics_ready", FALSE) /\ Goto(t, "clear")
            /\ inits' = [inits EXCEPT ![Pid(t)] = @ + 1]
  /\ UNCHANGED <<Elsewhere, failures>>

------------------------------------------------------------------------------
(* initialize_process *)

\* close_log, clear_statistics, clear_live_statistics and the table, which the
\* fork server gives up and another process maps anew, if it can.
Clear(t) ==
  /\ pc[t] = "clear"
  /\ \E mapped \in BOOLEAN :
       /\ IF initial_process_is_appspawndf /\ Pid(t) = initial_process_pid
            THEN ~mapped /\ UNCHANGED failures
            ELSE IF mapped THEN UNCHANGED failures ELSE Fails
       /\ mem' = [mem EXCEPT ![Pid(t)] =
            [@ EXCEPT !.log = None, !.shard_lock = None,
                      !.live_table_ready = mapped, !.live_table = {}]]
  /\ Goto(t, "own")
  /\ UNCHANGED <<Elsewhere, inits>>

Own(t) ==
  /\ pc[t] = "own"
  /\ Store(t, "owner_pid", Pid(t))
  /\ Goto(t, "open")
  /\ UNCHANGED <<Elsewhere, failures, inits>>

\* open_log, of the file named after the process.
OpenLog(t) ==
  /\ pc[t] = "open"
  /\ \/ Store(t, "log", Pid(t)) /\ UNCHANGED failures
     \/ Fails /\ UNCHANGED mem
  /\ Goto(t, "publish")
  /\ UNCHANGED <<Elsewhere, inits>>

Publish(t) ==
  /\ pc[t] = "publish"
  /\ Store(t, "statistics_ready", TRUE)
  /\ Goto(t, "unlock")
  /\ UNCHANGED <<Elsewhere, failures, inits>>

\* The end of ensure_current_process.
UnlockInit(t) ==
  /\ pc[t] = "unlock"
  /\ Store(t, "process_init_lock", None)
  /\ Goto(t, "ready")
  /\ UNCHANGED <<Elsewhere, failures, inits>>

Prepare(t) ==
  \/ Gate(t) \/ ReadReady(t) \/ ReadOwner(t) \/ ReadOwned(t) \/ TryInitLock(t) \/ Recheck(t)
  \/ Clear(t) \/ Own(t) \/ OpenLog(t) \/ Publish(t) \/ UnlockInit(t)

------------------------------------------------------------------------------
(* Recording *)

\* lock_live_shard
LockShard(t) ==
  /\ pc[t] = "record"
  /\ Memory(t).shard_lock = None
  /\ Store(t, "shard_lock", t)
  /\ Goto(t, "update")
  /\ UNCHANGED <<Elsewhere, failures, inits>>

\* Mutant: the insertion does not ask whether there is a table.
UpdateWithoutTable(t) ==
  /\ pc[t] = "update"
  /\ mem' = [mem EXCEPT ![Pid(t)].shard_lock = None,
                        ![Pid(t)].live_table = IF call[t].kind = "free" THEN @ \ {call[t].block}
                                               ELSE @ \cup {call[t].block}]
  /\ \E due \in BOOLEAN : Goto(t, IF due THEN "lock" ELSE "return")
  /\ UNCHANGED <<Elsewhere, failures, inits>>

\* The table under the lock of the shard, the unlocking, and the decision that
\* a row is due, which HoleSnapshot has in detail.
Update(t) ==
  /\ pc[t] = "update"
  /\ mem' = [mem EXCEPT ![Pid(t)].shard_lock = None,
                        ![Pid(t)].live_table = IF ~Memory(t).live_table_ready THEN @
                                               ELSE IF call[t].kind = "free" THEN @ \ {call[t].block}
                                               ELSE @ \cup {call[t].block}]
  /\ \E due \in BOOLEAN : Goto(t, IF due THEN "lock" ELSE "return")
  /\ UNCHANGED <<Elsewhere, failures, inits>>

------------------------------------------------------------------------------
(* write_snapshot *)

Afterwards(t) == Goto(t, IF call[t].kind = "exit" THEN "close" ELSE "return")

\* Mutant: whoever has a log writes in it.
TakeLockWithLog(t) ==
  /\ pc[t] = "lock"
  /\ Memory(t).snapshot_lock = None
  /\ IF Memory(t).log = None
       THEN Afterwards(t) /\ UNCHANGED mem
       ELSE Store(t, "snapshot_lock", t) /\ Goto(t, "load")
  /\ UNCHANGED <<Elsewhere, failures, inits>>

\* lock_flag(&snapshot_lock).  A process that does not own its memory, or has
\* no log, writes nothing and gives the lock back.
TakeLock(t) ==
  /\ pc[t] = "lock"
  /\ Memory(t).snapshot_lock = None
  /\ IF Memory(t).owner_pid # Pid(t) \/ Memory(t).log = None
       THEN Afterwards(t) /\ UNCHANGED mem
       ELSE Store(t, "snapshot_lock", t) /\ Goto(t, "load")
  /\ UNCHANGED <<Elsewhere, failures, inits>>

\* load_live_statistics, under the lock of the shard; of the blocks counted the
\* row keeps the processes that allocated them.
Load(t) ==
  /\ pc[t] = "load"
  /\ Memory(t).shard_lock = None
  /\ call' = [call EXCEPT ![t].live = { b[1] : b \in Memory(t).live_table }]
  /\ Goto(t, "write")
  /\ UNCHANGED <<initial_process_is_appspawndf, parent, mem, heap, calls, failures, inits>>

\* The row that is written: into the file that is open, if one still is.
Row(t) == [file |-> Memory(t).log, writer |-> Pid(t), live |-> call[t].live]

\* The write and the unlocking.
Write(t) ==
  /\ pc[t] = "write"
  /\ Store(t, "snapshot_lock", None)
  /\ Afterwards(t)
  /\ UNCHANGED <<Elsewhere, failures, inits>>

Record(t) ==
  \/ LockShard(t) \/ Update(t)
  \/ TakeLock(t) \/ Load(t) \/ Write(t)

\* What a thread does once it is in a call.
Proceed(t) == Construct(t) \/ Prepare(t) \/ Record(t) \/ Return(t) \/ Close(t) \/ End(t)

Next == \E t \in Threads : Program(t) \/ Proceed(t)

\* A thread that can go on in a call does.
Fairness == \A t \in Threads : WF_vars(Proceed(t))

Spec == Init /\ [][Next]_vars /\ Fairness

------------------------------------------------------------------------------

InitPlaces == {"recheck", "clear", "own", "open", "publish", "unlock"}
RecordPlaces == {"record", "update", "lock", "load", "write"}
Places ==
  {"none", "gone", "loading", "idle", "gate", "ready", "owner", "owned", "trylock", "return", "close",
   "ending"}
    \cup InitPlaces \cup RecordPlaces

\* The variables have the types of the code, and no record is written to a
\* table that is not mapped.
TypeOK ==
  /\ initial_process_is_appspawndf \in BOOLEAN
  /\ parent \in [Processes -> Processes \cup {None}]
  /\ pc \in [Threads -> Places]
  /\ \A p \in Processes :
       /\ mem[p].owner_pid \in Processes \cup {None} /\ mem[p].log \in Processes \cup {None}
       /\ {mem[p].statistics_ready, mem[p].live_table_ready} \subseteq BOOLEAN
       /\ {mem[p].process_init_lock, mem[p].snapshot_lock, mem[p].shard_lock} \subseteq Threads \cup {None}
       /\ mem[p].live_table \subseteq Blocks /\ heap[p] \subseteq Blocks
       /\ ~mem[p].live_table_ready => mem[p].live_table = {}

\* "Inherited memory is not counted": a row goes into the file of the process
\* that writes it and counts only blocks that this process has allocated, under
\* appspawndf or not, though a child starts with its parent's table, owner and
\* open log.
RowsAreTheirOwn ==
  \A t \in Threads :
    pc[t] = "write" /\ Row(t).file # None =>
      Row(t).file = Row(t).writer /\ Row(t).live \subseteq {Row(t).writer}

\* A process is initialised at most once, and when a thread takes away the
\* table, the log and the locks of the shards, no other thread of the process is
\* in a shard, at the log or initialising.
InitialisesAlone ==
  \A p \in Processes :
    /\ inits[p] <= 1
    /\ \A t \in ThreadsOf(p) : pc[t] = "clear" =>
         \A u \in ThreadsOf(p) \ {t} : pc[u] \notin InitPlaces \cup RecordPlaces

\* The initial process and the children of the fork server.
Spawned(p) ==
  \/ p = initial_process_pid
  \/ initial_process_is_appspawndf /\ parent[p] = initial_process_pid

\* "The initial appspawndf is intentionally not measured": so its children
\* inherit no lock of a thread they do not have, and no call in them spins for
\* ever, nor in the initial process: of the bounded calls all return.
CallsReturn ==
  <>[](\A t \in Threads : Spawned(Pid(t)) => pc[t] \in {"none", "idle", "gone"})
==============================================================================
