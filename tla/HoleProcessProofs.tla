-------------------------- MODULE HoleProcessProofs --------------------------
(***************************************************************************)
(* What the life cycle of malloc_hole_hook.c promises for every number of  *)
(* processes, threads, calls and failing system calls: a row counts only   *)
(* what its own process allocated, and a process is initialised once, by a *)
(* thread that is alone with the statistics it clears.                     *)
(***************************************************************************)
EXTENDS HoleProcess, TLAPS

Memories ==
  [owner_pid : Processes \cup {None}, statistics_ready : BOOLEAN, live_table_ready : BOOLEAN,
   live_table : SUBSET Blocks, log : Processes \cup {None},
   process_init_lock : Threads \cup {None}, snapshot_lock : Threads \cup {None},
   shard_lock : Threads \cup {None}]

Kinds == {"none", "construct", "malloc", "free", "ask", "exit"}
CallRecords == [kind : Kinds, block : Blocks \cup {None}, live : SUBSET Processes]

Typed ==
  /\ initial_process_is_appspawndf \in BOOLEAN
  /\ parent \in [Processes -> Processes \cup {None}]
  /\ mem \in [Processes -> Memories]
  /\ heap \in [Processes -> SUBSET Blocks]
  /\ pc \in [Threads -> Places] /\ call \in [Threads -> CallRecords]
  /\ calls \in 0 .. MaxCalls /\ inits \in [Processes -> Nat]

\* Where a thread is inside the preparation of a call.
PreparePlaces == {"gate", "ready", "owner", "owned", "trylock"} \cup InitPlaces

\* A thread outside a call has none, only a malloc or a free is recorded, and a
\* block is named after the process that allocates it.
CallFits(t) ==
  /\ pc[t] \in {"none", "gone", "idle", "loading"} => call[t].kind = "none"
  /\ pc[t] \in PreparePlaces => call[t].kind \in {"construct", "malloc", "free", "ask"}
  /\ pc[t] \in {"record", "update"} => call[t].kind \in {"malloc", "free"}
  /\ call[t].kind \in {"malloc", "free"} => call[t].block \in Blocks
  /\ call[t].kind = "malloc" => call[t].block[1] = Pid(t)

CallsFit == \A t \in Threads : CallFits(t)

TablesAreMapped == \A p \in Processes : ~mem[p].live_table_ready => mem[p].live_table = {}

TInv == Typed /\ CallsFit /\ TablesAreMapped

------------------------------------------------------------------------------
(* The invariant of a process *)

ThreadsIn(p) == { t \in Threads : Pid(t) = p }

\* Before its fork a process has no thread and was not initialised.
Born(p) == p = initial_process_pid \/ parent[p] # None
UnbornIsIdle ==
  \A p \in Processes : ~Born(p) => inits[p] = 0 /\ \A t \in ThreadsIn(p) : pc[t] = "none"

OwnerIsBorn ==
  \A p, q \in Processes : mem[p].owner_pid = q => Born(q)

\* The log and the table are of process p alone.
HasOwnStatistics(p) ==
  mem[p].log \in {None, p} /\ \A b \in mem[p].live_table : b[1] = p

\* A process takes its memory over with statistics of its own, which it keeps,
\* and only an owner is in the middle of a row.
OwnerHasOwn(p) == mem[p].owner_pid = p => HasOwnStatistics(p)
NewOwnerHasOwn(p) == \A t \in ThreadsIn(p) : pc[t] = "own" => HasOwnStatistics(p)
WriterOwns(p) ==
  \A t \in ThreadsIn(p) :
    /\ pc[t] \in {"load", "write"} => mem[p].owner_pid = p
    /\ pc[t] = "write" => call[t].live \subseteq {p}

RInv(p) == OwnerHasOwn(p) /\ NewOwnerHasOwn(p) /\ WriterOwns(p)

\* The lock is held by the thread that initialises.
InitLockHeld(p) == \A t \in ThreadsIn(p) : pc[t] \in InitPlaces => mem[p].process_init_lock = t

\* Nobody clears the statistics of a process that owns them, because an owner's
\* statistics are ready, or are about to be.
ClearsUnowned(p) == \A t \in ThreadsIn(p) : pc[t] \in {"clear", "own"} => mem[p].owner_pid # p
OwnerIsReady(p) ==
  mem[p].owner_pid = p =>
    mem[p].statistics_ready \/ \E t \in ThreadsIn(p) : pc[t] \in {"open", "publish"}

\* A process that was initialised, once, owns its memory, is about to, or has
\* ended.
InitialisedOnce(p) ==
  /\ inits[p] <= 1
  /\ inits[p] # 0 =>
       \/ mem[p].owner_pid = p
       \/ \E t \in ThreadsIn(p) : pc[t] \in {"clear", "own"}
       \/ \A t \in ThreadsIn(p) : pc[t] = "gone"

\* The constructor and a request for a row run in a process of one thread.
RunsAlone(p) ==
  \A t \in ThreadsIn(p) : pc[t] = "loading" \/ call[t].kind \in {"construct", "ask"} =>
    \A u \in ThreadsIn(p) : u # t => pc[u] \in {"none", "gone"}

\* Only the fork server's memory is taken over by a thread that is not alone.
OthersTakeOver(p) ==
  \A t \in ThreadsIn(p) :
    pc[t] \in {"owner", "owned", "trylock"} \cup InitPlaces /\ call[t].kind \in {"malloc", "free"} =>
      /\ initial_process_is_appspawndf /\ p # initial_process_pid
      /\ mem[p].owner_pid \in {initial_process_pid, p}

\* While it is the fork server's, nobody is recorded in it.
ServerIsNotMeasured(p) ==
  initial_process_is_appspawndf /\ p # initial_process_pid
      /\ mem[p].owner_pid = initial_process_pid =>
    \A t \in ThreadsIn(p) :
      pc[t] \notin {"ready", "owned", "open", "publish", "unlock"} \cup RecordPlaces

AInv(p) ==
  /\ InitLockHeld(p) /\ ClearsUnowned(p) /\ OwnerIsReady(p) /\ InitialisedOnce(p)
  /\ RunsAlone(p) /\ OthersTakeOver(p) /\ ServerIsNotMeasured(p)

IInv ==
  /\ TInv /\ UnbornIsIdle /\ OwnerIsBorn
  /\ \A p \in Processes : RInv(p) /\ AInv(p)

------------------------------------------------------------------------------
(* Lemmas about the memory *)

\* A thread is one of its process.
LEMMA ThreadType ==
  /\ \A t \in Threads : Pid(t) \in Processes
  /\ \A p \in Processes : <<p, 1>> \in Threads /\ Pid(<<p, 1>>) = p
  /\ initial_process_pid \in Processes /\ <<initial_process_pid, 1>> \in Threads
  BY ProcessAssumption DEF Threads, Pid, Processes, initial_process_pid

\* A store to one variable of the hook, in t's process, changes that one only.
LEMMA StoreOwner ==
  ASSUME mem \in [Processes -> Memories], NEW t \in Threads,
         NEW v \in Processes \cup {None}, Store(t, "owner_pid", v)
  PROVE  /\ mem' \in [Processes -> Memories]
         /\ \A q \in Processes : q # Pid(t) => mem'[q] = mem[q]
         /\ LET m == mem[Pid(t)]
                n == mem'[Pid(t)]
            IN  /\ n.owner_pid = v
                /\ n.statistics_ready = m.statistics_ready
                /\ n.live_table_ready = m.live_table_ready /\ n.live_table = m.live_table
                /\ n.log = m.log /\ n.process_init_lock = m.process_init_lock
  BY ThreadType DEF Store, Memories

\* The same of the flag that the statistics are ready, ...
LEMMA StoreReady ==
  ASSUME mem \in [Processes -> Memories], NEW t \in Threads,
         NEW v \in BOOLEAN, Store(t, "statistics_ready", v)
  PROVE  /\ mem' \in [Processes -> Memories]
         /\ \A q \in Processes : q # Pid(t) => mem'[q] = mem[q]
         /\ LET m == mem[Pid(t)]
                n == mem'[Pid(t)]
            IN  /\ n.owner_pid = m.owner_pid
                /\ n.statistics_ready = v
                /\ n.live_table_ready = m.live_table_ready /\ n.live_table = m.live_table
                /\ n.log = m.log /\ n.process_init_lock = m.process_init_lock
  BY ThreadType DEF Store, Memories

\* ... of the log ...
LEMMA StoreLog ==
  ASSUME mem \in [Processes -> Memories], NEW t \in Threads,
         NEW v \in Processes \cup {None}, Store(t, "log", v)
  PROVE  /\ mem' \in [Processes -> Memories]
         /\ \A q \in Processes : q # Pid(t) => mem'[q] = mem[q]
         /\ LET m == mem[Pid(t)]
                n == mem'[Pid(t)]
            IN  /\ n.owner_pid = m.owner_pid
                /\ n.statistics_ready = m.statistics_ready
                /\ n.live_table_ready = m.live_table_ready /\ n.live_table = m.live_table
                /\ n.log = v /\ n.process_init_lock = m.process_init_lock
  BY ThreadType DEF Store, Memories

\* ... and of the lock of the initialisation.
LEMMA StoreInitLock ==
  ASSUME mem \in [Processes -> Memories], NEW t \in Threads,
         NEW v \in Threads \cup {None}, Store(t, "process_init_lock", v)
  PROVE  /\ mem' \in [Processes -> Memories]
         /\ \A q \in Processes : q # Pid(t) => mem'[q] = mem[q]
         /\ LET m == mem[Pid(t)]
                n == mem'[Pid(t)]
            IN  /\ n.owner_pid = m.owner_pid
                /\ n.statistics_ready = m.statistics_ready
                /\ n.live_table_ready = m.live_table_ready /\ n.live_table = m.live_table
                /\ n.log = m.log /\ n.process_init_lock = v
  BY ThreadType DEF Store, Memories

\* The locks of the shard and of the log are of no account here.
LEMMA StoreOther ==
  ASSUME mem \in [Processes -> Memories], NEW t \in Threads,
         NEW v \in Threads \cup {None}, NEW f \in {"snapshot_lock", "shard_lock"},
         Store(t, f, v)
  PROVE  /\ mem' \in [Processes -> Memories]
         /\ \A q \in Processes : q # Pid(t) => mem'[q] = mem[q]
         /\ LET m == mem[Pid(t)]
                n == mem'[Pid(t)]
            IN  /\ n.owner_pid = m.owner_pid
                /\ n.statistics_ready = m.statistics_ready
                /\ n.live_table_ready = m.live_table_ready /\ n.live_table = m.live_table
                /\ n.log = m.log /\ n.process_init_lock = m.process_init_lock
  BY ThreadType DEF Store, Memories

\* The statistics after Clear: no log and an empty table.
LEMMA ClearFields ==
  ASSUME mem \in [Processes -> Memories], NEW t \in Threads, Clear(t)
  PROVE  /\ mem' \in [Processes -> Memories]
         /\ \A q \in Processes : q # Pid(t) => mem'[q] = mem[q]
         /\ LET m == mem[Pid(t)]
                n == mem'[Pid(t)]
            IN  /\ n.owner_pid = m.owner_pid
                /\ n.statistics_ready = m.statistics_ready
                /\ n.live_table = {}
                /\ n.log = None /\ n.process_init_lock = m.process_init_lock
  <1>1. PICK mapped \in BOOLEAN : mem' = [mem EXCEPT ![Pid(t)] =
            [@ EXCEPT !.log = None, !.shard_lock = None,
                      !.live_table_ready = mapped, !.live_table = {}]]
    BY DEF Clear
  <1>2. Pid(t) \in Processes /\ mem[Pid(t)] \in Memories
    BY ThreadType
  <1> DEFINE n == [mem[Pid(t)] EXCEPT !.log = None, !.shard_lock = None,
                                      !.live_table_ready = mapped, !.live_table = {}]
  <1>3. /\ n \in Memories
        /\ n.owner_pid = mem[Pid(t)].owner_pid
        /\ n.statistics_ready = mem[Pid(t)].statistics_ready
        /\ n.live_table = {}
        /\ n.log = None /\ n.process_init_lock = mem[Pid(t)].process_init_lock
    BY <1>2 DEF Memories
  <1>4. mem' = [mem EXCEPT ![Pid(t)] = n]
    BY <1>1
  <1> HIDE DEF n
  <1>5. QED
    BY <1>2, <1>3, <1>4

\* An update only inserts the block of the call into the table.
LEMMA UpdateFields ==
  ASSUME mem \in [Processes -> Memories], NEW t \in Threads, Update(t),
         call[t].block \in Blocks
  PROVE  /\ mem' \in [Processes -> Memories]
         /\ \A q \in Processes : q # Pid(t) => mem'[q] = mem[q]
         /\ LET m == mem[Pid(t)]
                n == mem'[Pid(t)]
            IN  /\ n.owner_pid = m.owner_pid
                /\ n.statistics_ready = m.statistics_ready
                /\ n.live_table_ready = m.live_table_ready
                /\ ~m.live_table_ready => n.live_table = m.live_table
                /\ n.live_table \subseteq m.live_table
                     \cup (IF call[t].kind = "free" THEN {} ELSE {call[t].block})
                /\ n.log = m.log /\ n.process_init_lock = m.process_init_lock
  BY ThreadType DEF Update, Memory, Memories

------------------------------------------------------------------------------
(* Type correctness *)

\* A thread that goes on in its call.
LEMMA GotoFits ==
  ASSUME Typed, CallsFit, NEW t \in Threads, NEW label \in Places \ {"none", "gone", "idle", "loading"},
         Goto(t, label), UNCHANGED call,
         label \in PreparePlaces => call[t].kind \in {"construct", "malloc", "free", "ask"},
         label \in {"record", "update"} => call[t].kind \in {"malloc", "free"}
  PROVE  pc' \in [Threads -> Places] /\ CallsFit'
  BY DEF Typed, Goto, CallsFit, CallFits

\* A step of the preparation or of the recording that changes a few variables
\* of the hook: the types of the memory, and where the thread is.
LEMMA ProceedTypes ==
  ASSUME TInv, NEW t \in Threads, Prepare(t) \/ Record(t)
  PROVE  TInv'
  <1> USE DEF TInv
  <1>k. /\ call[t] \in CallRecords /\ pc \in [Threads -> Places] /\ Pid(t) \in Processes
        /\ mem \in [Processes -> Memories] /\ mem[Pid(t)] \in Memories
        /\ inits \in [Processes -> Nat]
    BY ThreadType DEF Typed
  <1>1. ASSUME NEW label \in {"record", "return", "lock"}, label = Allowed(t),
               call[t].kind \in {"construct", "malloc", "free", "ask"}
        PROVE  label = "record" => call[t].kind \in {"malloc", "free"}
    BY <1>1 DEF Allowed
  <1>2. call[t].kind \in {"construct", "malloc", "free", "ask"} =>
          Allowed(t) \in {"record", "return", "lock"}
    BY DEF Allowed
  <1>3. CASE Gate(t)
    <2>1. PICK label \in {"return", "owner", "ready"} : Goto(t, label)
      BY <1>3 DEF Gate
    <2>2. call[t].kind \in {"construct", "malloc", "free", "ask"}
      BY <1>3 DEF Gate, CallsFit, CallFits, PreparePlaces
    <2>3. UNCHANGED <<Elsewhere, mem, inits>>
      BY <1>3 DEF Gate
    <2>4. pc' \in [Threads -> Places] /\ CallsFit'
      BY <2>1, <2>2, <2>3, GotoFits DEF Places, PreparePlaces, InitPlaces, Elsewhere
    <2>5. QED
      BY <2>3, <2>4 DEF Typed, TablesAreMapped, Elsewhere
  <1>4. CASE ReadReady(t) \/ ReadOwned(t)
    <2>1. call[t].kind \in {"construct", "malloc", "free", "ask"}
      BY <1>4 DEF ReadReady, ReadOwned, CallsFit, CallFits, PreparePlaces
    <2>2. PICK label \in {"record", "return", "lock", "trylock"} :
            Goto(t, label) /\ (label = Allowed(t) \/ label \in {"return", "trylock"})
      BY <1>2, <1>4, <2>1 DEF ReadReady, ReadOwned
    <2>3. UNCHANGED <<Elsewhere, mem, inits>>
      BY <1>4 DEF ReadReady, ReadOwned
    <2>4. label = "record" => call[t].kind \in {"malloc", "free"}
      BY <1>1, <2>1, <2>2
    <2>5. pc' \in [Threads -> Places] /\ CallsFit'
      BY <2>1, <2>2, <2>3, <2>4, GotoFits
        DEF Places, PreparePlaces, InitPlaces, RecordPlaces, Elsewhere
    <2>6. QED
      BY <2>3, <2>5 DEF Typed, TablesAreMapped, Elsewhere
  <1>5. CASE ReadOwner(t) \/ TryInitLock(t) \/ Recheck(t) \/ Clear(t) \/ Own(t) \/ OpenLog(t)
               \/ Publish(t) \/ UnlockInit(t)
    <2>1. call[t].kind \in {"construct", "malloc", "free", "ask"}
      BY <1>5 DEF ReadOwner, TryInitLock, Recheck, Clear, Own, OpenLog, Publish, UnlockInit,
                  CallsFit, CallFits, PreparePlaces, InitPlaces
    <2>2. PICK label \in PreparePlaces \cup {"return"} : Goto(t, label)
      BY <1>5 DEF ReadOwner, TryInitLock, Recheck, Clear, Own, OpenLog, Publish, UnlockInit,
                  PreparePlaces, InitPlaces
    <2>3. UNCHANGED Elsewhere
      BY <1>5 DEF ReadOwner, TryInitLock, Recheck, Clear, Own, OpenLog, Publish, UnlockInit
    <2>4. pc' \in [Threads -> Places] /\ CallsFit'
      <3>1. label \in Places \ {"none", "gone", "idle", "loading"} /\ label \notin {"record", "update"}
        BY DEF Places, PreparePlaces, InitPlaces
      <3>2. QED
        BY <2>1, <2>2, <2>3, <3>1, GotoFits DEF Elsewhere
    <2>5. /\ mem' \in [Processes -> Memories]
          /\ \A q \in Processes : ~mem'[q].live_table_ready => mem'[q].live_table = {}
      <3> USE DEF TablesAreMapped
      <3>1. CASE ReadOwner(t)
        BY <1>k, <3>1 DEF ReadOwner
      <3>2. CASE TryInitLock(t)
        BY <1>k, <3>2, StoreInitLock DEF TryInitLock
      <3>3. CASE Recheck(t)
        BY <1>k, <3>3, StoreReady DEF Recheck
      <3>4. CASE Clear(t)
        BY <1>k, <3>4, ClearFields
      <3>5. CASE Own(t)
        BY <1>k, <3>5, StoreOwner DEF Own
      <3>6. CASE OpenLog(t)
        BY <1>k, <3>6, StoreLog DEF OpenLog
      <3>7. CASE Publish(t)
        BY <1>k, <3>7, StoreReady DEF Publish
      <3>8. CASE UnlockInit(t)
        BY <1>k, <3>8, StoreInitLock DEF UnlockInit
      <3>9. QED
        BY <1>5, <3>1, <3>2, <3>3, <3>4, <3>5, <3>6, <3>7, <3>8
    <2>6. inits' \in [Processes -> Nat]
      <3>1. inits' = inits \/ inits' = [inits EXCEPT ![Pid(t)] = @ + 1]
        BY <1>5 DEF ReadOwner, TryInitLock, Recheck, Clear, Own, OpenLog, Publish, UnlockInit
      <3>2. QED
        BY <3>1, <1>k
    <2>7. QED
      BY <2>3, <2>4, <2>5, <2>6 DEF Typed, TablesAreMapped, Elsewhere
  <1>6. CASE LockShard(t)
    <2>1. call[t].kind \in {"malloc", "free"}
      BY <1>6 DEF LockShard, CallsFit, CallFits
    <2>2. UNCHANGED <<Elsewhere, inits>> /\ Goto(t, "update") /\ Store(t, "shard_lock", t)
      BY <1>6 DEF LockShard
    <2>3. pc' \in [Threads -> Places] /\ CallsFit'
      BY <2>1, <2>2, GotoFits DEF Places, PreparePlaces, InitPlaces, RecordPlaces, Elsewhere
    <2>4. /\ mem' \in [Processes -> Memories]
          /\ \A q \in Processes : ~mem'[q].live_table_ready => mem'[q].live_table = {}
      BY <1>k, <2>2, StoreOther DEF TablesAreMapped
    <2>5. QED
      BY <2>2, <2>3, <2>4 DEF Typed, TablesAreMapped, Elsewhere
  <1>7. CASE Update(t)
    <2>1. call[t].kind \in {"malloc", "free"} /\ call[t].block \in Blocks
      BY <1>7 DEF Update, CallsFit, CallFits
    <2>2. PICK label \in {"lock", "return"} : Goto(t, label)
      BY <1>7 DEF Update
    <2>3. UNCHANGED <<Elsewhere, inits>>
      BY <1>7 DEF Update
    <2>4. pc' \in [Threads -> Places] /\ CallsFit'
      BY <2>2, <2>3, GotoFits DEF Places, PreparePlaces, InitPlaces, RecordPlaces, Elsewhere
    <2>5. /\ mem' \in [Processes -> Memories]
          /\ \A q \in Processes : ~mem'[q].live_table_ready => mem'[q].live_table = {}
      BY <1>7, <1>k, <2>1, UpdateFields DEF TablesAreMapped
    <2>6. QED
      BY <2>3, <2>4, <2>5 DEF Typed, TablesAreMapped, Elsewhere
  <1>8. CASE TakeLock(t) \/ Write(t)
    <2>1. PICK label \in {"load", "close", "return"} : Goto(t, label)
      BY <1>8 DEF TakeLock, Write, Afterwards
    <2>2. UNCHANGED <<Elsewhere, inits>>
      BY <1>8 DEF TakeLock, Write
    <2>3. pc' \in [Threads -> Places] /\ CallsFit'
      BY <2>1, <2>2, GotoFits DEF Places, PreparePlaces, InitPlaces, RecordPlaces, Elsewhere
    <2>4. /\ mem' \in [Processes -> Memories]
          /\ \A q \in Processes : ~mem'[q].live_table_ready => mem'[q].live_table = {}
      BY <1>8, <1>k, StoreOther DEF TakeLock, Write, TablesAreMapped
    <2>5. QED
      BY <2>2, <2>3, <2>4 DEF Typed, TablesAreMapped, Elsewhere
  <1>9. CASE Load(t)
    <2>1. { b[1] : b \in Memory(t).live_table } \in SUBSET Processes
      BY <1>k DEF Memory, Memories, Blocks
    <2>2. call' \in [Threads -> CallRecords] /\ pc' \in [Threads -> Places]
      BY <1>9, <2>1 DEF Load, Typed, CallRecords, Goto, Places, RecordPlaces
    <2>3. CallsFit'
      <3>1. ASSUME NEW u \in Threads
            PROVE  /\ call'[u].kind = call[u].kind /\ call'[u].block = call[u].block
                   /\ pc'[u] = pc[u] \/ pc'[u] = "write"
        BY <1>9 DEF Load, Goto, Typed, CallRecords
      <3>2. QED
        BY <3>1 DEF CallsFit, CallFits, PreparePlaces, InitPlaces
    <2>4. QED
      BY <1>9, <2>2, <2>3 DEF Load, Typed, TablesAreMapped
  <1>10. QED
    BY <1>3, <1>4, <1>5, <1>6, <1>7, <1>8, <1>9 DEF Prepare, Record

\* The end of a process.
LEMMA VanishFields ==
  ASSUME Typed, NEW p \in Processes, Vanish(p)
  PROVE  /\ mem' \in [Processes -> Memories] /\ heap' \in [Processes -> SUBSET Blocks]
         /\ pc' \in [Threads -> Places] /\ call' \in [Threads -> CallRecords]
         /\ mem'[p] = Loaded /\ \A q \in Processes : q # p => mem'[q] = mem[q]
         /\ \A t \in Threads : IF Pid(t) = p THEN pc'[t] = "gone" /\ call'[t] = NoCall
                                             ELSE pc'[t] = pc[t] /\ call'[t] = call[t]
  <1>1. Loaded \in Memories
    BY DEF Loaded, Memories
  <1>2. NoCall \in CallRecords
    BY DEF NoCall, CallRecords, Kinds
  <1>3. "gone" \in Places
    BY DEF Places
  <1>4. QED
    BY <1>1, <1>2, <1>3 DEF Vanish, Typed

\* The end of a process leaves a memory as it is loaded.
LEMMA VanishTypes ==
  ASSUME TInv, NEW p \in Processes, Vanish(p),
         UNCHANGED <<initial_process_is_appspawndf, parent, calls, inits>>
  PROVE  TInv'
  <1>1. Typed'
    BY VanishFields DEF TInv, Typed
  <1>2. CallsFit'
    <2> SUFFICES ASSUME NEW t \in Threads PROVE CallFits(t)'
      BY DEF CallsFit
    <2>1. CASE Pid(t) = p
      BY <2>1, VanishFields DEF TInv, CallFits, NoCall, PreparePlaces, InitPlaces
    <2>2. CASE Pid(t) # p
      BY <2>2, VanishFields DEF TInv, CallsFit, CallFits
    <2>3. QED
      BY <2>1, <2>2
  <1>3. TablesAreMapped'
    BY VanishFields DEF TInv, TablesAreMapped, Loaded
  <1>4. QED
    BY <1>1, <1>2, <1>3 DEF TInv

\* The first and the last step of a call, and the end of a process.
LEMMA EdgeTypes ==
  ASSUME TInv, NEW t \in Threads, Construct(t) \/ Return(t) \/ Close(t) \/ End(t)
  PROVE  TInv'
  <1> USE DEF TInv
  <1>0. /\ Pid(t) \in Processes /\ Typed /\ call[t] \in CallRecords
        /\ mem \in [Processes -> Memories]
    BY ThreadType DEF Typed
  <1>1. CASE Construct(t)
    <2>1. /\ pc' = [pc EXCEPT ![t] = "owner"] /\ call' = [call EXCEPT ![t].kind = "construct"]
          /\ UNCHANGED <<initial_process_is_appspawndf, parent, mem, heap, calls, inits>>
      BY <1>1 DEF Construct, Goto
    <2>2. Typed'
      BY <2>1 DEF Typed, Places, CallRecords, Kinds
    <2>3. CallsFit'
      BY <2>1 DEF Typed, CallsFit, CallFits, CallRecords, PreparePlaces, InitPlaces
    <2>4. QED
      BY <2>1, <2>2, <2>3 DEF TablesAreMapped
  <1>2. CASE Return(t)
    <2>1. /\ pc' = [pc EXCEPT ![t] = "idle"] /\ call' = [call EXCEPT ![t] = NoCall]
          /\ UNCHANGED <<initial_process_is_appspawndf, parent, mem, calls, inits>>
      BY <1>2 DEF Return, Goto
    <2>2. heap' \in [Processes -> SUBSET Blocks]
      BY <1>0, <1>2 DEF Return, Typed
    <2>3. NoCall \in CallRecords /\ NoCall.kind = "none"
      BY DEF NoCall, CallRecords, Kinds
    <2>4. Typed'
      BY <2>1, <2>2, <2>3 DEF Typed, Places
    <2>5. CallsFit'
      BY <2>1, <2>3 DEF Typed, CallsFit, CallFits, PreparePlaces, InitPlaces
    <2>6. QED
      BY <2>1, <2>4, <2>5 DEF TablesAreMapped
  <1>3. CASE Close(t)
    <2>1. Goto(t, "ending") /\ Store(t, "log", None)
          /\ UNCHANGED <<initial_process_is_appspawndf, parent, heap, call, calls, inits>>
      BY <1>3 DEF Close
    <2>2. pc' \in [Threads -> Places] /\ CallsFit'
      BY <2>1, GotoFits DEF Places, PreparePlaces, InitPlaces
    <2>3. /\ mem' \in [Processes -> Memories]
          /\ \A q \in Processes : ~mem'[q].live_table_ready => mem'[q].live_table = {}
      BY <1>0, <2>1, StoreLog DEF TablesAreMapped
    <2>4. QED
      BY <2>1, <2>2, <2>3 DEF Typed, TablesAreMapped
  <1>4. CASE End(t)
    BY <1>0, <1>4, VanishTypes DEF End
  <1>5. QED
    BY <1>1, <1>2, <1>3, <1>4

\* A new call, of a malloc, a free or a request.
LEMMA CallTypes ==
  ASSUME TInv, NEW t \in Threads, NEW kind \in {"malloc", "free", "ask"},
         NEW block \in Blocks \cup {None}, Call(t, kind, block),
         NEW label \in {"gate", "owner"}, Goto(t, label),
         kind \in {"malloc", "free"} => block \in Blocks,
         kind = "malloc" => block[1] = Pid(t),
         heap' \in [Processes -> SUBSET Blocks]
  PROVE  TInv'
  <1>1. /\ call' = [call EXCEPT ![t] = [kind |-> kind, block |-> block, live |-> {}]]
        /\ [kind |-> kind, block |-> block, live |-> {}] \in CallRecords
        /\ pc' = [pc EXCEPT ![t] = label] /\ label \in Places
    BY DEF Call, Goto, CallRecords, Kinds, Places
  <1>2. call' \in [Threads -> CallRecords] /\ pc' \in [Threads -> Places]
    BY <1>1 DEF TInv, Typed
  <1>3. calls' \in 0 .. MaxCalls
    BY ProcessAssumption DEF Call, TInv, Typed
  <1>4. CallsFit'
    <2> SUFFICES ASSUME NEW u \in Threads PROVE CallFits(u)'
      BY DEF CallsFit
    <2>1. CASE u = t
      BY <1>1, <2>1 DEF TInv, Typed, CallFits, PreparePlaces, InitPlaces
    <2>2. CASE u # t
      BY <1>1, <2>2 DEF TInv, Typed, CallsFit, CallFits
    <2>3. QED
      BY <2>1, <2>2
  <1>5. QED
    BY <1>2, <1>3, <1>4 DEF Call, TInv, Typed, TablesAreMapped

\* A step of the program.
LEMMA ProgramTypes ==
  ASSUME TInv, UnbornIsIdle, NEW t \in Threads, Program(t)
  PROVE  TInv'
  <1>1. Pid(t) \in Processes /\ heap[Pid(t)] \subseteq Blocks /\ heap \in [Processes -> SUBSET Blocks]
    BY ThreadType DEF TInv, Typed
  <1>2. CASE Malloc(t)
    <2> DEFINE block == <<Pid(t), calls + 1>>
    <2>1. block \in Blocks
      BY <1>1, <1>2, ProcessAssumption DEF Malloc, Call, TInv, Typed, Blocks
    <2>2. /\ Call(t, "malloc", block) /\ Goto(t, "gate")
          /\ heap' = [heap EXCEPT ![Pid(t)] = @ \cup {block}]
      BY <1>2 DEF Malloc
    <2>3. block[1] = Pid(t)
      OBVIOUS
    <2> HIDE DEF block
    <2>4. heap' \in [Processes -> SUBSET Blocks]
      BY <1>1, <2>1, <2>2
    <2>5. QED
      BY <2>1, <2>2, <2>3, <2>4, CallTypes
  <1>3. CASE Free(t)
    <2>1. PICK block \in heap[Pid(t)] : Call(t, "free", block) /\ Goto(t, "gate") /\ UNCHANGED heap
      BY <1>3 DEF Free
    <2>2. QED
      BY <1>1, <2>1, CallTypes
  <1>4. CASE Ask(t)
    BY <1>1, <1>4, CallTypes DEF Ask
  <1>5. CASE StartThread(t)
    <2>1. /\ pc' = [pc EXCEPT ![t] = "idle"] /\ pc[t] = "none"
          /\ UNCHANGED <<initial_process_is_appspawndf, parent, mem, heap, call, calls, inits>>
      BY <1>5 DEF StartThread, Goto
    <2>2. Typed'
      BY <2>1 DEF TInv, Typed, Places
    <2>3. CallsFit'
      BY <2>1 DEF TInv, Typed, CallsFit, CallFits, PreparePlaces, InitPlaces
    <2>4. QED
      BY <2>1, <2>2, <2>3 DEF TInv, TablesAreMapped
  <1>6. CASE Exit(t)
    <2>1. CASE Memory(t).owner_pid # Pid(t)
      BY <1>1, <1>6, <2>1, VanishTypes DEF Exit
    <2>2. CASE Memory(t).owner_pid = Pid(t)
      <3>1. /\ pc' = [pc EXCEPT ![t] = "lock"] /\ call' = [call EXCEPT ![t].kind = "exit"]
            /\ UNCHANGED <<initial_process_is_appspawndf, parent, mem, heap, calls, inits>>
        BY <1>6, <2>2 DEF Exit, Goto
      <3>2. Typed'
        BY <3>1 DEF TInv, Typed, Places, RecordPlaces, CallRecords, Kinds
      <3>3. CallsFit'
        BY <3>1 DEF TInv, Typed, CallsFit, CallFits, CallRecords, PreparePlaces, InitPlaces
      <3>4. QED
        BY <3>1, <3>2, <3>3 DEF TInv, TablesAreMapped
    <2>3. QED
      BY <2>1, <2>2
  <1>7. ASSUME NEW child \in Processes, Fork(t, child)
        PROVE  TInv'
    <2>1. <<child, 1>> \in Threads
      BY ThreadType
    <2>2. /\ pc' = [pc EXCEPT ![<<child, 1>>] = "idle"]
          /\ parent' = [parent EXCEPT ![child] = Pid(t)]
          /\ mem' = [mem EXCEPT ![child] = mem[Pid(t)]]
          /\ heap' = [heap EXCEPT ![child] = heap[Pid(t)]]
          /\ UNCHANGED <<initial_process_is_appspawndf, call, calls, inits>>
      BY <1>7 DEF Fork, Goto
    <2>3. Typed'
      BY <1>1, <2>1, <2>2 DEF TInv, Typed, Places
    <2>4. call[<<child, 1>>].kind = "none"
      <3>1. ~Born(child) /\ Pid(<<child, 1>>) = child
        BY <1>7, ThreadType DEF Fork, Born
      <3>2. pc[<<child, 1>>] = "none"
        BY <2>1, <3>1 DEF UnbornIsIdle, ThreadsIn
      <3>3. QED
        BY <2>1, <3>2 DEF TInv, CallsFit, CallFits
    <2>5. CallsFit'
      BY <2>1, <2>2, <2>4 DEF TInv, Typed, CallsFit, CallFits, PreparePlaces, InitPlaces
    <2>6. TablesAreMapped'
      BY <1>1, <2>2 DEF TInv, Typed, TablesAreMapped
    <2>7. QED
      BY <2>3, <2>5, <2>6 DEF TInv
  <1>8. QED
    BY <1>2, <1>3, <1>4, <1>5, <1>6, <1>7 DEF Program

------------------------------------------------------------------------------
(* What a step does to the processes *)

\* Nothing of process q changes.
Untouched(q) ==
  /\ mem'[q] = mem[q] /\ inits'[q] = inits[q]
  /\ \A u \in ThreadsIn(q) : pc'[u] = pc[u] /\ call'[u] = call[u]

\* In its process only t is moved.
MovesOnly(t) ==
  \A u \in ThreadsIn(Pid(t)) : u # t => pc'[u] = pc[u] /\ call'[u] = call[u]

\* A thread's step leaves the other processes alone, ...
LEMMA StepElsewhere ==
  ASSUME TInv, NEW t \in Threads, Proceed(t) \/ Malloc(t) \/ Free(t) \/ Ask(t) \/ StartThread(t) \/ Exit(t)
  PROVE  /\ UNCHANGED <<initial_process_is_appspawndf, parent>>
         /\ \A q \in Processes : q # Pid(t) => Untouched(q)
  <1> USE DEF ThreadsIn, Untouched
  <1>1. /\ mem \in [Processes -> Memories] /\ inits \in [Processes -> Nat] /\ Pid(t) \in Processes
        /\ pc \in [Threads -> Places] /\ call \in [Threads -> CallRecords] /\ Typed
    BY ThreadType DEF TInv, Typed
  <1>2. CASE Vanish(Pid(t)) /\ UNCHANGED <<initial_process_is_appspawndf, parent, calls, inits>>
    BY <1>1, <1>2, VanishFields
  <1>3. CASE Construct(t) \/ Return(t) \/ Malloc(t) \/ Free(t) \/ Ask(t) \/ StartThread(t) \/ Load(t)
    BY <1>1, <1>3 DEF Construct, Return, Malloc, Free, Ask, StartThread, Load, Call, Goto
  <1>4. CASE Exit(t)
    BY <1>1, <1>2, <1>4 DEF Exit, Goto
  <1>5. CASE End(t)
    BY <1>2, <1>5 DEF End
  <1>6. CASE Close(t)
    BY <1>1, <1>6 DEF Close, Goto, Store
  <1>7. CASE Prepare(t)
    BY <1>1, <1>7 DEF Prepare, Gate, ReadReady, ReadOwner, ReadOwned, TryInitLock, Recheck, Clear,
                      Own, OpenLog, Publish, UnlockInit, Goto, Store, Elsewhere
  <1>8. CASE Record(t)
    BY <1>1, <1>3, <1>8 DEF Record, LockShard, Update, TakeLock, Write, Afterwards, Goto, Store,
                            Elsewhere
  <1>9. QED
    BY <1>3, <1>4, <1>5, <1>6, <1>7, <1>8 DEF Proceed

\* ... and, when it is a step of a call, the other threads of its process.
LEMMA StepAlone ==
  ASSUME TInv, NEW t \in Threads,
         Construct(t) \/ Return(t) \/ Close(t) \/ Prepare(t) \/ Record(t)
           \/ Malloc(t) \/ Free(t) \/ Ask(t) \/ StartThread(t)
  PROVE  MovesOnly(t)
  <1> USE DEF ThreadsIn, MovesOnly
  <1>1. pc \in [Threads -> Places] /\ call \in [Threads -> CallRecords]
    BY DEF TInv, Typed
  <1>2. CASE Construct(t) \/ Return(t) \/ Malloc(t) \/ Free(t) \/ Ask(t) \/ StartThread(t) \/ Close(t)
    BY <1>1, <1>2 DEF Construct, Return, Malloc, Free, Ask, StartThread, Close, Call, Goto
  <1>3. CASE Prepare(t)
    BY <1>1, <1>3 DEF Prepare, Gate, ReadReady, ReadOwner, ReadOwned, TryInitLock, Recheck, Clear,
                      Own, OpenLog, Publish, UnlockInit, Goto, Elsewhere
  <1>4. CASE Record(t)
    BY <1>1, <1>4 DEF Record, LockShard, Update, TakeLock, Load, Write, Afterwards, Goto, Elsewhere
  <1>5. QED
    BY <1>2, <1>3, <1>4

\* A process that is untouched keeps its invariant.
LEMMA UntouchedKeeps ==
  ASSUME NEW q \in Processes, RInv(q), AInv(q), Untouched(q),
         UNCHANGED initial_process_is_appspawndf
  PROVE  RInv(q)' /\ AInv(q)'
  <1>1. RInv(q)'
    BY DEF RInv, OwnerHasOwn, NewOwnerHasOwn, WriterOwns, HasOwnStatistics, Untouched, ThreadsIn, Pid
  <1>2. AInv(q)'
    BY DEF AInv, InitLockHeld, ClearsUnowned, OwnerIsReady, InitialisedOnce, RunsAlone,
           OthersTakeOver, ServerIsNotMeasured, Untouched, ThreadsIn, Pid
  <1>3. QED
    BY <1>1, <1>2

------------------------------------------------------------------------------
(* The rows *)

\* The statistics stay, and the thread goes where it does not depend on them.
LEMMA RowsKept ==
  ASSUME TInv, NEW t \in Threads, RInv(Pid(t)), MovesOnly(t),
         mem'[Pid(t)].owner_pid = mem[Pid(t)].owner_pid,
         mem'[Pid(t)].log = mem[Pid(t)].log,
         mem'[Pid(t)].live_table = mem[Pid(t)].live_table,
         pc'[t] \notin {"own", "load", "write"}
  PROVE  RInv(Pid(t))'
  <1>1. Pid(t)' = Pid(t) /\ ThreadsIn(Pid(t))' = ThreadsIn(Pid(t))
    BY DEF Pid, ThreadsIn
  <1>2. OwnerHasOwn(Pid(t))'
    BY DEF RInv, OwnerHasOwn, HasOwnStatistics, Pid
  <1>3. NewOwnerHasOwn(Pid(t))'
    BY DEF RInv, NewOwnerHasOwn, HasOwnStatistics, MovesOnly, ThreadsIn, Pid
  <1>4. WriterOwns(Pid(t))'
    BY DEF RInv, WriterOwns, MovesOnly, ThreadsIn, Pid
  <1>5. QED
    BY <1>2, <1>3, <1>4 DEF RInv

\* The preparation of a call: Clear is where the statistics become the
\* process' own, and Own where they are needed to be.
LEMMA RowsPrepared ==
  ASSUME TInv, NEW t \in Threads, RInv(Pid(t)), Prepare(t)
  PROVE  RInv(Pid(t))'
  <1>0. /\ mem \in [Processes -> Memories] /\ Pid(t) \in Processes /\ MovesOnly(t)
        /\ pc \in [Threads -> Places]
    BY ThreadType, StepAlone DEF TInv, Typed
  <1>1. CASE Gate(t) \/ ReadReady(t) \/ ReadOwner(t) \/ ReadOwned(t)
    BY <1>0, <1>1, RowsKept DEF Gate, ReadReady, ReadOwner, ReadOwned, Goto, Allowed
  <1>2. CASE TryInitLock(t)
    BY <1>0, <1>2, RowsKept, StoreInitLock DEF TryInitLock, Goto
  <1>3. CASE Recheck(t)
    BY <1>0, <1>3, RowsKept, StoreReady DEF Recheck, Goto
  <1>4. CASE Clear(t)
    <2>1. /\ mem'[Pid(t)].log = None /\ mem'[Pid(t)].live_table = {}
          /\ mem'[Pid(t)].owner_pid = mem[Pid(t)].owner_pid
          /\ pc' = [pc EXCEPT ![t] = "own"]
      BY <1>0, <1>4, ClearFields DEF Clear, Goto
    <2>2. HasOwnStatistics(Pid(t))'
      BY <2>1 DEF HasOwnStatistics, Pid
    <2>3. WriterOwns(Pid(t))'
      BY <1>0, <2>1 DEF RInv, WriterOwns, MovesOnly, ThreadsIn, Pid
    <2>4. QED
      BY <2>2, <2>3 DEF RInv, OwnerHasOwn, NewOwnerHasOwn
  <1>5. CASE Own(t)
    <2>1. /\ mem'[Pid(t)].log = mem[Pid(t)].log
          /\ mem'[Pid(t)].live_table = mem[Pid(t)].live_table
          /\ mem'[Pid(t)].owner_pid = Pid(t)
          /\ pc[t] = "own" /\ pc' = [pc EXCEPT ![t] = "open"]
      BY <1>0, <1>5, StoreOwner DEF Own, Goto
    <2>2. HasOwnStatistics(Pid(t))
      BY <2>1 DEF RInv, NewOwnerHasOwn, ThreadsIn
    <2>3. HasOwnStatistics(Pid(t))'
      BY <2>1, <2>2 DEF HasOwnStatistics, Pid
    <2>4. WriterOwns(Pid(t))'
      BY <1>0, <2>1 DEF RInv, WriterOwns, MovesOnly, ThreadsIn, Pid
    <2>5. QED
      BY <2>3, <2>4 DEF RInv, OwnerHasOwn, NewOwnerHasOwn
  <1>6. CASE OpenLog(t)
    <2>1. CASE UNCHANGED mem
      BY <1>0, <1>6, <2>1, RowsKept DEF OpenLog, Goto
    <2>2. CASE Store(t, "log", Pid(t))
      <3>1. /\ mem'[Pid(t)].log = Pid(t)
            /\ mem'[Pid(t)].live_table = mem[Pid(t)].live_table
            /\ mem'[Pid(t)].owner_pid = mem[Pid(t)].owner_pid
            /\ pc' = [pc EXCEPT ![t] = "publish"]
        BY <1>0, <1>6, <2>2, StoreLog DEF OpenLog, Goto
      <3>2. HasOwnStatistics(Pid(t)) => HasOwnStatistics(Pid(t))'
        BY <3>1 DEF HasOwnStatistics, Pid
      <3>3. OwnerHasOwn(Pid(t))'
        BY <3>1, <3>2 DEF RInv, OwnerHasOwn, Pid
      <3>4. NewOwnerHasOwn(Pid(t))'
        BY <1>0, <3>1, <3>2 DEF RInv, NewOwnerHasOwn, MovesOnly, ThreadsIn, Pid
      <3>5. WriterOwns(Pid(t))'
        BY <1>0, <3>1 DEF RInv, WriterOwns, MovesOnly, ThreadsIn, Pid
      <3>6. QED
        BY <3>3, <3>4, <3>5 DEF RInv
    <2>3. QED
      BY <1>6, <2>1, <2>2 DEF OpenLog
  <1>7. CASE Publish(t)
    BY <1>0, <1>7, RowsKept, StoreReady DEF Publish, Goto
  <1>8. CASE UnlockInit(t)
    BY <1>0, <1>8, RowsKept, StoreInitLock DEF UnlockInit, Goto
  <1>9. QED
    BY <1>1, <1>2, <1>3, <1>4, <1>5, <1>6, <1>7, <1>8 DEF Prepare

\* The recording: what is loaded for a row is the owner's.
LEMMA RowsRecorded ==
  ASSUME TInv, NEW t \in Threads, RInv(Pid(t)), Record(t)
  PROVE  RInv(Pid(t))'
  <1>0. /\ mem \in [Processes -> Memories] /\ Pid(t) \in Processes /\ MovesOnly(t)
        /\ pc \in [Threads -> Places] /\ call \in [Threads -> CallRecords]
    BY ThreadType, StepAlone DEF TInv, Typed
  <1>1. CASE LockShard(t)
    BY <1>0, <1>1, RowsKept, StoreOther DEF LockShard, Goto
  <1>2. CASE Update(t)
    <2>1. /\ call[t].kind \in {"malloc", "free"} /\ call[t].block \in Blocks
          /\ call[t].kind # "free" => call[t].block[1] = Pid(t)
      BY <1>2 DEF Update, TInv, CallsFit, CallFits
    <2>2. /\ mem'[Pid(t)].owner_pid = mem[Pid(t)].owner_pid /\ mem'[Pid(t)].log = mem[Pid(t)].log
          /\ mem'[Pid(t)].live_table \subseteq mem[Pid(t)].live_table
               \cup (IF call[t].kind = "free" THEN {} ELSE {call[t].block})
          /\ pc' = [pc EXCEPT ![t] = pc'[t]] /\ pc'[t] \in {"lock", "return"}
      BY <1>0, <1>2, <2>1, UpdateFields DEF Update, Goto
    <2>3. HasOwnStatistics(Pid(t)) => HasOwnStatistics(Pid(t))'
      BY <2>1, <2>2 DEF HasOwnStatistics, Pid
    <2>4. OwnerHasOwn(Pid(t))'
      BY <2>2, <2>3 DEF RInv, OwnerHasOwn, Pid
    <2>5. NewOwnerHasOwn(Pid(t))'
      BY <1>0, <2>2, <2>3 DEF RInv, NewOwnerHasOwn, MovesOnly, ThreadsIn, Pid
    <2>6. WriterOwns(Pid(t))'
      BY <1>0, <2>2 DEF RInv, WriterOwns, MovesOnly, ThreadsIn, Pid
    <2>7. QED
      BY <2>4, <2>5, <2>6 DEF RInv
  <1>3. CASE TakeLock(t)
    <2>1. CASE Memory(t).owner_pid # Pid(t) \/ Memory(t).log = None
      BY <1>0, <1>3, <2>1, RowsKept DEF TakeLock, Afterwards, Goto
    <2>2. CASE Memory(t).owner_pid = Pid(t) /\ Memory(t).log # None
      <3>1. /\ mem'[Pid(t)].owner_pid = Pid(t) /\ mem[Pid(t)].owner_pid = Pid(t)
            /\ mem'[Pid(t)].log = mem[Pid(t)].log
            /\ mem'[Pid(t)].live_table = mem[Pid(t)].live_table
            /\ pc' = [pc EXCEPT ![t] = "load"]
        BY <1>0, <1>3, <2>2, StoreOther DEF TakeLock, Goto, Memory
      <3>2. HasOwnStatistics(Pid(t))'
        BY <3>1 DEF RInv, OwnerHasOwn, HasOwnStatistics, Pid
      <3>3. WriterOwns(Pid(t))'
        BY <1>0, <3>1 DEF RInv, WriterOwns, MovesOnly, ThreadsIn, Pid
      <3>4. QED
        BY <3>2, <3>3 DEF RInv, OwnerHasOwn, NewOwnerHasOwn
    <2>3. QED
      BY <2>1, <2>2
  <1>4. CASE Load(t)
    <2>1. /\ mem' = mem /\ pc' = [pc EXCEPT ![t] = "write"] /\ pc[t] = "load"
          /\ call'[t].live = { b[1] : b \in mem[Pid(t)].live_table }
      BY <1>0, <1>4 DEF Load, Goto, Memory, CallRecords
    <2>2. mem[Pid(t)].owner_pid = Pid(t) /\ HasOwnStatistics(Pid(t))
      BY <2>1 DEF RInv, WriterOwns, OwnerHasOwn, ThreadsIn
    <2>3. call'[t].live \subseteq {Pid(t)}
      BY <2>1, <2>2 DEF HasOwnStatistics
    <2>4. HasOwnStatistics(Pid(t))'
      BY <2>1, <2>2 DEF HasOwnStatistics, Pid
    <2>5. WriterOwns(Pid(t))'
      BY <1>0, <2>1, <2>2, <2>3 DEF RInv, WriterOwns, MovesOnly, ThreadsIn, Pid
    <2>6. QED
      BY <2>4, <2>5 DEF RInv, OwnerHasOwn, NewOwnerHasOwn
  <1>5. CASE Write(t)
    BY <1>0, <1>5, RowsKept, StoreOther DEF Write, Afterwards, Goto
  <1>6. QED
    BY <1>1, <1>2, <1>3, <1>4, <1>5 DEF Record

\* The rest of a call and of the program.
LEMMA RowsElsewhere ==
  ASSUME TInv, NEW t \in Threads, RInv(Pid(t)),
         Construct(t) \/ Return(t) \/ Close(t) \/ Malloc(t) \/ Free(t) \/ Ask(t) \/ StartThread(t)
  PROVE  RInv(Pid(t))'
  <1>0. /\ mem \in [Processes -> Memories] /\ Pid(t) \in Processes /\ MovesOnly(t)
        /\ pc \in [Threads -> Places]
    BY ThreadType, StepAlone DEF TInv, Typed
  <1>1. CASE Construct(t) \/ Return(t) \/ Malloc(t) \/ Free(t) \/ Ask(t) \/ StartThread(t)
    BY <1>0, <1>1, RowsKept DEF Construct, Return, Malloc, Free, Ask, StartThread, Call, Goto
  <1>2. CASE Close(t)
    <2>1. /\ mem'[Pid(t)].log = None
          /\ mem'[Pid(t)].live_table = mem[Pid(t)].live_table
          /\ mem'[Pid(t)].owner_pid = mem[Pid(t)].owner_pid
          /\ pc' = [pc EXCEPT ![t] = "ending"]
      BY <1>0, <1>2, StoreLog DEF Close, Goto
    <2>2. HasOwnStatistics(Pid(t)) => HasOwnStatistics(Pid(t))'
      BY <2>1 DEF HasOwnStatistics, Pid
    <2>3. OwnerHasOwn(Pid(t))'
      BY <2>1, <2>2 DEF RInv, OwnerHasOwn, Pid
    <2>4. NewOwnerHasOwn(Pid(t))'
      BY <1>0, <2>1, <2>2 DEF RInv, NewOwnerHasOwn, MovesOnly, ThreadsIn, Pid
    <2>5. WriterOwns(Pid(t))'
      BY <1>0, <2>1 DEF RInv, WriterOwns, MovesOnly, ThreadsIn, Pid
    <2>6. QED
      BY <2>3, <2>4, <2>5 DEF RInv
  <1>3. QED
    BY <1>1, <1>2

------------------------------------------------------------------------------
(* The end of a process *)

\* A process that has ended has nothing to keep.
LEMMA VanishKeeps ==
  ASSUME TInv, NEW p \in Processes, AInv(p), Vanish(p),
         UNCHANGED <<initial_process_is_appspawndf, inits>>
  PROVE  RInv(p)' /\ AInv(p)'
  <1>0. Loaded.owner_pid = None /\ None # p
    BY ProcessAssumption DEF Loaded, Processes
  <1>1. /\ mem'[p] = Loaded
        /\ \A u \in ThreadsIn(p) : pc'[u] = "gone" /\ call'[u] = NoCall
    BY VanishFields DEF TInv, ThreadsIn
  <1>2. RInv(p)'
    BY <1>0, <1>1 DEF RInv, OwnerHasOwn, NewOwnerHasOwn, WriterOwns, ThreadsIn, Pid
  <1>3. InitLockHeld(p)' /\ ClearsUnowned(p)' /\ OwnerIsReady(p)' /\ OthersTakeOver(p)'
    BY <1>0, <1>1 DEF InitLockHeld, ClearsUnowned, OwnerIsReady, OthersTakeOver, InitPlaces,
                      ThreadsIn, Pid, NoCall
  <1>4. InitialisedOnce(p)' /\ RunsAlone(p)'
    BY <1>1 DEF AInv, InitialisedOnce, RunsAlone, ThreadsIn, Pid
  <1>5. ServerIsNotMeasured(p)'
    BY <1>1 DEF ServerIsNotMeasured, RecordPlaces, ThreadsIn, Pid
  <1>6. QED
    BY <1>2, <1>3, <1>4, <1>5 DEF AInv

------------------------------------------------------------------------------
(* The initialisation *)

\* Only one thread of a process initialises.
LEMMA InitialiserIsAlone ==
  ASSUME NEW t \in Threads, InitLockHeld(Pid(t)), pc[t] \in InitPlaces
  PROVE  \A u \in ThreadsIn(Pid(t)) : u # t => pc[u] \notin InitPlaces
  BY DEF InitLockHeld, ThreadsIn

\* The lock follows the thread that initialises.
LEMMA LockFollows ==
  ASSUME TInv, NEW t \in Threads, InitLockHeld(Pid(t)),
         Construct(t) \/ Return(t) \/ Close(t) \/ Prepare(t) \/ Record(t)
           \/ Malloc(t) \/ Free(t) \/ Ask(t) \/ StartThread(t)
  PROVE  InitLockHeld(Pid(t))'
  <1>0. /\ mem \in [Processes -> Memories] /\ Pid(t) \in Processes /\ MovesOnly(t)
        /\ pc \in [Threads -> Places] /\ call[t] \in CallRecords /\ None \notin Threads
        /\ t \in ThreadsIn(Pid(t))
    BY ThreadType, StepAlone, ProcessAssumption DEF TInv, Typed, ThreadsIn, Threads, Processes
  <1>1. ASSUME mem'[Pid(t)].process_init_lock = mem[Pid(t)].process_init_lock,
               pc'[t] \in InitPlaces => pc[t] \in InitPlaces
        PROVE  InitLockHeld(Pid(t))'
    BY <1>0, <1>1 DEF InitLockHeld, MovesOnly, ThreadsIn, Pid
  <1>2. CASE Construct(t) \/ Return(t) \/ Malloc(t) \/ Free(t) \/ Ask(t) \/ StartThread(t)
    BY <1>0, <1>1, <1>2
      DEF Construct, Return, Malloc, Free, Ask, StartThread, Call, Goto, InitPlaces
  <1>3. CASE Close(t)
    BY <1>0, <1>1, <1>3, StoreLog DEF Close, Goto, InitPlaces
  <1>4. CASE Gate(t) \/ ReadReady(t) \/ ReadOwner(t) \/ ReadOwned(t)
    BY <1>0, <1>1, <1>4 DEF Gate, ReadReady, ReadOwner, ReadOwned, Allowed, Goto, InitPlaces
  <1>5. CASE TryInitLock(t)
    <2>1. CASE mem[Pid(t)].process_init_lock = None
      <3>1. mem'[Pid(t)].process_init_lock = t /\ pc' = [pc EXCEPT ![t] = "recheck"]
        BY <1>0, <1>5, <2>1, StoreInitLock DEF TryInitLock, Memory, Goto
      <3>2. \A u \in ThreadsIn(Pid(t)) : pc[u] \notin InitPlaces
        BY <1>0, <2>1 DEF InitLockHeld, ThreadsIn
      <3>3. QED
        BY <1>0, <3>1, <3>2 DEF InitLockHeld, MovesOnly, ThreadsIn, Pid
    <2>2. CASE mem[Pid(t)].process_init_lock # None
      BY <1>0, <1>1, <1>5, <2>2 DEF TryInitLock, Memory, Goto, InitPlaces
    <2>3. QED
      BY <2>1, <2>2
  <1>6. CASE Recheck(t)
    BY <1>0, <1>1, <1>6, StoreReady DEF Recheck, Goto, InitPlaces
  <1>7. CASE Clear(t)
    BY <1>0, <1>1, <1>7, ClearFields DEF Clear, Goto, InitPlaces
  <1>8. CASE Own(t)
    BY <1>0, <1>1, <1>8, StoreOwner DEF Own, Goto, InitPlaces
  <1>9. CASE OpenLog(t)
    BY <1>0, <1>1, <1>9, StoreLog DEF OpenLog, Goto, InitPlaces
  <1>10. CASE Publish(t)
    BY <1>0, <1>1, <1>10, StoreReady DEF Publish, Goto, InitPlaces
  <1>11. CASE UnlockInit(t)
    <2>1. pc[t] \in InitPlaces /\ pc' = [pc EXCEPT ![t] = "ready"]
      BY <1>11 DEF UnlockInit, Goto, InitPlaces
    <2>2. \A u \in ThreadsIn(Pid(t)) : pc'[u] \notin InitPlaces
      BY <1>0, <2>1, InitialiserIsAlone DEF ThreadsIn, InitPlaces
    <2>3. QED
      BY <2>2 DEF InitLockHeld, ThreadsIn, Pid
  <1>12. CASE LockShard(t)
    BY <1>0, <1>1, <1>12, StoreOther DEF LockShard, Goto, InitPlaces
  <1>13. CASE Update(t)
    <2>1. call[t].block \in Blocks
      BY <1>13 DEF Update, TInv, CallsFit, CallFits
    <2>2. QED
      BY <1>0, <1>1, <1>13, <2>1, UpdateFields DEF Update, Goto, InitPlaces
  <1>14. CASE TakeLock(t) \/ Write(t)
    BY <1>0, <1>1, <1>14, StoreOther DEF TakeLock, Write, Afterwards, Goto, InitPlaces
  <1>15. CASE Load(t)
    BY <1>0, <1>1, <1>15 DEF Load, Goto, InitPlaces
  <1>16. QED
    BY <1>2, <1>3, <1>4, <1>5, <1>6, <1>7, <1>8, <1>9, <1>10, <1>11, <1>12, <1>13, <1>14, <1>15
      DEF Prepare, Record

\* A step that does not take part in the initialisation.
LEMMA InitialisationKept ==
  ASSUME NEW t \in Threads, Pid(t) \in Processes, AInv(Pid(t)), InitLockHeld(Pid(t))', MovesOnly(t),
         UNCHANGED initial_process_is_appspawndf,
         mem'[Pid(t)].owner_pid = mem[Pid(t)].owner_pid,
         mem'[Pid(t)].statistics_ready = mem[Pid(t)].statistics_ready,
         inits'[Pid(t)] = inits[Pid(t)],
         pc[t] \notin {"none", "gone", "clear", "own", "open", "publish"},
         pc'[t] \notin {"loading", "clear", "own"},
         call'[t].kind \in {"construct", "ask"} =>
           \A u \in ThreadsIn(Pid(t)) : u # t => pc[u] \in {"none", "gone"},
         pc'[t] \in {"owner", "owned", "trylock"} \cup InitPlaces
             /\ call'[t].kind \in {"malloc", "free"} =>
           /\ initial_process_is_appspawndf /\ Pid(t) # initial_process_pid
           /\ mem[Pid(t)].owner_pid \in {initial_process_pid, Pid(t)},
         initial_process_is_appspawndf /\ Pid(t) # initial_process_pid
             /\ mem[Pid(t)].owner_pid = initial_process_pid =>
           pc'[t] \notin {"ready", "owned", "open", "publish", "unlock"} \cup RecordPlaces
  PROVE  AInv(Pid(t))'
  <1>1. t \in ThreadsIn(Pid(t))
    BY DEF ThreadsIn
  <1>2. ClearsUnowned(Pid(t))'
    BY DEF AInv, ClearsUnowned, MovesOnly, ThreadsIn, Pid
  <1>3. OwnerIsReady(Pid(t))'
    BY DEF AInv, OwnerIsReady, MovesOnly, ThreadsIn, Pid
  <1>4. InitialisedOnce(Pid(t))'
    BY <1>1 DEF AInv, InitialisedOnce, MovesOnly, ThreadsIn, Pid
  <1>5. RunsAlone(Pid(t))'
    <2> SUFFICES ASSUME NEW v \in ThreadsIn(Pid(t)),
                        pc'[v] = "loading" \/ call'[v].kind \in {"construct", "ask"},
                        NEW u \in ThreadsIn(Pid(t)), u # v
                 PROVE  pc'[u] \in {"none", "gone"}
      BY DEF RunsAlone, ThreadsIn, Pid
    <2>1. CASE v = t
      BY <2>1 DEF MovesOnly
    <2>2. CASE v # t
      <3>1. pc[t] \in {"none", "gone"}
        BY <1>1, <2>2 DEF AInv, RunsAlone, MovesOnly
      <3>2. QED
        BY <3>1
    <2>3. QED
      BY <2>1, <2>2
  <1>6. OthersTakeOver(Pid(t))'
    BY DEF AInv, OthersTakeOver, MovesOnly, ThreadsIn, Pid
  <1>7. ServerIsNotMeasured(Pid(t))'
    BY DEF AInv, ServerIsNotMeasured, MovesOnly, ThreadsIn, Pid
  <1>8. QED
    BY <1>2, <1>3, <1>4, <1>5, <1>6, <1>7 DEF AInv

\* A process that is not initialised begins to be, for the first time.
LEMMA RecheckKeeps ==
  ASSUME TInv, NEW t \in Threads, AInv(Pid(t)), InitLockHeld(Pid(t))', Recheck(t),
         UNCHANGED initial_process_is_appspawndf
  PROVE  AInv(Pid(t))'
  <1>0. /\ mem \in [Processes -> Memories] /\ Pid(t) \in Processes /\ MovesOnly(t)
        /\ pc \in [Threads -> Places] /\ t \in ThreadsIn(Pid(t)) /\ call' = call
        /\ inits \in [Processes -> Nat] /\ pc[t] = "recheck"
    BY ThreadType, StepAlone DEF TInv, Typed, ThreadsIn, Prepare, Recheck, Elsewhere
  <1>1. \A u \in ThreadsIn(Pid(t)) : u # t => pc[u] \notin InitPlaces
    BY <1>0, InitialiserIsAlone DEF AInv, InitPlaces
  <1>2. CASE Memory(t).owner_pid = Pid(t) /\ Memory(t).statistics_ready
    <2>1. /\ pc' = [pc EXCEPT ![t] = "unlock"] /\ mem' = mem /\ inits' = inits
          /\ mem[Pid(t)].owner_pid = Pid(t)
      BY <1>2 DEF Recheck, Goto, Memory
    <2>2. call[t].kind \in {"construct", "ask"} =>
            \A u \in ThreadsIn(Pid(t)) : u # t => pc[u] \in {"none", "gone"}
      BY <1>0 DEF AInv, RunsAlone
    <2>3. call[t].kind \in {"malloc", "free"} =>
            /\ initial_process_is_appspawndf /\ Pid(t) # initial_process_pid
            /\ mem[Pid(t)].owner_pid \in {initial_process_pid, Pid(t)}
      BY <1>0 DEF AInv, OthersTakeOver, InitPlaces
    <2>4. QED
      BY <1>0, <2>1, <2>2, <2>3, InitialisationKept
  <1>3. CASE ~(Memory(t).owner_pid = Pid(t) /\ Memory(t).statistics_ready)
    <2>1. /\ pc' = [pc EXCEPT ![t] = "clear"] /\ inits' = [inits EXCEPT ![Pid(t)] = @ + 1]
          /\ mem'[Pid(t)].owner_pid = mem[Pid(t)].owner_pid
      BY <1>0, <1>3, StoreReady DEF Recheck, Goto, Memory
    <2>2. mem[Pid(t)].owner_pid # Pid(t)
      <3> SUFFICES ASSUME mem[Pid(t)].owner_pid = Pid(t) PROVE FALSE
        OBVIOUS
      <3>1. \E u \in ThreadsIn(Pid(t)) : pc[u] \in {"open", "publish"}
        BY <1>3 DEF AInv, OwnerIsReady, Memory
      <3>2. QED
        BY <1>0, <1>1, <3>1 DEF InitPlaces
    <2>3. inits[Pid(t)] = 0
      <3>1. ~\E u \in ThreadsIn(Pid(t)) : pc[u] \in {"clear", "own"}
        BY <1>0, <1>1 DEF InitPlaces
      <3>2. QED
        BY <1>0, <2>2, <3>1 DEF AInv, InitialisedOnce
    <2>4. ClearsUnowned(Pid(t))' /\ OwnerIsReady(Pid(t))'
      BY <2>1, <2>2 DEF ClearsUnowned, OwnerIsReady, ThreadsIn, Pid
    <2>5. InitialisedOnce(Pid(t))'
      <3>1. inits'[Pid(t)] = 1 /\ pc'[t] = "clear"
        BY <1>0, <2>1, <2>3
      <3>2. QED
        BY <1>0, <3>1 DEF InitialisedOnce, ThreadsIn, Pid
    <2>6. RunsAlone(Pid(t))'
      BY <1>0, <2>1 DEF AInv, RunsAlone, ThreadsIn, Pid
    <2>7. OthersTakeOver(Pid(t))'
      BY <1>0, <2>1 DEF AInv, OthersTakeOver, ThreadsIn, Pid, InitPlaces
    <2>8. ServerIsNotMeasured(Pid(t))'
      BY <1>0, <2>1 DEF AInv, ServerIsNotMeasured, ThreadsIn, Pid, RecordPlaces
    <2>9. QED
      BY <2>4, <2>5, <2>6, <2>7, <2>8 DEF AInv
  <1>4. QED
    BY <1>2, <1>3

\* The steps of initialize_process: the statistics are taken away from nobody,
\* the owner follows, and then the statistics are ready.
LEMMA InitialiseKeeps ==
  ASSUME TInv, NEW t \in Threads, AInv(Pid(t)), InitLockHeld(Pid(t))',
         Clear(t) \/ Own(t) \/ OpenLog(t) \/ Publish(t),
         UNCHANGED initial_process_is_appspawndf
  PROVE  AInv(Pid(t))'
  <1>0. /\ mem \in [Processes -> Memories] /\ Pid(t) \in Processes /\ MovesOnly(t)
        /\ pc \in [Threads -> Places] /\ t \in ThreadsIn(Pid(t)) /\ call' = call
        /\ inits' = inits /\ pc[t] \in InitPlaces
    BY ThreadType, StepAlone
      DEF TInv, Typed, ThreadsIn, Prepare, Clear, Own, OpenLog, Publish, Elsewhere, InitPlaces
  <1>1. \A u \in ThreadsIn(Pid(t)) : u # t => pc[u] \notin InitPlaces /\ pc'[u] = pc[u]
    BY <1>0, InitialiserIsAlone DEF AInv, MovesOnly
  <1>2. ASSUME NEW label \in {"own", "open", "publish", "unlock"}, pc' = [pc EXCEPT ![t] = label]
        PROVE  RunsAlone(Pid(t))'
    BY <1>0, <1>2 DEF AInv, RunsAlone, ThreadsIn, Pid, InitPlaces
  <1>3. CASE Clear(t)
    <2>1. /\ pc[t] = "clear" /\ pc' = [pc EXCEPT ![t] = "own"]
          /\ mem'[Pid(t)].owner_pid = mem[Pid(t)].owner_pid
      BY <1>0, <1>3, ClearFields DEF Clear, Goto
    <2>2. ClearsUnowned(Pid(t))'
      BY <1>0, <1>1, <2>1 DEF AInv, ClearsUnowned, ThreadsIn, Pid
    <2>3. OwnerIsReady(Pid(t))'
      BY <1>0, <2>1 DEF AInv, ClearsUnowned, OwnerIsReady, Pid
    <2>4. InitialisedOnce(Pid(t))'
      BY <1>0, <2>1 DEF AInv, InitialisedOnce, ThreadsIn, Pid
    <2>5. OthersTakeOver(Pid(t))'
      BY <1>0, <2>1 DEF AInv, OthersTakeOver, ThreadsIn, Pid, InitPlaces
    <2>6. ServerIsNotMeasured(Pid(t))'
      BY <1>0, <2>1 DEF AInv, ServerIsNotMeasured, ThreadsIn, Pid, RecordPlaces
    <2>7. QED
      BY <1>2, <2>1, <2>2, <2>3, <2>4, <2>5, <2>6 DEF AInv
  <1>4. CASE Own(t)
    <2>1. /\ pc[t] = "own" /\ pc' = [pc EXCEPT ![t] = "open"]
          /\ mem'[Pid(t)].owner_pid = Pid(t)
      BY <1>0, <1>4, StoreOwner DEF Own, Goto
    <2>2. ClearsUnowned(Pid(t))'
      BY <1>0, <1>1, <2>1 DEF ClearsUnowned, ThreadsIn, Pid, InitPlaces
    <2>3. OwnerIsReady(Pid(t))'
      BY <1>0, <2>1 DEF OwnerIsReady, ThreadsIn, Pid
    <2>4. InitialisedOnce(Pid(t))'
      BY <1>0, <2>1 DEF AInv, InitialisedOnce, Pid
    <2>5. OthersTakeOver(Pid(t))'
      BY <1>0, <2>1 DEF AInv, OthersTakeOver, ThreadsIn, Pid, InitPlaces
    <2>6. ServerIsNotMeasured(Pid(t))'
      BY <2>1 DEF ServerIsNotMeasured, Pid
    <2>7. QED
      BY <1>2, <2>1, <2>2, <2>3, <2>4, <2>5, <2>6 DEF AInv
  <1>5. CASE OpenLog(t)
    <2>1. /\ pc[t] = "open" /\ pc' = [pc EXCEPT ![t] = "publish"]
          /\ mem'[Pid(t)].owner_pid = mem[Pid(t)].owner_pid
      BY <1>0, <1>5, StoreLog DEF OpenLog, Goto
    <2>2. ClearsUnowned(Pid(t))'
      BY <1>0, <1>1, <2>1 DEF AInv, ClearsUnowned, ThreadsIn, Pid
    <2>3. OwnerIsReady(Pid(t))'
      BY <1>0, <2>1 DEF OwnerIsReady, ThreadsIn, Pid
    <2>4. InitialisedOnce(Pid(t))'
      BY <1>0, <1>1, <2>1 DEF AInv, InitialisedOnce, ThreadsIn, Pid
    <2>5. OthersTakeOver(Pid(t))'
      BY <1>0, <2>1 DEF AInv, OthersTakeOver, ThreadsIn, Pid, InitPlaces
    <2>6. ServerIsNotMeasured(Pid(t))'
      BY <1>0, <2>1 DEF AInv, ServerIsNotMeasured, ThreadsIn, Pid, RecordPlaces
    <2>7. QED
      BY <1>2, <2>1, <2>2, <2>3, <2>4, <2>5, <2>6 DEF AInv
  <1>6. CASE Publish(t)
    <2>1. /\ pc[t] = "publish" /\ pc' = [pc EXCEPT ![t] = "unlock"]
          /\ mem'[Pid(t)].owner_pid = mem[Pid(t)].owner_pid
          /\ mem'[Pid(t)].statistics_ready = TRUE
      BY <1>0, <1>6, StoreReady DEF Publish, Goto
    <2>2. ClearsUnowned(Pid(t))'
      BY <1>0, <1>1, <2>1 DEF AInv, ClearsUnowned, ThreadsIn, Pid
    <2>3. OwnerIsReady(Pid(t))'
      BY <2>1 DEF OwnerIsReady, Pid
    <2>4. InitialisedOnce(Pid(t))'
      BY <1>0, <1>1, <2>1 DEF AInv, InitialisedOnce, ThreadsIn, Pid
    <2>5. OthersTakeOver(Pid(t))'
      BY <1>0, <2>1 DEF AInv, OthersTakeOver, ThreadsIn, Pid, InitPlaces
    <2>6. ServerIsNotMeasured(Pid(t))'
      BY <1>0, <2>1 DEF AInv, ServerIsNotMeasured, ThreadsIn, Pid, RecordPlaces
    <2>7. QED
      BY <1>2, <2>1, <2>2, <2>3, <2>4, <2>5, <2>6 DEF AInv
  <1>7. QED
    BY <1>3, <1>4, <1>5, <1>6

\* The rest of the preparation: only where the fork server's memory is found in
\* a child is it taken over, and only an owner, or a process that is not under
\* appspawndf, goes on to be recorded.
LEMMA PrepareKeeps ==
  ASSUME TInv, NEW t \in Threads, AInv(Pid(t)), Prepare(t),
         UNCHANGED initial_process_is_appspawndf
  PROVE  AInv(Pid(t))'
  <1>0. /\ mem \in [Processes -> Memories] /\ Pid(t) \in Processes /\ MovesOnly(t)
        /\ pc \in [Threads -> Places] /\ t \in ThreadsIn(Pid(t)) /\ call' = call
    BY ThreadType, StepAlone
      DEF TInv, Typed, ThreadsIn, Prepare, Gate, ReadReady, ReadOwner, ReadOwned, TryInitLock, Recheck,
          Clear, Own, OpenLog, Publish, UnlockInit, Elsewhere
  <1>1. InitLockHeld(Pid(t))'
    BY LockFollows DEF AInv
  <1>2. pc[t] \in PreparePlaces
    BY DEF Prepare, Gate, ReadReady, ReadOwner, ReadOwned, TryInitLock, Recheck,
           Clear, Own, OpenLog, Publish, UnlockInit, PreparePlaces, InitPlaces
  <1>3. call[t].kind \in {"construct", "ask"} =>
          \A u \in ThreadsIn(Pid(t)) : u # t => pc[u] \in {"none", "gone"}
    BY <1>0 DEF AInv, RunsAlone
  <1>4. pc[t] \in {"owner", "owned", "trylock"} \cup InitPlaces /\ call[t].kind \in {"malloc", "free"} =>
          /\ initial_process_is_appspawndf /\ Pid(t) # initial_process_pid
          /\ mem[Pid(t)].owner_pid \in {initial_process_pid, Pid(t)}
    BY <1>0 DEF AInv, OthersTakeOver
  <1>5. initial_process_is_appspawndf /\ Pid(t) # initial_process_pid
            /\ mem[Pid(t)].owner_pid = initial_process_pid =>
          pc[t] \notin {"ready", "owned", "open", "publish", "unlock"} \cup RecordPlaces
    BY <1>0 DEF AInv, ServerIsNotMeasured
  <1>6. CASE Gate(t)
    <2>1. /\ mem' = mem /\ inits' = inits /\ pc[t] = "gate"
          /\ pc'[t] \in {"return", "owner", "ready"}
          /\ pc'[t] = "owner" => /\ initial_process_is_appspawndf /\ Pid(t) # initial_process_pid
                                 /\ mem[Pid(t)].owner_pid = initial_process_pid
          /\ pc'[t] = "ready" => ~(/\ initial_process_is_appspawndf
                                   /\ mem[Pid(t)].owner_pid = initial_process_pid)
      BY <1>0, <1>6 DEF Gate, Goto, Memory
    <2>2. QED
      BY <1>0, <1>1, <1>3, <2>1, InitialisationKept DEF InitPlaces, RecordPlaces
  <1>7. CASE ReadReady(t) \/ ReadOwned(t)
    <2>1. /\ mem' = mem /\ inits' = inits /\ pc[t] \in {"ready", "owned"}
          /\ pc'[t] \in {"return", "lock", "record", "trylock"}
          /\ pc'[t] = "trylock" => pc[t] = "owned"
      BY <1>0, <1>7 DEF ReadReady, ReadOwned, Goto, Allowed
    <2>2. QED
      BY <1>0, <1>1, <1>3, <1>4, <1>5, <2>1, InitialisationKept DEF InitPlaces, RecordPlaces
  <1>8. CASE ReadOwner(t)
    <2>1. /\ mem' = mem /\ inits' = inits /\ pc[t] = "owner"
          /\ pc'[t] \in {"owned", "trylock"}
          /\ pc'[t] = "owned" => mem[Pid(t)].owner_pid = Pid(t)
      BY <1>0, <1>8 DEF ReadOwner, Goto, Memory
    <2>2. QED
      BY <1>0, <1>1, <1>3, <1>4, <2>1, InitialisationKept DEF InitPlaces, RecordPlaces
  <1>9. CASE TryInitLock(t)
    <2>1. /\ mem'[Pid(t)].owner_pid = mem[Pid(t)].owner_pid
          /\ mem'[Pid(t)].statistics_ready = mem[Pid(t)].statistics_ready
          /\ inits' = inits /\ pc[t] = "trylock" /\ pc'[t] \in {"recheck", "return"}
      BY <1>0, <1>9, StoreInitLock DEF TryInitLock, Goto
    <2>2. QED
      BY <1>0, <1>1, <1>3, <1>4, <2>1, InitialisationKept DEF InitPlaces, RecordPlaces
  <1>10. CASE UnlockInit(t)
    <2>1. /\ mem'[Pid(t)].owner_pid = mem[Pid(t)].owner_pid
          /\ mem'[Pid(t)].statistics_ready = mem[Pid(t)].statistics_ready
          /\ inits' = inits /\ pc[t] = "unlock" /\ pc'[t] = "ready"
      BY <1>0, <1>10, ProcessAssumption, StoreInitLock DEF UnlockInit, Goto
    <2>2. QED
      BY <1>0, <1>1, <1>3, <1>5, <2>1, InitialisationKept DEF InitPlaces
  <1>11. QED
    BY <1>1, <1>6, <1>7, <1>8, <1>9, <1>10, RecheckKeeps, InitialiseKeeps DEF Prepare

\* Recording, by an owner or outside appspawndf.
LEMMA RecordKeeps ==
  ASSUME TInv, NEW t \in Threads, AInv(Pid(t)), Record(t),
         UNCHANGED initial_process_is_appspawndf
  PROVE  AInv(Pid(t))'
  <1>0. /\ mem \in [Processes -> Memories] /\ Pid(t) \in Processes /\ MovesOnly(t)
        /\ pc \in [Threads -> Places] /\ t \in ThreadsIn(Pid(t)) /\ call \in [Threads -> CallRecords]
    BY ThreadType, StepAlone DEF TInv, Typed, ThreadsIn
  <1>1. InitLockHeld(Pid(t))'
    BY LockFollows DEF AInv
  <1>2. /\ pc[t] \in RecordPlaces /\ inits' = inits
        /\ pc'[t] \in RecordPlaces \cup {"return", "close"}
    BY <1>0 DEF Record, LockShard, Update, TakeLock, Load, Write, Afterwards, Goto, RecordPlaces
  <1>3. call'[t].kind = call[t].kind
    BY <1>0 DEF Record, LockShard, Update, TakeLock, Load, Write, Elsewhere, CallRecords
  <1>4. /\ mem'[Pid(t)].owner_pid = mem[Pid(t)].owner_pid
        /\ mem'[Pid(t)].statistics_ready = mem[Pid(t)].statistics_ready
    <2>1. CASE LockShard(t) \/ TakeLock(t) \/ Write(t)
      BY <1>0, <2>1, StoreOther DEF LockShard, TakeLock, Write
    <2>2. CASE Update(t)
      <3>1. call[t].block \in Blocks
        BY <2>2 DEF Update, TInv, CallsFit, CallFits
      <3>2. QED
        BY <1>0, <2>2, <3>1, UpdateFields
    <2>3. CASE Load(t)
      BY <2>3 DEF Load
    <2>4. QED
      BY <2>1, <2>2, <2>3 DEF Record
  <1>5. initial_process_is_appspawndf /\ Pid(t) # initial_process_pid =>
          mem[Pid(t)].owner_pid # initial_process_pid
    BY <1>0, <1>2 DEF AInv, ServerIsNotMeasured
  <1>6. call[t].kind \in {"construct", "ask"} =>
          \A u \in ThreadsIn(Pid(t)) : u # t => pc[u] \in {"none", "gone"}
    BY <1>0 DEF AInv, RunsAlone
  <1>7. QED
    BY <1>0, <1>1, <1>2, <1>3, <1>4, <1>5, <1>6, InitialisationKept DEF InitPlaces, RecordPlaces

\* The beginning and the end of a call, and a new thread.
LEMMA CallKeeps ==
  ASSUME TInv, NEW t \in Threads, AInv(Pid(t)),
         Construct(t) \/ Return(t) \/ Close(t) \/ Malloc(t) \/ Free(t) \/ Ask(t),
         UNCHANGED initial_process_is_appspawndf
  PROVE  AInv(Pid(t))'
  <1>0. /\ mem \in [Processes -> Memories] /\ Pid(t) \in Processes /\ MovesOnly(t)
        /\ pc \in [Threads -> Places] /\ t \in ThreadsIn(Pid(t)) /\ call \in [Threads -> CallRecords]
    BY ThreadType, StepAlone DEF TInv, Typed, ThreadsIn
  <1>1. InitLockHeld(Pid(t))'
    BY LockFollows DEF AInv
  <1>2. CASE Construct(t)
    <2>1. /\ mem' = mem /\ inits' = inits /\ pc[t] = "loading" /\ pc'[t] = "owner"
          /\ call'[t].kind = "construct"
      BY <1>0, <1>2 DEF Construct, Goto, CallRecords
    <2>2. \A u \in ThreadsIn(Pid(t)) : u # t => pc[u] \in {"none", "gone"}
      BY <1>0, <2>1 DEF AInv, RunsAlone
    <2>3. QED
      BY <1>0, <1>1, <2>1, <2>2, InitialisationKept DEF InitPlaces, RecordPlaces
  <1>3. CASE Ask(t)
    <2>1. /\ mem' = mem /\ inits' = inits /\ pc[t] = "idle" /\ pc'[t] = "owner"
          /\ call'[t].kind = "ask"
      BY <1>0, <1>3 DEF Ask, Call, Goto
    <2>2. \A u \in ThreadsIn(Pid(t)) : u # t => pc[u] \in {"none", "gone"}
      BY <1>3 DEF Ask, ThreadsOf, ThreadsIn
    <2>3. QED
      BY <1>0, <1>1, <2>1, <2>2, InitialisationKept DEF InitPlaces, RecordPlaces
  <1>4. CASE Malloc(t) \/ Free(t)
    <2>1. /\ mem' = mem /\ inits' = inits /\ pc[t] = "idle" /\ pc'[t] = "gate"
          /\ call'[t].kind \in {"malloc", "free"}
      BY <1>0, <1>4 DEF Malloc, Free, Call, Goto
    <2>2. QED
      BY <1>0, <1>1, <2>1, InitialisationKept DEF InitPlaces, RecordPlaces
  <1>5. CASE Return(t)
    <2>1. /\ mem' = mem /\ inits' = inits /\ pc[t] = "return" /\ pc'[t] = "idle"
          /\ call'[t].kind = "none"
      BY <1>0, <1>5 DEF Return, Goto, NoCall
    <2>2. QED
      BY <1>0, <1>1, <2>1, InitialisationKept DEF InitPlaces, RecordPlaces
  <1>6. CASE Close(t)
    <2>1. /\ mem'[Pid(t)].owner_pid = mem[Pid(t)].owner_pid
          /\ mem'[Pid(t)].statistics_ready = mem[Pid(t)].statistics_ready
          /\ inits' = inits /\ pc[t] = "close" /\ pc'[t] = "ending" /\ call' = call
      BY <1>0, <1>6, StoreLog DEF Close, Goto
    <2>2. call[t].kind \in {"construct", "ask"} =>
            \A u \in ThreadsIn(Pid(t)) : u # t => pc[u] \in {"none", "gone"}
      BY <1>0 DEF AInv, RunsAlone
    <2>3. QED
      BY <1>0, <1>1, <2>1, <2>2, InitialisationKept DEF InitPlaces, RecordPlaces
  <1>7. QED
    BY <1>2, <1>3, <1>4, <1>5, <1>6

\* A thread is started by one that runs outside the constructor and a request.
LEMMA StartKeeps ==
  ASSUME TInv, NEW t \in Threads, AInv(Pid(t)), StartThread(t),
         UNCHANGED initial_process_is_appspawndf
  PROVE  AInv(Pid(t))'
  <1>0. /\ Pid(t) \in Processes /\ MovesOnly(t) /\ pc \in [Threads -> Places] /\ t \in ThreadsIn(Pid(t))
        /\ mem' = mem /\ inits' = inits /\ call' = call /\ pc[t] = "none" /\ pc'[t] = "idle"
    BY ThreadType, StepAlone DEF TInv, Typed, ThreadsIn, StartThread, Goto
  <1>1. PICK v \in ThreadsIn(Pid(t)) : pc[v] = "idle"
    BY DEF StartThread, ThreadsOf, ThreadsIn
  <1>2. call[t].kind = "none" /\ call[v].kind = "none"
    BY <1>0, <1>1 DEF TInv, CallsFit, CallFits, ThreadsIn
  <1>3. InitLockHeld(Pid(t))'
    BY LockFollows DEF AInv
  <1>4. RunsAlone(Pid(t))'
    <2>1. ASSUME NEW u \in ThreadsIn(Pid(t)), pc[u] = "loading" \/ call[u].kind \in {"construct", "ask"}
          PROVE  FALSE
      <3>1. u # v
        BY <1>1, <1>2, <2>1
      <3>2. pc[v] \in {"none", "gone"}
        BY <2>1, <3>1 DEF AInv, RunsAlone
      <3>3. QED
        BY <1>1, <3>2
    <2>2. \A u \in ThreadsIn(Pid(t)) :
            ~(pc'[u] = "loading" \/ call'[u].kind \in {"construct", "ask"})
      BY <1>0, <2>1 DEF MovesOnly
    <2>3. QED
      BY <2>2 DEF RunsAlone, ThreadsIn, Pid
  <1>5. ClearsUnowned(Pid(t))' /\ OwnerIsReady(Pid(t))'
    BY <1>0 DEF AInv, ClearsUnowned, OwnerIsReady, MovesOnly, ThreadsIn, Pid
  <1>6. InitialisedOnce(Pid(t))'
    BY <1>0 DEF AInv, InitialisedOnce, MovesOnly, ThreadsIn, Pid
  <1>7. OthersTakeOver(Pid(t))'
    BY <1>0 DEF AInv, OthersTakeOver, MovesOnly, ThreadsIn, Pid, InitPlaces
  <1>8. ServerIsNotMeasured(Pid(t))'
    BY <1>0 DEF AInv, ServerIsNotMeasured, MovesOnly, ThreadsIn, Pid, RecordPlaces
  <1>9. QED
    BY <1>3, <1>4, <1>5, <1>6, <1>7, <1>8 DEF AInv

\* An owner that exits writes its last row; another process just ends.
LEMMA ExitKeeps ==
  ASSUME TInv, NEW t \in Threads, RInv(Pid(t)), AInv(Pid(t)), Exit(t)
  PROVE  RInv(Pid(t))' /\ AInv(Pid(t))'
  <1>0. /\ Pid(t) \in Processes /\ pc \in [Threads -> Places] /\ t \in ThreadsIn(Pid(t))
        /\ call \in [Threads -> CallRecords] /\ inits' = inits /\ pc[t] = "idle"
        /\ UNCHANGED initial_process_is_appspawndf
    BY ThreadType DEF TInv, Typed, ThreadsIn, Exit
  <1>1. CASE Memory(t).owner_pid # Pid(t)
    BY <1>0, <1>1, VanishKeeps DEF Exit
  <1>2. CASE Memory(t).owner_pid = Pid(t)
    <2>1. /\ pc' = [pc EXCEPT ![t] = "lock"] /\ call' = [call EXCEPT ![t].kind = "exit"]
          /\ mem' = mem /\ mem[Pid(t)].owner_pid = Pid(t)
      BY <1>2 DEF Exit, Goto, Memory
    <2>2. MovesOnly(t) /\ pc'[t] = "lock" /\ call'[t].kind = "exit"
      BY <1>0, <2>1 DEF MovesOnly, ThreadsIn, CallRecords
    <2>3. InitLockHeld(Pid(t))'
      BY <2>1, <2>2 DEF AInv, InitLockHeld, MovesOnly, ThreadsIn, Pid, InitPlaces
    <2>4. AInv(Pid(t))'
      BY <1>0, <2>1, <2>2, <2>3, InitialisationKept DEF InitPlaces, RecordPlaces
    <2>5. QED
      BY <1>0, <2>1, <2>2, <2>4, RowsKept
  <1>3. QED
    BY <1>1, <1>2

------------------------------------------------------------------------------
(* Fork and the steps of the system *)

\* A thread acts in a process that was forked.
LEMMA ActorIsBorn ==
  ASSUME UnbornIsIdle, NEW t \in Threads,
         Proceed(t) \/ Malloc(t) \/ Free(t) \/ Ask(t) \/ StartThread(t) \/ Exit(t)
  PROVE  Born(Pid(t))
  <1>1. PICK u \in ThreadsIn(Pid(t)) : pc[u] # "none"
    <2>1. t \in ThreadsIn(Pid(t))
      BY DEF ThreadsIn
    <2>2. CASE StartThread(t)
      BY <2>2 DEF StartThread, ThreadsOf, ThreadsIn
    <2>3. CASE ~StartThread(t)
      BY <2>1, <2>3 DEF Proceed, Construct, Prepare, Gate, ReadReady, ReadOwner, ReadOwned, TryInitLock,
        Recheck, Clear, Own, OpenLog, Publish, UnlockInit, Record, LockShard, Update, TakeLock, Load,
        Write, Return, Close, End, Malloc, Free, Ask, Call, Exit
    <2>4. QED
      BY <2>2, <2>3
  <1>2. QED
    BY <1>1, ThreadType DEF UnbornIsIdle

\* A step gives a process to nobody but itself.
LEMMA OwnerStep ==
  ASSUME TInv, NEW t \in Threads,
         Proceed(t) \/ Malloc(t) \/ Free(t) \/ Ask(t) \/ StartThread(t) \/ Exit(t)
  PROVE  mem'[Pid(t)].owner_pid \in {mem[Pid(t)].owner_pid, Pid(t), None}
  <1>0. mem \in [Processes -> Memories] /\ Pid(t) \in Processes /\ Typed /\ call[t] \in CallRecords
    BY ThreadType DEF TInv, Typed
  <1>1. CASE UNCHANGED mem
    BY <1>1
  <1>2. CASE Vanish(Pid(t))
    BY <1>0, <1>2, VanishFields DEF Loaded
  <1>3. CASE TryInitLock(t) \/ UnlockInit(t)
    BY <1>0, <1>1, <1>3, StoreInitLock DEF TryInitLock, UnlockInit
  <1>4. CASE Recheck(t) \/ Publish(t)
    BY <1>0, <1>1, <1>4, StoreReady DEF Recheck, Publish
  <1>5. CASE Clear(t)
    BY <1>0, <1>5, ClearFields
  <1>6. CASE Own(t)
    BY <1>0, <1>6, StoreOwner DEF Own
  <1>7. CASE OpenLog(t) \/ Close(t)
    BY <1>0, <1>1, <1>7, StoreLog DEF OpenLog, Close
  <1>8. CASE LockShard(t) \/ TakeLock(t) \/ Write(t)
    BY <1>0, <1>1, <1>8, StoreOther DEF LockShard, TakeLock, Write
  <1>9. CASE Update(t)
    <2>1. call[t].block \in Blocks
      BY <1>9 DEF Update, TInv, CallsFit, CallFits
    <2>2. QED
      BY <1>0, <1>9, <2>1, UpdateFields
  <1>10. QED
    BY <1>1, <1>2, <1>3, <1>4, <1>5, <1>6, <1>7, <1>8, <1>9
      DEF Proceed, Construct, Prepare, Gate, ReadReady, ReadOwner, ReadOwned, Record, Load, Return, End,
          Malloc, Free, Ask, Call, StartThread, Exit

\* A step inside a process.
LEMMA ProcessStepKeeps ==
  ASSUME IInv, NEW t \in Threads,
         Proceed(t) \/ Malloc(t) \/ Free(t) \/ Ask(t) \/ StartThread(t) \/ Exit(t)
  PROVE  IInv'
  <1>0. TInv /\ Pid(t) \in Processes /\ RInv(Pid(t)) /\ AInv(Pid(t)) /\ UnbornIsIdle /\ OwnerIsBorn
    BY ThreadType DEF IInv
  <1>1. TInv'
    BY <1>0, ProceedTypes, EdgeTypes, ProgramTypes DEF Proceed, Program
  <1>2. /\ UNCHANGED <<initial_process_is_appspawndf, parent>>
        /\ \A q \in Processes : q # Pid(t) => Untouched(q)
    BY <1>0, StepElsewhere
  <1>3. RInv(Pid(t))' /\ AInv(Pid(t))'
    <2>1. CASE Prepare(t)
      BY <1>0, <1>2, <2>1, RowsPrepared, PrepareKeeps
    <2>2. CASE Record(t)
      BY <1>0, <1>2, <2>2, RowsRecorded, RecordKeeps
    <2>3. CASE Construct(t) \/ Return(t) \/ Close(t) \/ Malloc(t) \/ Free(t) \/ Ask(t)
      BY <1>0, <1>2, <2>3, RowsElsewhere, CallKeeps
    <2>4. CASE StartThread(t)
      BY <1>0, <1>2, <2>4, RowsElsewhere, StartKeeps
    <2>5. CASE Exit(t)
      BY <1>0, <2>5, ExitKeeps
    <2>6. CASE End(t)
      BY <1>0, <2>6, VanishKeeps DEF End
    <2>7. QED
      BY <2>1, <2>2, <2>3, <2>4, <2>5, <2>6 DEF Proceed
  <1>4. ASSUME NEW q \in Processes
        PROVE  RInv(q)' /\ AInv(q)'
    <2>1. CASE q = Pid(t)
      BY <1>3, <2>1 DEF Pid
    <2>2. CASE q # Pid(t)
      BY <1>2, <2>2, UntouchedKeeps DEF IInv
    <2>3. QED
      BY <2>1, <2>2
  <1>5. Born(Pid(t))
    BY <1>0, ActorIsBorn
  <1>6. UnbornIsIdle'
    BY <1>0, <1>2, <1>5 DEF UnbornIsIdle, Born, Untouched, ThreadsIn, Pid
  <1>7. OwnerIsBorn'
    <2> SUFFICES ASSUME NEW q \in Processes, NEW r \in Processes, mem'[q].owner_pid = r
                 PROVE  Born(r)
      BY <1>2 DEF OwnerIsBorn, Born
    <2>1. CASE q # Pid(t)
      BY <1>0, <1>2, <2>1 DEF OwnerIsBorn, Untouched
    <2>2. CASE q = Pid(t)
      <3>1. r # None
        BY ProcessAssumption DEF Processes
      <3>2. r \in {mem[q].owner_pid, q}
        BY <1>0, <2>2, <3>1, OwnerStep
      <3>3. QED
        BY <1>0, <1>5, <2>2, <3>2 DEF OwnerIsBorn
    <2>3. QED
      BY <2>1, <2>2
  <1>8. QED
    BY <1>1, <1>4, <1>6, <1>7 DEF IInv

\* A child starts with its parent's memory, which it does not own, and one
\* thread outside of any call.
LEMMA ForkKeeps ==
  ASSUME IInv, NEW t \in Threads, NEW child \in Processes, Fork(t, child)
  PROVE  IInv'
  <1>0. /\ TInv /\ UnbornIsIdle /\ OwnerIsBorn /\ Pid(t) \in Processes
        /\ mem \in [Processes -> Memories] /\ inits \in [Processes -> Nat]
        /\ pc \in [Threads -> Places] /\ parent \in [Processes -> Processes \cup {None}]
        /\ <<child, 1>> \in ThreadsIn(child) /\ <<child, 1>> \in Threads
    BY ThreadType DEF IInv, TInv, Typed, ThreadsIn
  <1>1. /\ parent' = [parent EXCEPT ![child] = Pid(t)]
        /\ mem' = [mem EXCEPT ![child] = mem[Pid(t)]]
        /\ pc' = [pc EXCEPT ![<<child, 1>>] = "idle"]
        /\ call' = call /\ inits' = inits /\ UNCHANGED initial_process_is_appspawndf
        /\ ~Born(child) /\ child # initial_process_pid
    BY DEF Fork, Goto, Born
  <1>2. TInv'
    BY <1>0, ProgramTypes DEF Program
  <1>3. /\ inits[child] = 0 /\ \A u \in ThreadsIn(child) : pc[u] = "none"
        /\ mem[Pid(t)].owner_pid # child
    BY <1>0, <1>1 DEF UnbornIsIdle, OwnerIsBorn
  <1>4. ASSUME NEW u \in ThreadsIn(child)
        PROVE  /\ pc'[u] = IF u = <<child, 1>> THEN "idle" ELSE "none"
               /\ call'[u].kind = "none"
    <2>1. u \in Threads /\ pc[u] = "none"
      BY <1>3 DEF ThreadsIn
    <2>2. call[u].kind = "none"
      BY <1>0, <2>1 DEF TInv, CallsFit, CallFits
    <2>3. QED
      BY <1>0, <1>1, <2>1, <2>2
  <1>5. mem'[child].owner_pid # child /\ inits'[child] = 0
    BY <1>0, <1>1, <1>3
  <1>6. RInv(child)'
    <2>1. \A u \in ThreadsIn(child) : pc'[u] \notin {"own", "load", "write"}
      BY <1>4
    <2>2. QED
      BY <1>5, <2>1 DEF RInv, OwnerHasOwn, NewOwnerHasOwn, WriterOwns, ThreadsIn, Pid
  <1>7. AInv(child)'
    <2>1. \A u \in ThreadsIn(child) :
            pc'[u] \in {"none", "idle"} /\ call'[u].kind = "none"
      BY <1>4
    <2>2. InitLockHeld(child)' /\ ClearsUnowned(child)' /\ OwnerIsReady(child)'
      BY <1>5, <2>1 DEF InitLockHeld, ClearsUnowned, OwnerIsReady, InitPlaces, ThreadsIn, Pid
    <2>3. InitialisedOnce(child)' /\ RunsAlone(child)'
      BY <1>5, <2>1 DEF InitialisedOnce, RunsAlone, ThreadsIn, Pid
    <2>4. OthersTakeOver(child)' /\ ServerIsNotMeasured(child)'
      BY <2>1 DEF OthersTakeOver, ServerIsNotMeasured, RecordPlaces, ThreadsIn, Pid
    <2>5. QED
      BY <2>2, <2>3, <2>4 DEF AInv
  <1>8. ASSUME NEW q \in Processes, q # child
        PROVE  Untouched(q)
    BY <1>0, <1>1, <1>8 DEF Untouched, ThreadsIn, Pid
  <1>9. ASSUME NEW q \in Processes
        PROVE  RInv(q)' /\ AInv(q)'
    BY <1>1, <1>6, <1>7, <1>8, UntouchedKeeps DEF IInv
  <1>10. \A q \in Processes : Born(q) => Born(q)'
    BY <1>0, <1>1 DEF Born
  <1>11. Born(child)'
    <2>1. parent'[child] = Pid(t) /\ Pid(t) # None
      BY <1>0, <1>1, ProcessAssumption DEF Processes
    <2>2. QED
      BY <2>1 DEF Born
  <1>12. UnbornIsIdle'
    BY <1>0, <1>8, <1>10, <1>11 DEF UnbornIsIdle, Untouched, ThreadsIn, Pid
  <1>13. OwnerIsBorn'
    <2> SUFFICES ASSUME NEW q \in Processes, NEW r \in Processes, mem'[q].owner_pid = r
                 PROVE  Born(r)'
      BY DEF OwnerIsBorn
    <2>1. PICK s \in Processes : mem[s].owner_pid = r
      BY <1>0, <1>1
    <2>2. QED
      BY <1>0, <1>10, <2>1 DEF OwnerIsBorn
  <1>14. QED
    BY <1>2, <1>9, <1>12, <1>13 DEF IInv

\* The library is loaded into a process of one thread, whose memory is nobody's.
LEMMA InitKeeps == Init => IInv
  <1> SUFFICES ASSUME Init PROVE IInv
    OBVIOUS
  <1>0. /\ Loaded \in Memories /\ NoCall \in CallRecords /\ NoCall.kind = "none"
        /\ Loaded.owner_pid = None /\ Loaded.live_table = {}
    BY DEF Loaded, Memories, NoCall, CallRecords, Kinds
  <1>1. \A p \in Processes : mem[p] = Loaded /\ inits[p] = 0 /\ parent[p] = None /\ p # None
    BY ProcessAssumption DEF Init, Processes
  <1>2. /\ \A t \in Threads : call[t] = NoCall
        /\ \A t \in Threads : pc[t] = IF t = <<initial_process_pid, 1>> THEN "loading" ELSE "none"
    BY DEF Init
  <1>3. TInv
    <2>1. <<initial_process_pid, 0>> \in Blocks
      BY ThreadType, ProcessAssumption DEF Blocks
    <2>2. Typed
      <3>1. heap \in [Processes -> SUBSET Blocks]
        BY <2>1 DEF Init
      <3>2. mem \in [Processes -> Memories] /\ call \in [Threads -> CallRecords]
        BY <1>0 DEF Init
      <3>3. pc \in [Threads -> Places]
        BY DEF Init, Places
      <3>4. calls \in 0 .. MaxCalls /\ inits \in [Processes -> Nat]
        BY ProcessAssumption DEF Init
      <3>5. QED
        BY <3>1, <3>2, <3>3, <3>4 DEF Init, Typed
    <2>3. CallsFit
      BY <1>0, <1>2 DEF CallsFit, CallFits, PreparePlaces, InitPlaces
    <2>4. TablesAreMapped
      BY <1>0, <1>1 DEF TablesAreMapped
    <2>5. QED
      BY <2>2, <2>3, <2>4 DEF TInv
  <1>4. UnbornIsIdle /\ OwnerIsBorn
    BY <1>0, <1>1, <1>2 DEF UnbornIsIdle, OwnerIsBorn, Born, ThreadsIn, Pid
  <1>5. ASSUME NEW p \in Processes
        PROVE  RInv(p) /\ AInv(p)
    <2>1. \A t \in ThreadsIn(p) : pc[t] \in {"loading", "none"} /\ call[t].kind = "none"
      BY <1>0, <1>2 DEF ThreadsIn
    <2>2. mem[p].owner_pid # p
      BY <1>0, <1>1
    <2>3. RInv(p)
      BY <2>1, <2>2 DEF RInv, OwnerHasOwn, NewOwnerHasOwn, WriterOwns
    <2>4. RunsAlone(p)
      BY <1>0, <1>2 DEF RunsAlone, ThreadsIn
    <2>5. QED
      BY <1>1, <2>1, <2>2, <2>3, <2>4
        DEF AInv, InitLockHeld, ClearsUnowned, OwnerIsReady, InitialisedOnce, OthersTakeOver,
            ServerIsNotMeasured, InitPlaces, RecordPlaces
  <1>6. QED
    BY <1>3, <1>4, <1>5 DEF IInv

\* The invariant holds in every state, for any number of processes and threads.
THEOREM Invariance == Spec => []IInv
  <1>1. IInv /\ [Next]_vars => IInv'
    <2> SUFFICES ASSUME IInv, [Next]_vars PROVE IInv'
      OBVIOUS
    <2>1. CASE UNCHANGED vars
      BY <2>1 DEF vars, IInv, TInv, Typed, CallsFit, CallFits, TablesAreMapped, UnbornIsIdle, OwnerIsBorn,
        Born, RInv, OwnerHasOwn, NewOwnerHasOwn, WriterOwns, HasOwnStatistics, AInv, InitLockHeld,
        ClearsUnowned, OwnerIsReady, InitialisedOnce, RunsAlone, OthersTakeOver, ServerIsNotMeasured
    <2>2. CASE Next
      BY <2>2, ProcessStepKeeps, ForkKeeps DEF Next, Program
    <2>3. QED
      BY <2>1, <2>2
  <1>2. QED
    BY <1>1, InitKeeps, PTL DEF Spec

------------------------------------------------------------------------------
(* The properties *)

\* The variables keep the types of the code, and a table that is not mapped is
\* never written to.
THEOREM TypeCorrect == Spec => []TypeOK
  <1>1. IInv => TypeOK
    BY DEF IInv, TInv, Typed, TablesAreMapped, Memories, TypeOK
  <1>2. QED
    BY <1>1, Invariance, PTL

\* "Inherited memory is not counted": a row that is written goes into the file
\* of its process and counts only what that process allocated.
THEOREM RowsTheirOwn == Spec => []RowsAreTheirOwn
  <1>1. ASSUME IInv
        PROVE  RowsAreTheirOwn
    <2> SUFFICES ASSUME NEW t \in Threads, pc[t] = "write", Memory(t).log # None
                 PROVE  Memory(t).log = Pid(t) /\ call[t].live \subseteq {Pid(t)}
      BY DEF RowsAreTheirOwn, Row
    <2>1. Pid(t) \in Processes /\ t \in ThreadsIn(Pid(t))
      BY ThreadType DEF ThreadsIn
    <2>2. mem[Pid(t)].owner_pid = Pid(t) /\ call[t].live \subseteq {Pid(t)}
      BY <1>1, <2>1 DEF IInv, RInv, WriterOwns
    <2>3. mem[Pid(t)].log \in {None, Pid(t)}
      BY <1>1, <2>1, <2>2 DEF IInv, RInv, OwnerHasOwn, HasOwnStatistics
    <2>4. QED
      BY <2>2, <2>3 DEF Memory
  <1>2. QED
    BY <1>1, Invariance, PTL

\* A process is initialised at most once, by a thread that no other thread of
\* the process meets in a shard, at the log or in the initialisation.
THEOREM InitialisedAlone == Spec => []InitialisesAlone
  <1>1. ASSUME IInv
        PROVE  InitialisesAlone
    <2> SUFFICES ASSUME NEW p \in Processes
                 PROVE  /\ inits[p] <= 1
                        /\ \A t \in ThreadsIn(p) : pc[t] = "clear" =>
                             \A u \in ThreadsIn(p) : u # t /\ pc[u] \notin {"none", "gone"} =>
                               pc[u] \notin InitPlaces \cup RecordPlaces
      BY DEF InitialisesAlone, ThreadsOf, ThreadsIn
    <2>1. AInv(p)
      BY <1>1 DEF IInv
    <2>2. ASSUME NEW t \in ThreadsIn(p), pc[t] = "clear",
                 NEW u \in ThreadsIn(p), u # t, pc[u] \notin {"none", "gone"}
          PROVE  pc[u] \notin InitPlaces \cup RecordPlaces
      <3>1. t \in Threads /\ Pid(t) = p
        BY DEF ThreadsIn
      <3>2. pc[u] \notin InitPlaces
        BY <2>1, <2>2, <3>1, InitialiserIsAlone DEF AInv, InitPlaces
      <3>3. call[t].kind \notin {"construct", "ask"}
        BY <2>1, <2>2 DEF AInv, RunsAlone
      <3>4. call[t].kind \in {"malloc", "free"}
        BY <1>1, <2>2, <3>1, <3>3 DEF IInv, TInv, CallsFit, CallFits, PreparePlaces, InitPlaces
      <3>5. initial_process_is_appspawndf /\ p # initial_process_pid /\ mem[p].owner_pid \in {initial_process_pid, p}
        BY <2>1, <2>2, <3>4 DEF AInv, OthersTakeOver, InitPlaces
      <3>6. mem[p].owner_pid # p
        BY <2>1, <2>2 DEF AInv, ClearsUnowned
      <3>7. pc[u] \notin RecordPlaces
        BY <2>1, <3>5, <3>6 DEF AInv, ServerIsNotMeasured
      <3>8. QED
        BY <3>2, <3>7
    <2>3. QED
      BY <2>1, <2>2 DEF AInv, InitialisedOnce
  <1>2. QED
    BY <1>1, Invariance, PTL
==============================================================================
