----------------------------- MODULE CaptureLog ------------------------------
(***************************************************************************)
(* The event capture of malloc_free_hook.c in one process, and what        *)
(* bin_to_rply.c makes of the file.  A thread that makes a call reserves   *)
(* the next slot of the shared log, fills it and commits it; frees are     *)
(* logged before the real call, everything else after it.  The hook names  *)
(* every thread by an instance number, which it finds again by the         *)
(* pthread_t of the thread in a hash map.                                  *)
(*                                                                         *)
(* The file is read in every state: a process that is killed leaves it as  *)
(* it is, so that a crash at any moment needs no action of its own.  Only  *)
(* the hook's own exits are actions.  calloc, the aligned allocations and  *)
(* free_sized are logged like malloc and free.                             *)
(***************************************************************************)
EXTENDS Integers, Sequences, FiniteSets, FiniteSetsExt

CONSTANTS
  Threads, Initial,     \* Initial is the thread that runs main
  Addresses, Handles,   \* what malloc and pthread_create give out
  Capacity,             \* events the file can hold
  Home,                 \* pthread_hash before it is cut to the size of the map
  Budgets,              \* bounds: blocks and threads asked for, entries of the map
  NULL

AllocTypes == {"malloc", "realloc"}
ThreadTypes == {"create", "start", "end", "join", "detach"}
EventTypes == AllocTypes \cup ThreadTypes \cup {"process", "realloc_failed", "free"}

Events ==
  [type : EventTypes, tid : Nat, address : Addresses \cup {NULL},
   result : Addresses \cup {NULL} \cup Nat]

ASSUME CaptureAssumption ==
  /\ Initial \in Threads
  /\ NULL \notin Threads \cup Addresses \cup Handles \cup Events
  /\ Capacity \in Nat \ {0}
  /\ Home \in [Handles -> Nat]
  /\ Budgets \subseteq [blocks : Nat, threads : Nat, entries : Nat \ {0}]

VARIABLES
  budget,           \* what may still be asked for, and THREAD_MAP_CAPACITY
  next_index, overflow, slots,   \* the mapped file
  heap,             \* addresses the real allocator has given out
  blocks,           \* those the program holds, and may free
  next_instance, instance,
  handle,           \* pthread_t of a thread that is neither joined nor let go
  detached, claimed, parent_ready,
  thread_map,
  at, call,         \* where each thread is, and its call under way
  did               \* history: the events of each thread, in order

fileVars == <<next_index, overflow, slots>>
heapVars == <<heap, blocks>>
threadVars == <<instance, handle, detached, claimed, parent_ready>>
vars == <<budget, fileVars, heapVars, next_instance, threadVars, thread_map, at, call, did>>

Event(type, tid, address, result) ==
  [type |-> type, tid |-> tid, address |-> address, result |-> result]

EMPTY == [state |-> "empty"]
DELETED == [state |-> "deleted"]
Used(h, i) == [state |-> "used", key |-> h, instance |-> i]

NoCall == [event |-> NULL, slot |-> 0, then |-> "idle", subject |-> NULL, key |-> NULL, found |-> 0]

Goto(t, label) == at' = [at EXCEPT ![t] = label]

\* The constructor has mapped the file and logged the start of the process.
Init ==
  /\ budget \in Budgets
  /\ next_index = 1 /\ overflow = FALSE
  /\ slots = [i \in 1 .. Capacity |-> IF i = 1 THEN Event("process", 1, NULL, NULL) ELSE NULL]
  /\ heap = {} /\ blocks = {}
  /\ next_instance = 2
  /\ instance = [t \in Threads |-> IF t = Initial THEN 1 ELSE 0]
  /\ handle = [t \in Threads |-> NULL]
  /\ detached = [t \in Threads |-> FALSE]
  /\ claimed = [t \in Threads |-> FALSE]
  /\ parent_ready = [t \in Threads |-> FALSE]
  /\ thread_map = [i \in 0 .. budget.entries - 1 |-> EMPTY]
  /\ at = [t \in Threads |-> IF t = Initial THEN "idle" ELSE "unborn"]
  /\ call = [t \in Threads |-> NoCall]
  /\ did = [t \in Threads |-> <<>>]

-----------------------------------------------------------------------------
(* The log. *)

\* A thread begins to log an event, and goes on at "then" when it is logged.
Log(t, type, address, result, then) ==
  LET event == Event(type, instance[t], address, result) IN
  /\ call' = [call EXCEPT ![t].event = event, ![t].then = then]
  /\ did' = [did EXCEPT ![t] = Append(@, event)]
  /\ Goto(t, "reserving")

\* Mutant: the bound is checked one slot too late.
ReserveOneTooMany(t) ==
  /\ at[t] = "reserving"
  /\ next_index' = next_index + 1
  /\ IF next_index <= Capacity
     THEN call' = [call EXCEPT ![t].slot = next_index + 1] /\ Goto(t, "committing")
     ELSE Goto(t, "failing") /\ UNCHANGED call
  /\ UNCHANGED <<budget, overflow, slots, heapVars, next_instance, threadVars, thread_map, did>>

\* reserve_event_slot
Reserve(t) ==
  /\ at[t] = "reserving"
  /\ next_index' = next_index + 1
  /\ IF next_index < Capacity
     THEN call' = [call EXCEPT ![t].slot = next_index + 1] /\ Goto(t, "committing")
     ELSE Goto(t, "failing") /\ UNCHANGED call
  /\ UNCHANGED <<budget, overflow, slots, heapVars, next_instance, threadVars, thread_map, did>>

\* commit_event: the fields, and last the sequence number that makes them count.
Commit(t) ==
  /\ at[t] = "committing"
  /\ slots' = [slots EXCEPT ![call[t].slot] = call[t].event]
  /\ Goto(t, call[t].then)
  /\ UNCHANGED <<budget, next_index, overflow, heapVars, next_instance, threadVars,
                 thread_map, call, did>>

\* Mutant: the fatal exit forgets the flag.
FlagForgotten(t) ==
  /\ at[t] = "failing"
  /\ Goto(t, "exiting")
  /\ UNCHANGED <<budget, fileVars, heapVars, next_instance, threadVars,
                 thread_map, call, did>>

\* The overflow flag, and then the exit of the whole process.
Flag(t) ==
  /\ at[t] = "failing"
  /\ overflow' = TRUE
  /\ Goto(t, "exiting")
  /\ UNCHANGED <<budget, next_index, slots, heapVars, next_instance, threadVars,
                 thread_map, call, did>>

ExitGroup(t) ==
  /\ at[t] = "exiting"
  /\ at' = [u \in Threads |-> "killed"]
  /\ UNCHANGED <<budget, fileVars, heapVars, next_instance, threadVars, thread_map, call, did>>

-----------------------------------------------------------------------------
(* Blocks. *)

Ask(kind) == budget[kind] > 0 /\ budget' = [budget EXCEPT ![kind] = @ - 1]

\* malloc: the real call, which may fail, and then the log.
Malloc(t) ==
  /\ at[t] = "idle" /\ Ask("blocks")
  /\ \E a \in (Addresses \ heap) \cup {NULL} :
       /\ heap' = heap \cup ({a} \ {NULL})
       /\ Log(t, "malloc", NULL, a, "returning")
  /\ UNCHANGED <<fileVars, blocks, next_instance, threadVars, thread_map>>

\* realloc: the block stays, moves, is released, or the call fails.  The last
\* two have no result; the size tells them apart.
Realloc(t) ==
  /\ at[t] = "idle" /\ Ask("blocks")
  /\ \E a \in blocks :
       /\ blocks' = blocks \ {a}
       /\ \/ \E b \in (Addresses \ heap) \cup {a} :
               /\ heap' = (heap \ {a}) \cup {b}
               /\ Log(t, "realloc", a, b, "returning")
          \/ heap' = heap \ {a} /\ Log(t, "realloc", a, NULL, "returning")
          \/ UNCHANGED heap /\ Log(t, "realloc_failed", a, NULL, "returning")
  /\ UNCHANGED <<fileVars, next_instance, threadVars, thread_map>>

\* The call returns to the program.
Return(t) ==
  LET e == call[t].event IN
  /\ at[t] = "returning"
  /\ blocks' = blocks \cup
       (IF e.type = "realloc_failed" THEN {e.address} ELSE {e.result} \ {NULL})
  /\ call' = [call EXCEPT ![t] = NoCall]
  /\ Goto(t, "idle")
  /\ UNCHANGED <<budget, fileVars, heap, next_instance, threadVars, thread_map, did>>

\* Mutant: free is logged after the real call, like the others.
FreeLogsLast(t) ==
  /\ at[t] = "idle"
  /\ \E a \in blocks :
       /\ blocks' = blocks \ {a} /\ heap' = heap \ {a}
       /\ Log(t, "free", a, NULL, "idle")
  /\ UNCHANGED <<budget, fileVars, next_instance, threadVars, thread_map>>

\* free: the log and then the real call.
Free(t) ==
  /\ at[t] = "idle"
  /\ \E a \in blocks : blocks' = blocks \ {a} /\ Log(t, "free", a, NULL, "freeing")
  /\ UNCHANGED <<budget, fileVars, heap, next_instance, threadVars, thread_map>>

RealFree(t) ==
  /\ at[t] = "freeing"
  /\ heap' = heap \ {call[t].event.address}
  /\ call' = [call EXCEPT ![t] = NoCall]
  /\ Goto(t, "idle")
  /\ UNCHANGED <<budget, fileVars, blocks, next_instance, threadVars, thread_map, did>>

-----------------------------------------------------------------------------
(* Threads. *)

Probe(h, n) == (Home[h] + n) % budget.entries
Holds(h, i) == thread_map[i].state = "used" /\ thread_map[i].key = h

\* Where a search for the handle ends: at its entry or at an empty one.
Stops(h) ==
  { n \in 0 .. budget.entries - 1 : thread_map[Probe(h, n)] = EMPTY \/ Holds(h, Probe(h, n)) }
Entry(h) == Probe(h, Min(Stops(h)))
Found(h) == Stops(h) # {} /\ Holds(h, Entry(h))

\* thread_map_get
Get(h) == IF Found(h) THEN thread_map[Entry(h)].instance ELSE 0

\* thread_map_put: without an entry of the handle and without an empty one
\* there is no place, whatever was deleted.
PutPlace(h) ==
  LET deleted == { n \in 0 .. Min(Stops(h)) : thread_map[Probe(h, n)] = DELETED }
  IN IF Found(h) \/ deleted = {} THEN Entry(h) ELSE Probe(h, Min(deleted))

\* pthread_create up to the real call, which starts the thread.
Create(t, u) ==
  /\ at[t] = "idle" /\ at[u] = "unborn" /\ Ask("threads")
  /\ next_instance' = next_instance + 1
  /\ \E h \in Handles \ { handle[v] : v \in Threads }, d \in BOOLEAN :
       /\ handle' = [handle EXCEPT ![u] = h]
       /\ detached' = [detached EXCEPT ![u] = d]
       /\ call' = [call EXCEPT ![t].subject = u, ![t].key = h]
  /\ instance' = [instance EXCEPT ![u] = next_instance]
  /\ at' = [at EXCEPT ![t] = "registering", ![u] = "waiting"]
  /\ UNCHANGED <<fileVars, heapVars, claimed, parent_ready, thread_map, did>>

\* The real call fails; the number stays spent.
CreateFails(t) ==
  /\ at[t] = "idle" /\ Ask("threads")
  /\ next_instance' = next_instance + 1
  /\ UNCHANGED <<fileVars, heapVars, threadVars, thread_map, at, call, did>>

Register(t) ==
  LET c == call[t] IN
  /\ at[t] = "registering"
  /\ IF Stops(c.key) # {}
     THEN /\ thread_map' = [thread_map EXCEPT ![PutPlace(c.key)] = Used(c.key, instance[c.subject])]
          /\ UNCHANGED threadVars
          /\ Log(t, "create", NULL, instance[c.subject], "created")
     ELSE Goto(t, "failing") /\ UNCHANGED <<threadVars, thread_map, call, did>>
  /\ UNCHANGED <<budget, fileVars, heapVars, next_instance>>

\* A thread that is created detached is logged as detached and forgotten.
Created(t) ==
  /\ at[t] = "created"
  /\ UNCHANGED threadVars
  /\ IF detached[call[t].subject]
     THEN Log(t, "detach", NULL, instance[call[t].subject], "dismissing")
     ELSE Goto(t, "releasing") /\ UNCHANGED <<call, did>>
  /\ UNCHANGED <<budget, fileVars, heapVars, next_instance, thread_map>>

\* parent_ready lets the new thread go.
Release(t) ==
  /\ at[t] = "releasing"
  /\ parent_ready' = [parent_ready EXCEPT ![call[t].subject] = TRUE]
  /\ call' = [call EXCEPT ![t] = NoCall]
  /\ Goto(t, "idle")
  /\ UNCHANGED <<budget, fileVars, heapVars, next_instance, instance, handle, detached,
                 claimed, thread_map, did>>

\* Mutant: the new thread does not wait for the one that creates it.
BeginAtOnce(t) ==
  /\ at[t] = "waiting"
  /\ UNCHANGED threadVars
  /\ Log(t, "start", NULL, instance[t], "idle")
  /\ UNCHANGED <<budget, fileVars, heapVars, next_instance, thread_map>>

\* thread_start_trampoline
Begin(t) ==
  /\ at[t] = "waiting" /\ parent_ready[t]
  /\ UNCHANGED threadVars
  /\ Log(t, "start", NULL, instance[t], "idle")
  /\ UNCHANGED <<budget, fileVars, heapVars, next_instance, thread_map>>

\* record_thread_end, and then the end of the thread.
Finish(t) ==
  /\ at[t] = "idle" /\ t # Initial
  /\ UNCHANGED threadVars
  /\ Log(t, "end", NULL, instance[t], "ending")
  /\ UNCHANGED <<budget, fileVars, heapVars, next_instance, thread_map>>

End(t) ==
  /\ at[t] = "ending"
  /\ handle' = IF detached[t] THEN [handle EXCEPT ![t] = NULL] ELSE handle
  /\ Goto(t, "gone")
  /\ UNCHANGED <<budget, fileVars, heapVars, next_instance, instance, detached, claimed,
                 parent_ready, thread_map, call, did>>

\* pthread_join and pthread_detach look the thread up before the real call.
\* The program joins or detaches a thread once, after its creation.
LookUp(t, u, label) ==
  /\ at[t] = "idle"
  /\ parent_ready[u] /\ ~detached[u] /\ ~claimed[u]
  /\ claimed' = [claimed EXCEPT ![u] = TRUE]
  /\ call' = [call EXCEPT ![t].subject = u, ![t].key = handle[u], ![t].found = Get(handle[u])]
  /\ Goto(t, label)
  /\ UNCHANGED <<budget, fileVars, heapVars, next_instance, instance, handle, detached,
                 parent_ready, thread_map, did>>

Join(t) == \E u \in Threads \ {t} : LookUp(t, u, "joining")
Detach(t) == \E u \in Threads : LookUp(t, u, "detaching")

LogFound(t, type) ==
  IF call[t].found # 0
  THEN Log(t, type, NULL, call[t].found, "forgetting")
  ELSE /\ call' = [call EXCEPT ![t] = NoCall]
       /\ Goto(t, "idle")
       /\ UNCHANGED did

\* The handle of a thread that is joined can be given out again.
RealJoin(t) ==
  /\ at[t] = "joining" /\ at[call[t].subject] = "gone"
  /\ handle' = [handle EXCEPT ![call[t].subject] = NULL]
  /\ UNCHANGED <<instance, detached, claimed, parent_ready>>
  /\ LogFound(t, "join")
  /\ UNCHANGED <<budget, fileVars, heapVars, next_instance, thread_map>>

RealDetach(t) ==
  LET u == call[t].subject IN
  /\ at[t] = "detaching"
  /\ detached' = [detached EXCEPT ![u] = TRUE]
  /\ handle' = IF at[u] = "gone" THEN [handle EXCEPT ![u] = NULL] ELSE handle
  /\ UNCHANGED <<instance, claimed, parent_ready>>
  /\ LogFound(t, "detach")
  /\ UNCHANGED <<budget, fileVars, heapVars, next_instance, thread_map>>

\* thread_map_remove
Forget(t) ==
  LET h == call[t].key IN
  /\ at[t] \in {"forgetting", "dismissing"}
  /\ thread_map' = IF Found(h) THEN [thread_map EXCEPT ![Entry(h)] = DELETED] ELSE thread_map
  /\ IF at[t] = "dismissing"
     THEN Goto(t, "releasing") /\ UNCHANGED call
     ELSE Goto(t, "idle") /\ call' = [call EXCEPT ![t] = NoCall]
  /\ UNCHANGED <<budget, fileVars, heapVars, next_instance, threadVars, did>>

-----------------------------------------------------------------------------
Step(t) ==
  \/ Reserve(t) \/ Commit(t) \/ Flag(t) \/ ExitGroup(t)
  \/ Malloc(t) \/ Realloc(t) \/ Return(t) \/ Free(t) \/ RealFree(t)
  \/ \E u \in Threads : Create(t, u)
  \/ CreateFails(t) \/ Register(t) \/ Created(t) \/ Release(t)
  \/ Begin(t) \/ Finish(t) \/ End(t)
  \/ Join(t) \/ Detach(t) \/ RealJoin(t) \/ RealDetach(t) \/ Forget(t)

Next == \E t \in Threads : Step(t)

Spec == Init /\ [][Next]_vars

-----------------------------------------------------------------------------
(* The conversion. *)

\* bin_to_rply refuses a file that lost an event for want of a slot.
Refused == overflow \/ next_index > Capacity

\* The slots that it makes rows of, one after the other.  It skips those that
\* were reserved and never committed, and the start of the process.
Rows ==
  { n \in 1 .. Min({next_index, Capacity}) : slots[n] # NULL /\ slots[n].type # "process" }

-----------------------------------------------------------------------------
(* Properties. *)

RowsOf(i) == { n \in Rows : slots[n].tid = i }
Places(type, i) == { n \in Rows : slots[n].type = type /\ slots[n].result = i }

Labels == {"unborn", "waiting", "idle", "reserving", "committing", "failing", "exiting",
           "returning", "freeing", "registering", "created", "releasing", "joining",
           "detaching", "forgetting", "dismissing", "ending", "gone", "killed"}

Calls ==
  [event : Events \cup {NULL}, slot : 0 .. Capacity, then : Labels,
   subject : Threads \cup {NULL}, key : Handles \cup {NULL}, found : Nat]

\* The state keeps its shape; no thread fills a slot outside the file or one
\* that another thread has filled or is about to fill.
TypeOK ==
  /\ budget \in [blocks : Nat, threads : Nat, entries : Nat]
  /\ next_index \in Nat /\ overflow \in BOOLEAN /\ next_instance \in Nat
  /\ slots \in [1 .. Capacity -> Events \cup {NULL}]
  /\ blocks \subseteq heap /\ heap \subseteq Addresses
  /\ instance \in [Threads -> 0 .. next_instance - 1]
  /\ handle \in [Threads -> Handles \cup {NULL}]
  /\ detached \in [Threads -> BOOLEAN] /\ claimed \in [Threads -> BOOLEAN]
  /\ parent_ready \in [Threads -> BOOLEAN]
  /\ \A i \in DOMAIN thread_map :
       thread_map[i] \in {EMPTY, DELETED}
                           \cup { Used(h, n) : h \in Handles, n \in 1 .. next_instance - 1 }
  /\ at \in [Threads -> Labels]
  /\ call \in [Threads -> Calls] /\ did \in [Threads -> Seq(Events)]
  /\ \A t \in Threads : at[t] = "committing" =>
       /\ slots[call[t].slot] = NULL
       /\ \A u \in Threads \ {t} : at[u] = "committing" => call[u].slot # call[t].slot

\* Whenever the process dies, a file that the converter accepts tells of each
\* thread all its events in order, but for one it was logging.  A process
\* that the hook itself ends leaves a file that is refused.
\* (reserve_event_slot, commit_event, capture_fatal; README: no event is
\* dropped silently)
RowsAreAPrefix ==
  /\ (\E t \in Threads : at[t] = "killed") => Refused
  /\ ~Refused =>
       \A t \in Threads :
         LET mine == RowsOf(instance[t])
         IN  /\ Cardinality(mine) \in {Len(did[t]) - 1, Len(did[t])}
             /\ \A n \in mine : slots[n] = did[t][Cardinality({ m \in mine : m <= n })]

\* Between two rows that give out the same address a row gives it back: the
\* log of free comes before the real call.  Addresses that a realloc gave
\* back are the exception, since realloc is logged after the real call.
\* (free, malloc)
BlocksAlternate ==
  LET OfType(t, type) == { n \in DOMAIN did[t] : did[t][n].type = type }
      reallocated == UNION { { did[t][n].address : n \in OfType(t, "realloc") } : t \in Threads }
  IN \A i, j \in Rows :
       /\ i < j /\ {slots[i].type, slots[j].type} \subseteq AllocTypes
       /\ slots[i].result = slots[j].result
       /\ slots[i].result \notin {NULL} \cup reallocated
       => \E k \in Rows : /\ i < k /\ k < j
                          /\ slots[k].type = "free" /\ slots[k].address = slots[i].result

\* The rows of a thread's life come once and in order, whichever threads
\* wrote them: created, started, ended, joined; and a join names a thread
\* that was really joined, although its pthread_t may be another's by then.
\* (pthread_create, thread_start_trampoline, pthread_join, pthread_detach)
LifecycleOrder ==
  LET life == <<"create", "start", "end", "join">>
      Before(i, earlier, later) ==
        \A q \in Places(later, i) : \E p \in Places(earlier, i) : p < q
  IN \A t \in Threads \ {Initial} :
       LET i == instance[t] IN
       i # 0 =>
       /\ \A type \in ThreadTypes : Cardinality(Places(type, i)) <= 1
       /\ \A n \in 2 .. Len(life) : Before(i, life[n - 1], life[n])
       /\ Before(i, "create", "detach")
       /\ Places("join", i) # {} => handle[t] = NULL /\ ~detached[t]

\* A thread that was joined, by a call that has returned, has a row that says
\* so.  (pthread_join; README: joins are recorded)
JoinsAreRecorded ==
  \A t \in Threads :
    LET returned == at[t] = "gone" /\ handle[t] = NULL /\ ~detached[t]
                      /\ \A u \in Threads : call[u].subject # t
    IN returned /\ ~Refused => Places("join", instance[t]) # {}

=============================================================================
