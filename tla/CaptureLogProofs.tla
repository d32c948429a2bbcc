-------------------------- MODULE CaptureLogProofs ---------------------------
(***************************************************************************)
(* Proofs about CaptureLog for every number of threads, addresses, handles *)
(* and events, every capacity of the file and of the thread map, and every *)
(* hash function.                                                          *)
(***************************************************************************)
EXTENDS CaptureLog, FiniteSums

\* A thread has asked to log an event that is not in the file yet.
Pending(t) == at[t] \in {"reserving", "committing"}

\* What an entry of the map can be.
Entries(n) == {EMPTY, DELETED} \cup { Used(h, i) : h \in Handles, i \in 1 .. n - 1 }

\* The types of the variables; TypeOK says more of the threads that commit.
Typed ==
  /\ budget \in [blocks : Nat, threads : Nat, entries : Nat \ {0}]
  /\ next_index \in Nat /\ overflow \in BOOLEAN /\ next_instance \in Nat
  /\ slots \in [1 .. Capacity -> Events \cup {NULL}]
  /\ heap \subseteq Addresses
  /\ instance \in [Threads -> 0 .. next_instance - 1]
  /\ handle \in [Threads -> Handles \cup {NULL}]
  /\ detached \in [Threads -> BOOLEAN] /\ claimed \in [Threads -> BOOLEAN]
  /\ parent_ready \in [Threads -> BOOLEAN]
  /\ thread_map \in [0 .. budget.entries - 1 -> Entries(next_instance)]
  /\ at \in [Threads -> Labels]
  /\ call \in [Threads -> Calls] /\ did \in [Threads -> Seq(Events)]

\* The file: nothing behind the last slot reserved, and nobody fills a slot
\* that is filled or that another thread fills.
SlotsInv ==
  /\ next_index >= 1
  /\ slots[1] # NULL /\ slots[1].type = "process"
  /\ \A n \in 1 .. Capacity : n > next_index => slots[n] = NULL
  /\ \A t \in Threads : at[t] = "committing" =>
       call[t].slot \in 2 .. next_index /\ call[t].slot <= Capacity /\ slots[call[t].slot] = NULL
  /\ \A t, u \in Threads :
       at[t] = "committing" /\ at[u] = "committing" /\ call[t].slot = call[u].slot => t = u

\* The numbers of the threads: nobody has another's.
NamesInv ==
  /\ next_instance > instance[Initial] /\ instance[Initial] = 1
  /\ \A t \in Threads : at[t] = "unborn" => instance[t] = 0
  /\ \A t \in Threads : instance[t] = 0 => at[t] \in {"unborn", "killed"} /\ ~parent_ready[t]
  /\ \A t, u \in Threads : instance[t] = instance[u] /\ instance[t] # 0 => t = u
  /\ \A t \in Threads : at[t] \in {"unborn", "waiting"} \/ instance[t] = 0 => did[t] = <<>>
  /\ \A n \in 1 .. Capacity : slots[n] # NULL =>
       /\ slots[n].tid \in 1 .. next_instance - 1
       /\ slots[n].type \in ThreadTypes => slots[n].result \in 1 .. next_instance - 1

\* What follows on each event.
Continuations ==
  {<<"malloc", "returning">>, <<"realloc", "returning">>, <<"realloc_failed", "returning">>,
   <<"free", "freeing">>, <<"create", "created">>, <<"detach", "dismissing">>,
   <<"detach", "forgetting">>, <<"start", "idle">>, <<"end", "ending">>, <<"join", "forgetting">>}

\* A thread that is about to log logs the last event of its history.
EventsInv ==
  \A t \in Threads :
    /\ call[t].event # NULL => call[t].event.tid = instance[t] /\ instance[t] # 0
    /\ Pending(t) =>
         /\ call[t].event # NULL /\ did[t] # <<>> /\ call[t].event = did[t][Len(did[t])]
         /\ <<call[t].event.type, call[t].then>> \in Continuations
         /\ call[t].event.type \in ThreadTypes => call[t].event.result \in 1 .. next_instance - 1
         /\ call[t].event.type \in {"start", "end"} => call[t].event.result = instance[t]

\* The process ends with the overflow flag only.
ExitInv == \A t \in Threads : at[t] \in {"exiting", "killed"} => overflow

\* The rows of a thread are its history, but for the event it is logging, which
\* comes after them.
Logged(t) == IF Pending(t) THEN Len(did[t]) - 1 ELSE Len(did[t])

RowsInv ==
  /\ ~Refused => \A t \in Threads :
       /\ Cardinality(RowsOf(instance[t])) = Logged(t)
       /\ \A n \in RowsOf(instance[t]) :
            slots[n] = did[t][Cardinality({ m \in RowsOf(instance[t]) : m <= n })]
  /\ \A t \in Threads : at[t] = "committing" =>
       \A n \in RowsOf(instance[t]) : n < call[t].slot

------------------------------------------------------------------------------

\* The block of an event.
HandOf(e) ==
  { a \in Addresses : /\ e # NULL
                      /\ \/ e.type \in AllocTypes /\ e.result = a
                         \/ e.type \in {"realloc_failed", "free"} /\ e.address = a }

\* The block a thread has given or is about to give to the program, or has
\* taken from it.
InHand(t) == HandOf(call[t].event)

\* An event of a block names it; a call that gets none has no result.
BlockNamed(e) ==
  /\ e.type \in AllocTypes => e.result \in Addresses \cup {NULL}
  /\ e.type \in {"realloc_failed", "free"} => e.address \in Addresses

\* A block is the program's or in the hands of one thread, until it is free.
Ownership ==
  /\ blocks \subseteq heap
  /\ \A t \in Threads : InHand(t) \subseteq heap \ blocks
  /\ \A t, u \in Threads : InHand(t) \cap InHand(u) # {} => t = u
  /\ \A t \in Threads :
       /\ ~Pending(t) /\ at[t] \notin {"failing", "exiting", "killed", "returning", "freeing"}
            => InHand(t) = {}
       /\ at[t] = "returning" =>
            call[t].event # NULL /\ call[t].event.type \in AllocTypes \cup {"realloc_failed"}
       /\ at[t] = "freeing" => call[t].event # NULL /\ call[t].event.type = "free"
       /\ call[t].event # NULL => BlockNamed(call[t].event)

\* Blocks that were given to a realloc.
Reallocated(a) ==
  \E t \in Threads : \E n \in DOMAIN did[t] : did[t][n].type = "realloc" /\ did[t][n].address = a

\* The slots that give an address out, and those that give it back.
Gives(a) ==
  { n \in 1 .. Capacity : slots[n] # NULL /\ slots[n].type \in AllocTypes /\ slots[n].result = a }
Returns(a) ==
  { n \in 1 .. Capacity : slots[n] # NULL /\ slots[n].type = "free" /\ slots[n].address = a }

\* Whatever gave the address out, a later slot gave it back.
Closed(a) == \A i \in Gives(a) : \E k \in Returns(a) : i < k

\* What a thread that has the block can rely on.
HandInv(t, a) ==
  a \in InHand(t) =>
    /\ Pending(t) /\ call[t].event.type \in AllocTypes => Closed(a)
    /\ at[t] = "committing" /\ call[t].event.type \in AllocTypes \cup {"free"}
         => \A n \in Gives(a) \cup Returns(a) : n < call[t].slot
    /\ at[t] = "freeing" => Closed(a)

Alternates(a) ==
  /\ \A i, j \in Gives(a) : i < j => \E k \in Returns(a) : i < k /\ k < j
  /\ a \notin heap => Closed(a)
  /\ \A t \in Threads : HandInv(t, a)

\* An address is given back before it is given out again, in the file too.
AlternationInv ==
  /\ \A n \in 1 .. Capacity : slots[n] # NULL => BlockNamed(slots[n])
  /\ \A a \in Addresses : ~Reallocated(a) => Alternates(a)

------------------------------------------------------------------------------

\* A thread is between the real pthread_create and the release of the new one.
Creating(t) ==
  \/ at[t] \in {"registering", "created", "dismissing", "releasing"}
  \/ Pending(t) /\ call[t].then \in {"created", "dismissing"}

\* The new thread waits, and keeps the handle its creator works with.
CallInv ==
  /\ \A t \in Threads : call[t].subject # NULL => instance[call[t].subject] # 0
  /\ \A t \in Threads : Creating(t) =>
       LET u == call[t].subject
       IN  /\ u \in Threads /\ u # Initial /\ at[u] = "waiting" /\ ~parent_ready[u] /\ ~claimed[u]
           /\ call[t].key \in Handles /\ handle[u] = call[t].key
  /\ \A t, u \in Threads : Creating(t) /\ Creating(u) /\ call[t].subject = call[u].subject => t = u
  /\ \A t \in Threads : at[t] \in {"joining", "detaching"} =>
       LET u == call[t].subject
       IN  /\ u \in Threads /\ u # Initial /\ parent_ready[u] /\ claimed[u] /\ ~detached[u]
           /\ handle[u] # NULL
           /\ call[t].key \in Handles
  /\ \A t, u \in Threads :
       /\ at[t] \in {"joining", "detaching"} /\ at[u] \in {"joining", "detaching"}
       /\ call[t].subject = call[u].subject
       => t = u
  /\ \A t \in Threads :
       \/ at[t] \in {"forgetting", "dismissing"}
       \/ Pending(t) /\ call[t].then \in {"forgetting", "dismissing"}
       => call[t].key \in Handles
  /\ \A t \in Threads : call[t].found < next_instance
  /\ \A t, u \in Threads : handle[t] # NULL /\ handle[t] = handle[u] => t = u
  /\ \A t \in Threads : parent_ready[t] /\ ~claimed[t] /\ ~detached[t] => handle[t] # NULL
  /\ handle[Initial] = NULL /\ ~parent_ready[Initial]
  /\ \A t \in Threads : claimed[t] => parent_ready[t]

------------------------------------------------------------------------------

\* A thread has looked another up, and has not made the real call yet.
Serving(t) == at[t] \in {"joining", "detaching"}

\* The new thread of a call is in the map: the call has registered it, or the
\* thread was let go.
Registered(u) ==
  \/ parent_ready[u]
  \/ \E t \in Threads : call[t].subject = u /\ Creating(t) /\ at[t] # "registering"

\* The map: a search for a handle ends at its only entry, if it has one, and
\* that entry has the number of the thread whose handle it is.
OneEntry ==
  \A h \in Handles, j \in DOMAIN thread_map : Holds(h, j) => Stops(h) # {} /\ j = Entry(h)
RightEntry ==
  \A h \in Handles, j \in DOMAIN thread_map, u \in Threads :
    Holds(h, j) /\ handle[u] = h /\ Registered(u) => thread_map[j].instance = instance[u]

\* The slots that tell of thread number i, and who is about to fill one.
Told(type, i) ==
  { n \in 1 .. Capacity : slots[n] # NULL /\ slots[n].type = type /\ slots[n].result = i }
Telling(t, type, i) ==
  Pending(t) /\ call[t].event.type = type /\ call[t].event.result = i
NotTold(type, i) == Told(type, i) = {} /\ \A t \in Threads : ~Telling(t, type, i)

\* Each event of a life comes once, and after the event it presupposes.
Presupposes ==
  {<<"start", "create">>, <<"end", "start">>, <<"join", "end">>, <<"detach", "create">>}
Once(type, i) ==
  /\ \A p, q \in Told(type, i) : p = q
  /\ \A t \in Threads : Telling(t, type, i) => Told(type, i) = {}
  /\ \A t, u \in Threads : Telling(t, type, i) /\ Telling(u, type, i) => t = u
InOrder(later, earlier, i) ==
  /\ \A q \in Told(later, i) : \E p \in Told(earlier, i) : p < q
  /\ \A t \in Threads : Telling(t, later, i) =>
       \E p \in Told(earlier, i) : at[t] = "committing" => p < call[t].slot

ToldOf(i) ==
  /\ \A type \in ThreadTypes : Once(type, i)
  /\ \A pair \in Presupposes : InOrder(pair[1], pair[2], i)
ToldInv == \A i \in Nat : ToldOf(i)

\* Thread t, of number i, has not logged its end; it has logged its start.
Alive(t) ==
  IF Pending(t) THEN call[t].event.type # "end"
                ELSE at[t] \notin {"ending", "gone", "failing", "exiting", "killed"}
Started(t) ==
  IF Pending(t) THEN call[t].event.type # "start"
                ELSE at[t] \notin {"unborn", "waiting", "failing", "exiting", "killed"}
Standing(t, i) ==
  /\ at[t] = "waiting" => NotTold("start", i)
  /\ Alive(t) => NotTold("end", i)
  /\ Started(t) /\ t # Initial => Told("start", i) # {}
  /\ at[t] \in {"ending", "gone"} => Told("end", i) # {}

\* What its handle tells: it was let go when its creation was in the file, and it is
\* detached or joined before the file says so.
Handled(t, i) ==
  /\ parent_ready[t] => Told("create", i) # {}
  /\ ~detached[t] => NotTold("detach", i)
  /\ NotTold("join", i) \/ (claimed[t] /\ ~detached[t] /\ handle[t] = NULL)

\* What the call of thread t has told of its subject, of number i.
Subject(t, i) ==
  /\ at[t] = "registering" => NotTold("create", i)
  /\ \/ at[t] \in {"registering", "created"}
     \/ Pending(t) /\ call[t].then = "created"
     => NotTold("detach", i)
  /\ Pending(t) /\ call[t].then = "created" => call[t].event.result = i
  /\ \/ at[t] \in {"created", "dismissing", "releasing"}
     \/ Pending(t) /\ call[t].then = "dismissing"
     => Told("create", i) # {}
  /\ Serving(t) => call[t].found \in {0, i}

StandingInv == \A t \in Threads, i \in Nat : instance[t] = i => Standing(t, i)
HandledInv == \A t \in Threads, i \in Nat : instance[t] = i /\ i # 0 => Handled(t, i)
SubjectInv ==
  \A t \in Threads, i \in Nat :
    call[t].subject \in Threads /\ instance[call[t].subject] = i => Subject(t, i)

LifeInv ==
  /\ OneEntry /\ RightEntry /\ ToldInv /\ StandingInv /\ HandledInv /\ SubjectInv

------------------------------------------------------------------------------
(* What the steps do, field by field. *)

\* The value that stands for nothing is no thread, block, handle or event.
LEMMA NullIsNobody ==
  /\ NULL \notin Threads /\ NULL \notin Addresses /\ NULL \notin Handles /\ NULL \notin Events
  BY CaptureAssumption

\* A set of natural numbers has a least one, which is Min.
LEMMA MinIsLeast ==
  ASSUME NEW S \in SUBSET Nat, S # {}
  PROVE  Min(S) \in S /\ \A n \in S : Min(S) <= n
  <1>1. \E x \in S : \A y \in S : x =< y
    BY LeastNat
  <1>2. QED
    BY <1>1, Zenon DEF Min

\* Rows are slots that hold an event other than the start of the process.
LEMMA RowsAreSlots ==
  ASSUME Typed, SlotsInv
  PROVE  /\ Rows = { n \in 1 .. Capacity : slots[n] # NULL /\ slots[n].type # "process" }
         /\ \A n \in Rows : n \in 1 .. Capacity /\ slots[n] \in Events
  <1>1. {next_index, Capacity} \in SUBSET Nat /\ Capacity \in Nat /\ next_index \in Nat
    BY CaptureAssumption DEF Typed
  <1>2. /\ Min({next_index, Capacity}) \in {next_index, Capacity}
        /\ \A n \in {next_index, Capacity} : Min({next_index, Capacity}) <= n
    BY <1>1, MinIsLeast
  <1> DEFINE m == Min({next_index, Capacity})
  <1>3. m \in Nat /\ m <= next_index /\ m <= Capacity /\ (m = next_index \/ m = Capacity)
    BY <1>1, <1>2
  <1>4. Rows = { n \in 1 .. m : slots[n] # NULL /\ slots[n].type # "process" }
    BY DEF Rows
  <1> HIDE DEF m
  <1>5. \A n \in 1 .. Capacity : slots[n] # NULL => n <= m
    BY <1>1, <1>3 DEF SlotsInv
  <1>6. QED
    BY <1>1, <1>3, <1>4, <1>5 DEF Typed

\* What an event may say, and where a thread may go on after it.
Loggable(type, address, result, then) ==
  /\ type \in EventTypes /\ then \in Labels
  /\ address \in Addresses \cup {NULL} /\ result \in Addresses \cup {NULL} \cup Nat

\* Logging begins: the event is noted, nothing else of the call changes.
LEMMA LogStep ==
  ASSUME Typed, NEW t \in Threads, NEW type, NEW address, NEW result, NEW then,
         Loggable(type, address, result, then), Log(t, type, address, result, then)
  PROVE  /\ Event(type, instance[t], address, result) \in Events
         /\ call' \in [Threads -> Calls] /\ did' \in [Threads -> Seq(Events)]
         /\ at' \in [Threads -> Labels]
         /\ call'[t].event = Event(type, instance[t], address, result) /\ call'[t].then = then
         /\ call'[t].slot = call[t].slot /\ call'[t].subject = call[t].subject
         /\ call'[t].key = call[t].key /\ call'[t].found = call[t].found
         /\ did'[t] = Append(did[t], Event(type, instance[t], address, result))
         /\ at'[t] = "reserving"
         /\ \A u \in Threads \ {t} : call'[u] = call[u] /\ did'[u] = did[u] /\ at'[u] = at[u]
  <1> DEFINE e == Event(type, instance[t], address, result)
  <1>1. e \in Events
    <2>1. instance[t] \in Nat
      BY DEF Typed
    <2>2. QED
      BY <2>1 DEF Event, Events, Loggable
  <1> HIDE DEF e
  <1>2. /\ call' = [call EXCEPT ![t].event = e, ![t].then = then]
        /\ did' = [did EXCEPT ![t] = Append(did[t], e)]
        /\ at' = [at EXCEPT ![t] = "reserving"]
    BY DEF Log, Goto, e
  <1>3. call \in [Threads -> Calls] /\ at \in [Threads -> Labels] /\ did \in [Threads -> Seq(Events)]
    BY DEF Typed
  <1>4. /\ call' \in [Threads -> Calls]
        /\ call'[t].event = e /\ call'[t].then = then
        /\ call'[t].slot = call[t].slot /\ call'[t].subject = call[t].subject
        /\ call'[t].key = call[t].key /\ call'[t].found = call[t].found
        /\ \A u \in Threads \ {t} : call'[u] = call[u]
    BY <1>1, <1>2, <1>3 DEF Calls, Loggable
  <1>5. /\ did' \in [Threads -> Seq(Events)] /\ did'[t] = Append(did[t], e)
        /\ \A u \in Threads \ {t} : did'[u] = did[u]
    <2>1. Append(did[t], e) \in Seq(Events)
      BY <1>1, <1>3
    <2>2. QED
      BY <1>2, <1>3, <2>1
  <1>6. /\ at' \in [Threads -> Labels] /\ at'[t] = "reserving"
        /\ \A u \in Threads \ {t} : at'[u] = at[u]
    BY <1>2, <1>3 DEF Labels
  <1>7. QED
    BY <1>1, <1>4, <1>5, <1>6 DEF e

\* Only thread t moves.
Others(t) ==
  \A u \in Threads \ {t} : at'[u] = at[u] /\ call'[u] = call[u] /\ did'[u] = did[u]

\* Neither its history nor what it says of another thread changes.
SameTale(t) ==
  /\ did'[t] = did[t] /\ call'[t].event = call[t].event /\ call'[t].then = call[t].then
  /\ call'[t].subject = call[t].subject /\ call'[t].key = call[t].key
  /\ call'[t].found = call[t].found

\* reserve_event_slot takes the next slot, if there is one.
LEMMA ReserveStep ==
  ASSUME Typed, NEW t \in Threads, Reserve(t)
  PROVE  /\ Typed' /\ Others(t) /\ SameTale(t)
         /\ at[t] = "reserving" /\ next_index' = next_index + 1
         /\ UNCHANGED <<overflow, slots, heapVars, next_instance, threadVars, thread_map, did>>
         /\ \/ next_index < Capacity /\ at'[t] = "committing" /\ call'[t].slot = next_index + 1
            \/ next_index >= Capacity /\ at'[t] = "failing" /\ UNCHANGED call
  <1>1. /\ next_index \in Nat /\ Capacity \in Nat /\ call \in [Threads -> Calls]
        /\ at \in [Threads -> Labels] /\ did \in [Threads -> Seq(Events)]
    BY CaptureAssumption DEF Typed
  <1>2. CASE next_index < Capacity
    <2>1. /\ call' = [call EXCEPT ![t].slot = next_index + 1]
          /\ at' = [at EXCEPT ![t] = "committing"] /\ did' = did
      BY <1>1, <1>2 DEF Reserve, Goto
    <2>2. next_index + 1 \in 0 .. Capacity
      BY <1>1, <1>2
    <2>3. /\ call' \in [Threads -> Calls] /\ call'[t].slot = next_index + 1
          /\ call'[t].event = call[t].event /\ call'[t].then = call[t].then
          /\ call'[t].subject = call[t].subject /\ call'[t].key = call[t].key
          /\ call'[t].found = call[t].found
          /\ \A u \in Threads \ {t} : call'[u] = call[u]
      BY <1>1, <2>1, <2>2 DEF Calls
    <2>4. /\ at' \in [Threads -> Labels] /\ at'[t] = "committing"
          /\ \A u \in Threads \ {t} : at'[u] = at[u]
      BY <1>1, <2>1 DEF Labels
    <2>5. QED
      BY <1>1, <1>2, <2>1, <2>3, <2>4 DEF Reserve, Typed, Others, SameTale, heapVars, threadVars
  <1>3. CASE ~(next_index < Capacity)
    <2>1. at' = [at EXCEPT ![t] = "failing"] /\ UNCHANGED <<call, did>>
      BY <1>1, <1>3 DEF Reserve, Goto
    <2>2. /\ at' \in [Threads -> Labels] /\ at'[t] = "failing"
          /\ \A u \in Threads \ {t} : at'[u] = at[u]
      BY <1>1, <2>1 DEF Labels
    <2>3. QED
      BY <1>1, <1>3, <2>1, <2>2 DEF Reserve, Typed, Others, SameTale, heapVars, threadVars
  <1>4. QED
    BY <1>2, <1>3

\* commit_event fills the slot reserved.
LEMMA CommitStep ==
  ASSUME Typed, SlotsInv, EventsInv, NEW t \in Threads, Commit(t)
  PROVE  /\ Typed' /\ Others(t) /\ UNCHANGED <<call, did>>
         /\ at[t] = "committing" /\ at'[t] = call[t].then
         /\ UNCHANGED <<next_index, overflow, heapVars, next_instance, threadVars, thread_map>>
         /\ call[t].slot \in 2 .. Capacity /\ call[t].slot <= next_index
         /\ slots[call[t].slot] = NULL
         /\ call[t].event \in Events
         /\ slots'[call[t].slot] = call[t].event
         /\ \A n \in 1 .. Capacity : n # call[t].slot => slots'[n] = slots[n]
  <1>1. /\ call \in [Threads -> Calls] /\ at \in [Threads -> Labels]
        /\ slots \in [1 .. Capacity -> Events \cup {NULL}] /\ Capacity \in Nat
    BY CaptureAssumption DEF Typed
  <1>2. /\ at[t] = "committing" /\ at' = [at EXCEPT ![t] = call[t].then]
        /\ slots' = [slots EXCEPT ![call[t].slot] = call[t].event]
    BY DEF Commit, Goto
  <1>3. /\ call[t].slot \in 2 .. Capacity /\ call[t].slot <= next_index
        /\ slots[call[t].slot] = NULL
    BY <1>1, <1>2 DEF SlotsInv, Typed
  <1>4. call[t].event \in Events /\ call[t].then \in Labels
    BY <1>1, <1>2 DEF EventsInv, Pending, Calls
  <1>5. /\ slots' \in [1 .. Capacity -> Events \cup {NULL}]
        /\ slots'[call[t].slot] = call[t].event
        /\ \A n \in 1 .. Capacity : n # call[t].slot => slots'[n] = slots[n]
    BY <1>1, <1>2, <1>3, <1>4
  <1>6. /\ at' \in [Threads -> Labels] /\ at'[t] = call[t].then
        /\ \A u \in Threads \ {t} : at'[u] = at[u]
    BY <1>1, <1>2, <1>4
  <1>7. QED
    BY <1>2, <1>3, <1>4, <1>5, <1>6 DEF Commit, Typed, Others, heapVars, threadVars

\* The overflow flag, and then the exit of the process.
LEMMA FlagStep ==
  ASSUME Typed, NEW t \in Threads, Flag(t)
  PROVE  /\ Typed' /\ Others(t) /\ UNCHANGED <<call, did>>
         /\ at[t] = "failing" /\ at'[t] = "exiting" /\ overflow'
         /\ UNCHANGED <<next_index, slots, heapVars, next_instance, threadVars, thread_map>>
  <1>1. at \in [Threads -> Labels] /\ at' = [at EXCEPT ![t] = "exiting"]
    BY DEF Typed, Flag, Goto
  <1>2. /\ at' \in [Threads -> Labels] /\ at'[t] = "exiting"
        /\ \A u \in Threads \ {t} : at'[u] = at[u]
    BY <1>1 DEF Labels
  <1>3. QED
    BY <1>2 DEF Flag, Typed, Others, heapVars, threadVars

\* The exit takes every thread along.
LEMMA ExitStep ==
  ASSUME Typed, NEW t \in Threads, ExitGroup(t)
  PROVE  /\ Typed' /\ UNCHANGED <<call, did, fileVars, heapVars, next_instance, threadVars, thread_map>>
         /\ at[t] = "exiting" /\ \A u \in Threads : at'[u] = "killed"
  <1>1. at' = [u \in Threads |-> "killed"]
    BY DEF ExitGroup
  <1>2. at' \in [Threads -> Labels] /\ \A u \in Threads : at'[u] = "killed"
    BY <1>1 DEF Labels
  <1>3. QED
    BY <1>2 DEF ExitGroup, Typed, fileVars, heapVars, threadVars

\* A thread at a place of its own begins to log event e and will go on at "then".
Begins(t, e, then) ==
  /\ e \in Events /\ e.tid = instance[t]
  /\ call'[t].event = e /\ call'[t].then = then /\ call'[t].slot = call[t].slot
  /\ call'[t].subject = call[t].subject /\ call'[t].key = call[t].key
  /\ call'[t].found = call[t].found
  /\ did'[t] = Append(did[t], e) /\ at'[t] = "reserving"

\* LogStep in these terms.
LEMMA LogBegins ==
  ASSUME Typed, NEW t \in Threads, NEW type, NEW address, NEW result, NEW then,
         Loggable(type, address, result, then), Log(t, type, address, result, then)
  PROVE  /\ call' \in [Threads -> Calls] /\ did' \in [Threads -> Seq(Events)]
         /\ at' \in [Threads -> Labels]
         /\ Others(t)
         /\ \E e \in Events : /\ Begins(t, e, then)
                              /\ e.type = type /\ e.address = address /\ e.result = result
  <1> DEFINE e == Event(type, instance[t], address, result)
  <1>1. e.type = type /\ e.tid = instance[t] /\ e.address = address /\ e.result = result
    BY DEF Event
  <1>2. e \in Events /\ Begins(t, e, then)
    BY <1>1, LogStep DEF Begins
  <1>3. QED
    BY <1>1, <1>2, LogStep DEF Others

\* What a budget leaves is a number.
LEMMA AskStep ==
  ASSUME Typed, Ask("blocks") \/ Ask("threads")
  PROVE  /\ budget' \in [blocks : Nat, threads : Nat, entries : Nat \ {0}]
         /\ budget'.entries = budget.entries
  <1>1. CASE Ask("blocks")
    <2>1. budget.blocks > 0 /\ budget' = [budget EXCEPT !.blocks = budget.blocks - 1]
      BY <1>1 DEF Ask
    <2>2. budget \in [blocks : Nat, threads : Nat, entries : Nat \ {0}]
      BY DEF Typed
    <2>3. QED
      BY <2>1, <2>2
  <1>2. CASE Ask("threads")
    <2>1. budget.threads > 0 /\ budget' = [budget EXCEPT !.threads = budget.threads - 1]
      BY <1>2 DEF Ask
    <2>2. budget \in [blocks : Nat, threads : Nat, entries : Nat \ {0}]
      BY DEF Typed
    <2>3. QED
      BY <2>1, <2>2
  <1>3. QED
    BY <1>1, <1>2

\* The types are kept by steps of the log and of the heap.
LEMMA TypedFrame ==
  ASSUME Typed, UNCHANGED <<fileVars, next_instance, threadVars, thread_map>>,
         budget' \in [blocks : Nat, threads : Nat, entries : Nat \ {0}],
         budget'.entries = budget.entries, heap' \subseteq Addresses,
         call' \in [Threads -> Calls], did' \in [Threads -> Seq(Events)],
         at' \in [Threads -> Labels]
  PROVE  Typed'
  <1>1. /\ next_index' = next_index /\ overflow' = overflow /\ slots' = slots
        /\ next_instance' = next_instance /\ instance' = instance /\ handle' = handle
        /\ detached' = detached /\ claimed' = claimed /\ parent_ready' = parent_ready
        /\ thread_map' = thread_map
    BY DEF fileVars, threadVars
  <1>2. QED
    BY <1>1 DEF Typed

\* The budget when nothing is asked for.
LEMMA BudgetStays ==
  ASSUME Typed, UNCHANGED budget
  PROVE  /\ budget' \in [blocks : Nat, threads : Nat, entries : Nat \ {0}]
         /\ budget'.entries = budget.entries
  BY DEF Typed

\* malloc: a free address or none.
LEMMA MallocStep ==
  ASSUME Typed, NEW t \in Threads, Malloc(t)
  PROVE  /\ Typed' /\ Others(t) /\ at[t] = "idle"
         /\ UNCHANGED <<fileVars, blocks, next_instance, threadVars, thread_map>>
         /\ \E a \in (Addresses \ heap) \cup {NULL} :
              /\ heap' = heap \cup ({a} \ {NULL})
              /\ \E e \in Events : Begins(t, e, "returning") /\ e.type = "malloc" /\ e.result = a
  <1>1. PICK a \in (Addresses \ heap) \cup {NULL} :
          /\ heap' = heap \cup ({a} \ {NULL})
          /\ Log(t, "malloc", NULL, a, "returning")
    BY DEF Malloc
  <1>2. Loggable("malloc", NULL, a, "returning")
    BY DEF Loggable, EventTypes, AllocTypes, Labels
  <1>3. /\ call' \in [Threads -> Calls] /\ did' \in [Threads -> Seq(Events)]
        /\ at' \in [Threads -> Labels] /\ Others(t)
        /\ \E e \in Events : Begins(t, e, "returning") /\ e.type = "malloc" /\ e.result = a
    BY <1>1, <1>2, LogBegins
  <1>4. heap' \subseteq Addresses
    BY <1>1 DEF Typed
  <1>5. /\ budget' \in [blocks : Nat, threads : Nat, entries : Nat \ {0}]
        /\ budget'.entries = budget.entries
    BY AskStep DEF Malloc
  <1>6. /\ at[t] = "idle"
        /\ UNCHANGED <<fileVars, blocks, next_instance, threadVars, thread_map>>
    BY DEF Malloc
  <1>7. Typed'
    BY <1>3, <1>4, <1>5, <1>6, TypedFrame
  <1>8. QED
    BY <1>1, <1>3, <1>6, <1>7

\* realloc: the block stays, moves, is released, or the call fails.
LEMMA ReallocStep ==
  ASSUME Typed, NEW t \in Threads, blocks \subseteq heap, Realloc(t)
  PROVE  /\ Typed' /\ Others(t) /\ at[t] = "idle"
         /\ UNCHANGED <<fileVars, next_instance, threadVars, thread_map>>
         /\ \E a \in blocks, e \in Events :
              /\ blocks' = blocks \ {a} /\ Begins(t, e, "returning") /\ e.address = a
              /\ \/ /\ e.type = "realloc"
                    /\ \E b \in (Addresses \ heap) \cup {a} :
                         heap' = (heap \ {a}) \cup {b} /\ e.result = b
                 \/ e.type = "realloc" /\ heap' = heap \ {a} /\ e.result = NULL
                 \/ e.type = "realloc_failed" /\ heap' = heap
  <1> DEFINE Outcome(e, a) ==
               \/ /\ e.type = "realloc"
                  /\ \E b \in (Addresses \ heap) \cup {a} :
                       heap' = (heap \ {a}) \cup {b} /\ e.result = b
               \/ e.type = "realloc" /\ heap' = heap \ {a} /\ e.result = NULL
               \/ e.type = "realloc_failed" /\ heap' = heap
             Shape == /\ call' \in [Threads -> Calls] /\ did' \in [Threads -> Seq(Events)]
                      /\ at' \in [Threads -> Labels] /\ Others(t)
  <1>1. PICK a \in blocks :
          /\ blocks' = blocks \ {a}
          /\ \/ \E b \in (Addresses \ heap) \cup {a} :
                  /\ heap' = (heap \ {a}) \cup {b}
                  /\ Log(t, "realloc", a, b, "returning")
             \/ heap' = heap \ {a} /\ Log(t, "realloc", a, NULL, "returning")
             \/ UNCHANGED heap /\ Log(t, "realloc_failed", a, NULL, "returning")
    BY DEF Realloc
  <1>2. /\ "realloc" \in EventTypes /\ "realloc_failed" \in EventTypes
        /\ "returning" \in Labels
    BY DEF EventTypes, AllocTypes, Labels
  <1>3. a \in Addresses /\ heap \subseteq Addresses
    BY DEF Typed
  <1>4. /\ Shape /\ heap' \subseteq Addresses
        /\ \E e \in Events : Begins(t, e, "returning") /\ e.address = a /\ Outcome(e, a)
    <2>1. ASSUME NEW b \in (Addresses \ heap) \cup {a}, heap' = (heap \ {a}) \cup {b},
                 Log(t, "realloc", a, b, "returning")
          PROVE  /\ Shape /\ heap' \subseteq Addresses
                 /\ \E e \in Events : Begins(t, e, "returning") /\ e.address = a /\ Outcome(e, a)
      <3>1. heap' \subseteq Addresses
        BY <1>3, <2>1
      <3>2. Loggable("realloc", a, b, "returning")
        BY <1>2, <1>3 DEF Loggable
      <3>3. Log(t, "realloc", a, b, "returning")
        BY <2>1
      <3>4. /\ Shape
            /\ \E e \in Events : /\ Begins(t, e, "returning")
                                 /\ e.type = "realloc" /\ e.address = a /\ e.result = b
        BY <3>2, <3>3, LogBegins
      <3>5. QED
        BY <2>1, <3>1, <3>4
    <2>2. ASSUME heap' = heap \ {a}, Log(t, "realloc", a, NULL, "returning")
          PROVE  /\ Shape /\ heap' \subseteq Addresses
                 /\ \E e \in Events : Begins(t, e, "returning") /\ e.address = a /\ Outcome(e, a)
      <3>1. heap' \subseteq Addresses
        BY <1>3, <2>2
      <3>2. Loggable("realloc", a, NULL, "returning")
        BY <1>2, <1>3 DEF Loggable
      <3>3. Log(t, "realloc", a, NULL, "returning")
        BY <2>2
      <3>4. /\ Shape
            /\ \E e \in Events : /\ Begins(t, e, "returning")
                                 /\ e.type = "realloc" /\ e.address = a /\ e.result = NULL
        BY <3>2, <3>3, LogBegins
      <3>5. QED
        BY <2>2, <3>1, <3>4
    <2>3. ASSUME heap' = heap, Log(t, "realloc_failed", a, NULL, "returning")
          PROVE  /\ Shape /\ heap' \subseteq Addresses
                 /\ \E e \in Events : Begins(t, e, "returning") /\ e.address = a /\ Outcome(e, a)
      <3>1. heap' \subseteq Addresses
        BY <1>3, <2>3
      <3>2. Loggable("realloc_failed", a, NULL, "returning")
        BY <1>2, <1>3 DEF Loggable
      <3>3. Log(t, "realloc_failed", a, NULL, "returning")
        BY <2>3
      <3>4. /\ Shape
            /\ \E e \in Events : /\ Begins(t, e, "returning")
                                 /\ e.type = "realloc_failed" /\ e.address = a /\ e.result = NULL
        BY <3>2, <3>3, LogBegins
      <3>5. QED
        BY <2>3, <3>1, <3>4
    <2>4. QED
      BY <1>1, <2>1, <2>2, <2>3
  <1>5. /\ budget' \in [blocks : Nat, threads : Nat, entries : Nat \ {0}]
        /\ budget'.entries = budget.entries
    BY AskStep DEF Realloc
  <1>6. at[t] = "idle" /\ UNCHANGED <<fileVars, next_instance, threadVars, thread_map>>
    BY DEF Realloc
  <1>7. Typed'
    BY <1>4, <1>5, <1>6, TypedFrame
  <1>8. QED
    BY <1>1, <1>4, <1>6, <1>7

\* A thread's call is over: nothing of it is kept.
Ends(t) ==
  /\ call'[t].event = NULL /\ call'[t].subject = NULL /\ call'[t].found = 0
  /\ did'[t] = did[t]

\* The record of no call.
LEMMA NoCallTyped ==
  NoCall \in Calls /\ NoCall.event = NULL /\ NoCall.subject = NULL /\ NoCall.found = 0
  BY CaptureAssumption DEF NoCall, Calls, Labels

\* A thread that forgets its call.
LEMMA EndsCall ==
  ASSUME Typed, NEW t \in Threads, call' = [call EXCEPT ![t] = NoCall], UNCHANGED did,
         NEW label \in Labels, Goto(t, label)
  PROVE  /\ call' \in [Threads -> Calls] /\ at' \in [Threads -> Labels]
         /\ Others(t) /\ Ends(t) /\ at'[t] = label
  BY NoCallTyped DEF Typed, Goto, Others, Ends

\* The call returns its block to the program.
LEMMA ReturnStep ==
  ASSUME Typed, NEW t \in Threads, Return(t)
  PROVE  /\ Typed' /\ Others(t) /\ Ends(t) /\ at[t] = "returning" /\ at'[t] = "idle"
         /\ UNCHANGED <<fileVars, heap, next_instance, threadVars, thread_map, did>>
         /\ blocks' = blocks \cup (IF call[t].event.type = "realloc_failed"
                                     THEN {call[t].event.address}
                                     ELSE {call[t].event.result} \ {NULL})
  <1>1. "idle" \in Labels
    BY DEF Labels
  <1>2. /\ call' \in [Threads -> Calls] /\ at' \in [Threads -> Labels]
        /\ Others(t) /\ Ends(t) /\ at'[t] = "idle"
    BY <1>1, EndsCall DEF Return
  <1>3. /\ at[t] = "returning"
        /\ UNCHANGED <<budget, fileVars, heap, next_instance, threadVars, thread_map, did>>
    BY DEF Return
  <1>5. blocks' = blocks \cup (IF call[t].event.type = "realloc_failed"
                                THEN {call[t].event.address}
                                ELSE {call[t].event.result} \ {NULL})
    BY DEF Return
  <1>4. Typed'
    <2>1. heap' \subseteq Addresses
      BY <1>3 DEF Typed
    <2>2. did' \in [Threads -> Seq(Events)]
      BY <1>3 DEF Typed
    <2>3. QED
      BY <1>2, <1>3, <2>1, <2>2, BudgetStays, TypedFrame
  <1>6. QED
    BY <1>2, <1>3, <1>4, <1>5

\* free takes a block from the program.
LEMMA FreeStep ==
  ASSUME Typed, NEW t \in Threads, blocks \subseteq heap, Free(t)
  PROVE  /\ Typed' /\ Others(t) /\ at[t] = "idle"
         /\ UNCHANGED <<fileVars, heap, next_instance, threadVars, thread_map>>
         /\ \E a \in blocks, e \in Events :
              /\ blocks' = blocks \ {a} /\ Begins(t, e, "freeing")
              /\ e.type = "free" /\ e.address = a
  <1>1. PICK a \in blocks : blocks' = blocks \ {a} /\ Log(t, "free", a, NULL, "freeing")
    BY DEF Free
  <1>2. Loggable("free", a, NULL, "freeing")
    <2>1. "free" \in EventTypes /\ "freeing" \in Labels
      BY DEF EventTypes, Labels
    <2>2. heap \subseteq Addresses
      BY DEF Typed
    <2>3. QED
      BY <2>1, <2>2 DEF Loggable
  <1>3. /\ call' \in [Threads -> Calls] /\ did' \in [Threads -> Seq(Events)]
        /\ at' \in [Threads -> Labels] /\ Others(t)
        /\ \E e \in Events : Begins(t, e, "freeing") /\ e.type = "free" /\ e.address = a
    BY <1>1, <1>2, LogBegins
  <1>4. /\ at[t] = "idle"
        /\ UNCHANGED <<budget, fileVars, heap, next_instance, threadVars, thread_map>>
    BY DEF Free
  <1>5. Typed'
    <2>1. heap' \subseteq Addresses
      BY <1>4 DEF Typed
    <2>2. QED
      BY <1>3, <1>4, <2>1, BudgetStays, TypedFrame
  <1>6. QED
    BY <1>1, <1>3, <1>4, <1>5

\* The real free releases it.
LEMMA RealFreeStep ==
  ASSUME Typed, NEW t \in Threads, RealFree(t)
  PROVE  /\ Typed' /\ Others(t) /\ Ends(t) /\ at[t] = "freeing" /\ at'[t] = "idle"
         /\ UNCHANGED <<fileVars, blocks, next_instance, threadVars, thread_map, did>>
         /\ heap' = heap \ {call[t].event.address}
  <1>1. "idle" \in Labels
    BY DEF Labels
  <1>2. /\ call' \in [Threads -> Calls] /\ at' \in [Threads -> Labels]
        /\ Others(t) /\ Ends(t) /\ at'[t] = "idle"
    BY <1>1, EndsCall DEF RealFree
  <1>3. /\ at[t] = "freeing" /\ heap' = heap \ {call[t].event.address}
        /\ UNCHANGED <<budget, fileVars, blocks, next_instance, threadVars, thread_map, did>>
    BY DEF RealFree
  <1>4. Typed'
    <2>1. heap' \subseteq Addresses
      BY <1>3 DEF Typed
    <2>2. did' \in [Threads -> Seq(Events)]
      BY <1>3 DEF Typed
    <2>3. QED
      BY <1>2, <1>3, <2>1, <2>2, BudgetStays, TypedFrame
  <1>5. QED
    BY <1>2, <1>3, <1>4

------------------------------------------------------------------------------
(* The thread map. *)

\* A used entry names a handle and a number; the others are not used.
LEMMA EntryKinds ==
  /\ EMPTY.state # "used" /\ DELETED.state # "used"
  /\ \A h, i : Used(h, i).state = "used" /\ Used(h, i).key = h /\ Used(h, i).instance = i
  BY DEF EMPTY, DELETED, Used

\* More numbers are more entries.
LEMMA EntriesGrow ==
  ASSUME NEW n \in Nat
  PROVE  Entries(n) \subseteq Entries(n + 1)
  <1>1. 1 .. n - 1 \subseteq 1 .. (n + 1) - 1
    OBVIOUS
  <1>2. QED
    BY <1>1 DEF Entries

\* What a used entry says.
LEMMA UsedEntry ==
  ASSUME NEW n \in Nat, NEW x \in Entries(n), x.state = "used"
  PROVE  x.instance \in 1 .. n - 1
  <1>1. x # EMPTY /\ x # DELETED
    BY EntryKinds
  <1>2. PICK h \in Handles, i \in 1 .. n - 1 : x = Used(h, i)
    BY <1>1 DEF Entries
  <1>3. QED
    BY <1>2, EntryKinds

\* The type of the map in these terms.
LEMMA MapTyped ==
  ASSUME Typed
  PROVE  /\ thread_map \in [0 .. budget.entries - 1 -> Entries(next_instance)]
         /\ budget.entries \in Nat \ {0} /\ next_instance \in Nat
  BY DEF Typed

\* Every probe is inside the map.
LEMMA ProbeInside ==
  ASSUME Typed, NEW h \in Handles, NEW n \in Nat
  PROVE  Probe(h, n) \in 0 .. budget.entries - 1
  <1>1. Home[h] \in Nat
    BY CaptureAssumption
  <1> DEFINE k == budget.entries
             s == Home[h] + n
  <1>2. k \in Nat /\ k > 0 /\ s \in Nat
    BY <1>1, MapTyped
  <1> HIDE DEF k, s
  <1>3. s % k \in 0 .. k - 1
    BY <1>2
  <1>4. QED
    BY <1>3 DEF Probe, k, s

\* A search that ends, ends inside the map, at an entry of the handle or an
\* empty one.
LEMMA EntryInside ==
  ASSUME Typed, NEW h \in Handles, Stops(h) # {}
  PROVE  /\ Min(Stops(h)) \in Nat /\ Entry(h) \in 0 .. budget.entries - 1
         /\ thread_map[Entry(h)] = EMPTY \/ Holds(h, Entry(h))
  <1>1. Stops(h) \in SUBSET Nat
    BY MapTyped DEF Stops
  <1>2. Min(Stops(h)) \in Stops(h) /\ Min(Stops(h)) \in Nat
    BY <1>1, MinIsLeast
  <1> DEFINE m == Min(Stops(h))
  <1>3. thread_map[Probe(h, m)] = EMPTY \/ Holds(h, Probe(h, m))
    BY <1>2 DEF Stops
  <1>4. QED
    BY <1>2, <1>3, ProbeInside DEF Entry

\* thread_map_get gives a number that was given out, or 0.
LEMMA GetNumber ==
  ASSUME Typed, NEW h \in Handles
  PROVE  Get(h) \in 0 .. next_instance - 1
  <1>1. CASE Found(h)
    <2>1. Entry(h) \in 0 .. budget.entries - 1 /\ thread_map[Entry(h)].state = "used"
      BY <1>1, EntryInside DEF Found, Holds
    <2>2. thread_map[Entry(h)] \in Entries(next_instance) /\ next_instance \in Nat
      BY <2>1, MapTyped
    <2>3. thread_map[Entry(h)].instance \in 1 .. next_instance - 1
      BY <2>1, <2>2, UsedEntry
    <2>4. QED
      BY <1>1, <2>2, <2>3 DEF Get
  <1>2. CASE ~Found(h)
    <2>1. 0 < next_instance
      BY CaptureAssumption, MapTyped DEF Typed
    <2>2. QED
      BY <1>2, <2>1, MapTyped DEF Get
  <1>3. QED
    BY <1>1, <1>2

\* thread_map_put finds its place inside the map.
LEMMA PlaceInside ==
  ASSUME Typed, NEW h \in Handles, Stops(h) # {}
  PROVE  PutPlace(h) \in 0 .. budget.entries - 1
  <1> DEFINE deleted == { n \in 0 .. Min(Stops(h)) : thread_map[Probe(h, n)] = DELETED }
  <1>1. Min(Stops(h)) \in Nat /\ Entry(h) \in 0 .. budget.entries - 1
    BY EntryInside
  <1>2. deleted \in SUBSET Nat
    BY <1>1
  <1>3. deleted # {} => Min(deleted) \in Nat
    BY <1>2, MinIsLeast
  <1>4. deleted # {} => Probe(h, Min(deleted)) \in 0 .. budget.entries - 1
    BY <1>3, ProbeInside
  <1>5. PutPlace(h) = IF Found(h) \/ deleted = {} THEN Entry(h) ELSE Probe(h, Min(deleted))
    BY DEF PutPlace
  <1>6. QED
    BY <1>1, <1>4, <1>5

------------------------------------------------------------------------------
(* What the steps of the threads do. *)

\* The types are kept by steps that leave the file and the heap alone.
LEMMA TypedThreads ==
  ASSUME Typed, UNCHANGED <<fileVars, heapVars>>,
         budget' \in [blocks : Nat, threads : Nat, entries : Nat \ {0}],
         budget'.entries = budget.entries, next_instance' \in Nat,
         instance' \in [Threads -> 0 .. next_instance' - 1],
         handle' \in [Threads -> Handles \cup {NULL}],
         detached' \in [Threads -> BOOLEAN], claimed' \in [Threads -> BOOLEAN],
         parent_ready' \in [Threads -> BOOLEAN],
         thread_map' \in [0 .. budget.entries - 1 -> Entries(next_instance')],
         call' \in [Threads -> Calls], did' \in [Threads -> Seq(Events)],
         at' \in [Threads -> Labels]
  PROVE  Typed'
  <1>1. next_index' = next_index /\ overflow' = overflow /\ slots' = slots /\ heap' = heap
    BY DEF fileVars, heapVars
  <1>2. QED
    BY <1>1 DEF Typed

\* pthread_create: a new number, a free handle, and a thread that waits.
LEMMA CreateStep ==
  ASSUME Typed, NEW t \in Threads, NEW u \in Threads, Create(t, u)
  PROVE  /\ Typed' /\ at[t] = "idle" /\ at[u] = "unborn" /\ t # u
         /\ UNCHANGED <<fileVars, heapVars, claimed, parent_ready, thread_map, did>>
         /\ next_instance' = next_instance + 1 /\ instance'[u] = next_instance
         /\ at'[t] = "registering" /\ at'[u] = "waiting"
         /\ call'[t].event = call[t].event /\ call'[t].then = call[t].then
         /\ call'[t].slot = call[t].slot /\ call'[t].found = call[t].found
         /\ call'[t].subject = u /\ call'[t].key = handle'[u] /\ handle'[u] \in Handles
         /\ \A v \in Threads : handle[v] # handle'[u]
         /\ \A v \in Threads \ {t} : call'[v] = call[v]
         /\ \A v \in Threads \ {u} :
              /\ instance'[v] = instance[v] /\ handle'[v] = handle[v]
              /\ detached'[v] = detached[v]
         /\ \A v \in Threads \ {t, u} : at'[v] = at[v]
  <1>1. PICK h \in Handles \ { handle[v] : v \in Threads }, d \in BOOLEAN :
          /\ handle' = [handle EXCEPT ![u] = h]
          /\ detached' = [detached EXCEPT ![u] = d]
          /\ call' = [call EXCEPT ![t].subject = u, ![t].key = h]
    BY DEF Create
  <1>2. /\ at[t] = "idle" /\ at[u] = "unborn" /\ t # u
        /\ UNCHANGED <<fileVars, heapVars, claimed, parent_ready, thread_map, did>>
        /\ next_instance' = next_instance + 1
        /\ instance' = [instance EXCEPT ![u] = next_instance]
        /\ at' = [at EXCEPT ![t] = "registering", ![u] = "waiting"]
    BY DEF Create
  <1>3. /\ at' \in [Threads -> Labels] /\ at'[t] = "registering" /\ at'[u] = "waiting"
        /\ \A v \in Threads \ {t, u} : at'[v] = at[v]
    <2>1. at \in [Threads -> Labels]
      BY DEF Typed
    <2>2. "registering" \in Labels /\ "waiting" \in Labels
      BY DEF Labels
    <2>3. QED
      BY <1>2, <2>1, <2>2
  <1>4. /\ call' \in [Threads -> Calls]
        /\ call'[t].event = call[t].event /\ call'[t].then = call[t].then
        /\ call'[t].slot = call[t].slot /\ call'[t].found = call[t].found
        /\ call'[t].subject = u /\ call'[t].key = h
        /\ \A v \in Threads \ {t} : call'[v] = call[v]
    <2>1. call \in [Threads -> Calls]
      BY DEF Typed
    <2>2. QED
      BY <1>1, <2>1 DEF Calls
  <1>5. /\ handle' \in [Threads -> Handles \cup {NULL}] /\ handle'[u] = h
        /\ \A v \in Threads \ {u} : handle'[v] = handle[v]
        /\ \A v \in Threads : handle[v] # h
    BY <1>1 DEF Typed
  <1>6. /\ detached' \in [Threads -> BOOLEAN]
        /\ \A v \in Threads \ {u} : detached'[v] = detached[v]
    BY <1>1 DEF Typed
  <1>7. /\ next_instance' \in Nat /\ instance' \in [Threads -> 0 .. next_instance' - 1]
        /\ instance'[u] = next_instance
        /\ \A v \in Threads \ {u} : instance'[v] = instance[v]
    <2>1. next_instance \in Nat /\ instance \in [Threads -> 0 .. next_instance - 1]
      BY DEF Typed
    <2>2. QED
      BY <1>2, <2>1
  <1>8. thread_map' \in [0 .. budget.entries - 1 -> Entries(next_instance')]
    <2>1. Entries(next_instance) \subseteq Entries(next_instance')
      BY <1>2, MapTyped, EntriesGrow
    <2>2. QED
      BY <1>2, <2>1, MapTyped
  <1>9. /\ budget' \in [blocks : Nat, threads : Nat, entries : Nat \ {0}]
        /\ budget'.entries = budget.entries
    BY AskStep DEF Create
  <1>10. /\ claimed' \in [Threads -> BOOLEAN] /\ parent_ready' \in [Threads -> BOOLEAN]
         /\ did' \in [Threads -> Seq(Events)]
    BY <1>2 DEF Typed
  <1>11. Typed'
    BY <1>2, <1>3, <1>4, <1>5, <1>6, <1>7, <1>8, <1>9, <1>10, TypedThreads
  <1>12. QED
    BY <1>1, <1>2, <1>3, <1>4, <1>5, <1>6, <1>7, <1>11

\* A failed pthread_create costs its number.
LEMMA CreateFailsStep ==
  ASSUME Typed, NEW t \in Threads, CreateFails(t)
  PROVE  /\ Typed' /\ next_instance' = next_instance + 1
         /\ UNCHANGED <<fileVars, heapVars, threadVars, thread_map, at, call, did>>
  <1>1. /\ next_instance' = next_instance + 1
        /\ UNCHANGED <<fileVars, heapVars, threadVars, thread_map, at, call, did>>
    BY DEF CreateFails
  <1>2. /\ budget' \in [blocks : Nat, threads : Nat, entries : Nat \ {0}]
        /\ budget'.entries = budget.entries
    BY AskStep DEF CreateFails
  <1>3. thread_map' \in [0 .. budget.entries - 1 -> Entries(next_instance')]
    <2>1. Entries(next_instance) \subseteq Entries(next_instance')
      BY <1>1, MapTyped, EntriesGrow
    <2>2. QED
      BY <1>1, <2>1, MapTyped
  <1>4. next_instance' \in Nat /\ instance' \in [Threads -> 0 .. next_instance' - 1]
    <2>1. next_instance \in Nat /\ instance \in [Threads -> 0 .. next_instance - 1]
      BY DEF Typed
    <2>2. next_instance' = next_instance + 1 /\ instance' = instance
      BY <1>1 DEF threadVars
    <2>3. QED
      BY <2>1, <2>2
  <1>5. /\ handle' \in [Threads -> Handles \cup {NULL}]
        /\ detached' \in [Threads -> BOOLEAN] /\ claimed' \in [Threads -> BOOLEAN]
        /\ parent_ready' \in [Threads -> BOOLEAN]
        /\ call' \in [Threads -> Calls] /\ did' \in [Threads -> Seq(Events)]
        /\ at' \in [Threads -> Labels]
    BY <1>1 DEF Typed, threadVars
  <1>6. Typed'
    BY <1>1, <1>2, <1>3, <1>4, <1>5, TypedThreads
  <1>7. QED
    BY <1>1, <1>6

\* The thread that is being created.
LEMMA CreatingSubject ==
  ASSUME CallInv, NEW t \in Threads, Creating(t)
  PROVE  /\ call[t].subject \in Threads /\ call[t].subject # Initial
         /\ instance[call[t].subject] # 0 /\ call[t].key \in Handles
         /\ at[call[t].subject] = "waiting" /\ ~parent_ready[call[t].subject]
         /\ ~claimed[call[t].subject] /\ handle[call[t].subject] = call[t].key
  <1>1. LET u == call[t].subject
        IN  /\ u \in Threads /\ u # Initial /\ at[u] = "waiting" /\ ~parent_ready[u] /\ ~claimed[u]
            /\ call[t].key \in Handles /\ handle[u] = call[t].key
    BY DEF CallInv
  <1>2. call[t].subject # NULL
    BY <1>1, NullIsNobody
  <1>3. instance[call[t].subject] # 0
    BY <1>2 DEF CallInv
  <1>4. QED
    BY <1>1, <1>3

\* A number that is not 0 was given out.
LEMMA NumberGiven ==
  ASSUME Typed, NEW t \in Threads, instance[t] # 0
  PROVE  instance[t] \in 1 .. next_instance - 1
  <1>1. instance \in [Threads -> 0 .. next_instance - 1] /\ next_instance \in Nat
    BY DEF Typed
  <1>2. QED
    BY <1>1

\* The creating thread puts the new one into the map and logs the creation, or
\* finds the map full and fails.
LEMMA RegisterStep ==
  ASSUME Typed, CallInv, NEW t \in Threads, Register(t)
  PROVE  /\ Typed' /\ Others(t) /\ at[t] = "registering"
         /\ UNCHANGED <<fileVars, heapVars, next_instance, threadVars>>
         /\ \/ /\ Stops(call[t].key) # {}
               /\ thread_map' = [thread_map EXCEPT ![PutPlace(call[t].key)] =
                                   Used(call[t].key, instance[call[t].subject])]
               /\ \E e \in Events : /\ Begins(t, e, "created") /\ e.type = "create"
                                    /\ e.result = instance[call[t].subject]
                                    /\ e.result \in 1 .. next_instance - 1
            \/ at'[t] = "failing" /\ UNCHANGED <<thread_map, call, did>>
  <1> DEFINE h == call[t].key
             i == instance[call[t].subject]
  <1>1. /\ at[t] = "registering"
        /\ UNCHANGED <<budget, fileVars, heapVars, next_instance>>
    BY DEF Register
  <1>2. h \in Handles /\ call[t].subject \in Threads /\ i # 0
    <2>1. Creating(t)
      BY <1>1 DEF Creating
    <2>2. QED
      BY <2>1, CreatingSubject DEF h, i
  <1>3. i \in 1 .. next_instance - 1
    BY <1>2, NumberGiven
  <1> HIDE DEF h, i
  <1>4. CASE Stops(h) # {}
    <2>1. /\ thread_map' = [thread_map EXCEPT ![PutPlace(h)] = Used(h, i)]
          /\ UNCHANGED threadVars /\ Log(t, "create", NULL, i, "created")
      BY <1>4 DEF Register, h, i
    <2>2. Loggable("create", NULL, i, "created")
      BY <1>3 DEF Loggable, EventTypes, ThreadTypes, Labels
    <2>3. /\ call' \in [Threads -> Calls] /\ did' \in [Threads -> Seq(Events)]
          /\ at' \in [Threads -> Labels] /\ Others(t)
          /\ \E e \in Events : Begins(t, e, "created") /\ e.type = "create" /\ e.result = i
      BY <2>1, <2>2, LogBegins
    <2>4. thread_map' \in [0 .. budget.entries - 1 -> Entries(next_instance')]
      <3>1. PutPlace(h) \in 0 .. budget.entries - 1
        BY <1>2, <1>4, PlaceInside
      <3>2. Used(h, i) \in Entries(next_instance)
        BY <1>2, <1>3 DEF Entries
      <3>3. next_instance' = next_instance
        BY <1>1
      <3>4. QED
        BY <2>1, <3>1, <3>2, <3>3, MapTyped
    <2>5. Typed'
      <3>1. /\ next_instance' \in Nat /\ instance' \in [Threads -> 0 .. next_instance' - 1]
            /\ handle' \in [Threads -> Handles \cup {NULL}]
            /\ detached' \in [Threads -> BOOLEAN] /\ claimed' \in [Threads -> BOOLEAN]
            /\ parent_ready' \in [Threads -> BOOLEAN]
        BY <1>1, <2>1 DEF Typed, threadVars
      <3>2. QED
        BY <1>1, <2>3, <2>4, <3>1, BudgetStays, TypedThreads
    <2>6. QED
      BY <1>1, <1>3, <1>4, <2>1, <2>3, <2>5 DEF h, i
  <1>5. CASE Stops(h) = {}
    <2>1. Goto(t, "failing") /\ UNCHANGED <<threadVars, thread_map, call, did>>
      BY <1>5 DEF Register, h
    <2>2. /\ at' \in [Threads -> Labels] /\ at'[t] = "failing"
          /\ \A u \in Threads \ {t} : at'[u] = at[u]
      BY <2>1 DEF Typed, Goto, Labels
    <2>3. heap' \subseteq Addresses /\ call' \in [Threads -> Calls] /\ did' \in [Threads -> Seq(Events)]
      BY <1>1, <2>1 DEF Typed, heapVars
    <2>4. Typed'
      BY <1>1, <2>1, <2>2, <2>3, BudgetStays, TypedFrame
    <2>5. QED
      BY <1>1, <2>1, <2>2, <2>4 DEF Others, h
  <1>6. QED
    BY <1>4, <1>5

\* Steps of the log that touch neither the heap nor the threads.
LEMMA LogTyped ==
  ASSUME Typed, NEW t \in Threads,
         UNCHANGED <<budget, fileVars, heapVars, next_instance, threadVars, thread_map>>,
         NEW type, NEW address, NEW result, NEW then,
         Loggable(type, address, result, then), Log(t, type, address, result, then)
  PROVE  /\ Typed' /\ Others(t)
         /\ \E e \in Events : Begins(t, e, then) /\ e.type = type /\ e.result = result
  <1>1. /\ call' \in [Threads -> Calls] /\ did' \in [Threads -> Seq(Events)]
        /\ at' \in [Threads -> Labels] /\ Others(t)
        /\ \E e \in Events : Begins(t, e, then) /\ e.type = type /\ e.result = result
    BY LogBegins
  <1>2. heap' \subseteq Addresses
    BY DEF Typed, heapVars
  <1>3. Typed'
    BY <1>1, <1>2, BudgetStays, TypedFrame
  <1>4. QED
    BY <1>1, <1>3

\* A thread that moves on and logs nothing.
LEMMA MoveTyped ==
  ASSUME Typed, NEW t \in Threads, NEW label \in Labels, Goto(t, label),
         UNCHANGED <<budget, fileVars, heapVars, next_instance, threadVars, thread_map, call, did>>
  PROVE  Typed' /\ Others(t) /\ at'[t] = label
  <1>1. /\ at' \in [Threads -> Labels] /\ at'[t] = label
        /\ \A u \in Threads \ {t} : at'[u] = at[u]
    BY DEF Typed, Goto
  <1>2. heap' \subseteq Addresses /\ call' \in [Threads -> Calls] /\ did' \in [Threads -> Seq(Events)]
    BY DEF Typed, heapVars
  <1>3. Typed'
    BY <1>1, <1>2, BudgetStays, TypedFrame
  <1>4. QED
    BY <1>1, <1>3 DEF Others

\* A thread created detached is logged as detached by its creator.
LEMMA CreatedStep ==
  ASSUME Typed, CallInv, NEW t \in Threads, Created(t)
  PROVE  /\ Typed' /\ Others(t) /\ at[t] = "created"
         /\ UNCHANGED <<fileVars, heapVars, next_instance, threadVars, thread_map>>
         /\ \/ /\ detached[call[t].subject]
               /\ \E e \in Events : /\ Begins(t, e, "dismissing") /\ e.type = "detach"
                                    /\ e.result = instance[call[t].subject]
                                    /\ e.result \in 1 .. next_instance - 1
            \/ /\ ~detached[call[t].subject]
               /\ at'[t] = "releasing" /\ UNCHANGED <<call, did>>
  <1> DEFINE i == instance[call[t].subject]
  <1>1. /\ at[t] = "created"
        /\ UNCHANGED <<budget, fileVars, heapVars, next_instance, threadVars, thread_map>>
    BY DEF Created
  <1>2. call[t].subject \in Threads /\ i # 0
    <2>1. Creating(t)
      BY <1>1 DEF Creating
    <2>2. QED
      BY <2>1, CreatingSubject DEF i
  <1>3. i \in 1 .. next_instance - 1
    BY <1>2, NumberGiven
  <1> HIDE DEF i
  <1>4. CASE detached[call[t].subject]
    <2>1. Log(t, "detach", NULL, i, "dismissing")
      BY <1>4 DEF Created, i
    <2>2. Loggable("detach", NULL, i, "dismissing")
      BY <1>3 DEF Loggable, EventTypes, ThreadTypes, Labels
    <2>3. /\ Typed' /\ Others(t)
          /\ \E e \in Events : Begins(t, e, "dismissing") /\ e.type = "detach" /\ e.result = i
      BY <1>1, <2>1, <2>2, LogTyped
    <2>4. QED
      BY <1>1, <1>3, <1>4, <2>3 DEF i
  <1>5. CASE ~detached[call[t].subject]
    <2>1. Goto(t, "releasing") /\ UNCHANGED <<call, did>> /\ "releasing" \in Labels
      BY <1>5 DEF Created, Labels
    <2>2. Typed' /\ Others(t) /\ at'[t] = "releasing"
      BY <1>1, <2>1, MoveTyped
    <2>3. QED
      BY <1>1, <1>5, <2>1, <2>2
  <1>6. QED
    BY <1>4, <1>5

\* The new thread is let go.
LEMMA ReleaseStep ==
  ASSUME Typed, CallInv, NEW t \in Threads, Release(t)
  PROVE  /\ Typed' /\ Others(t) /\ Ends(t) /\ at[t] = "releasing" /\ at'[t] = "idle"
         /\ UNCHANGED <<fileVars, heapVars, next_instance, instance, handle, detached, claimed,
                        thread_map, did>>
         /\ call[t].subject \in Threads /\ parent_ready'[call[t].subject]
         /\ \A u \in Threads \ {call[t].subject} : parent_ready'[u] = parent_ready[u]
  <1>1. /\ at[t] = "releasing"
        /\ parent_ready' = [parent_ready EXCEPT ![call[t].subject] = TRUE]
        /\ UNCHANGED <<budget, fileVars, heapVars, next_instance, instance, handle, detached,
                       claimed, thread_map, did>>
    BY DEF Release
  <1>2. call[t].subject \in Threads
    <2>1. Creating(t)
      BY <1>1 DEF Creating
    <2>2. QED
      BY <2>1, CreatingSubject
  <1>3. /\ parent_ready' \in [Threads -> BOOLEAN] /\ parent_ready'[call[t].subject]
        /\ \A u \in Threads \ {call[t].subject} : parent_ready'[u] = parent_ready[u]
    BY <1>1, <1>2 DEF Typed
  <1>4. "idle" \in Labels
    BY DEF Labels
  <1>5. /\ call' \in [Threads -> Calls] /\ at' \in [Threads -> Labels]
        /\ Others(t) /\ Ends(t) /\ at'[t] = "idle"
    BY <1>4, EndsCall DEF Release
  <1>6. /\ next_instance' \in Nat /\ instance' \in [Threads -> 0 .. next_instance' - 1]
        /\ handle' \in [Threads -> Handles \cup {NULL}]
        /\ detached' \in [Threads -> BOOLEAN] /\ claimed' \in [Threads -> BOOLEAN]
        /\ thread_map' \in [0 .. budget.entries - 1 -> Entries(next_instance')]
        /\ did' \in [Threads -> Seq(Events)]
    BY <1>1 DEF Typed
  <1>7. Typed'
    BY <1>1, <1>3, <1>5, <1>6, BudgetStays, TypedThreads
  <1>8. QED
    BY <1>1, <1>2, <1>3, <1>5, <1>7

\* thread_start_trampoline logs the start once the creator has let it go.
LEMMA BeginStep ==
  ASSUME Typed, NamesInv, NEW t \in Threads, Begin(t)
  PROVE  /\ Typed' /\ Others(t) /\ at[t] = "waiting" /\ parent_ready[t]
         /\ UNCHANGED <<fileVars, heapVars, next_instance, threadVars, thread_map>>
         /\ \E e \in Events : /\ Begins(t, e, "idle") /\ e.type = "start"
                              /\ e.result = instance[t] /\ e.result \in 1 .. next_instance - 1
  <1>1. /\ at[t] = "waiting" /\ parent_ready[t] /\ Log(t, "start", NULL, instance[t], "idle")
        /\ UNCHANGED <<budget, fileVars, heapVars, next_instance, threadVars, thread_map>>
    BY DEF Begin
  <1>2. instance[t] \in 1 .. next_instance - 1
    <2>1. instance[t] # 0
      BY <1>1 DEF NamesInv
    <2>2. QED
      BY <2>1, NumberGiven
  <1>3. Loggable("start", NULL, instance[t], "idle")
    BY <1>2 DEF Loggable, EventTypes, ThreadTypes, Labels
  <1>4. /\ Typed' /\ Others(t)
        /\ \E e \in Events : Begins(t, e, "idle") /\ e.type = "start" /\ e.result = instance[t]
    BY <1>1, <1>3, LogTyped
  <1>5. QED
    BY <1>1, <1>2, <1>4

\* record_thread_end logs the end.
LEMMA FinishStep ==
  ASSUME Typed, NamesInv, NEW t \in Threads, Finish(t)
  PROVE  /\ Typed' /\ Others(t) /\ at[t] = "idle" /\ t # Initial
         /\ UNCHANGED <<fileVars, heapVars, next_instance, threadVars, thread_map>>
         /\ \E e \in Events : /\ Begins(t, e, "ending") /\ e.type = "end"
                              /\ e.result = instance[t] /\ e.result \in 1 .. next_instance - 1
  <1>1. /\ at[t] = "idle" /\ t # Initial /\ Log(t, "end", NULL, instance[t], "ending")
        /\ UNCHANGED <<budget, fileVars, heapVars, next_instance, threadVars, thread_map>>
    BY DEF Finish
  <1>2. instance[t] \in 1 .. next_instance - 1
    <2>1. instance[t] # 0
      BY <1>1 DEF NamesInv
    <2>2. QED
      BY <2>1, NumberGiven
  <1>3. Loggable("end", NULL, instance[t], "ending")
    BY <1>2 DEF Loggable, EventTypes, ThreadTypes, Labels
  <1>4. /\ Typed' /\ Others(t)
        /\ \E e \in Events : Begins(t, e, "ending") /\ e.type = "end" /\ e.result = instance[t]
    BY <1>1, <1>3, LogTyped
  <1>5. QED
    BY <1>1, <1>2, <1>4

\* The thread ends, and with it the handle of a detached thread.
LEMMA EndStep ==
  ASSUME Typed, NEW t \in Threads, End(t)
  PROVE  /\ Typed' /\ Others(t) /\ at[t] = "ending" /\ at'[t] = "gone"
         /\ UNCHANGED <<fileVars, heapVars, next_instance, instance, detached, claimed,
                        parent_ready, thread_map, call, did>>
         /\ \A u \in Threads \ {t} : handle'[u] = handle[u]
         /\ (detached[t] /\ handle'[t] = NULL) \/ (~detached[t] /\ handle'[t] = handle[t])
  <1>1. /\ at[t] = "ending" /\ Goto(t, "gone")
        /\ handle' = IF detached[t] THEN [handle EXCEPT ![t] = NULL] ELSE handle
        /\ UNCHANGED <<budget, fileVars, heapVars, next_instance, instance, detached, claimed,
                       parent_ready, thread_map, call, did>>
    BY DEF End
  <1>2. /\ at' \in [Threads -> Labels] /\ at'[t] = "gone"
        /\ \A u \in Threads \ {t} : at'[u] = at[u]
    BY <1>1 DEF Typed, Goto, Labels
  <1>3. /\ handle' \in [Threads -> Handles \cup {NULL}]
        /\ \A u \in Threads \ {t} : handle'[u] = handle[u]
        /\ (detached[t] /\ handle'[t] = NULL) \/ (~detached[t] /\ handle'[t] = handle[t])
    <2>1. handle \in [Threads -> Handles \cup {NULL}]
      BY DEF Typed
    <2>2. CASE detached[t]
      <3>1. handle' = [handle EXCEPT ![t] = NULL]
        BY <1>1, <2>2
      <3>2. /\ handle' \in [Threads -> Handles \cup {NULL}] /\ handle'[t] = NULL
            /\ \A u \in Threads \ {t} : handle'[u] = handle[u]
        BY <2>1, <3>1
      <3>3. QED
        BY <2>2, <3>2
    <2>3. CASE ~detached[t]
      <3>1. handle' = handle
        BY <1>1, <2>3
      <3>2. /\ handle' \in [Threads -> Handles \cup {NULL}] /\ handle'[t] = handle[t]
            /\ \A u \in Threads \ {t} : handle'[u] = handle[u]
        BY <2>1, <3>1
      <3>3. QED
        BY <2>3, <3>2
    <2>4. QED
      BY <2>2, <2>3
  <1>4. /\ next_instance' \in Nat /\ instance' \in [Threads -> 0 .. next_instance' - 1]
        /\ detached' \in [Threads -> BOOLEAN] /\ claimed' \in [Threads -> BOOLEAN]
        /\ parent_ready' \in [Threads -> BOOLEAN]
        /\ thread_map' \in [0 .. budget.entries - 1 -> Entries(next_instance')]
        /\ call' \in [Threads -> Calls] /\ did' \in [Threads -> Seq(Events)]
    BY <1>1 DEF Typed
  <1>5. Typed'
    BY <1>1, <1>2, <1>3, <1>4, BudgetStays, TypedThreads
  <1>6. Others(t)
    BY <1>1, <1>2 DEF Others
  <1>7. QED
    BY <1>1, <1>2, <1>3, <1>5, <1>6

\* A thread that can still be joined has a handle.
LEMMA HandleOfJoinable ==
  ASSUME Typed, CallInv, NEW u \in Threads, parent_ready[u], ~claimed[u], ~detached[u]
  PROVE  handle[u] \in Handles /\ u # Initial
  <1>1. handle[u] # NULL /\ u # Initial
    BY DEF CallInv
  <1>2. handle \in [Threads -> Handles \cup {NULL}]
    BY DEF Typed
  <1>3. QED
    BY <1>1, <1>2

\* pthread_join and pthread_detach look for the number of the thread.
LEMMA LookUpStep ==
  ASSUME Typed, CallInv, NEW t \in Threads, NEW u \in Threads,
         NEW label \in {"joining", "detaching"}, LookUp(t, u, label)
  PROVE  /\ Typed' /\ at[t] = "idle" /\ at'[t] = label
         /\ parent_ready[u] /\ ~detached[u] /\ ~claimed[u] /\ claimed'[u]
         /\ \A v \in Threads \ {t} : at'[v] = at[v] /\ call'[v] = call[v]
         /\ \A v \in Threads \ {u} : claimed'[v] = claimed[v]
         /\ call'[t].event = call[t].event /\ call'[t].then = call[t].then
         /\ call'[t].slot = call[t].slot
         /\ call'[t].subject = u /\ call'[t].key = handle[u] /\ handle[u] \in Handles
         /\ call'[t].found = Get(handle[u]) /\ call'[t].found \in 0 .. next_instance - 1
         /\ UNCHANGED <<fileVars, heapVars, next_instance, instance, handle, detached,
                        parent_ready, thread_map, did>>
  <1> DEFINE h == handle[u]
             f == Get(handle[u])
  <1>1. /\ at[t] = "idle" /\ parent_ready[u] /\ ~detached[u] /\ ~claimed[u]
        /\ claimed' = [claimed EXCEPT ![u] = TRUE]
        /\ Goto(t, label)
        /\ UNCHANGED <<budget, fileVars, heapVars, next_instance, instance, handle, detached,
                       parent_ready, thread_map, did>>
    BY DEF LookUp
  <1>2. h \in Handles
    BY <1>1, HandleOfJoinable
  <1>3. f \in 0 .. next_instance - 1 /\ f \in Nat
    BY <1>2, GetNumber DEF Typed
  <1>4. call' = [call EXCEPT ![t].subject = u, ![t].key = h, ![t].found = f]
    BY DEF LookUp
  <1> HIDE DEF h, f
  <1>5. /\ call' \in [Threads -> Calls]
        /\ call'[t].event = call[t].event /\ call'[t].then = call[t].then
        /\ call'[t].slot = call[t].slot
        /\ call'[t].subject = u /\ call'[t].key = h /\ call'[t].found = f
        /\ \A v \in Threads \ {t} : call'[v] = call[v]
    <2>1. call \in [Threads -> Calls]
      BY DEF Typed
    <2>2. /\ call' \in [Threads -> Calls]
          /\ \A v \in Threads \ {t} : call'[v] = call[v]
      <3>1. h \in Handles \cup {NULL} /\ f \in Nat /\ u \in Threads \cup {NULL}
        BY <1>2, <1>3
      <3>2. [call[t] EXCEPT !.subject = u, !.key = h, !.found = f] \in Calls
        BY <2>1, <3>1 DEF Calls
      <3>3. call' = [call EXCEPT ![t] = [call[t] EXCEPT !.subject = u, !.key = h, !.found = f]]
        BY <1>4, <2>1, Zenon
      <3>4. QED
        BY <2>1, <3>2, <3>3
    <2>3. /\ call'[t].event = call[t].event /\ call'[t].then = call[t].then
          /\ call'[t].slot = call[t].slot
          /\ call'[t].subject = u /\ call'[t].key = h /\ call'[t].found = f
      BY <1>4, <2>1 DEF Calls
    <2>4. QED
      BY <2>2, <2>3
  <1>6. /\ at' \in [Threads -> Labels] /\ at'[t] = label
        /\ \A v \in Threads \ {t} : at'[v] = at[v]
    BY <1>1 DEF Typed, Goto, Labels
  <1>7. /\ claimed' \in [Threads -> BOOLEAN] /\ claimed'[u]
        /\ \A v \in Threads \ {u} : claimed'[v] = claimed[v]
    BY <1>1 DEF Typed
  <1>8. /\ next_instance' \in Nat /\ instance' \in [Threads -> 0 .. next_instance' - 1]
        /\ handle' \in [Threads -> Handles \cup {NULL}] /\ detached' \in [Threads -> BOOLEAN]
        /\ parent_ready' \in [Threads -> BOOLEAN]
        /\ thread_map' \in [0 .. budget.entries - 1 -> Entries(next_instance')]
        /\ did' \in [Threads -> Seq(Events)]
    BY <1>1 DEF Typed
  <1>9. Typed'
    BY <1>1, <1>5, <1>6, <1>7, <1>8, BudgetStays, TypedThreads
  <1>10. QED
    BY <1>1, <1>2, <1>3, <1>5, <1>6, <1>7, <1>9 DEF h, f

\* After the real call the number that was found is logged, if one was.
LEMMA LogFoundStep ==
  ASSUME Typed, CallInv, NEW t \in Threads, NEW type \in {"join", "detach"}, LogFound(t, type)
  PROVE  /\ call' \in [Threads -> Calls] /\ did' \in [Threads -> Seq(Events)]
         /\ at' \in [Threads -> Labels] /\ Others(t)
         /\ \/ \E e \in Events : /\ Begins(t, e, "forgetting") /\ e.type = type
                                 /\ e.result = call[t].found
                                 /\ e.result \in 1 .. next_instance - 1
            \/ Ends(t) /\ at'[t] = "idle"
  <1>1. CASE call[t].found # 0
    <2> DEFINE f == call[t].found
    <2>1. f \in 1 .. next_instance - 1
      <3>1. f \in Nat
        BY DEF Typed, Calls
      <3>2. f < next_instance /\ next_instance \in Nat
        BY DEF CallInv, Typed
      <3>3. QED
        BY <1>1, <3>1, <3>2
    <2>2. Log(t, type, NULL, f, "forgetting")
      BY <1>1 DEF LogFound
    <2> HIDE DEF f
    <2>3. Loggable(type, NULL, f, "forgetting")
      BY <2>1 DEF Loggable, EventTypes, ThreadTypes, Labels
    <2>4. /\ call' \in [Threads -> Calls] /\ did' \in [Threads -> Seq(Events)]
          /\ at' \in [Threads -> Labels] /\ Others(t)
          /\ \E e \in Events : Begins(t, e, "forgetting") /\ e.type = type /\ e.result = f
      BY <2>2, <2>3, LogBegins
    <2>5. QED
      BY <2>1, <2>4 DEF f
  <1>2. CASE call[t].found = 0
    <2>1. /\ call' = [call EXCEPT ![t] = NoCall] /\ Goto(t, "idle") /\ UNCHANGED did
          /\ "idle" \in Labels
      BY <1>2 DEF LogFound, Labels
    <2>2. /\ call' \in [Threads -> Calls] /\ at' \in [Threads -> Labels]
          /\ Others(t) /\ Ends(t) /\ at'[t] = "idle"
      BY <2>1, EndsCall
    <2>3. did' \in [Threads -> Seq(Events)]
      BY <2>1 DEF Typed
    <2>4. QED
      BY <2>2, <2>3
  <1>3. QED
    BY <1>1, <1>2

\* The thread a call is about to join or to detach.
LEMMA ClaimedSubject ==
  ASSUME CallInv, NEW t \in Threads, at[t] \in {"joining", "detaching"}
  PROVE  /\ call[t].subject \in Threads /\ call[t].subject # Initial
         /\ instance[call[t].subject] # 0 /\ call[t].key \in Handles
         /\ parent_ready[call[t].subject] /\ claimed[call[t].subject]
         /\ ~detached[call[t].subject] /\ handle[call[t].subject] # NULL
  <1>1. LET u == call[t].subject
        IN  /\ u \in Threads /\ u # Initial /\ parent_ready[u] /\ claimed[u] /\ ~detached[u]
            /\ handle[u] # NULL /\ call[t].key \in Handles
    BY DEF CallInv
  <1>2. call[t].subject # NULL
    BY <1>1, NullIsNobody
  <1>3. instance[call[t].subject] # 0
    BY <1>2 DEF CallInv
  <1>4. QED
    BY <1>1, <1>3

\* pthread_join returns and gives the handle up.
LEMMA RealJoinStep ==
  ASSUME Typed, CallInv, NEW t \in Threads, RealJoin(t)
  PROVE  /\ Typed' /\ Others(t) /\ at[t] = "joining" /\ at[call[t].subject] = "gone"
         /\ UNCHANGED <<fileVars, heapVars, next_instance, instance, detached, claimed,
                        parent_ready, thread_map>>
         /\ handle'[call[t].subject] = NULL
         /\ \A u \in Threads \ {call[t].subject} : handle'[u] = handle[u]
         /\ \/ \E e \in Events : /\ Begins(t, e, "forgetting") /\ e.type = "join"
                                 /\ e.result = call[t].found
                                 /\ e.result \in 1 .. next_instance - 1
            \/ Ends(t) /\ at'[t] = "idle"
  <1>1. /\ at[t] = "joining" /\ at[call[t].subject] = "gone"
        /\ handle' = [handle EXCEPT ![call[t].subject] = NULL]
        /\ LogFound(t, "join")
        /\ UNCHANGED <<budget, fileVars, heapVars, next_instance, instance, detached, claimed,
                       parent_ready, thread_map>>
    BY DEF RealJoin
  <1>2. call[t].subject \in Threads
    BY <1>1, ClaimedSubject
  <1>3. /\ handle' \in [Threads -> Handles \cup {NULL}] /\ handle'[call[t].subject] = NULL
        /\ \A u \in Threads \ {call[t].subject} : handle'[u] = handle[u]
    <2>1. handle \in [Threads -> Handles \cup {NULL}]
      BY DEF Typed
    <2>2. QED
      BY <1>1, <1>2, <2>1
  <1>4. /\ call' \in [Threads -> Calls] /\ did' \in [Threads -> Seq(Events)]
        /\ at' \in [Threads -> Labels] /\ Others(t)
        /\ \/ \E e \in Events : /\ Begins(t, e, "forgetting") /\ e.type = "join"
                                /\ e.result = call[t].found
                                /\ e.result \in 1 .. next_instance - 1
           \/ Ends(t) /\ at'[t] = "idle"
    BY <1>1, LogFoundStep
  <1>5. /\ next_instance' \in Nat /\ instance' \in [Threads -> 0 .. next_instance' - 1]
        /\ detached' \in [Threads -> BOOLEAN] /\ claimed' \in [Threads -> BOOLEAN]
        /\ parent_ready' \in [Threads -> BOOLEAN]
        /\ thread_map' \in [0 .. budget.entries - 1 -> Entries(next_instance')]
    BY <1>1 DEF Typed
  <1>6. Typed'
    BY <1>1, <1>3, <1>4, <1>5, BudgetStays, TypedThreads
  <1>7. QED
    BY <1>1, <1>3, <1>4, <1>6

\* pthread_detach; the handle of a thread that has ended is given up.
LEMMA RealDetachStep ==
  ASSUME Typed, CallInv, NEW t \in Threads, RealDetach(t)
  PROVE  /\ Typed' /\ Others(t) /\ at[t] = "detaching"
         /\ UNCHANGED <<fileVars, heapVars, next_instance, instance, claimed, parent_ready, thread_map>>
         /\ detached'[call[t].subject]
         /\ \A u \in Threads \ {call[t].subject} :
              detached'[u] = detached[u] /\ handle'[u] = handle[u]
         /\ \/ at[call[t].subject] = "gone" /\ handle'[call[t].subject] = NULL
            \/ at[call[t].subject] # "gone" /\ handle' = handle
         /\ \/ \E e \in Events : /\ Begins(t, e, "forgetting") /\ e.type = "detach"
                                 /\ e.result = call[t].found
                                 /\ e.result \in 1 .. next_instance - 1
            \/ Ends(t) /\ at'[t] = "idle"
  <1>1. /\ at[t] = "detaching"
        /\ detached' = [detached EXCEPT ![call[t].subject] = TRUE]
        /\ handle' = IF at[call[t].subject] = "gone"
                     THEN [handle EXCEPT ![call[t].subject] = NULL] ELSE handle
        /\ LogFound(t, "detach")
        /\ UNCHANGED <<budget, fileVars, heapVars, next_instance, instance, claimed,
                       parent_ready, thread_map>>
    BY DEF RealDetach
  <1>2. call[t].subject \in Threads
    BY <1>1, ClaimedSubject
  <1>3. /\ handle' \in [Threads -> Handles \cup {NULL}]
        /\ \A u \in Threads \ {call[t].subject} : handle'[u] = handle[u]
        /\ \/ at[call[t].subject] = "gone" /\ handle'[call[t].subject] = NULL
           \/ at[call[t].subject] # "gone" /\ handle' = handle
    <2>1. handle \in [Threads -> Handles \cup {NULL}]
      BY DEF Typed
    <2>2. QED
      BY <1>1, <1>2, <2>1
  <1>4. /\ detached' \in [Threads -> BOOLEAN] /\ detached'[call[t].subject]
        /\ \A u \in Threads \ {call[t].subject} : detached'[u] = detached[u]
    <2>1. detached \in [Threads -> BOOLEAN]
      BY DEF Typed
    <2>2. QED
      BY <1>1, <1>2, <2>1
  <1>5. /\ call' \in [Threads -> Calls] /\ did' \in [Threads -> Seq(Events)]
        /\ at' \in [Threads -> Labels] /\ Others(t)
        /\ \/ \E e \in Events : /\ Begins(t, e, "forgetting") /\ e.type = "detach"
                                /\ e.result = call[t].found
                                /\ e.result \in 1 .. next_instance - 1
           \/ Ends(t) /\ at'[t] = "idle"
    BY <1>1, LogFoundStep
  <1>6. /\ next_instance' \in Nat /\ instance' \in [Threads -> 0 .. next_instance' - 1]
        /\ claimed' \in [Threads -> BOOLEAN]
        /\ parent_ready' \in [Threads -> BOOLEAN]
        /\ thread_map' \in [0 .. budget.entries - 1 -> Entries(next_instance')]
    BY <1>1 DEF Typed
  <1>7. Typed'
    BY <1>1, <1>3, <1>4, <1>5, <1>6, BudgetStays, TypedThreads
  <1>8. QED
    BY <1>1, <1>3, <1>4, <1>5, <1>7

\* thread_map_remove, and the end of the call or its way on.
LEMMA ForgetStep ==
  ASSUME Typed, CallInv, NEW t \in Threads, Forget(t)
  PROVE  /\ Typed' /\ Others(t)
         /\ UNCHANGED <<fileVars, heapVars, next_instance, threadVars, did>>
         /\ \/ Found(call[t].key) /\ thread_map' = [thread_map EXCEPT ![Entry(call[t].key)] = DELETED]
            \/ ~Found(call[t].key) /\ thread_map' = thread_map
         /\ \/ at[t] = "dismissing" /\ at'[t] = "releasing" /\ UNCHANGED call
            \/ at[t] = "forgetting" /\ at'[t] = "idle" /\ Ends(t)
  <1> DEFINE h == call[t].key
  <1>1. /\ at[t] \in {"forgetting", "dismissing"}
        /\ thread_map' = IF Found(h) THEN [thread_map EXCEPT ![Entry(h)] = DELETED] ELSE thread_map
        /\ UNCHANGED <<budget, fileVars, heapVars, next_instance, threadVars, did>>
    BY DEF Forget
  <1>2. h \in Handles
    BY <1>1 DEF CallInv
  <1> HIDE DEF h
  <1>3. /\ thread_map' \in [0 .. budget.entries - 1 -> Entries(next_instance')]
        /\ \/ Found(h) /\ thread_map' = [thread_map EXCEPT ![Entry(h)] = DELETED]
           \/ ~Found(h) /\ thread_map' = thread_map
    <2>1. Found(h) => Entry(h) \in 0 .. budget.entries - 1
      BY <1>2, EntryInside DEF Found
    <2>2. DELETED \in Entries(next_instance) /\ next_instance' = next_instance
      BY <1>1 DEF Entries
    <2>3. QED
      BY <1>1, <2>1, <2>2, MapTyped
  <1>4. /\ call' \in [Threads -> Calls] /\ at' \in [Threads -> Labels] /\ Others(t)
        /\ \/ at[t] = "dismissing" /\ at'[t] = "releasing" /\ UNCHANGED call
           \/ at[t] = "forgetting" /\ at'[t] = "idle" /\ Ends(t)
    <2>1. CASE at[t] = "dismissing"
      <3>1. Goto(t, "releasing") /\ UNCHANGED <<call, did>>
        BY <1>1, <2>1 DEF Forget
      <3>2. /\ at' \in [Threads -> Labels] /\ at'[t] = "releasing"
            /\ \A u \in Threads \ {t} : at'[u] = at[u]
        BY <3>1 DEF Typed, Goto, Labels
      <3>3. call' \in [Threads -> Calls]
        BY <3>1 DEF Typed
      <3>4. QED
        BY <2>1, <3>1, <3>2, <3>3 DEF Others
    <2>2. CASE at[t] = "forgetting"
      <3>1. Goto(t, "idle") /\ call' = [call EXCEPT ![t] = NoCall] /\ UNCHANGED did
        BY <1>1, <2>2 DEF Forget
      <3>2. "idle" \in Labels
        BY DEF Labels
      <3>3. QED
        BY <2>2, <3>1, <3>2, EndsCall
    <2>3. QED
      BY <1>1, <2>1, <2>2
  <1>5. /\ next_instance' \in Nat /\ instance' \in [Threads -> 0 .. next_instance' - 1]
        /\ handle' \in [Threads -> Handles \cup {NULL}]
        /\ detached' \in [Threads -> BOOLEAN] /\ claimed' \in [Threads -> BOOLEAN]
        /\ parent_ready' \in [Threads -> BOOLEAN] /\ did' \in [Threads -> Seq(Events)]
    BY <1>1 DEF Typed, threadVars
  <1>6. Typed'
    BY <1>1, <1>3, <1>4, <1>5, BudgetStays, TypedThreads
  <1>7. QED
    BY <1>1, <1>3, <1>4, <1>6 DEF h

------------------------------------------------------------------------------
(* The steps by what they do to the log. *)

\* Thread t begins to log an event.
Beginning(t) ==
  /\ UNCHANGED <<fileVars, next_instance, instance, parent_ready>> /\ Others(t)
  /\ at[t] \in {"idle", "registering", "created", "waiting", "joining", "detaching"}
  /\ at[t] = "waiting" => parent_ready[t]
  /\ \E e \in Events, then \in Labels :
       /\ Begins(t, e, then) /\ <<e.type, then>> \in Continuations
       /\ at[t] = "waiting" => e.type = "start"
       /\ e.type \in ThreadTypes => e.result \in 1 .. next_instance - 1
       /\ e.type \in {"start", "end"} => e.result = instance[t]

\* Neither the file nor what a thread is logging changes; a thread can get its
\* number.
Quiet ==
  /\ UNCHANGED <<fileVars, did>>
  /\ next_instance' \in {next_instance, next_instance + 1}
  /\ \A v \in Threads :
       /\ Pending(v) \/ Pending(v)' => at'[v] = at[v] /\ call'[v] = call[v]
       /\ call'[v].event \in {NULL, call[v].event}
       /\ at'[v] # at[v] =>
            /\ at'[v] \notin {"exiting", "killed", "unborn", "freeing"}
            /\ at'[v] = "waiting" => at[v] = "unborn"
            /\ at[v] \in {"unborn", "killed"} => instance'[v] # instance[v]
            /\ at[v] \notin {"waiting", "failing", "exiting", "gone"} /\ at'[v] # "ending"
            /\ at[v] = "ending" <=> at'[v] = "gone"
       /\ instance'[v] # instance[v] =>
            /\ at[v] = "unborn" /\ at'[v] = "waiting"
            /\ instance'[v] = next_instance /\ next_instance' = next_instance + 1
       /\ parent_ready'[v] => parent_ready[v] \/ instance[v] # 0
  /\ \A v, w \in Threads : instance'[v] # instance[v] /\ instance'[w] # instance[w] => v = w

\* Logging an event of a block.
LEMMA BlockBegins ==
  ASSUME NEW t \in Threads, Others(t), at[t] = "idle",
         UNCHANGED <<fileVars, next_instance, threadVars>>,
         NEW e \in Events, NEW then \in {"returning", "freeing"}, Begins(t, e, then),
         <<e.type, then>> \in Continuations, e.type \notin ThreadTypes
  PROVE  Beginning(t)
  <1>1. then \in Labels
    BY DEF Labels
  <1>2. UNCHANGED <<fileVars, next_instance, instance, parent_ready>>
    BY DEF threadVars
  <1>3. e.type \notin {"start", "end"}
    BY DEF ThreadTypes
  <1>4. QED
    BY <1>1, <1>2, <1>3 DEF Beginning

\* Logging an event of a thread.
LEMMA ThreadBegins ==
  ASSUME NEW t \in Threads, Others(t),
         at[t] \in {"idle", "registering", "created", "waiting", "joining", "detaching"},
         at[t] = "waiting" => parent_ready[t],
         UNCHANGED <<fileVars, next_instance, instance, parent_ready>>,
         NEW e \in Events, NEW then \in Labels, Begins(t, e, then),
         <<e.type, then>> \in Continuations, e.result \in 1 .. next_instance - 1,
         at[t] = "waiting" => e.type = "start",
         e.type \in {"start", "end"} => e.result = instance[t]
  PROVE  Beginning(t)
  BY DEF Beginning

\* What malloc, realloc, free and the calls about threads begin with.
LEMMA MallocBegins ==
  ASSUME Typed, NEW t \in Threads, Malloc(t)
  PROVE  Typed' /\ Beginning(t)
  <1>1. PICK e \in Events : Begins(t, e, "returning") /\ e.type = "malloc"
    BY MallocStep
  <1>2. <<e.type, "returning">> \in Continuations /\ e.type \notin ThreadTypes
    BY <1>1 DEF Continuations, ThreadTypes
  <1>3. QED
    BY <1>1, <1>2, MallocStep, BlockBegins

\* realloc logs a result, or that it failed.
LEMMA ReallocBegins ==
  ASSUME Typed, blocks \subseteq heap, NEW t \in Threads, Realloc(t)
  PROVE  Typed' /\ Beginning(t)
  <1>1. PICK e \in Events : Begins(t, e, "returning") /\ e.type \in {"realloc", "realloc_failed"}
    BY ReallocStep
  <1>2. <<e.type, "returning">> \in Continuations /\ e.type \notin ThreadTypes
    BY <1>1 DEF Continuations, ThreadTypes
  <1>3. QED
    BY <1>1, <1>2, ReallocStep, BlockBegins

\* free logs before the real call.
LEMMA FreeBegins ==
  ASSUME Typed, blocks \subseteq heap, NEW t \in Threads, Free(t)
  PROVE  Typed' /\ Beginning(t)
  <1>1. PICK e \in Events : Begins(t, e, "freeing") /\ e.type = "free"
    BY FreeStep
  <1>2. <<e.type, "freeing">> \in Continuations /\ e.type \notin ThreadTypes
    BY <1>1 DEF Continuations, ThreadTypes
  <1>3. QED
    BY <1>1, <1>2, FreeStep, BlockBegins

\* thread_start_trampoline and record_thread_end.
LEMMA BeginBegins ==
  ASSUME Typed, NamesInv, NEW t \in Threads, Begin(t)
  PROVE  Typed' /\ Beginning(t)
  <1>1. PICK e \in Events : /\ Begins(t, e, "idle") /\ e.type = "start"
                            /\ e.result = instance[t] /\ e.result \in 1 .. next_instance - 1
    BY BeginStep
  <1>2. <<e.type, "idle">> \in Continuations /\ "idle" \in Labels
    BY <1>1 DEF Continuations, Labels
  <1>3. UNCHANGED <<fileVars, next_instance, instance, parent_ready>>
    BY BeginStep DEF threadVars
  <1>4. QED
    BY <1>1, <1>2, <1>3, BeginStep, ThreadBegins

\* record_thread_end logs the number of the thread that ends.
LEMMA FinishBegins ==
  ASSUME Typed, NamesInv, NEW t \in Threads, Finish(t)
  PROVE  Typed' /\ Beginning(t)
  <1>1. PICK e \in Events : /\ Begins(t, e, "ending") /\ e.type = "end"
                            /\ e.result = instance[t] /\ e.result \in 1 .. next_instance - 1
    BY FinishStep
  <1>2. <<e.type, "ending">> \in Continuations /\ "ending" \in Labels
    BY <1>1 DEF Continuations, Labels
  <1>3. UNCHANGED <<fileVars, next_instance, instance, parent_ready>>
    BY FinishStep DEF threadVars
  <1>4. QED
    BY <1>1, <1>2, <1>3, FinishStep, ThreadBegins

\* A thread moves on, and logs nothing.
LEMMA QuietMove ==
  ASSUME NEW t \in Threads, Others(t), UNCHANGED <<fileVars, next_instance, instance>>,
         did'[t] = did[t], did \in [Threads -> Seq(Events)], did' \in [Threads -> Seq(Events)],
         at[t] \notin {"reserving", "committing", "unborn", "killed"},
         at'[t] \notin {"reserving", "committing", "exiting", "killed", "unborn", "waiting",
                        "freeing", "ending"},
         at[t] \notin {"waiting", "failing", "exiting", "gone"},
         at[t] = "ending" <=> at'[t] = "gone",
         call'[t].event \in {NULL, call[t].event},
         \A v \in Threads : parent_ready'[v] => parent_ready[v] \/ instance[v] # 0
  PROVE  Quiet
  <1>1. did' = did
    BY DEF Others
  <1>2. /\ \A v \in Threads \ {t} : at'[v] = at[v] /\ call'[v] = call[v]
        /\ ~Pending(t) /\ ~Pending(t)'
    BY DEF Others, Pending
  <1>3. \A v \in Threads : Pending(v) \/ Pending(v)' => at'[v] = at[v] /\ call'[v] = call[v]
    BY <1>2
  <1>4. \A v \in Threads : call'[v].event \in {NULL, call[v].event}
    BY <1>2
  <1>5. \A v \in Threads : at'[v] # at[v] =>
          /\ at'[v] \notin {"exiting", "killed", "unborn", "waiting", "freeing", "ending"}
          /\ at[v] \notin {"unborn", "waiting", "killed", "failing", "exiting", "gone"}
          /\ at[v] = "ending" <=> at'[v] = "gone"
    BY <1>2
  <1>6. QED
    BY <1>1, <1>3, <1>4, <1>5 DEF Quiet

\* Only thread t is concerned, and the types hold before and after.
LEMMA DidTyped ==
  ASSUME Typed, Typed'
  PROVE  did \in [Threads -> Seq(Events)] /\ did' \in [Threads -> Seq(Events)]
  BY DEF Typed

\* pthread_create logs the new thread, or finds no place for it and fails.
LEMMA RegisterKind ==
  ASSUME Typed, CallInv, NEW t \in Threads, Register(t)
  PROVE  Typed' /\ (Beginning(t) \/ Quiet)
  <1>1. /\ Typed' /\ Others(t) /\ at[t] = "registering"
        /\ UNCHANGED <<fileVars, next_instance, threadVars>>
    BY RegisterStep
  <1>2. UNCHANGED <<instance, parent_ready>>
    BY <1>1 DEF threadVars
  <1>3. CASE \E e \in Events : /\ Begins(t, e, "created") /\ e.type = "create"
                               /\ e.result \in 1 .. next_instance - 1
    <2>1. PICK e \in Events : /\ Begins(t, e, "created") /\ e.type = "create"
                              /\ e.result \in 1 .. next_instance - 1
      BY <1>3
    <2>2. /\ <<e.type, "created">> \in Continuations /\ "created" \in Labels
          /\ e.type \notin {"start", "end"}
      BY <2>1 DEF Continuations, Labels
    <2>3. QED
      BY <1>1, <1>2, <2>1, <2>2, ThreadBegins
  <1>4. CASE at'[t] = "failing" /\ UNCHANGED <<thread_map, call, did>>
    BY <1>1, <1>2, <1>4, DidTyped, QuietMove
  <1>5. QED
    BY <1>3, <1>4, RegisterStep

\* A thread that is created detached is logged as such; another is not.
LEMMA CreatedKind ==
  ASSUME Typed, CallInv, NEW t \in Threads, Created(t)
  PROVE  Typed' /\ (Beginning(t) \/ Quiet)
  <1>1. /\ Typed' /\ Others(t) /\ at[t] = "created"
        /\ UNCHANGED <<fileVars, next_instance, threadVars>>
    BY CreatedStep
  <1>2. UNCHANGED <<instance, parent_ready>>
    BY <1>1 DEF threadVars
  <1>3. CASE \E e \in Events : /\ Begins(t, e, "dismissing") /\ e.type = "detach"
                               /\ e.result \in 1 .. next_instance - 1
    <2>1. PICK e \in Events : /\ Begins(t, e, "dismissing") /\ e.type = "detach"
                              /\ e.result \in 1 .. next_instance - 1
      BY <1>3
    <2>2. /\ <<e.type, "dismissing">> \in Continuations /\ "dismissing" \in Labels
          /\ e.type \notin {"start", "end"}
      BY <2>1 DEF Continuations, Labels
    <2>3. QED
      BY <1>1, <1>2, <2>1, <2>2, ThreadBegins
  <1>4. CASE at'[t] = "releasing" /\ UNCHANGED <<call, did>>
    BY <1>1, <1>2, <1>4, DidTyped, QuietMove
  <1>5. QED
    BY <1>3, <1>4, CreatedStep

\* pthread_join logs the number it found, if it found one.
LEMMA RealJoinKind ==
  ASSUME Typed, CallInv, NEW t \in Threads, RealJoin(t)
  PROVE  Typed' /\ (Beginning(t) \/ Quiet)
  <1>1. /\ Typed' /\ Others(t) /\ at[t] = "joining"
        /\ UNCHANGED <<fileVars, next_instance, instance, parent_ready>>
    BY RealJoinStep
  <1>2. CASE \E e \in Events : /\ Begins(t, e, "forgetting") /\ e.type = "join"
                               /\ e.result \in 1 .. next_instance - 1
    <2>1. PICK e \in Events : /\ Begins(t, e, "forgetting") /\ e.type = "join"
                              /\ e.result \in 1 .. next_instance - 1
      BY <1>2
    <2>2. /\ <<e.type, "forgetting">> \in Continuations /\ "forgetting" \in Labels
          /\ e.type \notin {"start", "end"}
      BY <2>1 DEF Continuations, Labels
    <2>3. QED
      BY <1>1, <2>1, <2>2, ThreadBegins
  <1>3. CASE Ends(t) /\ at'[t] = "idle"
    BY <1>1, <1>3, DidTyped, QuietMove DEF Ends
  <1>4. QED
    BY <1>2, <1>3, RealJoinStep

\* So does pthread_detach.
LEMMA RealDetachKind ==
  ASSUME Typed, CallInv, NEW t \in Threads, RealDetach(t)
  PROVE  Typed' /\ (Beginning(t) \/ Quiet)
  <1>1. /\ Typed' /\ Others(t) /\ at[t] = "detaching"
        /\ UNCHANGED <<fileVars, next_instance, instance, parent_ready>>
    BY RealDetachStep
  <1>2. CASE \E e \in Events : /\ Begins(t, e, "forgetting") /\ e.type = "detach"
                               /\ e.result \in 1 .. next_instance - 1
    <2>1. PICK e \in Events : /\ Begins(t, e, "forgetting") /\ e.type = "detach"
                              /\ e.result \in 1 .. next_instance - 1
      BY <1>2
    <2>2. /\ <<e.type, "forgetting">> \in Continuations /\ "forgetting" \in Labels
          /\ e.type \notin {"start", "end"}
      BY <2>1 DEF Continuations, Labels
    <2>3. QED
      BY <1>1, <2>1, <2>2, ThreadBegins
  <1>3. CASE Ends(t) /\ at'[t] = "idle"
    BY <1>1, <1>3, DidTyped, QuietMove DEF Ends
  <1>4. QED
    BY <1>2, <1>3, RealDetachStep

\* The steps that only move on.
LEMMA ReturnKind ==
  ASSUME Typed, NEW t \in Threads, Return(t)
  PROVE  Typed' /\ Quiet
  <1>1. /\ Typed' /\ Others(t) /\ Ends(t) /\ at[t] = "returning" /\ at'[t] = "idle"
        /\ UNCHANGED <<fileVars, next_instance, threadVars>>
    BY ReturnStep
  <1>2. UNCHANGED <<instance, parent_ready>>
    BY <1>1 DEF threadVars
  <1>3. QED
    BY <1>1, <1>2, DidTyped, QuietMove DEF Ends

\* The real free logs nothing: the event is in the file already.
LEMMA RealFreeKind ==
  ASSUME Typed, NEW t \in Threads, RealFree(t)
  PROVE  Typed' /\ Quiet
  <1>1. /\ Typed' /\ Others(t) /\ Ends(t) /\ at[t] = "freeing" /\ at'[t] = "idle"
        /\ UNCHANGED <<fileVars, next_instance, threadVars>>
    BY RealFreeStep
  <1>2. UNCHANGED <<instance, parent_ready>>
    BY <1>1 DEF threadVars
  <1>3. QED
    BY <1>1, <1>2, DidTyped, QuietMove DEF Ends

\* A thread that has created another lets it go.
LEMMA ReleaseKind ==
  ASSUME Typed, CallInv, NEW t \in Threads, Release(t)
  PROVE  Typed' /\ Quiet
  <1>1. /\ Typed' /\ Others(t) /\ Ends(t) /\ at[t] = "releasing" /\ at'[t] = "idle"
        /\ UNCHANGED <<fileVars, next_instance, instance>>
        /\ \A u \in Threads \ {call[t].subject} : parent_ready'[u] = parent_ready[u]
    BY ReleaseStep
  <1>2. instance[call[t].subject] # 0
    <2>1. Creating(t)
      BY <1>1 DEF Creating
    <2>2. QED
      BY <2>1, CreatingSubject
  <1>3. \A v \in Threads : parent_ready'[v] => parent_ready[v] \/ instance[v] # 0
    BY <1>1, <1>2
  <1>4. QED
    BY <1>1, <1>3, DidTyped, QuietMove DEF Ends

\* The thread is gone after its last event.
LEMMA EndKind ==
  ASSUME Typed, NEW t \in Threads, End(t)
  PROVE  Typed' /\ Quiet
  <1>1. /\ Typed' /\ Others(t) /\ at[t] = "ending" /\ at'[t] = "gone"
        /\ UNCHANGED <<fileVars, next_instance, instance, parent_ready, call, did>>
    BY EndStep
  <1>2. QED
    BY <1>1, DidTyped, QuietMove

\* The map forgets an entry.
LEMMA ForgetKind ==
  ASSUME Typed, CallInv, NEW t \in Threads, Forget(t)
  PROVE  Typed' /\ Quiet
  <1>1. /\ Typed' /\ Others(t) /\ UNCHANGED <<fileVars, next_instance, threadVars, did>>
        /\ \/ at[t] = "dismissing" /\ at'[t] = "releasing" /\ UNCHANGED call
           \/ at[t] = "forgetting" /\ at'[t] = "idle" /\ Ends(t)
    BY ForgetStep
  <1>2. UNCHANGED <<instance, parent_ready>>
    BY <1>1 DEF threadVars
  <1>3. QED
    BY <1>1, <1>2, DidTyped, QuietMove DEF Ends

\* pthread_join and pthread_detach look up before they log.
LEMMA LookUpKind ==
  ASSUME Typed, CallInv, NEW t \in Threads, NEW u \in Threads,
         NEW label \in {"joining", "detaching"}, LookUp(t, u, label)
  PROVE  Typed' /\ Quiet
  <1>1. /\ Typed' /\ at[t] = "idle" /\ at'[t] = label
        /\ \A v \in Threads \ {t} : at'[v] = at[v] /\ call'[v] = call[v]
        /\ call'[t].event = call[t].event
        /\ UNCHANGED <<fileVars, next_instance, instance, parent_ready, did>>
    BY LookUpStep
  <1>2. Others(t)
    BY <1>1 DEF Others
  <1>3. QED
    BY <1>1, <1>2, DidTyped, QuietMove

\* A failed pthread_create spends a number.
LEMMA CreateFailsKind ==
  ASSUME Typed, NEW t \in Threads, CreateFails(t)
  PROVE  Typed' /\ Quiet
  <1>1. /\ Typed' /\ next_instance' = next_instance + 1
        /\ UNCHANGED <<fileVars, threadVars, at, call, did>>
    BY CreateFailsStep
  <1>2. UNCHANGED <<instance, parent_ready>>
    BY <1>1 DEF threadVars
  <1>3. QED
    BY <1>1, <1>2 DEF Quiet

\* The new thread gets the next number.
LEMMA CreateKind ==
  ASSUME Typed, NEW t \in Threads, NEW u \in Threads, Create(t, u)
  PROVE  Typed' /\ Quiet
  <1>1. /\ Typed' /\ at[t] = "idle" /\ at[u] = "unborn" /\ t # u
        /\ UNCHANGED <<fileVars, parent_ready, did>>
        /\ next_instance' = next_instance + 1 /\ instance'[u] = next_instance
        /\ at'[t] = "registering" /\ at'[u] = "waiting"
        /\ call'[t].event = call[t].event
        /\ \A v \in Threads \ {t} : call'[v] = call[v]
        /\ \A v \in Threads \ {u} : instance'[v] = instance[v]
        /\ \A v \in Threads \ {t, u} : at'[v] = at[v]
    BY CreateStep
  <1>2. ~Pending(t) /\ ~Pending(t)' /\ ~Pending(u) /\ ~Pending(u)'
    BY <1>1 DEF Pending
  <1>3. \A v \in Threads : Pending(v) \/ Pending(v)' => at'[v] = at[v] /\ call'[v] = call[v]
    BY <1>1, <1>2
  <1>4. \A v \in Threads : call'[v].event \in {NULL, call[v].event}
    BY <1>1
  <1>5. \A v \in Threads : at'[v] # at[v] =>
          /\ at'[v] \notin {"exiting", "killed", "unborn", "freeing", "ending", "gone"}
          /\ at'[v] = "waiting" => at[v] = "unborn"
          /\ at[v] \in {"unborn", "killed"} => v = u
          /\ at[v] \notin {"waiting", "failing", "exiting", "gone", "ending"}
    BY <1>1
  <1>6. instance'[u] # instance[u]
    <2>1. instance \in [Threads -> 0 .. next_instance - 1] /\ next_instance \in Nat
      BY DEF Typed
    <2>2. QED
      BY <1>1, <2>1
  <1>7. QED
    BY <1>1, <1>3, <1>4, <1>5, <1>6 DEF Quiet

\* Every step is one of the log's, begins an event, or leaves the log alone.
LEMMA StepKinds ==
  ASSUME Typed, SlotsInv, NamesInv, EventsInv, CallInv, blocks \subseteq heap,
         NEW t \in Threads, Step(t)
  PROVE  /\ Typed'
         /\ Reserve(t) \/ Commit(t) \/ Flag(t) \/ ExitGroup(t) \/ Beginning(t) \/ Quiet
  <1>1. CASE Reserve(t) \/ Commit(t) \/ Flag(t) \/ ExitGroup(t)
    BY <1>1, ReserveStep, CommitStep, FlagStep, ExitStep
  <1>2. CASE Malloc(t) \/ Realloc(t) \/ Return(t) \/ Free(t) \/ RealFree(t)
    BY <1>2, MallocBegins, ReallocBegins, ReturnKind, FreeBegins, RealFreeKind
  <1>3. CASE (\E u \in Threads : Create(t, u)) \/ CreateFails(t) \/ Register(t) \/ Created(t)
    BY <1>3, CreateKind, CreateFailsKind, RegisterKind, CreatedKind
  <1>4. CASE Release(t) \/ Begin(t) \/ Finish(t) \/ End(t)
    BY <1>4, ReleaseKind, BeginBegins, FinishBegins, EndKind
  <1>5. CASE Join(t) \/ Detach(t)
    BY <1>5, LookUpKind DEF Join, Detach
  <1>6. CASE RealJoin(t) \/ RealDetach(t) \/ Forget(t)
    BY <1>6, RealJoinKind, RealDetachKind, ForgetKind
  <1>7. QED
    BY <1>1, <1>2, <1>3, <1>4, <1>5, <1>6 DEF Step

------------------------------------------------------------------------------
(* The file keeps its shape. *)

\* What is logging does not change but for the thread that begins.
LEMMA BeginningFile ==
  ASSUME NEW t \in Threads, Beginning(t)
  PROVE  /\ next_index' = next_index /\ slots' = slots /\ overflow' = overflow
         /\ next_instance' = next_instance /\ instance' = instance
         /\ parent_ready' = parent_ready
         /\ at'[t] = "reserving"
         /\ \A u \in Threads \ {t} : at'[u] = at[u] /\ call'[u] = call[u] /\ did'[u] = did[u]
  BY DEF Beginning, fileVars, Begins, Others

\* The file in a quiet step.
LEMMA QuietFile ==
  ASSUME Quiet
  PROVE  /\ next_index' = next_index /\ slots' = slots /\ overflow' = overflow /\ did' = did
         /\ next_instance' \in {next_instance, next_instance + 1}
  BY DEF Quiet, fileVars

\* Reservation, filling and everything else keep the slots apart.
LEMMA SlotsKept ==
  ASSUME Typed, Typed', SlotsInv, EventsInv, NEW t \in Threads,
         Reserve(t) \/ Commit(t) \/ Flag(t) \/ ExitGroup(t) \/ Beginning(t) \/ Quiet
  PROVE  SlotsInv'
  <1>0. next_index \in Nat /\ Capacity \in Nat \ {0} /\ 1 \in 1 .. Capacity
    BY CaptureAssumption DEF Typed
  <1>1. CASE Reserve(t)
    <2>1. /\ slots' = slots /\ next_index' = next_index + 1
          /\ \A u \in Threads \ {t} : at'[u] = at[u] /\ call'[u] = call[u]
          /\ \/ next_index < Capacity /\ call'[t].slot = next_index + 1
             \/ at'[t] = "failing"
      BY <1>1, ReserveStep DEF Others
    <2>2. \A u \in Threads : at[u] = "committing" =>
            /\ call[u].slot \in 2 .. next_index /\ call[u].slot <= Capacity
            /\ slots[call[u].slot] = NULL
      BY DEF SlotsInv
    <2>3. \A u \in Threads : at'[u] = "committing" =>
            /\ call'[u].slot \in 2 .. next_index + 1 /\ call'[u].slot <= Capacity
            /\ slots[call'[u].slot] = NULL
            /\ u # t => call'[u].slot # next_index + 1
            /\ u = t => call'[u].slot = next_index + 1
      <3>1. next_index < Capacity => slots[next_index + 1] = NULL
        BY <1>0 DEF SlotsInv
      <3>2. next_index >= 1
        BY DEF SlotsInv
      <3>3. ASSUME NEW u \in Threads, at'[u] = "committing"
            PROVE  /\ call'[u].slot \in 2 .. next_index + 1 /\ call'[u].slot <= Capacity
                   /\ slots[call'[u].slot] = NULL
                   /\ u # t => call'[u].slot # next_index + 1
                   /\ u = t => call'[u].slot = next_index + 1
        <4>1. CASE u = t
          <5>1. next_index < Capacity /\ call'[t].slot = next_index + 1
            BY <2>1, <3>3, <4>1
          <5>2. QED
            BY <1>0, <3>1, <3>2, <4>1, <5>1
        <4>2. CASE u # t
          <5>1. at[u] = "committing" /\ call'[u] = call[u]
            BY <2>1, <3>3, <4>2
          <5>2. QED
            BY <1>0, <2>2, <4>2, <5>1
        <4>3. QED
          BY <4>1, <4>2
      <3>4. QED
        BY <3>3
    <2>4. \A u, v \in Threads :
            at'[u] = "committing" /\ at'[v] = "committing" /\ call'[u].slot = call'[v].slot => u = v
      BY <2>1, <2>3 DEF SlotsInv
    <2>5. next_index' >= 1 /\ \A n \in 1 .. Capacity : n > next_index' => slots'[n] = NULL
      BY <1>0, <2>1 DEF SlotsInv
    <2>6. slots'[1] # NULL /\ slots'[1].type = "process"
      BY <2>1 DEF SlotsInv
    <2>7. QED
      BY <2>1, <2>3, <2>4, <2>5, <2>6 DEF SlotsInv
  <1>2. CASE Commit(t)
    <2> DEFINE k == call[t].slot
    <2>1. /\ next_index' = next_index /\ call' = call /\ at[t] = "committing"
          /\ k \in 2 .. Capacity /\ k <= next_index
          /\ \A n \in 1 .. Capacity : n # k => slots'[n] = slots[n]
          /\ \A u \in Threads \ {t} : at'[u] = at[u]
      BY <1>2, CommitStep DEF Others
    <2>2. at'[t] # "committing"
      <3>1. at'[t] = call[t].then /\ Pending(t)
        BY <1>2, CommitStep DEF Pending
      <3>2. <<call[t].event.type, call[t].then>> \in Continuations
        BY <3>1 DEF EventsInv
      <3>3. QED
        BY <3>1, <3>2 DEF Continuations
    <2> HIDE DEF k
    <2>3. next_index' >= 1 /\ \A n \in 1 .. Capacity : n > next_index' => slots'[n] = NULL
      BY <1>0, <2>1 DEF SlotsInv
    <2>4. slots'[1] # NULL /\ slots'[1].type = "process"
      BY <1>0, <2>1 DEF SlotsInv
    <2>5. \A u \in Threads : at'[u] = "committing" =>
            /\ at[u] = "committing" /\ call'[u].slot = call[u].slot /\ call[u].slot # k
            /\ call[u].slot \in 2 .. next_index /\ call[u].slot <= Capacity
            /\ slots[call[u].slot] = NULL
      BY <2>1, <2>2 DEF SlotsInv, k
    <2>6. \A u \in Threads : at'[u] = "committing" => slots'[call'[u].slot] = NULL
      BY <1>0, <2>1, <2>5
    <2>7. \A u \in Threads : at'[u] = "committing" =>
            /\ call'[u].slot \in 2 .. next_index' /\ call'[u].slot <= Capacity
            /\ slots'[call'[u].slot] = NULL
      BY <2>1, <2>5, <2>6
    <2>8. \A u, v \in Threads :
            at'[u] = "committing" /\ at'[v] = "committing" /\ call'[u].slot = call'[v].slot => u = v
      BY <2>5 DEF SlotsInv
    <2>9. QED
      BY <2>3, <2>4, <2>7, <2>8 DEF SlotsInv
  <1>3. ASSUME next_index' = next_index, slots' = slots,
               \A u \in Threads : at'[u] = "committing" =>
                  at[u] = "committing" /\ call'[u].slot = call[u].slot
        PROVE  SlotsInv'
    <2>1. \A u \in Threads : at'[u] = "committing" =>
            /\ call'[u].slot \in 2 .. next_index' /\ call'[u].slot <= Capacity
            /\ slots'[call'[u].slot] = NULL
      BY <1>3 DEF SlotsInv
    <2>2. \A u, v \in Threads :
            at'[u] = "committing" /\ at'[v] = "committing" /\ call'[u].slot = call'[v].slot => u = v
      BY <1>3 DEF SlotsInv
    <2>3. QED
      BY <1>3, <2>1, <2>2 DEF SlotsInv
  <1>4. CASE Flag(t)
    <2>1. /\ next_index' = next_index /\ slots' = slots /\ call' = call /\ at'[t] = "exiting"
          /\ \A u \in Threads \ {t} : at'[u] = at[u]
      BY <1>4, FlagStep DEF Others
    <2>2. QED
      BY <1>3, <2>1
  <1>5. CASE ExitGroup(t)
    <2>1. /\ next_index' = next_index /\ slots' = slots
          /\ \A u \in Threads : at'[u] = "killed"
      BY <1>5, ExitStep DEF fileVars
    <2>2. QED
      BY <1>3, <2>1
  <1>6. CASE Beginning(t)
    BY <1>3, <1>6, BeginningFile
  <1>7. CASE Quiet
    <2>1. \A v \in Threads : at'[v] = "committing" => at'[v] = at[v] /\ call'[v] = call[v]
      BY <1>7 DEF Quiet, Pending
    <2>2. QED
      BY <1>3, <1>7, <2>1, QuietFile
  <1>8. QED
    BY <1>1, <1>2, <1>4, <1>5, <1>6, <1>7

\* The numbers of the slots are numbers that were given out.
NumbersKnown ==
  \A n \in 1 .. Capacity : slots[n] # NULL =>
    /\ slots[n].tid \in 1 .. next_instance - 1
    /\ slots[n].type \in ThreadTypes => slots[n].result \in 1 .. next_instance - 1

\* Numbers stay when the instances do.
LEMMA NamesFrame ==
  ASSUME NamesInv, NumbersKnown',
         instance' = instance, next_instance' = next_instance, parent_ready' = parent_ready,
         \A u \in Threads : at'[u] # at[u] =>
            /\ at'[u] \notin {"unborn", "waiting"}
            /\ at[u] \in {"unborn", "killed"} => at'[u] = "killed",
         \A u \in Threads : did'[u] # did[u] =>
            at'[u] \notin {"unborn", "waiting"} /\ instance[u] # 0
  PROVE  NamesInv'
  <1>1. next_instance' > instance'[Initial] /\ instance'[Initial] = 1
    BY DEF NamesInv
  <1>2. \A u \in Threads : at'[u] = "unborn" => instance'[u] = 0
    BY DEF NamesInv
  <1>3. \A u \in Threads : instance'[u] = 0 => at'[u] \in {"unborn", "killed"} /\ ~parent_ready'[u]
    BY DEF NamesInv
  <1>4. \A u, v \in Threads : instance'[u] = instance'[v] /\ instance'[u] # 0 => u = v
    BY DEF NamesInv
  <1>5. \A u \in Threads : at'[u] \in {"unborn", "waiting"} \/ instance'[u] = 0 => did'[u] = <<>>
    BY DEF NamesInv
  <1>6. QED
    BY <1>1, <1>2, <1>3, <1>4, <1>5 DEF NamesInv, NumbersKnown

\* A thread that logs has a number.
LEMMA LoggerHasNumber ==
  ASSUME NamesInv, NEW t \in Threads, at[t] \notin {"unborn", "killed"}
  PROVE  instance[t] # 0
  BY DEF NamesInv

\* No step gives a number twice or takes it away.
LEMMA NamesKept ==
  ASSUME Typed, Typed', SlotsInv, NamesInv, EventsInv, NEW t \in Threads,
         Reserve(t) \/ Commit(t) \/ Flag(t) \/ ExitGroup(t) \/ Beginning(t) \/ Quiet
  PROVE  NamesInv'
  <1>0. NumbersKnown
    BY DEF NamesInv, NumbersKnown
  <1>1. CASE Reserve(t)
    <2>1. /\ slots' = slots /\ next_instance' = next_instance /\ instance' = instance
          /\ parent_ready' = parent_ready /\ did' = did /\ at[t] = "reserving"
          /\ \A u \in Threads \ {t} : at'[u] = at[u]
          /\ at'[t] \in {"committing", "failing"}
      BY <1>1, ReserveStep DEF Others, threadVars
    <2>2. NumbersKnown'
      BY <1>0, <2>1 DEF NumbersKnown
    <2>3. QED
      BY <2>1, <2>2, NamesFrame
  <1>2. CASE Commit(t)
    <2>1. /\ next_instance' = next_instance /\ instance' = instance
          /\ parent_ready' = parent_ready /\ did' = did /\ at[t] = "committing"
          /\ \A u \in Threads \ {t} : at'[u] = at[u]
          /\ at'[t] = call[t].then
          /\ slots'[call[t].slot] = call[t].event
          /\ \A n \in 1 .. Capacity : n # call[t].slot => slots'[n] = slots[n]
      BY <1>2, CommitStep DEF Others, threadVars
    <2>2. /\ call[t].event # NULL /\ call[t].event.tid = instance[t] /\ instance[t] # 0
          /\ <<call[t].event.type, call[t].then>> \in Continuations
          /\ call[t].event.type \in ThreadTypes => call[t].event.result \in 1 .. next_instance - 1
      BY <2>1 DEF EventsInv, Pending
    <2>3. at'[t] \notin {"unborn", "waiting"}
      BY <2>1, <2>2 DEF Continuations
    <2>4. call[t].event.tid \in 1 .. next_instance - 1
      BY <2>2, NumberGiven
    <2>5. NumbersKnown'
      BY <1>0, <2>1, <2>2, <2>4 DEF NumbersKnown
    <2>6. QED
      BY <2>1, <2>3, <2>5, NamesFrame
  <1>3. CASE Flag(t)
    <2>1. /\ slots' = slots /\ next_instance' = next_instance /\ instance' = instance
          /\ parent_ready' = parent_ready /\ did' = did /\ at[t] = "failing"
          /\ \A u \in Threads \ {t} : at'[u] = at[u]
          /\ at'[t] = "exiting"
      BY <1>3, FlagStep DEF Others, threadVars
    <2>2. NumbersKnown'
      BY <1>0, <2>1 DEF NumbersKnown
    <2>3. QED
      BY <2>1, <2>2, NamesFrame
  <1>4. CASE ExitGroup(t)
    <2>1. /\ slots' = slots /\ next_instance' = next_instance /\ instance' = instance
          /\ parent_ready' = parent_ready /\ did' = did
          /\ \A u \in Threads : at'[u] = "killed"
      BY <1>4, ExitStep DEF fileVars, threadVars
    <2>2. NumbersKnown'
      BY <1>0, <2>1 DEF NumbersKnown
    <2>3. QED
      BY <2>1, <2>2, NamesFrame
  <1>5. CASE Beginning(t)
    <2>1. /\ slots' = slots /\ next_instance' = next_instance /\ instance' = instance
          /\ parent_ready' = parent_ready /\ at'[t] = "reserving"
          /\ \A u \in Threads \ {t} : at'[u] = at[u] /\ did'[u] = did[u]
      BY <1>5, BeginningFile
    <2>2. at[t] \notin {"unborn", "killed"}
      BY <1>5 DEF Beginning
    <2>3. instance[t] # 0
      BY <2>2, LoggerHasNumber
    <2>4. NumbersKnown'
      BY <1>0, <2>1 DEF NumbersKnown
    <2>5. QED
      BY <2>1, <2>2, <2>3, <2>4, NamesFrame
  <1>6. CASE Quiet
    <2>0. /\ next_instance \in Nat /\ instance \in [Threads -> 0 .. next_instance - 1]
          /\ Initial \in Threads
      BY CaptureAssumption DEF Typed
    <2>1. /\ slots' = slots /\ did' = did
          /\ next_instance' \in {next_instance, next_instance + 1}
      BY <1>6, QuietFile
    <2>2. \A v \in Threads :
            /\ at'[v] # at[v] =>
                 /\ at'[v] # "unborn"
                 /\ at'[v] = "waiting" => at[v] = "unborn"
                 /\ at[v] \in {"unborn", "killed"} => instance'[v] # instance[v]
            /\ instance'[v] # instance[v] =>
                 /\ at[v] = "unborn" /\ at'[v] = "waiting"
                 /\ instance'[v] = next_instance /\ next_instance' = next_instance + 1
            /\ parent_ready'[v] => parent_ready[v] \/ instance[v] # 0
      BY <1>6 DEF Quiet
    <2>3. \A v, w \in Threads :
            instance'[v] # instance[v] /\ instance'[w] # instance[w] => v = w
      BY <1>6 DEF Quiet
    <2>4. instance'[Initial] = 1 /\ next_instance' > instance'[Initial] /\ next_instance > 0
      <3>1. instance[Initial] = 1 /\ at[Initial] # "unborn" /\ next_instance > 1
        BY <2>0 DEF NamesInv
      <3>2. instance'[Initial] = instance[Initial]
        BY <2>0, <2>2, <3>1
      <3>3. QED
        BY <2>0, <2>1, <3>1, <3>2
    <2>5. \A u \in Threads : at'[u] = "unborn" => instance'[u] = 0
      <3>1. \A u \in Threads : at'[u] = "unborn" => at[u] = "unborn" /\ instance'[u] = instance[u]
        BY <2>2
      <3>2. QED
        BY <3>1 DEF NamesInv
    <2>6. \A u \in Threads : instance'[u] = 0 => at'[u] \in {"unborn", "killed"} /\ ~parent_ready'[u]
      <3>1. \A u \in Threads : instance'[u] = 0 => instance[u] = 0 /\ instance'[u] = instance[u]
        BY <2>2, <2>4
      <3>2. \A u \in Threads : instance[u] = 0 => at[u] \in {"unborn", "killed"} /\ ~parent_ready[u]
        BY DEF NamesInv
      <3>3. QED
        BY <2>2, <3>1, <3>2
    <2>7. \A u, v \in Threads : instance'[u] = instance'[v] /\ instance'[u] # 0 => u = v
      <3>1. \A u, v \in Threads : instance[u] = instance[v] /\ instance[u] # 0 => u = v
        BY DEF NamesInv
      <3>2. \A u \in Threads : instance[u] # next_instance
        BY <2>0
      <3>3. QED
        BY <2>2, <2>3, <3>1, <3>2
    <2>8. \A u \in Threads : at'[u] \in {"unborn", "waiting"} \/ instance'[u] = 0 => did'[u] = <<>>
      <3>1. \A u \in Threads : at[u] \in {"unborn", "waiting"} \/ instance[u] = 0 => did[u] = <<>>
        BY DEF NamesInv
      <3>2. \A u \in Threads : at'[u] \in {"unborn", "waiting"} => at[u] \in {"unborn", "waiting"}
        BY <2>2
      <3>3. \A u \in Threads : instance'[u] = 0 => instance[u] = 0
        BY <2>2, <2>4
      <3>4. QED
        BY <2>1, <3>1, <3>2, <3>3
    <2>9. NumbersKnown'
      <3>1. \A i \in 1 .. next_instance - 1 : i \in 1 .. next_instance' - 1
        <4>1. next_instance' = next_instance \/ next_instance' = next_instance + 1
          BY <2>1
        <4>2. QED
          BY <2>0, <4>1
      <3>2. QED
        BY <1>0, <2>1, <3>1 DEF NumbersKnown
    <2>10. QED
      BY <2>4, <2>5, <2>6, <2>7, <2>8, <2>9 DEF NamesInv, NumbersKnown
  <1>7. QED
    BY <1>1, <1>2, <1>3, <1>4, <1>5, <1>6

\* The process ends with the flag.
LEMMA ExitKept ==
  ASSUME Typed, ExitInv, NEW t \in Threads,
         Reserve(t) \/ (Commit(t) /\ SlotsInv /\ EventsInv) \/ Flag(t) \/ ExitGroup(t)
           \/ Beginning(t) \/ Quiet
  PROVE  ExitInv'
  <1>1. CASE Reserve(t)
    <2>1. /\ overflow' = overflow /\ at'[t] \in {"committing", "failing"}
          /\ \A u \in Threads \ {t} : at'[u] = at[u]
      BY <1>1, ReserveStep DEF Others
    <2>2. QED
      BY <2>1 DEF ExitInv
  <1>2. CASE Commit(t) /\ SlotsInv /\ EventsInv
    <2>1. /\ overflow' = overflow /\ at'[t] = call[t].then /\ at[t] = "committing"
          /\ \A u \in Threads \ {t} : at'[u] = at[u]
      BY <1>2, CommitStep DEF Others
    <2>2. <<call[t].event.type, call[t].then>> \in Continuations
      BY <1>2, <2>1 DEF EventsInv, Pending
    <2>3. call[t].then \notin {"exiting", "killed"}
      BY <2>2 DEF Continuations
    <2>4. QED
      BY <2>1, <2>3 DEF ExitInv
  <1>3. CASE Flag(t)
    <2>1. overflow'
      BY <1>3, FlagStep
    <2>2. QED
      BY <2>1 DEF ExitInv
  <1>4. CASE ExitGroup(t)
    <2>1. overflow' = overflow /\ at[t] = "exiting"
      BY <1>4, ExitStep DEF fileVars
    <2>2. overflow
      BY <2>1 DEF ExitInv
    <2>3. QED
      BY <2>1, <2>2 DEF ExitInv
  <1>5. CASE Beginning(t)
    <2>1. /\ overflow' = overflow /\ at'[t] = "reserving"
          /\ \A u \in Threads \ {t} : at'[u] = at[u]
      BY <1>5, BeginningFile
    <2>2. QED
      BY <2>1 DEF ExitInv
  <1>6. CASE Quiet
    <2>1. overflow' = overflow
      BY <1>6, QuietFile
    <2>2. \A v \in Threads : at'[v] \in {"exiting", "killed"} => at[v] = at'[v]
      BY <1>6 DEF Quiet
    <2>3. QED
      BY <2>1, <2>2 DEF ExitInv
  <1>7. QED
    BY <1>1, <1>2, <1>3, <1>4, <1>5, <1>6

------------------------------------------------------------------------------
(* What a thread is logging is the last of its history. *)

\* What one thread is logging, in terms of its own variables.
EventOf(t) ==
  /\ call[t].event # NULL => call[t].event.tid = instance[t] /\ instance[t] # 0
  /\ Pending(t) =>
       /\ call[t].event # NULL /\ did[t] # <<>> /\ call[t].event = did[t][Len(did[t])]
       /\ <<call[t].event.type, call[t].then>> \in Continuations
       /\ call[t].event.type \in ThreadTypes => call[t].event.result \in 1 .. next_instance - 1
       /\ call[t].event.type \in {"start", "end"} => call[t].event.result = instance[t]

\* It stays right while the thread goes on with it or forgets it.
LEMMA EventFrame ==
  ASSUME NEW t \in Threads, EventOf(t), next_instance \in Nat,
         next_instance' \in {next_instance, next_instance + 1},
         call'[t].event \in {NULL, call[t].event},
         call'[t].event # NULL => instance'[t] = instance[t],
         Pending(t)' => /\ Pending(t) /\ call'[t].event = call[t].event
                        /\ call'[t].then = call[t].then /\ did'[t] = did[t]
  PROVE  EventOf(t)'
  <1>1. call'[t].event # NULL => call'[t].event.tid = instance'[t] /\ instance'[t] # 0
    BY DEF EventOf
  <1>2. ASSUME Pending(t)'
        PROVE  /\ call'[t].event # NULL /\ did'[t] # <<>>
               /\ call'[t].event = did'[t][Len(did'[t])]
               /\ <<call'[t].event.type, call'[t].then>> \in Continuations
               /\ call'[t].event.type \in ThreadTypes
                    => call'[t].event.result \in 1 .. next_instance' - 1
               /\ call'[t].event.type \in {"start", "end"} => call'[t].event.result = instance'[t]
    <2>1. /\ Pending(t) /\ call'[t].event = call[t].event
          /\ call'[t].then = call[t].then /\ did'[t] = did[t]
      BY <1>2
    <2>2. /\ call[t].event # NULL /\ did[t] # <<>> /\ call[t].event = did[t][Len(did[t])]
          /\ <<call[t].event.type, call[t].then>> \in Continuations
          /\ call[t].event.type \in ThreadTypes => call[t].event.result \in 1 .. next_instance - 1
          /\ call[t].event.type \in {"start", "end"} => call[t].event.result = instance[t]
      BY <2>1 DEF EventOf
    <2>3. instance'[t] = instance[t]
      BY <2>1, <2>2
    <2>4. \A i \in 1 .. next_instance - 1 : i \in 1 .. next_instance' - 1
      <3>1. next_instance' = next_instance \/ next_instance' = next_instance + 1
        OBVIOUS
      <3>2. next_instance \in Nat
        OBVIOUS
      <3>3. QED
        BY ONLY <3>1, <3>2
    <2>5. QED
      BY <2>1, <2>2, <2>3, <2>4
  <1>3. QED
    BY <1>1, <1>2 DEF EventOf

\* The last element of what was appended.
LEMMA LastAppended ==
  ASSUME NEW s \in Seq(Events), NEW e \in Events
  PROVE  /\ Append(s, e) # <<>> /\ Len(Append(s, e)) = Len(s) + 1
         /\ Append(s, e)[Len(Append(s, e))] = e
         /\ \A i \in 1 .. Len(s) : Append(s, e)[i] = s[i]
  <1>1. Len(s) \in Nat
    OBVIOUS
  <1>2. Len(Append(s, e)) = Len(s) + 1 /\ Append(s, e)[Len(s) + 1] = e
    BY <1>1
  <1>3. \A i \in 1 .. Len(s) : Append(s, e)[i] = s[i]
    BY <1>1
  <1>4. Append(s, e) # <<>>
    BY <1>1, <1>2
  <1>5. QED
    BY <1>2, <1>3, <1>4

\* A thread logs what it has just done, whatever the others do.
LEMMA EventsKept ==
  ASSUME Typed, SlotsInv, NamesInv, EventsInv, NEW t \in Threads,
         Reserve(t) \/ Commit(t) \/ Flag(t) \/ ExitGroup(t) \/ Beginning(t) \/ Quiet
  PROVE  EventsInv'
  <1>0. next_instance \in Nat /\ \A u \in Threads : EventOf(u)
    BY DEF Typed, EventsInv, EventOf
  <1>1. SUFFICES \A u \in Threads : EventOf(u)'
    BY DEF EventsInv, EventOf
  <1> TAKE u \in Threads
  <1>2. CASE Reserve(t)
    <2>1. /\ next_instance' = next_instance /\ instance' = instance /\ did' = did
          /\ \A v \in Threads \ {t} : at'[v] = at[v] /\ call'[v] = call[v]
          /\ call'[t].event = call[t].event /\ call'[t].then = call[t].then
          /\ at[t] = "reserving"
      BY <1>2, ReserveStep DEF Others, SameTale, threadVars
    <2>2. Pending(u)' => Pending(u)
      BY <2>1 DEF Pending
    <2>3. call'[u].event = call[u].event /\ call'[u].then = call[u].then
      BY <2>1
    <2>4. QED
      BY <1>0, <2>1, <2>2, <2>3, EventFrame
  <1>3. CASE Commit(t)
    <2>1. /\ next_instance' = next_instance /\ instance' = instance /\ did' = did /\ call' = call
          /\ \A v \in Threads \ {t} : at'[v] = at[v]
          /\ at[t] = "committing"
      BY <1>3, CommitStep DEF Others, threadVars
    <2>2. Pending(u)' => Pending(u)
      BY <2>1 DEF Pending
    <2>3. QED
      BY <1>0, <2>1, <2>2, EventFrame
  <1>4. CASE Flag(t)
    <2>1. /\ next_instance' = next_instance /\ instance' = instance /\ did' = did /\ call' = call
          /\ \A v \in Threads \ {t} : at'[v] = at[v]
          /\ at'[t] = "exiting"
      BY <1>4, FlagStep DEF Others, threadVars
    <2>2. Pending(u)' => Pending(u)
      BY <2>1 DEF Pending
    <2>3. QED
      BY <1>0, <2>1, <2>2, EventFrame
  <1>5. CASE ExitGroup(t)
    <2>1. /\ next_instance' = next_instance /\ instance' = instance /\ did' = did /\ call' = call
          /\ \A v \in Threads : at'[v] = "killed"
      BY <1>5, ExitStep DEF threadVars
    <2>2. ~Pending(u)'
      BY <2>1 DEF Pending
    <2>3. QED
      BY <1>0, <2>1, <2>2, EventFrame
  <1>6. CASE Beginning(t)
    <2>1. /\ next_instance' = next_instance /\ instance' = instance
          /\ \A v \in Threads \ {t} : at'[v] = at[v] /\ call'[v] = call[v] /\ did'[v] = did[v]
      BY <1>6, BeginningFile
    <2>2. CASE u # t
      <3>1. Pending(u)' => Pending(u)
        BY <2>1, <2>2 DEF Pending
      <3>2. call'[u] = call[u] /\ did'[u] = did[u]
        BY <2>1, <2>2
      <3>3. QED
        BY <1>0, <2>1, <3>1, <3>2, EventFrame
    <2>3. CASE u = t
      <3>1. PICK e \in Events, then \in Labels :
              /\ Begins(t, e, then) /\ <<e.type, then>> \in Continuations
              /\ e.type \in ThreadTypes => e.result \in 1 .. next_instance - 1
              /\ e.type \in {"start", "end"} => e.result = instance[t]
        BY <1>6 DEF Beginning
      <3>2. at[t] \notin {"unborn", "killed"}
        BY <1>6 DEF Beginning
      <3>3. instance[t] # 0 /\ e # NULL
        BY <3>2, LoggerHasNumber, NullIsNobody
      <3>4. call'[t].event = e /\ call'[t].then = then /\ e.tid = instance[t]
        BY <3>1 DEF Begins
      <3>5. did'[t] # <<>> /\ did'[t][Len(did'[t])] = e
        <4>1. did[t] \in Seq(Events) /\ did'[t] = Append(did[t], e)
          BY <3>1 DEF Typed, Begins
        <4>2. QED
          BY <4>1, LastAppended
      <3>6. EventOf(t)'
        BY <2>1, <3>1, <3>3, <3>4, <3>5 DEF EventOf
      <3>7. QED
        BY <2>3, <3>6
    <2>4. QED
      BY <2>2, <2>3
  <1>7. CASE Quiet
    <2>1. did' = did /\ next_instance' \in {next_instance, next_instance + 1}
      BY <1>7, QuietFile
    <2>2. /\ Pending(u) \/ Pending(u)' => at'[u] = at[u] /\ call'[u] = call[u]
          /\ call'[u].event \in {NULL, call[u].event}
          /\ instance'[u] # instance[u] => at[u] = "unborn"
      BY <1>7 DEF Quiet
    <2>3. Pending(u)' => Pending(u) /\ call'[u] = call[u]
      BY <2>2 DEF Pending
    <2>4. call'[u].event # NULL => instance'[u] = instance[u]
      BY <1>0, <2>2 DEF EventOf, NamesInv
    <2>5. QED
      BY <1>0, <2>1, <2>2, <2>3, <2>4, EventFrame
  <1>8. QED
    BY <1>2, <1>3, <1>4, <1>5, <1>6, <1>7

------------------------------------------------------------------------------
(* The rows of a thread are its history. *)

\* The slots of file sl that hold an event of number i.
FilledIn(sl, i) ==
  { n \in 1 .. Capacity : sl[n] # NULL /\ sl[n].type # "process" /\ sl[n].tid = i }

\* What the converter finds of a number is what the file holds of it.
LEMMA RowsFilled ==
  ASSUME NEW sl, NEW top \in Nat, \A n \in 1 .. Capacity : n > top => sl[n] = NULL, NEW i
  PROVE  { n \in { m \in 1 .. Min({top, Capacity}) : sl[m] # NULL /\ sl[m].type # "process" } :
             sl[n].tid = i } = FilledIn(sl, i)
  <1>1. {top, Capacity} \in SUBSET Nat /\ Capacity \in Nat
    BY CaptureAssumption
  <1>2. /\ Min({top, Capacity}) \in {top, Capacity}
        /\ \A n \in {top, Capacity} : Min({top, Capacity}) <= n
    BY <1>1, MinIsLeast
  <1> DEFINE m == Min({top, Capacity})
  <1>3. m \in Nat /\ m <= top /\ m <= Capacity /\ (m = top \/ m = Capacity)
    BY <1>1, <1>2
  <1> HIDE DEF m
  <1>4. \A n \in 1 .. Capacity : sl[n] # NULL => n \in 1 .. m
    BY <1>1, <1>3
  <1>5. 1 .. m \subseteq 1 .. Capacity
    BY <1>1, <1>3
  <1>6. { n \in { k \in 1 .. m : sl[k] # NULL /\ sl[k].type # "process" } : sl[n].tid = i }
          = FilledIn(sl, i)
    BY <1>4, <1>5 DEF FilledIn
  <1>7. QED
    BY <1>6 DEF m

\* The same of the file now and of the file after a step.
LEMMA RowsOfNow ==
  ASSUME Typed, SlotsInv, NEW i
  PROVE  RowsOf(i) = FilledIn(slots, i)
  <1>1. next_index \in Nat /\ \A n \in 1 .. Capacity : n > next_index => slots[n] = NULL
    BY DEF Typed, SlotsInv
  <1>2. QED
    BY <1>1, RowsFilled, Zenon DEF RowsOf, Rows

\* After the step the thread may have got its number.
LEMMA RowsOfNext ==
  ASSUME Typed', SlotsInv', NEW t \in Threads
  PROVE  RowsOf(instance[t])' = FilledIn(slots', instance'[t])
  <1>1. next_index' \in Nat /\ \A n \in 1 .. Capacity : n > next_index' => slots'[n] = NULL
    BY DEF Typed, SlotsInv
  <1>2. QED
    BY <1>1, RowsFilled, Zenon DEF RowsOf, Rows

\* S are the slots, in file sl, of the first k events of history d.
Tells(S, sl, d, k) ==
  /\ Cardinality(S) = k
  /\ \A n \in S : sl[n] = d[Cardinality({ m \in S : m <= n })]

\* A slot's rank among those of S.
LEMMA Rank ==
  ASSUME NEW S \in SUBSET (1 .. Capacity), NEW n \in S
  PROVE  /\ IsFiniteSet(S) /\ Cardinality(S) \in Nat
         /\ Cardinality({ m \in S : m <= n }) \in 1 .. Cardinality(S)
  <1> DEFINE R == { m \in S : m <= n }
  <1>1. IsFiniteSet(1 .. Capacity)
    BY CaptureAssumption, FS_Interval
  <1>2. IsFiniteSet(S)
    BY <1>1, FS_Subset
  <1>3. R \subseteq S /\ n \in R
    BY CaptureAssumption
  <1> HIDE DEF R
  <1>4. /\ IsFiniteSet(R) /\ Cardinality(R) <= Cardinality(S)
        /\ Cardinality(R) \in Nat /\ Cardinality(S) \in Nat
    BY <1>2, <1>3, FS_Subset, FS_CardinalityType
  <1>5. Cardinality(R) # 0
    BY <1>3, <1>4, FS_EmptySet
  <1>6. QED
    BY <1>2, <1>4, <1>5 DEF R

\* One more event of the history changes nothing for those before.
LEMMA TellsAppend ==
  ASSUME NEW S \in SUBSET (1 .. Capacity), NEW sl, NEW d \in Seq(Events), NEW e \in Events,
         Tells(S, sl, d, Len(d))
  PROVE  Tells(S, sl, Append(d, e), Len(Append(d, e)) - 1)
  <1>1. Len(d) \in Nat /\ Len(Append(d, e)) - 1 = Len(d)
    BY LastAppended
  <1>2. \A n \in S : sl[n] = Append(d, e)[Cardinality({ m \in S : m <= n })]
    <2> TAKE n \in S
    <2>1. Cardinality({ m \in S : m <= n }) \in 1 .. Len(d)
      BY Rank DEF Tells
    <2>2. QED
      BY <2>1, LastAppended DEF Tells
  <1>3. QED
    BY <1>1, <1>2 DEF Tells

\* The next slot tells the next event.
LEMMA TellsOneMore ==
  ASSUME NEW S \in SUBSET (1 .. Capacity), NEW sl, NEW next, NEW d \in Seq(Events),
         NEW k \in 1 .. Capacity, \A n \in S : n < k /\ next[n] = sl[n],
         d # <<>>, next[k] = d[Len(d)], Tells(S, sl, d, Len(d) - 1)
  PROVE  Tells(S \cup {k}, next, d, Len(d))
  <1>1. Capacity \in Nat /\ \A n \in S : n \in Nat /\ n < k
    BY CaptureAssumption
  <1>2. IsFiniteSet(S) /\ k \notin S
    <2>1. IsFiniteSet(1 .. Capacity)
      BY <1>1, FS_Interval
    <2>2. IsFiniteSet(S)
      BY <2>1, FS_Subset
    <2>3. k \in Nat /\ ~(k < k)
      BY <1>1
    <2>4. k \notin S
      BY <1>1, <2>3
    <2>5. QED
      BY <2>2, <2>4
  <1>3. Cardinality(S \cup {k}) = Cardinality(S) + 1 /\ Cardinality(S) \in Nat
    BY <1>2, FS_AddElement, FS_CardinalityType
  <1>4. Cardinality(S \cup {k}) = Len(d)
    <2>1. Len(d) \in Nat
      OBVIOUS
    <2>2. Cardinality(S) = Len(d) - 1
      BY DEF Tells
    <2>3. QED
      BY <1>3, <2>1, <2>2
  <1>5. \A n \in S : { m \in S \cup {k} : m <= n } = { m \in S : m <= n }
    <2>1. \A n \in S : ~(k <= n)
      BY <1>1
    <2>2. QED
      BY <2>1
  <1>6. { m \in S \cup {k} : m <= k } = S \cup {k}
    <2>1. \A m \in S \cup {k} : m <= k
      BY <1>1
    <2>2. QED
      BY <2>1
  <1>7. \A n \in S : next[n] = d[Cardinality({ m \in S \cup {k} : m <= n })]
    <2> TAKE n \in S
    <2>1. sl[n] = d[Cardinality({ m \in S : m <= n })]
      BY DEF Tells
    <2>2. { m \in S \cup {k} : m <= n } = { m \in S : m <= n }
      BY <1>5
    <2>3. QED
      BY <2>1, <2>2
  <1>8. next[k] = d[Cardinality({ m \in S \cup {k} : m <= k })]
    BY <1>4, <1>6
  <1>9. QED
    BY <1>4, <1>7, <1>8 DEF Tells

\* The rows of one thread.
RowsFine(t) ==
  /\ ~Refused => Tells(RowsOf(instance[t]), slots, did[t], Logged(t))
  /\ at[t] = "committing" => \A n \in RowsOf(instance[t]) : n < call[t].slot

\* RowsInv says this of every thread.
LEMMA RowsByThread ==
  /\ RowsInv <=> \A t \in Threads : RowsFine(t)
  /\ RowsInv' <=> \A t \in Threads : RowsFine(t)'
  BY DEF RowsInv, RowsFine, Tells

\* Rows stay while the file, the history and what is pending do.
LEMMA RowsFrame ==
  ASSUME Typed, Typed', SlotsInv, SlotsInv', NEW t \in Threads, RowsFine(t),
         FilledIn(slots', instance'[t]) = FilledIn(slots, instance[t]),
         \A n \in FilledIn(slots, instance[t]) : slots'[n] = slots[n],
         ~Refused' => ~Refused /\ (Pending(t)' <=> Pending(t)), did'[t] = did[t],
         at'[t] = "committing" => at[t] = "committing" /\ call'[t].slot = call[t].slot
  PROVE  RowsFine(t)'
  <1> DEFINE S == FilledIn(slots, instance[t])
  <1>1. RowsOf(instance[t]) = S /\ RowsOf(instance[t])' = S
    BY RowsOfNow, RowsOfNext
  <1>2. ASSUME ~Refused'
        PROVE  Tells(S, slots', did'[t], Logged(t)')
    <2>1. Logged(t)' = Logged(t)
      BY <1>2 DEF Logged
    <2>2. Tells(S, slots, did[t], Logged(t))
      BY <1>1, <1>2 DEF RowsFine
    <2>3. QED
      BY <2>1, <2>2 DEF Tells
  <1>3. at'[t] = "committing" => \A n \in S : n < call'[t].slot
    BY <1>1 DEF RowsFine
  <1>4. QED
    BY <1>1, <1>2, <1>3, Zenon DEF RowsFine

\* Whether the file is refused.
LEMMA RefusedSame ==
  ASSUME next_index' = next_index, overflow' = overflow
  PROVE  Refused' <=> Refused
  BY DEF Refused

\* Reserving: the slot comes after all that are filled.
LEMMA RowsReserved ==
  ASSUME Typed, Typed', SlotsInv, SlotsInv', RowsInv, NEW t \in Threads, Reserve(t)
  PROVE  RowsInv'
  <1>1. /\ slots' = slots /\ instance' = instance /\ did' = did /\ overflow' = overflow
        /\ next_index' = next_index + 1 /\ at[t] = "reserving"
        /\ \A v \in Threads \ {t} : at'[v] = at[v] /\ call'[v] = call[v]
        /\ \/ next_index < Capacity /\ at'[t] = "committing" /\ call'[t].slot = next_index + 1
           \/ next_index >= Capacity /\ at'[t] = "failing"
    BY ReserveStep DEF Others, threadVars
  <1>2. next_index \in Nat /\ Capacity \in Nat
    BY CaptureAssumption DEF Typed
  <1>3. ~Refused' => ~Refused /\ at'[t] = "committing"
    BY <1>1, <1>2 DEF Refused
  <1>4. SUFFICES ASSUME NEW u \in Threads PROVE RowsFine(u)'
    BY RowsByThread
  <1>5. RowsFine(u)
    BY RowsByThread
  <1>6. CASE u # t
    <2>1. Pending(u)' <=> Pending(u)
      BY <1>1, <1>6 DEF Pending
    <2>2. QED
      BY <1>1, <1>3, <1>5, <1>6, <2>1, RowsFrame
  <1>7. CASE u = t
    <2> DEFINE S == FilledIn(slots, instance[t])
    <2>1. RowsOf(instance[t]) = S /\ RowsOf(instance[t])' = S
      BY <1>1, RowsOfNow, RowsOfNext
    <2>2. ASSUME ~Refused'
          PROVE  Tells(S, slots', did'[t], Logged(t)')
      <3>1. Logged(t)' = Logged(t)
        BY <1>1, <1>3, <2>2 DEF Logged, Pending
      <3>2. QED
        BY <1>1, <1>3, <1>5, <1>7, <2>1, <2>2, <3>1 DEF RowsFine
    <2>3. ASSUME at'[t] = "committing", NEW n \in S
          PROVE  n < call'[t].slot
      <3>1. n \in 1 .. Capacity /\ slots[n] # NULL
        BY DEF FilledIn
      <3>2. ~(n > next_index)
        BY <3>1 DEF SlotsInv
      <3>3. call'[t].slot = next_index + 1
        BY <1>1, <2>3
      <3>4. QED
        BY <1>2, <3>1, <3>2, <3>3
    <2> HIDE DEF S
    <2>4. RowsFine(t)'
      BY <2>1, <2>2, <2>3, Zenon DEF RowsFine
    <2>5. QED
      BY <1>7, <2>4
  <1>8. QED
    BY <1>6, <1>7

\* Committing: one row more, and of this thread only.
LEMMA RowsCommitted ==
  ASSUME Typed, Typed', SlotsInv, SlotsInv', NamesInv, EventsInv, RowsInv,
         NEW t \in Threads, Commit(t)
  PROVE  RowsInv'
  <1> DEFINE k == call[t].slot
             e == call[t].event
             S == FilledIn(slots, instance[t])
  <1>1. /\ next_index' = next_index /\ overflow' = overflow /\ instance' = instance /\ did' = did
        /\ call' = call /\ at[t] = "committing" /\ at'[t] = call[t].then
        /\ k \in 2 .. Capacity /\ slots[k] = NULL /\ slots'[k] = e /\ e \in Events
        /\ \A n \in 1 .. Capacity : n # k => slots'[n] = slots[n]
        /\ \A v \in Threads \ {t} : at'[v] = at[v]
    BY CommitStep DEF Others, threadVars
  <1>2. /\ e.tid = instance[t] /\ instance[t] # 0 /\ did[t] # <<>> /\ e = did[t][Len(did[t])]
        /\ <<e.type, call[t].then>> \in Continuations /\ Pending(t)
    BY <1>1, NullIsNobody DEF EventsInv, Pending
  <1>3. e.type # "process" /\ call[t].then \notin {"reserving", "committing"}
    BY <1>2 DEF Continuations
  <1>4. e # NULL /\ k \in 1 .. Capacity
    BY <1>1, NullIsNobody
  <1> HIDE DEF k, e
  <1>5. Refused' <=> Refused
    BY <1>1, RefusedSame
  <1>6. SUFFICES ASSUME NEW u \in Threads PROVE RowsFine(u)'
    BY RowsByThread
  <1>7. RowsFine(u)
    BY RowsByThread
  <1>8. CASE u # t
    <2>1. instance[u] # instance[t]
      BY <1>2, <1>8 DEF NamesInv
    <2>2. \A n \in 1 .. Capacity :
            (slots'[n] # NULL /\ slots'[n].type # "process" /\ slots'[n].tid = instance[u])
              <=> (slots[n] # NULL /\ slots[n].type # "process" /\ slots[n].tid = instance[u])
      <3> TAKE n \in 1 .. Capacity
      <3>1. CASE n = k
        BY <1>1, <1>2, <2>1, <3>1
      <3>2. CASE n # k
        BY <1>1, <3>2
      <3>3. QED
        BY <3>1, <3>2
    <2>3. FilledIn(slots', instance'[u]) = FilledIn(slots, instance[u])
      BY <1>1, <2>2 DEF FilledIn
    <2>4. \A n \in FilledIn(slots, instance[u]) : slots'[n] = slots[n]
      BY <1>1 DEF FilledIn
    <2>5. Pending(u)' <=> Pending(u)
      BY <1>1, <1>8 DEF Pending
    <2>6. QED
      BY <1>1, <1>5, <1>7, <1>8, <2>3, <2>4, <2>5, RowsFrame
  <1>9. CASE u = t
    <2>1. RowsOf(instance[t]) = S /\ RowsOf(instance[t])' = FilledIn(slots', instance[t])
      BY <1>1, RowsOfNow, RowsOfNext
    <2>2. FilledIn(slots', instance[t]) = S \cup {k}
      <3>1. \A n \in 1 .. Capacity :
              (slots'[n] # NULL /\ slots'[n].type # "process" /\ slots'[n].tid = instance[t])
                <=> (n = k \/ (slots[n] # NULL /\ slots[n].type # "process"
                                 /\ slots[n].tid = instance[t]))
        <4> TAKE n \in 1 .. Capacity
        <4>1. CASE n = k
          BY <1>1, <1>2, <1>3, <1>4, <4>1
        <4>2. CASE n # k
          BY <1>1, <4>2
        <4>3. QED
          BY <4>1, <4>2
      <3>2. QED
        BY <1>4, <3>1 DEF FilledIn
    <2>3. \A n \in S : n < k /\ slots'[n] = slots[n]
      <3>1. \A n \in S : n < k
        BY <1>1, <1>7, <1>9, <2>1 DEF RowsFine, k
      <3>2. \A n \in S : n \in 1 .. Capacity /\ slots[n] # NULL
        BY DEF FilledIn
      <3>3. QED
        BY <1>1, <3>1, <3>2
    <2>4. S \in SUBSET (1 .. Capacity) /\ did[t] \in Seq(Events)
      BY DEF FilledIn, Typed
    <2> HIDE DEF S
    <2>5. ~Refused => Tells(S, slots, did[t], Len(did[t]) - 1)
      BY <1>2, <1>7, <1>9, <2>1 DEF RowsFine, Logged
    <2>6. ~Refused => Tells(S \cup {k}, slots', did[t], Len(did[t]))
      BY <1>1, <1>2, <1>4, <2>3, <2>4, <2>5, TellsOneMore
    <2>7. Logged(t)' = Len(did[t]) /\ at'[t] # "committing"
      BY <1>1, <1>3 DEF Logged, Pending
    <2>8. RowsFine(t)'
      BY <1>1, <1>5, <2>1, <2>2, <2>6, <2>7 DEF RowsFine
    <2>9. QED
      BY <1>9, <2>8
  <1>10. QED
    BY <1>8, <1>9

\* Beginning: the event is of the history, and of no row yet.
LEMMA RowsBegun ==
  ASSUME Typed, Typed', SlotsInv, SlotsInv', RowsInv, NEW t \in Threads, Beginning(t)
  PROVE  RowsInv'
  <1>1. /\ next_index' = next_index /\ slots' = slots /\ overflow' = overflow
        /\ instance' = instance /\ at'[t] = "reserving"
        /\ \A u \in Threads \ {t} : at'[u] = at[u] /\ call'[u] = call[u] /\ did'[u] = did[u]
    BY BeginningFile
  <1>2. Refused' <=> Refused
    BY <1>1, RefusedSame
  <1>3. SUFFICES ASSUME NEW u \in Threads PROVE RowsFine(u)'
    BY RowsByThread
  <1>4. RowsFine(u)
    BY RowsByThread
  <1>5. CASE u # t
    <2>1. Pending(u)' <=> Pending(u)
      BY <1>1, <1>5 DEF Pending
    <2>2. QED
      BY <1>1, <1>2, <1>4, <1>5, <2>1, RowsFrame
  <1>6. CASE u = t
    <2> DEFINE S == FilledIn(slots, instance[t])
    <2>1. RowsOf(instance[t]) = S /\ RowsOf(instance[t])' = S
      BY <1>1, RowsOfNow, RowsOfNext
    <2>2. PICK e \in Events : did'[t] = Append(did[t], e)
      BY DEF Beginning, Begins
    <2>3. ~Pending(t) /\ Pending(t)'
      BY <1>1 DEF Beginning, Pending
    <2>4. S \in SUBSET (1 .. Capacity) /\ did[t] \in Seq(Events)
      BY DEF FilledIn, Typed
    <2> HIDE DEF S
    <2>5. ~Refused => Tells(S, slots, did[t], Len(did[t]))
      BY <1>4, <1>6, <2>1, <2>3 DEF RowsFine, Logged
    <2>6. ~Refused => Tells(S, slots, did'[t], Len(did'[t]) - 1)
      BY <2>2, <2>4, <2>5, TellsAppend
    <2>7. Logged(t)' = Len(did'[t]) - 1
      BY <2>3 DEF Logged
    <2>8. RowsFine(t)'
      BY <1>1, <1>2, <2>1, <2>6, <2>7 DEF RowsFine
    <2>9. QED
      BY <1>6, <2>8
  <1>7. QED
    BY <1>5, <1>6

\* A new number has no rows.
LEMMA RowsQuiet ==
  ASSUME Typed, Typed', SlotsInv, SlotsInv', NamesInv, RowsInv, Quiet
  PROVE  RowsInv'
  <1>1. next_index' = next_index /\ slots' = slots /\ overflow' = overflow /\ did' = did
    BY QuietFile
  <1>2. Refused' <=> Refused
    BY <1>1, RefusedSame
  <1>3. SUFFICES ASSUME NEW u \in Threads PROVE RowsFine(u)'
    BY RowsByThread
  <1>4. RowsFine(u)
    BY RowsByThread
  <1>5. /\ Pending(u) \/ Pending(u)' => at'[u] = at[u] /\ call'[u] = call[u]
        /\ instance'[u] # instance[u] => at[u] = "unborn" /\ instance'[u] = next_instance
    BY DEF Quiet
  <1>6. FilledIn(slots, instance'[u]) = FilledIn(slots, instance[u])
    <2>1. CASE instance'[u] = instance[u]
      BY <2>1
    <2>2. CASE instance'[u] # instance[u]
      <3>1. instance[u] = 0 /\ instance'[u] = next_instance
        BY <1>5, <2>2 DEF NamesInv
      <3>2. next_instance \in Nat
        BY DEF Typed
      <3>3. \A n \in 1 .. Capacity : slots[n] # NULL => slots[n].tid \in 1 .. next_instance - 1
        BY DEF NamesInv
      <3>4. FilledIn(slots, 0) = {} /\ FilledIn(slots, next_instance) = {}
        BY <3>2, <3>3 DEF FilledIn
      <3>5. QED
        BY <3>1, <3>4
    <2>3. QED
      BY <2>1, <2>2
  <1>7. Pending(u)' <=> Pending(u)
    BY <1>5 DEF Pending
  <1>8. at'[u] = "committing" => at[u] = "committing" /\ call'[u].slot = call[u].slot
    BY <1>5 DEF Pending
  <1>9. QED
    BY <1>1, <1>2, <1>4, <1>6, <1>7, <1>8, RowsFrame

\* Every step keeps the rows of a thread its history.
LEMMA RowsKept ==
  ASSUME Typed, Typed', SlotsInv, SlotsInv', NamesInv, EventsInv, ExitInv, RowsInv,
         NEW t \in Threads,
         Reserve(t) \/ Commit(t) \/ Flag(t) \/ ExitGroup(t) \/ Beginning(t) \/ Quiet
  PROVE  RowsInv'
  <1>1. CASE Flag(t)
    <2>1. /\ slots' = slots /\ instance' = instance /\ did' = did /\ call' = call
          /\ at'[t] = "exiting" /\ overflow' /\ \A v \in Threads \ {t} : at'[v] = at[v]
      BY <1>1, FlagStep DEF Others, threadVars
    <2>2. Refused'
      BY <2>1 DEF Refused
    <2>3. \A u \in Threads : RowsFine(u)
      BY RowsByThread
    <2>4. \A u \in Threads : at'[u] = "committing" => at[u] = "committing"
      BY <2>1
    <2>5. \A u \in Threads : RowsFine(u)'
      BY <2>1, <2>2, <2>3, <2>4, RowsFrame
    <2>6. QED
      BY <2>5, RowsByThread
  <1>2. CASE ExitGroup(t)
    <2>1. overflow' = overflow /\ at[t] = "exiting" /\ \A u \in Threads : at'[u] = "killed"
      BY <1>2, ExitStep DEF fileVars
    <2>2. Refused'
      BY <2>1 DEF ExitInv, Refused
    <2>3. \A u \in Threads : RowsFine(u)'
      BY <2>1, <2>2 DEF RowsFine
    <2>4. QED
      BY <2>3, RowsByThread
  <1>3. QED
    BY <1>1, <1>2, RowsReserved, RowsCommitted, RowsBegun, RowsQuiet

------------------------------------------------------------------------------
(* A block has one owner. *)

\* What a thread can have in hand at its place.
HandFits(t) ==
  /\ ~Pending(t) /\ at[t] \notin {"failing", "exiting", "killed", "returning", "freeing"}
       => HandOf(call[t].event) = {}
  /\ at[t] = "returning" =>
       call[t].event # NULL /\ call[t].event.type \in AllocTypes \cup {"realloc_failed"}
  /\ at[t] = "freeing" => call[t].event # NULL /\ call[t].event.type = "free"
  /\ call[t].event # NULL => BlockNamed(call[t].event)

\* Ownership says this of every thread.
LEMMA OwnershipByThread ==
  /\ Ownership <=>
       /\ blocks \subseteq heap
       /\ \A t \in Threads : HandOf(call[t].event) \subseteq heap \ blocks
       /\ \A t, u \in Threads : HandOf(call[t].event) \cap HandOf(call[u].event) # {} => t = u
       /\ \A t \in Threads : HandFits(t)
  /\ Ownership' <=>
       /\ blocks' \subseteq heap'
       /\ \A t \in Threads : HandOf(call'[t].event) \subseteq heap' \ blocks'
       /\ \A t, u \in Threads : HandOf(call'[t].event) \cap HandOf(call'[u].event) # {} => t = u
       /\ \A t \in Threads : HandFits(t)'
  BY DEF Ownership, InHand, HandOf, HandFits

\* One thread's hand changes, and the heap with it.
LEMMA OneHand ==
  ASSUME Ownership, NEW t \in Threads, Others(t), blocks' \subseteq heap',
         HandOf(call'[t].event) \subseteq heap' \ blocks', HandFits(t)',
         \A u \in Threads \ {t} :
           /\ HandOf(call[u].event) \subseteq heap' \ blocks'
           /\ HandOf(call'[t].event) \cap HandOf(call[u].event) = {}
  PROVE  Ownership'
  <1>1. \A u \in Threads \ {t} : call'[u] = call[u] /\ at'[u] = at[u]
    BY DEF Others
  <1>2. \A u \in Threads : HandOf(call'[u].event) \subseteq heap' \ blocks'
    BY <1>1
  <1>3. \A u, v \in Threads : HandOf(call'[u].event) \cap HandOf(call'[v].event) # {} => u = v
    <2> TAKE u, v \in Threads
    <2>1. HandOf(call[u].event) \cap HandOf(call[v].event) # {} => u = v
      BY OwnershipByThread
    <2>2. CASE u # t /\ v # t
      BY <1>1, <2>1, <2>2
    <2>3. CASE u = t /\ v # t
      <3>1. HandOf(call'[t].event) \cap HandOf(call[v].event) = {} /\ call'[v] = call[v]
        BY <1>1, <2>3
      <3>2. QED
        BY <2>3, <3>1
    <2>4. CASE u # t /\ v = t
      <3>1. HandOf(call'[t].event) \cap HandOf(call[u].event) = {} /\ call'[u] = call[u]
        BY <1>1, <2>4
      <3>2. QED
        BY <2>4, <3>1
    <2>5. QED
      BY <2>2, <2>3, <2>4
  <1>4. \A u \in Threads : HandFits(u)'
    <2> TAKE u \in Threads
    <2>1. CASE u # t
      <3>1. HandFits(u)
        BY OwnershipByThread
      <3>2. call'[u] = call[u] /\ at'[u] = at[u]
        BY <1>1, <2>1
      <3>3. QED
        BY <3>1, <3>2 DEF HandFits, Pending
    <2>2. QED
      BY <2>1
  <1>5. QED
    BY <1>2, <1>3, <1>4, OwnershipByThread

\* One thread's hand stays or is emptied.
LEMMA SameHand ==
  ASSUME Ownership, NEW t \in Threads, Others(t), UNCHANGED heapVars,
         HandOf(call'[t].event) \subseteq HandOf(call[t].event), HandFits(t)'
  PROVE  Ownership'
  <1>1. /\ blocks \subseteq heap /\ HandOf(call[t].event) \subseteq heap \ blocks
        /\ \A u \in Threads \ {t} :
             /\ HandOf(call[u].event) \subseteq heap \ blocks
             /\ HandOf(call[t].event) \cap HandOf(call[u].event) = {}
    BY OwnershipByThread
  <1>2. heap' = heap /\ blocks' = blocks
    BY DEF heapVars
  <1>3. \A u \in Threads \ {t} : HandOf(call'[t].event) \cap HandOf(call[u].event) = {}
    BY <1>1
  <1>4. QED
    BY <1>1, <1>2, <1>3, OneHand

\* The hands of events.
LEMMA Hands ==
  /\ HandOf(NULL) = {}
  /\ \A e \in Events : e.type \in ThreadTypes => HandOf(e) = {}
  /\ \A e \in Events : e.type \in AllocTypes => HandOf(e) = {e.result} \cap Addresses
  /\ \A e \in Events : e.type \in {"realloc_failed", "free"} => HandOf(e) = {e.address} \cap Addresses
  <1>1. \A e \in Events : e # NULL
    BY NullIsNobody
  <1>2. HandOf(NULL) = {}
    BY DEF HandOf
  <1>3. \A e \in Events : e.type \in ThreadTypes => HandOf(e) = {}
    BY DEF HandOf, ThreadTypes, AllocTypes
  <1>4. \A e \in Events : e.type \in AllocTypes => HandOf(e) = {e.result} \cap Addresses
    BY <1>1 DEF HandOf, AllocTypes
  <1>5. \A e \in Events : e.type \in {"realloc_failed", "free"} => HandOf(e) = {e.address} \cap Addresses
    BY <1>1 DEF HandOf, AllocTypes
  <1>6. QED
    BY <1>2, <1>3, <1>4, <1>5

\* A thread that begins to log may have any block in hand.
LEMMA BeginsFits ==
  ASSUME NEW t \in Threads, at'[t] = "reserving", BlockNamed(call'[t].event)
  PROVE  HandFits(t)'
  BY DEF HandFits, Pending

\* malloc: what nobody has.
LEMMA OwnershipMalloc ==
  ASSUME Typed, Ownership, NEW t \in Threads, Malloc(t)
  PROVE  Ownership'
  <1>1. PICK a \in (Addresses \ heap) \cup {NULL} :
          /\ heap' = heap \cup ({a} \ {NULL})
          /\ \E e \in Events : Begins(t, e, "returning") /\ e.type = "malloc" /\ e.result = a
    BY MallocStep
  <1>2. PICK e \in Events : Begins(t, e, "returning") /\ e.type = "malloc" /\ e.result = a
    BY <1>1
  <1>3. call'[t].event = e /\ at'[t] = "reserving" /\ Others(t) /\ blocks' = blocks
    BY <1>2, MallocStep DEF Begins
  <1>4. e.type \in AllocTypes
    BY <1>2 DEF AllocTypes
  <1>5. HandOf(e) = {a} \cap Addresses
    BY <1>2, <1>4, Hands
  <1>6. HandOf(e) \cap heap = {} /\ HandOf(e) \subseteq heap' /\ heap \subseteq heap'
    BY <1>1, <1>5, NullIsNobody
  <1>7. /\ blocks \subseteq heap
        /\ \A u \in Threads : HandOf(call[u].event) \subseteq heap \ blocks
    BY OwnershipByThread
  <1>8. HandOf(e) \subseteq heap' \ blocks'
    BY <1>3, <1>6, <1>7
  <1>9. \A u \in Threads \ {t} :
           /\ HandOf(call[u].event) \subseteq heap' \ blocks'
           /\ HandOf(e) \cap HandOf(call[u].event) = {}
    BY <1>3, <1>6, <1>7
  <1>10. blocks' \subseteq heap' /\ HandFits(t)'
    <2>1. BlockNamed(e)
      BY <1>2 DEF BlockNamed
    <2>2. QED
      BY <1>3, <1>6, <1>7, <2>1, BeginsFits
  <1>11. QED
    BY <1>3, <1>8, <1>9, <1>10, OneHand

\* A block that goes to a thread is no other thread's.
LEMMA TakesBlock ==
  ASSUME Ownership, NEW t \in Threads, Others(t), NEW a \in blocks, blocks' = blocks \ {a},
         NEW e \in Events, BlockNamed(e), call'[t].event = e, at'[t] = "reserving",
         heap \ {a} \subseteq heap', heap' \subseteq heap \cup HandOf(e),
         HandOf(e) \cap (heap \ {a}) = {}, HandOf(e) \subseteq heap', a \in heap' => a \in HandOf(e)
  PROVE  Ownership'
  <1>1. /\ blocks \subseteq heap
        /\ \A u \in Threads : HandOf(call[u].event) \subseteq heap \ blocks
    BY OwnershipByThread
  <1>2. blocks' \subseteq heap' /\ HandFits(t)'
    BY <1>1, BeginsFits
  <1>3. HandOf(e) \subseteq heap' \ blocks'
    BY <1>1
  <1>4. \A u \in Threads \ {t} :
           /\ HandOf(call[u].event) \subseteq heap' \ blocks'
           /\ HandOf(e) \cap HandOf(call[u].event) = {}
    BY <1>1
  <1>5. QED
    BY <1>2, <1>3, <1>4, OneHand

\* realloc: the block, and the one it moves to.
LEMMA OwnershipRealloc ==
  ASSUME Typed, Ownership, NEW t \in Threads, Realloc(t)
  PROVE  Ownership'
  <1>1. blocks \subseteq heap /\ heap \subseteq Addresses
    BY OwnershipByThread DEF Typed
  <1>2. PICK a \in blocks, e \in Events :
          /\ blocks' = blocks \ {a} /\ Begins(t, e, "returning") /\ e.address = a
          /\ \/ /\ e.type = "realloc"
                /\ \E b \in (Addresses \ heap) \cup {a} :
                     heap' = (heap \ {a}) \cup {b} /\ e.result = b
             \/ e.type = "realloc" /\ heap' = heap \ {a} /\ e.result = NULL
             \/ e.type = "realloc_failed" /\ heap' = heap
    BY <1>1, ReallocStep
  <1>3. call'[t].event = e /\ at'[t] = "reserving" /\ Others(t)
    BY <1>1, <1>2, ReallocStep DEF Begins
  <1>4. CASE /\ e.type = "realloc"
             /\ \E b \in (Addresses \ heap) \cup {a} :
                  heap' = (heap \ {a}) \cup {b} /\ e.result = b
    <2>1. PICK b \in (Addresses \ heap) \cup {a} : heap' = (heap \ {a}) \cup {b} /\ e.result = b
      BY <1>4
    <2>2. e.type \in AllocTypes
      BY <1>4 DEF AllocTypes
    <2>3. HandOf(e) = {b}
      BY <1>1, <2>1, <2>2, Hands
    <2>4. BlockNamed(e)
      BY <1>1, <1>4, <2>1 DEF BlockNamed
    <2>5. QED
      BY <1>1, <1>2, <1>3, <2>1, <2>3, <2>4, TakesBlock
  <1>5. CASE e.type = "realloc" /\ heap' = heap \ {a} /\ e.result = NULL
    <2>1. e.type \in AllocTypes
      BY <1>5 DEF AllocTypes
    <2>2. HandOf(e) = {}
      BY <1>5, <2>1, Hands, NullIsNobody
    <2>3. BlockNamed(e)
      BY <1>5 DEF BlockNamed
    <2>4. QED
      BY <1>1, <1>2, <1>3, <1>5, <2>2, <2>3, TakesBlock
  <1>6. CASE e.type = "realloc_failed" /\ heap' = heap
    <2>1. HandOf(e) = {a}
      BY <1>1, <1>2, <1>6, Hands
    <2>2. BlockNamed(e)
      BY <1>1, <1>2, <1>6 DEF BlockNamed, AllocTypes
    <2>3. QED
      BY <1>1, <1>2, <1>3, <1>6, <2>1, <2>2, TakesBlock
  <1>7. QED
    BY <1>2, <1>4, <1>5, <1>6

\* free: the block leaves the program before it leaves the heap.
LEMMA OwnershipFree ==
  ASSUME Typed, Ownership, NEW t \in Threads, Free(t)
  PROVE  Ownership'
  <1>1. blocks \subseteq heap /\ heap \subseteq Addresses
    BY OwnershipByThread DEF Typed
  <1>2. PICK a \in blocks, e \in Events :
          /\ blocks' = blocks \ {a} /\ Begins(t, e, "freeing") /\ e.type = "free" /\ e.address = a
    BY <1>1, FreeStep
  <1>3. call'[t].event = e /\ at'[t] = "reserving" /\ Others(t) /\ heap' = heap
    BY <1>1, <1>2, FreeStep DEF Begins
  <1>4. HandOf(e) = {a}
    BY <1>1, <1>2, Hands
  <1>5. BlockNamed(e)
    BY <1>1, <1>2 DEF BlockNamed, AllocTypes
  <1>6. QED
    BY <1>1, <1>2, <1>3, <1>4, <1>5, TakesBlock

\* The call returns what it had in hand to the program.
LEMMA OwnershipReturn ==
  ASSUME Typed, Ownership, NEW t \in Threads, Return(t)
  PROVE  Ownership'
  <1> DEFINE e == call[t].event
  <1>1. /\ Others(t) /\ call'[t].event = NULL /\ at[t] = "returning" /\ at'[t] = "idle"
        /\ heap' = heap
        /\ blocks' = blocks \cup (IF e.type = "realloc_failed" THEN {e.address}
                                    ELSE {e.result} \ {NULL})
    BY ReturnStep DEF Ends
  <1>2. /\ e # NULL /\ e.type \in AllocTypes \cup {"realloc_failed"} /\ BlockNamed(e)
    BY <1>1, OwnershipByThread DEF HandFits
  <1>3. e \in Events
    BY <1>2 DEF Typed, Calls
  <1> HIDE DEF e
  <1>4. /\ blocks \subseteq heap /\ HandOf(e) \subseteq heap \ blocks
        /\ \A u \in Threads \ {t} :
             /\ HandOf(call[u].event) \subseteq heap \ blocks
             /\ HandOf(e) \cap HandOf(call[u].event) = {}
    BY OwnershipByThread DEF e
  <1>5. blocks' = blocks \cup HandOf(e)
    <2>1. CASE e.type = "realloc_failed"
      <3>1. HandOf(e) = {e.address}
        BY <1>2, <1>3, <2>1, Hands DEF BlockNamed
      <3>2. QED
        BY <1>1, <2>1, <3>1
    <2>2. CASE e.type \in AllocTypes
      <3>1. e.result \in Addresses \cup {NULL} /\ HandOf(e) = {e.result} \cap Addresses
        BY <1>2, <1>3, <2>2, Hands DEF BlockNamed
      <3>2. HandOf(e) = {e.result} \ {NULL}
        BY <3>1, NullIsNobody
      <3>3. e.type # "realloc_failed"
        BY <2>2 DEF AllocTypes
      <3>4. QED
        BY <1>1, <3>2, <3>3
    <2>3. QED
      BY <1>2, <2>1, <2>2
  <1>6. HandOf(call'[t].event) = {} /\ HandFits(t)'
    <2>1. HandOf(call'[t].event) = {}
      BY <1>1, Hands
    <2>2. QED
      BY <1>1, <2>1 DEF HandFits
  <1>7. blocks' \subseteq heap'
    BY <1>1, <1>4, <1>5
  <1>8. \A u \in Threads \ {t} : HandOf(call[u].event) \subseteq heap' \ blocks'
    BY <1>1, <1>4, <1>5
  <1>9. QED
    BY <1>1, <1>6, <1>7, <1>8, OneHand

\* The real free releases what the thread has in hand.
LEMMA OwnershipRealFree ==
  ASSUME Typed, Ownership, NEW t \in Threads, RealFree(t)
  PROVE  Ownership'
  <1> DEFINE e == call[t].event
  <1>1. /\ Others(t) /\ call'[t].event = NULL /\ at[t] = "freeing" /\ at'[t] = "idle"
        /\ blocks' = blocks /\ heap' = heap \ {e.address}
    BY RealFreeStep DEF Ends
  <1>2. e # NULL /\ e.type = "free" /\ BlockNamed(e)
    BY <1>1, OwnershipByThread DEF HandFits
  <1>3. e \in Events
    BY <1>2 DEF Typed, Calls
  <1> HIDE DEF e
  <1>4. HandOf(e) = {e.address}
    BY <1>2, <1>3, Hands DEF BlockNamed
  <1>5. /\ blocks \subseteq heap /\ HandOf(e) \subseteq heap \ blocks
        /\ \A u \in Threads \ {t} :
             /\ HandOf(call[u].event) \subseteq heap \ blocks
             /\ HandOf(e) \cap HandOf(call[u].event) = {}
    BY OwnershipByThread DEF e
  <1>6. HandOf(call'[t].event) = {} /\ HandFits(t)'
    <2>1. HandOf(call'[t].event) = {}
      BY <1>1, Hands
    <2>2. QED
      BY <1>1, <2>1 DEF HandFits
  <1>7. blocks' \subseteq heap'
    BY <1>1, <1>4, <1>5
  <1>8. \A u \in Threads \ {t} : HandOf(call[u].event) \subseteq heap' \ blocks'
    BY <1>1, <1>4, <1>5
  <1>9. QED
    BY <1>1, <1>6, <1>7, <1>8, OneHand

\* A step that has nothing to do with blocks, and logs nothing.
LEMMA QuietHand ==
  ASSUME Ownership, NEW t \in Threads, Others(t), UNCHANGED heapVars,
         call'[t].event \in {NULL, call[t].event},
         at[t] \notin {"reserving", "committing", "failing", "exiting", "killed", "returning",
                       "freeing"},
         at'[t] \notin {"returning", "freeing"}
  PROVE  Ownership'
  <1>1. HandFits(t)
    BY OwnershipByThread
  <1>2. HandOf(call[t].event) = {}
    BY <1>1 DEF HandFits, Pending
  <1>3. HandOf(call'[t].event) = {}
    BY <1>2, Hands
  <1>4. call'[t].event # NULL => BlockNamed(call'[t].event)
    BY <1>1 DEF HandFits
  <1>5. HandFits(t)'
    BY <1>3, <1>4 DEF HandFits
  <1>6. QED
    BY <1>3, <1>5, SameHand

\* An event of a thread concerns no block.
LEMMA ThreadHand ==
  ASSUME Ownership, NEW t \in Threads, Others(t), UNCHANGED heapVars,
         NEW e \in Events, NEW then, Begins(t, e, then), e.type \in ThreadTypes
  PROVE  Ownership'
  <1>1. call'[t].event = e /\ at'[t] = "reserving"
    BY DEF Begins
  <1>2. HandOf(call'[t].event) = {}
    BY <1>1, Hands
  <1>3. BlockNamed(e)
    BY DEF BlockNamed, ThreadTypes, AllocTypes
  <1>4. HandFits(t)'
    BY <1>1, <1>3, BeginsFits
  <1>5. QED
    BY <1>2, <1>4, SameHand

\* The log keeps what the threads have in hand; so does the exit.
LEMMA OwnershipLog ==
  ASSUME Typed, SlotsInv, EventsInv, Ownership, NEW t \in Threads,
         Reserve(t) \/ Commit(t) \/ Flag(t) \/ ExitGroup(t)
  PROVE  Ownership'
  <1>0. HandFits(t)
    BY OwnershipByThread
  <1>1. CASE Reserve(t)
    <2>1. /\ Others(t) /\ UNCHANGED heapVars /\ call'[t].event = call[t].event
          /\ at'[t] \in {"committing", "failing"}
      BY <1>1, ReserveStep DEF SameTale
    <2>2. HandFits(t)'
      BY <1>0, <2>1 DEF HandFits, Pending
    <2>3. QED
      BY <2>1, <2>2, SameHand
  <1>2. CASE Commit(t)
    <2>1. /\ Others(t) /\ UNCHANGED heapVars /\ call' = call
          /\ at[t] = "committing" /\ at'[t] = call[t].then /\ call[t].event \in Events
      BY <1>2, CommitStep
    <2>2. call[t].event # NULL /\ <<call[t].event.type, call[t].then>> \in Continuations
      BY <2>1, NullIsNobody DEF EventsInv, Pending
    <2>3. HandFits(t)'
      <3>1. CASE call[t].event.type \in ThreadTypes
        <4>1. HandOf(call[t].event) = {}
          BY <2>1, <3>1, Hands
        <4>2. call[t].then \notin {"returning", "freeing"}
          BY <2>2, <3>1 DEF Continuations, ThreadTypes
        <4>3. QED
          BY <1>0, <2>1, <4>1, <4>2 DEF HandFits
      <3>2. CASE call[t].event.type \in AllocTypes \cup {"realloc_failed"}
        <4>1. call[t].then = "returning"
          BY <2>2, <3>2 DEF Continuations, AllocTypes
        <4>2. QED
          BY <1>0, <2>1, <2>2, <3>2, <4>1 DEF HandFits
      <3>3. CASE call[t].event.type = "free"
        <4>1. call[t].then = "freeing"
          BY <2>2, <3>3 DEF Continuations
        <4>2. QED
          BY <1>0, <2>1, <2>2, <3>3, <4>1 DEF HandFits
      <3>4. QED
        BY <2>2, <3>1, <3>2, <3>3 DEF Continuations, ThreadTypes, AllocTypes
    <2>4. QED
      BY <2>1, <2>3, SameHand
  <1>3. CASE Flag(t)
    <2>1. Others(t) /\ UNCHANGED heapVars /\ call' = call /\ at'[t] = "exiting"
      BY <1>3, FlagStep
    <2>2. HandFits(t)'
      BY <1>0, <2>1 DEF HandFits
    <2>3. QED
      BY <2>1, <2>2, SameHand
  <1>4. CASE ExitGroup(t)
    <2>1. /\ heap' = heap /\ blocks' = blocks /\ call' = call
          /\ \A u \in Threads : at'[u] = "killed"
      BY <1>4, ExitStep DEF heapVars
    <2>2. \A u \in Threads : HandFits(u)
      BY OwnershipByThread
    <2>3. \A u \in Threads : HandFits(u)'
      BY <2>1, <2>2 DEF HandFits
    <2>4. QED
      BY <2>1, <2>3, OwnershipByThread
  <1>5. QED
    BY <1>1, <1>2, <1>3, <1>4

\* Two threads move in pthread_create, both with empty hands.
LEMMA OwnershipCreate ==
  ASSUME Typed, Ownership, NEW t \in Threads, NEW u \in Threads, Create(t, u)
  PROVE  Ownership'
  <1>1. /\ at[t] = "idle" /\ at[u] = "unborn" /\ at'[t] = "registering" /\ at'[u] = "waiting"
        /\ \A v \in Threads \ {t, u} : at'[v] = at[v]
        /\ call'[t].event = call[t].event /\ \A v \in Threads \ {t} : call'[v] = call[v]
        /\ heap' = heap /\ blocks' = blocks
    BY CreateStep DEF heapVars
  <1>2. \A v \in Threads : call'[v].event = call[v].event
    BY <1>1
  <1>3. \A v \in Threads : HandFits(v)'
    <2> TAKE v \in Threads
    <2>1. HandFits(v)
      BY OwnershipByThread
    <2>2. CASE v \in {t, u}
      <3>1. HandOf(call[v].event) = {}
        BY <1>1, <2>1, <2>2 DEF HandFits, Pending
      <3>2. at'[v] \notin {"returning", "freeing"}
        BY <1>1, <2>2
      <3>3. QED
        BY <1>2, <2>1, <3>1, <3>2 DEF HandFits
    <2>3. CASE v \notin {t, u}
      <3>1. at'[v] = at[v] /\ call'[v].event = call[v].event
        BY <1>1, <1>2, <2>3
      <3>2. QED
        BY <2>1, <3>1 DEF HandFits, Pending
    <2>4. QED
      BY <2>2, <2>3
  <1>4. QED
    BY <1>1, <1>2, <1>3, OwnershipByThread

\* The other steps of a thread's life.
LEMMA OwnershipThreads ==
  ASSUME Typed, NamesInv, CallInv, Ownership, NEW t \in Threads,
         \/ CreateFails(t) \/ Register(t) \/ Created(t) \/ Release(t) \/ Begin(t) \/ Finish(t)
         \/ End(t) \/ Join(t) \/ Detach(t) \/ RealJoin(t) \/ RealDetach(t) \/ Forget(t)
  PROVE  Ownership'
  <1>1. CASE CreateFails(t)
    <2>1. call' = call /\ at' = at /\ heap' = heap /\ blocks' = blocks
      BY <1>1, CreateFailsStep DEF heapVars
    <2>2. \A v \in Threads : HandFits(v)
      BY OwnershipByThread
    <2>3. \A v \in Threads : HandFits(v)'
      BY <2>1, <2>2 DEF HandFits, Pending
    <2>4. QED
      BY <2>1, <2>3, OwnershipByThread
  <1>2. CASE Register(t)
    <2>1. /\ Others(t) /\ UNCHANGED heapVars /\ at[t] = "registering"
          /\ \/ \E e \in Events : Begins(t, e, "created") /\ e.type = "create"
             \/ at'[t] = "failing" /\ call' = call
      BY <1>2, RegisterStep
    <2>2. CASE at'[t] = "failing" /\ call' = call
      BY <2>1, <2>2, QuietHand
    <2>3. QED
      BY <2>1, <2>2, ThreadHand DEF ThreadTypes
  <1>3. CASE Created(t)
    <2>1. /\ Others(t) /\ UNCHANGED heapVars /\ at[t] = "created"
          /\ \/ \E e \in Events : Begins(t, e, "dismissing") /\ e.type = "detach"
             \/ at'[t] = "releasing" /\ call' = call
      BY <1>3, CreatedStep
    <2>2. CASE at'[t] = "releasing" /\ call' = call
      BY <2>1, <2>2, QuietHand
    <2>3. QED
      BY <2>1, <2>2, ThreadHand DEF ThreadTypes
  <1>4. CASE Release(t)
    <2>1. /\ Others(t) /\ UNCHANGED heapVars /\ at[t] = "releasing" /\ at'[t] = "idle"
          /\ call'[t].event = NULL
      BY <1>4, ReleaseStep DEF Ends
    <2>2. QED
      BY <2>1, QuietHand
  <1>5. CASE Begin(t)
    <2>1. /\ Others(t) /\ UNCHANGED heapVars
          /\ \E e \in Events : Begins(t, e, "idle") /\ e.type = "start"
      BY <1>5, BeginStep
    <2>2. QED
      BY <2>1, ThreadHand DEF ThreadTypes
  <1>6. CASE Finish(t)
    <2>1. /\ Others(t) /\ UNCHANGED heapVars
          /\ \E e \in Events : Begins(t, e, "ending") /\ e.type = "end"
      BY <1>6, FinishStep
    <2>2. QED
      BY <2>1, ThreadHand DEF ThreadTypes
  <1>7. CASE End(t)
    <2>1. /\ Others(t) /\ UNCHANGED heapVars /\ at[t] = "ending" /\ at'[t] = "gone"
          /\ call' = call
      BY <1>7, EndStep
    <2>2. QED
      BY <2>1, QuietHand
  <1>8. ASSUME NEW u \in Threads, NEW label \in {"joining", "detaching"}, LookUp(t, u, label)
        PROVE  Ownership'
    <2>1. /\ UNCHANGED <<heapVars, did>> /\ at[t] = "idle" /\ at'[t] = label
          /\ call'[t].event = call[t].event
          /\ \A v \in Threads \ {t} : at'[v] = at[v] /\ call'[v] = call[v]
      BY <1>8, LookUpStep
    <2>2. Others(t)
      BY <2>1 DEF Others
    <2>3. QED
      BY <1>8, <2>1, <2>2, QuietHand
  <1>9. CASE Join(t) \/ Detach(t)
    BY <1>8, <1>9 DEF Join, Detach
  <1>10. CASE RealJoin(t)
    <2>1. /\ Others(t) /\ UNCHANGED heapVars /\ at[t] = "joining"
          /\ \/ \E e \in Events : Begins(t, e, "forgetting") /\ e.type = "join"
             \/ Ends(t) /\ at'[t] = "idle"
      BY <1>10, RealJoinStep
    <2>2. CASE Ends(t) /\ at'[t] = "idle"
      BY <2>1, <2>2, QuietHand DEF Ends
    <2>3. QED
      BY <2>1, <2>2, ThreadHand DEF ThreadTypes
  <1>11. CASE RealDetach(t)
    <2>1. /\ Others(t) /\ UNCHANGED heapVars /\ at[t] = "detaching"
          /\ \/ \E e \in Events : Begins(t, e, "forgetting") /\ e.type = "detach"
             \/ Ends(t) /\ at'[t] = "idle"
      BY <1>11, RealDetachStep
    <2>2. CASE Ends(t) /\ at'[t] = "idle"
      BY <2>1, <2>2, QuietHand DEF Ends
    <2>3. QED
      BY <2>1, <2>2, ThreadHand DEF ThreadTypes
  <1>12. CASE Forget(t)
    <2>1. /\ Others(t) /\ UNCHANGED heapVars /\ at[t] \in {"forgetting", "dismissing"}
          /\ at'[t] \in {"idle", "releasing"} /\ call'[t].event \in {NULL, call[t].event}
      BY <1>12, ForgetStep DEF Ends
    <2>2. QED
      BY <2>1, QuietHand
  <1>13. QED
    BY <1>1, <1>2, <1>3, <1>4, <1>5, <1>6, <1>7, <1>9, <1>10, <1>11, <1>12

\* Every step leaves each block with one owner.
LEMMA OwnershipKept ==
  ASSUME Typed, SlotsInv, NamesInv, EventsInv, CallInv, Ownership, NEW t \in Threads, Step(t)
  PROVE  Ownership'
  BY OwnershipLog, OwnershipMalloc, OwnershipRealloc, OwnershipReturn, OwnershipFree,
     OwnershipRealFree, OwnershipCreate, OwnershipThreads DEF Step

------------------------------------------------------------------------------
(* What the calls under way hold on to. *)

\* A thread will forget a handle.
Recalls(t) ==
  \/ at[t] \in {"forgetting", "dismissing"}
  \/ Pending(t) /\ call[t].then \in {"forgetting", "dismissing"}

\* The call of one thread.
CallFine(t) ==
  LET u == call[t].subject IN
  /\ u # NULL => instance[u] # 0
  /\ Creating(t) =>
       /\ u \in Threads /\ u # Initial /\ at[u] = "waiting" /\ ~parent_ready[u] /\ ~claimed[u]
       /\ call[t].key \in Handles /\ handle[u] = call[t].key
  /\ Serving(t) =>
       /\ u \in Threads /\ u # Initial /\ parent_ready[u] /\ claimed[u] /\ ~detached[u]
       /\ handle[u] # NULL /\ call[t].key \in Handles
  /\ Recalls(t) => call[t].key \in Handles
  /\ call[t].found < next_instance

\* No two calls create, join or detach the same thread.
CallsApart ==
  /\ \A t, u \in Threads : Creating(t) /\ Creating(u) /\ call[t].subject = call[u].subject => t = u
  /\ \A t, u \in Threads : Serving(t) /\ Serving(u) /\ call[t].subject = call[u].subject => t = u

\* What the threads themselves say.
ThreadsFine ==
  /\ \A t, u \in Threads : handle[t] # NULL /\ handle[t] = handle[u] => t = u
  /\ \A t \in Threads : parent_ready[t] /\ ~claimed[t] /\ ~detached[t] => handle[t] # NULL
  /\ handle[Initial] = NULL /\ ~parent_ready[Initial]
  /\ \A t \in Threads : claimed[t] => parent_ready[t]

\* CallInv in these parts.
LEMMA CallByThread ==
  /\ CallInv <=> (\A t \in Threads : CallFine(t)) /\ CallsApart /\ ThreadsFine
  /\ CallInv' <=> (\A t \in Threads : CallFine(t)') /\ CallsApart' /\ ThreadsFine'
  BY DEF CallInv, CallFine, CallsApart, ThreadsFine, Serving, Recalls

\* The call of a thread that does not move, when its subject keeps what the
\* call relies on.
LEMMA OtherCall ==
  ASSUME NEW v \in Threads, CallFine(v), at'[v] = at[v], call'[v] = call[v],
         call[v].subject # NULL => instance'[call[v].subject] # 0,
         Creating(v) => /\ at'[call[v].subject] = "waiting"
                        /\ ~parent_ready'[call[v].subject] /\ ~claimed'[call[v].subject]
                        /\ handle'[call[v].subject] = handle[call[v].subject],
         Serving(v) => /\ parent_ready'[call[v].subject] /\ claimed'[call[v].subject]
                       /\ ~detached'[call[v].subject]
                       /\ handle'[call[v].subject] = handle[call[v].subject],
         call[v].found < next_instance'
  PROVE  CallFine(v)'
  <1>1. /\ Creating(v)' <=> Creating(v)
        /\ Serving(v)' <=> Serving(v)
        /\ Recalls(v)' <=> Recalls(v)
    BY DEF Creating, Serving, Recalls, Pending
  <1>2. QED
    BY <1>1 DEF CallFine

\* One thread moves, and the others keep what they have.
LEMMA OneCall ==
  ASSUME CallInv, NEW t \in Threads,
         \A v \in Threads \ {t} : CallFine(v)' /\ call'[v] = call[v],
         \A v \in Threads \ {t} : Creating(v)' => Creating(v),
         \A v \in Threads \ {t} : Serving(v)' => Serving(v),
         CallFine(t)', ThreadsFine',
         \A v \in Threads \ {t} : Creating(t)' /\ Creating(v) => call'[t].subject # call[v].subject,
         \A v \in Threads \ {t} : Serving(t)' /\ Serving(v) => call'[t].subject # call[v].subject
  PROVE  CallInv'
  <1>1. CallsApart
    BY CallByThread
  <1>2. \A v, w \in Threads :
          Creating(v)' /\ Creating(w)' /\ call'[v].subject = call'[w].subject => v = w
    BY <1>1 DEF CallsApart
  <1>3. \A v, w \in Threads :
          Serving(v)' /\ Serving(w)' /\ call'[v].subject = call'[w].subject => v = w
    BY <1>1 DEF CallsApart
  <1>4. CallsApart'
    BY <1>2, <1>3 DEF CallsApart
  <1>5. QED
    BY <1>4, CallByThread

\* A thread goes on with its call, or ends it, and touches no other thread.
LEMMA CallMove ==
  ASSUME Typed, CallInv, NEW t \in Threads, Others(t), UNCHANGED <<next_instance, threadVars>>,
         at[t] # "waiting" \/ parent_ready[t],
         Creating(t)' => Creating(t), ~Serving(t)', Recalls(t)' => Recalls(t) \/ Creating(t),
         Creating(t)' \/ Recalls(t)' =>
           call'[t].subject = call[t].subject /\ call'[t].key = call[t].key,
         call'[t].subject \in {NULL, call[t].subject}, call'[t].found \in {0, call[t].found}
  PROVE  CallInv'
  <1>1. (\A v \in Threads : CallFine(v)) /\ CallsApart /\ ThreadsFine
    BY CallByThread
  <1>2. /\ \A v \in Threads \ {t} : at'[v] = at[v] /\ call'[v] = call[v]
        /\ instance' = instance /\ handle' = handle /\ detached' = detached
        /\ claimed' = claimed /\ parent_ready' = parent_ready /\ next_instance' = next_instance
    BY DEF Others, threadVars
  <1>3. \A v \in Threads : Creating(v) => call[v].subject # t
    BY <1>1 DEF CallFine
  <1>4. ASSUME NEW v \in Threads, Creating(v)
        PROVE  at'[call[v].subject] = "waiting"
    <2>1. call[v].subject \in Threads \ {t} /\ at[call[v].subject] = "waiting"
      BY <1>1, <1>3, <1>4 DEF CallFine
    <2>2. QED
      BY <1>2, <2>1
  <1>5. \A v \in Threads \ {t} : CallFine(v)'
    <2> TAKE v \in Threads \ {t}
    <2>1. CallFine(v) /\ at'[v] = at[v] /\ call'[v] = call[v]
      BY <1>1, <1>2
    <2>2. QED
      BY <1>2, <1>4, <2>1, OtherCall DEF CallFine
  <1>6. CallFine(t)'
    <2>1. CallFine(t)
      BY <1>1
    <2>2. call'[t].subject # NULL => instance'[call'[t].subject] # 0
      BY <1>2, <2>1 DEF CallFine
    <2>3. Recalls(t)' => call'[t].key \in Handles
      BY <2>1 DEF CallFine
    <2>4. call'[t].found < next_instance'
      <3>1. call[t].found < next_instance /\ next_instance \in Nat /\ call[t].found \in Nat
        BY <2>1 DEF CallFine, Typed, Calls
      <3>2. 0 < next_instance
        BY <3>1
      <3>3. QED
        BY <1>2, <3>1, <3>2
    <2>5. ASSUME Creating(t)'
          PROVE  /\ call'[t].subject \in Threads /\ call'[t].subject # Initial
                 /\ at'[call'[t].subject] = "waiting"
                 /\ ~parent_ready'[call'[t].subject] /\ ~claimed'[call'[t].subject]
                 /\ call'[t].key \in Handles /\ handle'[call'[t].subject] = call'[t].key
      <3>1. Creating(t) /\ call'[t].subject = call[t].subject /\ call'[t].key = call[t].key
        BY <2>5
      <3>2. QED
        BY <1>2, <1>4, <2>1, <3>1 DEF CallFine
    <2>6. QED
      BY <2>2, <2>3, <2>4, <2>5 DEF CallFine
  <1>7. ThreadsFine'
    BY <1>1, <1>2 DEF ThreadsFine
  <1>8. \A v \in Threads \ {t} : (Creating(v)' <=> Creating(v)) /\ (Serving(v)' <=> Serving(v))
    BY <1>2 DEF Creating, Serving, Pending
  <1>9. \A v \in Threads \ {t} : Creating(t)' /\ Creating(v) => call'[t].subject # call[v].subject
    BY <1>1 DEF CallsApart
  <1>10. QED
    BY <1>2, <1>5, <1>6, <1>7, <1>8, <1>9, OneCall

\* The log, the exit and the calls about blocks.
LEMMA CallLog ==
  ASSUME Typed, SlotsInv, EventsInv, CallInv, NEW t \in Threads,
         Reserve(t) \/ Commit(t) \/ Flag(t) \/ ExitGroup(t)
  PROVE  CallInv'
  <1>1. CASE Reserve(t)
    <2>1. /\ Others(t) /\ UNCHANGED <<next_instance, threadVars>>
          /\ at[t] = "reserving" /\ at'[t] \in {"committing", "failing"}
          /\ call'[t].then = call[t].then /\ call'[t].subject = call[t].subject
          /\ call'[t].key = call[t].key /\ call'[t].found = call[t].found
      BY <1>1, ReserveStep DEF SameTale
    <2>2. /\ Creating(t)' => Creating(t)
          /\ Recalls(t)' => Recalls(t)
          /\ ~Serving(t)'
      BY <2>1 DEF Creating, Recalls, Serving, Pending
    <2>3. QED
      BY <2>1, <2>2, CallMove
  <1>2. CASE Commit(t)
    <2>1. /\ Others(t) /\ UNCHANGED <<next_instance, threadVars>> /\ call' = call
          /\ at[t] = "committing" /\ at'[t] = call[t].then
      BY <1>2, CommitStep
    <2>2. <<call[t].event.type, call[t].then>> \in Continuations
      BY <2>1 DEF EventsInv, Pending
    <2>3. call[t].then \in {"returning", "freeing", "created", "dismissing", "forgetting",
                            "idle", "ending"}
      BY <2>2 DEF Continuations
    <2>4. /\ Creating(t)' => Creating(t)
          /\ Recalls(t)' => Recalls(t)
          /\ ~Serving(t)'
      BY <2>1, <2>3 DEF Creating, Recalls, Serving, Pending
    <2>5. QED
      BY <2>1, <2>4, CallMove
  <1>3. CASE Flag(t)
    <2>1. /\ Others(t) /\ UNCHANGED <<next_instance, threadVars>> /\ call' = call
          /\ at[t] = "failing" /\ at'[t] = "exiting"
      BY <1>3, FlagStep
    <2>2. ~Creating(t)' /\ ~Recalls(t)' /\ ~Serving(t)'
      BY <2>1 DEF Creating, Recalls, Serving, Pending
    <2>3. QED
      BY <2>1, <2>2, CallMove
  <1>4. CASE ExitGroup(t)
    <2>1. /\ instance' = instance /\ handle' = handle /\ detached' = detached
          /\ claimed' = claimed /\ parent_ready' = parent_ready /\ next_instance' = next_instance
          /\ call' = call /\ \A v \in Threads : at'[v] = "killed"
      BY <1>4, ExitStep DEF threadVars
    <2>2. \A v \in Threads : ~Creating(v)' /\ ~Recalls(v)' /\ ~Serving(v)'
      BY <2>1 DEF Creating, Recalls, Serving, Pending
    <2>3. (\A v \in Threads : CallFine(v)) /\ ThreadsFine
      BY CallByThread
    <2>4. \A v \in Threads : CallFine(v)'
      BY <2>1, <2>2, <2>3 DEF CallFine
    <2>5. CallsApart' /\ ThreadsFine'
      BY <2>1, <2>2, <2>3 DEF CallsApart, ThreadsFine
    <2>6. QED
      BY <2>4, <2>5, CallByThread
  <1>5. QED
    BY <1>1, <1>2, <1>3, <1>4

\* A thread that begins to log goes on with the call it is in.
LEMMA CallBegins ==
  ASSUME Typed, CallInv, NEW t \in Threads, Others(t), UNCHANGED <<next_instance, threadVars>>,
         at[t] # "waiting" \/ parent_ready[t], NEW e, NEW then, Begins(t, e, then),
         then \in {"created", "dismissing"} => Creating(t),
         then # "forgetting"
  PROVE  CallInv'
  <1>1. /\ at'[t] = "reserving" /\ call'[t].then = then /\ call'[t].subject = call[t].subject
        /\ call'[t].key = call[t].key /\ call'[t].found = call[t].found
    BY DEF Begins
  <1>2. /\ Creating(t)' => Creating(t)
        /\ Recalls(t)' => Creating(t)
        /\ ~Serving(t)'
    BY <1>1 DEF Creating, Recalls, Serving, Pending
  <1>3. QED
    BY <1>1, <1>2, CallMove

\* A thread that ends its call holds on to nothing.
LEMMA CallEnds ==
  ASSUME Typed, CallInv, NEW t \in Threads, Others(t), UNCHANGED <<next_instance, threadVars>>,
         at[t] # "waiting", at'[t] = "idle", Ends(t)
  PROVE  CallInv'
  <1>1. call'[t].subject = NULL /\ call'[t].found = 0
    BY DEF Ends
  <1>2. ~Creating(t)' /\ ~Recalls(t)' /\ ~Serving(t)'
    BY DEF Creating, Recalls, Serving, Pending
  <1>3. QED
    BY <1>1, <1>2, CallMove

\* Blocks, and the steps that leave the handles of the threads alone.
LEMMA CallQuiet ==
  ASSUME Typed, NamesInv, CallInv, blocks \subseteq heap, NEW t \in Threads,
         \/ Malloc(t) \/ Realloc(t) \/ Return(t) \/ Free(t) \/ RealFree(t) \/ CreateFails(t)
         \/ Register(t) \/ Created(t) \/ Begin(t) \/ Finish(t) \/ Forget(t)
  PROVE  CallInv'
  <1>1. CASE Malloc(t)
    <2>1. /\ Others(t) /\ UNCHANGED <<next_instance, threadVars>> /\ at[t] = "idle"
          /\ \E e \in Events : Begins(t, e, "returning")
      BY <1>1, MallocStep
    <2>2. QED
      BY <2>1, CallBegins
  <1>2. CASE Realloc(t)
    <2>1. /\ Others(t) /\ UNCHANGED <<next_instance, threadVars>> /\ at[t] = "idle"
          /\ \E e \in Events : Begins(t, e, "returning")
      BY <1>2, ReallocStep
    <2>2. QED
      BY <2>1, CallBegins
  <1>3. CASE Return(t)
    BY <1>3, ReturnStep, CallEnds
  <1>4. CASE Free(t)
    <2>1. /\ Others(t) /\ UNCHANGED <<next_instance, threadVars>> /\ at[t] = "idle"
          /\ \E e \in Events : Begins(t, e, "freeing")
      BY <1>4, FreeStep
    <2>2. QED
      BY <2>1, CallBegins
  <1>5. CASE RealFree(t)
    BY <1>5, RealFreeStep, CallEnds
  <1>6. CASE CreateFails(t)
    <2>1. /\ instance' = instance /\ handle' = handle /\ detached' = detached
          /\ claimed' = claimed /\ parent_ready' = parent_ready
          /\ next_instance' = next_instance + 1 /\ at' = at /\ call' = call
      BY <1>6, CreateFailsStep DEF threadVars
    <2>2. (\A v \in Threads : CallFine(v)) /\ CallsApart /\ ThreadsFine
      BY CallByThread
    <2>3. \A v \in Threads : CallFine(v)'
      <3> TAKE v \in Threads
      <3>1. CallFine(v)
        BY <2>2
      <3>2. call[v].found \in Nat /\ next_instance \in Nat
        BY DEF Typed, Calls
      <3>3. call[v].found < next_instance'
        BY <2>1, <3>1, <3>2 DEF CallFine
      <3>4. QED
        BY <2>1, <3>1, <3>3, OtherCall DEF CallFine
    <2>4. CallsApart' /\ ThreadsFine'
      BY <2>1, <2>2 DEF CallsApart, ThreadsFine, Creating, Serving, Pending
    <2>5. QED
      BY <2>3, <2>4, CallByThread
  <1>7. CASE Register(t)
    <2>1. /\ Others(t) /\ UNCHANGED <<next_instance, threadVars>> /\ at[t] = "registering"
          /\ \/ \E e \in Events : Begins(t, e, "created")
             \/ at'[t] = "failing" /\ call' = call
      BY <1>7, RegisterStep
    <2>2. Creating(t)
      BY <2>1 DEF Creating
    <2>3. CASE at'[t] = "failing" /\ call' = call
      <3>1. ~Creating(t)' /\ ~Recalls(t)' /\ ~Serving(t)'
        BY <2>3 DEF Creating, Recalls, Serving, Pending
      <3>2. QED
        BY <2>1, <2>3, <3>1, CallMove
    <2>4. QED
      BY <2>1, <2>2, <2>3, CallBegins
  <1>8. CASE Created(t)
    <2>1. /\ Others(t) /\ UNCHANGED <<next_instance, threadVars>> /\ at[t] = "created"
          /\ \/ \E e \in Events : Begins(t, e, "dismissing")
             \/ at'[t] = "releasing" /\ call' = call
      BY <1>8, CreatedStep
    <2>2. Creating(t)
      BY <2>1 DEF Creating
    <2>3. CASE at'[t] = "releasing" /\ call' = call
      <3>1. ~Recalls(t)' /\ ~Serving(t)'
        BY <2>3 DEF Recalls, Serving, Pending
      <3>2. QED
        BY <2>1, <2>2, <2>3, <3>1, CallMove
    <2>4. QED
      BY <2>1, <2>2, <2>3, CallBegins
  <1>9. CASE Begin(t)
    <2>1. /\ Others(t) /\ UNCHANGED <<next_instance, threadVars>> /\ parent_ready[t]
          /\ \E e \in Events : Begins(t, e, "idle")
      BY <1>9, BeginStep
    <2>2. QED
      BY <2>1, CallBegins
  <1>10. CASE Finish(t)
    <2>1. /\ Others(t) /\ UNCHANGED <<next_instance, threadVars>> /\ at[t] = "idle"
          /\ \E e \in Events : Begins(t, e, "ending")
      BY <1>10, FinishStep
    <2>2. QED
      BY <2>1, CallBegins
  <1>11. CASE Forget(t)
    <2>1. /\ Others(t) /\ UNCHANGED <<next_instance, threadVars>>
          /\ \/ at[t] = "dismissing" /\ at'[t] = "releasing" /\ call' = call
             \/ at[t] = "forgetting" /\ at'[t] = "idle" /\ Ends(t)
      BY <1>11, ForgetStep
    <2>2. CASE at[t] = "dismissing" /\ at'[t] = "releasing" /\ call' = call
      <3>1. Creating(t) /\ ~Recalls(t)' /\ ~Serving(t)'
        BY <2>2 DEF Creating, Recalls, Serving, Pending
      <3>2. QED
        BY <2>1, <2>2, <3>1, CallMove
    <2>3. QED
      BY <2>1, <2>2, CallEnds
  <1>12. QED
    BY <1>1, <1>2, <1>3, <1>4, <1>5, <1>6, <1>7, <1>8, <1>9, <1>10, <1>11

\* pthread_create: the new thread has a handle that no other has.
LEMMA CallCreate ==
  ASSUME Typed, NamesInv, CallInv, NEW t \in Threads, NEW u \in Threads, Create(t, u)
  PROVE  CallInv'
  <1>1. /\ at[t] = "idle" /\ at[u] = "unborn" /\ t # u
        /\ claimed' = claimed /\ parent_ready' = parent_ready
        /\ next_instance' = next_instance + 1 /\ instance'[u] = next_instance
        /\ at'[t] = "registering" /\ at'[u] = "waiting"
        /\ call'[t].found = call[t].found
        /\ call'[t].subject = u /\ call'[t].key = handle'[u] /\ handle'[u] \in Handles
        /\ \A v \in Threads : handle[v] # handle'[u]
        /\ \A v \in Threads \ {t} : call'[v] = call[v]
        /\ \A v \in Threads \ {u} :
             instance'[v] = instance[v] /\ handle'[v] = handle[v] /\ detached'[v] = detached[v]
        /\ \A v \in Threads \ {t, u} : at'[v] = at[v]
    BY CreateStep
  <1>2. (\A v \in Threads : CallFine(v)) /\ CallsApart /\ ThreadsFine
    BY CallByThread
  <1>3. /\ instance[u] = 0 /\ ~parent_ready[u] /\ ~claimed[u] /\ u # Initial
        /\ next_instance # 0 /\ next_instance \in Nat
    <2>1. instance[u] = 0 /\ next_instance > instance[Initial] /\ instance[Initial] = 1
      BY <1>1 DEF NamesInv
    <2>2. ~parent_ready[u]
      BY <2>1 DEF NamesInv
    <2>3. ~claimed[u]
      BY <1>2, <2>2 DEF ThreadsFine
    <2>4. next_instance \in Nat /\ next_instance # 0
      BY <2>1 DEF Typed
    <2>5. QED
      BY <2>1, <2>2, <2>3, <2>4
  <1>4. \A v \in Threads : call[v].found < next_instance'
    <2> TAKE v \in Threads
    <2>1. call[v].found < next_instance /\ call[v].found \in Nat
      BY <1>2 DEF CallFine, Typed, Calls
    <2>2. QED
      BY <1>1, <1>3, <2>1
  <1>5. \A v \in Threads : call[v].subject \in Threads \cup {NULL} /\ call[v].subject # u
    <2> TAKE v \in Threads
    <2>1. call[v].subject \in Threads \cup {NULL}
      BY DEF Typed, Calls
    <2>2. call[v].subject # NULL => instance[call[v].subject] # 0
      BY <1>2 DEF CallFine
    <2>3. QED
      BY <1>3, <2>1, <2>2, NullIsNobody
  <1>6. \A v \in Threads : call[v].subject # NULL => instance'[call[v].subject] # 0
    BY <1>1, <1>2, <1>5 DEF CallFine
  <1>7. \A v \in Threads \ {t} : CallFine(v)'
    <2> TAKE v \in Threads \ {t}
    <2>1. CASE v = u
      <3>1. ~Creating(u)' /\ ~Serving(u)' /\ ~Recalls(u)'
        BY <1>1 DEF Creating, Serving, Recalls, Pending
      <3>2. QED
        BY <1>1, <1>4, <1>6, <2>1, <3>1 DEF CallFine
    <2>2. CASE v # u
      <3> DEFINE s == call[v].subject
      <3>1. CallFine(v) /\ at'[v] = at[v] /\ call'[v] = call[v]
        BY <1>1, <1>2, <2>2
      <3>2. ASSUME Creating(v)
            PROVE  /\ at'[s] = "waiting" /\ ~parent_ready'[s] /\ ~claimed'[s]
                   /\ handle'[s] = handle[s]
        <4>1. s \in Threads /\ at[s] = "waiting" /\ ~parent_ready[s] /\ ~claimed[s]
          BY <3>1, <3>2 DEF CallFine
        <4>2. s \notin {t, u}
          BY <1>1, <4>1
        <4>3. QED
          BY <1>1, <4>1, <4>2
      <3>3. ASSUME Serving(v)
            PROVE  /\ parent_ready'[s] /\ claimed'[s] /\ ~detached'[s]
                   /\ handle'[s] = handle[s]
        <4>1. s \in Threads /\ parent_ready[s] /\ claimed[s] /\ ~detached[s]
          BY <3>1, <3>3 DEF CallFine
        <4>2. s # u
          BY <1>5
        <4>3. QED
          BY <1>1, <4>1, <4>2
      <3> HIDE DEF s
      <3>4. QED
        BY <1>4, <1>6, <3>1, <3>2, <3>3, OtherCall DEF s
    <2>3. QED
      BY <2>1, <2>2
  <1>8. CallFine(t)'
    <2>1. Creating(t)' /\ ~Serving(t)' /\ ~Recalls(t)'
      BY <1>1 DEF Creating, Serving, Recalls, Pending
    <2>2. QED
      BY <1>1, <1>3, <1>4, <2>1 DEF CallFine
  <1>9. ThreadsFine'
    <2>1. \A v, w \in Threads : handle'[v] # NULL /\ handle'[v] = handle'[w] => v = w
      BY <1>1, <1>2 DEF ThreadsFine
    <2>2. \A v \in Threads : parent_ready'[v] /\ ~claimed'[v] /\ ~detached'[v] => handle'[v] # NULL
      BY <1>1, <1>2, <1>3 DEF ThreadsFine
    <2>3. handle'[Initial] = NULL /\ ~parent_ready'[Initial]
      BY <1>1, <1>2, <1>3, CaptureAssumption DEF ThreadsFine
    <2>4. QED
      BY <1>1, <1>2, <2>1, <2>2, <2>3 DEF ThreadsFine
  <1>10. \A v \in Threads \ {t} : (Creating(v)' => Creating(v)) /\ (Serving(v)' => Serving(v))
    BY <1>1 DEF Creating, Serving, Pending
  <1>11. QED
    BY <1>1, <1>5, <1>7, <1>8, <1>9, <1>10, OneCall

\* A thread moves, and changes only its subject: nobody else relies on it.
LEMMA CallSubject ==
  ASSUME Typed, CallInv, NEW t \in Threads, NEW s \in Threads,
         UNCHANGED <<next_instance, instance>>,
         \A v \in Threads \ {t} : at'[v] = at[v] /\ call'[v] = call[v],
         \A v \in Threads \ {s} :
           /\ handle'[v] = handle[v] /\ detached'[v] = detached[v]
           /\ claimed'[v] = claimed[v] /\ parent_ready'[v] = parent_ready[v],
         at[t] # "waiting",
         \A v \in Threads \ {t} : (Creating(v) \/ Serving(v)) => call[v].subject # s,
         ThreadsFine', CallFine(t)',
         Creating(t)' \/ Serving(t)' => call'[t].subject = s
  PROVE  CallInv'
  <1>1. (\A v \in Threads : CallFine(v)) /\ CallsApart /\ ThreadsFine
    BY CallByThread
  <1>2. \A v \in Threads \ {t} : CallFine(v)'
    <2> TAKE v \in Threads \ {t}
    <2> DEFINE w == call[v].subject
    <2>1. CallFine(v) /\ at'[v] = at[v] /\ call'[v] = call[v]
      BY <1>1
    <2>2. ASSUME Creating(v)
          PROVE  /\ at'[w] = "waiting" /\ ~parent_ready'[w] /\ ~claimed'[w]
                 /\ handle'[w] = handle[w]
      <3>1. w \in Threads /\ at[w] = "waiting" /\ ~parent_ready[w] /\ ~claimed[w]
        BY <2>1, <2>2 DEF CallFine
      <3>2. w # t /\ w # s
        BY <2>2, <3>1
      <3>3. QED
        BY <3>1, <3>2
    <2>3. ASSUME Serving(v)
          PROVE  /\ parent_ready'[w] /\ claimed'[w] /\ ~detached'[w] /\ handle'[w] = handle[w]
      <3>1. w \in Threads /\ parent_ready[w] /\ claimed[w] /\ ~detached[w] /\ w # s
        BY <2>1, <2>3 DEF CallFine
      <3>2. QED
        BY <3>1
    <2>4. (w # NULL => instance'[w] # 0) /\ call[v].found < next_instance'
      BY <2>1 DEF CallFine
    <2> HIDE DEF w
    <2>5. QED
      BY <2>1, <2>2, <2>3, <2>4, OtherCall DEF w
  <1>3. \A v \in Threads \ {t} : (Creating(v)' => Creating(v)) /\ (Serving(v)' => Serving(v))
    BY DEF Creating, Serving, Pending
  <1>4. QED
    BY <1>2, <1>3, OneCall

\* The release of the new thread.
LEMMA CallRelease ==
  ASSUME Typed, CallInv, NEW t \in Threads, Release(t)
  PROVE  CallInv'
  <1> DEFINE s == call[t].subject
  <1>1. /\ Others(t) /\ Ends(t) /\ at[t] = "releasing" /\ at'[t] = "idle"
        /\ UNCHANGED <<next_instance, instance, handle, detached, claimed>>
        /\ s \in Threads /\ parent_ready'[s]
        /\ \A v \in Threads \ {s} : parent_ready'[v] = parent_ready[v]
    BY ReleaseStep
  <1>2. (\A v \in Threads : CallFine(v)) /\ CallsApart /\ ThreadsFine
    BY CallByThread
  <1>3. Creating(t)
    BY <1>1 DEF Creating
  <1>4. ~parent_ready[s] /\ handle[s] \in Handles /\ s # Initial
    BY <1>2, <1>3 DEF CallFine
  <1>5. \A v \in Threads \ {t} : (Creating(v) \/ Serving(v)) => call[v].subject # s
    BY <1>2, <1>3, <1>4 DEF CallsApart, CallFine
  <1> HIDE DEF s
  <1>6. CallFine(t)'
    <2>1. call'[t].subject = NULL /\ call'[t].found = 0
      BY <1>1 DEF Ends
    <2>2. ~Creating(t)' /\ ~Recalls(t)' /\ ~Serving(t)'
      BY <1>1 DEF Creating, Recalls, Serving, Pending
    <2>3. 0 < next_instance'
      <3>1. call[t].found < next_instance /\ next_instance \in Nat /\ call[t].found \in Nat
        BY <1>2 DEF CallFine, Typed, Calls
      <3>2. QED
        BY <1>1, <3>1
    <2>4. QED
      BY <2>1, <2>2, <2>3 DEF CallFine
  <1>7. ThreadsFine'
    BY <1>1, <1>2, <1>4, NullIsNobody, CaptureAssumption DEF ThreadsFine
  <1>8. \A v \in Threads \ {t} : at'[v] = at[v] /\ call'[v] = call[v]
    BY <1>1 DEF Others
  <1>9. ~Creating(t)' /\ ~Serving(t)'
    BY <1>1 DEF Creating, Serving, Pending
  <1>10. QED
    BY <1>1, <1>5, <1>6, <1>7, <1>8, <1>9, CallSubject

\* The end of a thread: its handle goes only if the thread is detached.
LEMMA CallEnd ==
  ASSUME Typed, CallInv, NEW t \in Threads, End(t)
  PROVE  CallInv'
  <1>1. /\ Typed' /\ Others(t) /\ at[t] = "ending" /\ at'[t] = "gone"
        /\ UNCHANGED <<next_instance, instance, detached, claimed, parent_ready, call>>
        /\ \A u \in Threads \ {t} : handle'[u] = handle[u]
        /\ (detached[t] /\ handle'[t] = NULL) \/ (~detached[t] /\ handle'[t] = handle[t])
    BY EndStep
  <1>2. (\A v \in Threads : CallFine(v)) /\ CallsApart /\ ThreadsFine
    BY CallByThread
  <1>3. ~Creating(t)' /\ ~Recalls(t)' /\ ~Serving(t)'
    BY <1>1 DEF Creating, Recalls, Serving, Pending
  <1>4. CASE ~detached[t]
    <2>1. handle \in [Threads -> Handles \cup {NULL}] /\ handle' \in [Threads -> Handles \cup {NULL}]
      BY <1>1 DEF Typed
    <2>2. \A u \in Threads : handle'[u] = handle[u]
      BY <1>1, <1>4
    <2>3. handle' = handle
      BY <2>1, <2>2
    <2>4. UNCHANGED <<next_instance, threadVars>>
      BY <1>1, <2>3 DEF threadVars
    <2>5. QED
      BY <1>1, <1>3, <2>4, CallMove
  <1>5. CASE detached[t]
    <2>1. \A v \in Threads \ {t} : (Creating(v) \/ Serving(v)) => call[v].subject # t
      BY <1>1, <1>2, <1>5 DEF CallFine
    <2>2. CallFine(t)'
      BY <1>1, <1>2, <1>3 DEF CallFine
    <2>3. ThreadsFine'
      <3>1. \A u \in Threads : handle'[u] \in {NULL, handle[u]}
        BY <1>1, <1>5
      <3>2. \A u, v \in Threads : handle'[u] # NULL /\ handle'[u] = handle'[v] => u = v
        BY <1>2, <3>1 DEF ThreadsFine
      <3>3. \A u \in Threads : parent_ready'[u] /\ ~claimed'[u] /\ ~detached'[u] => handle'[u] # NULL
        BY <1>1, <1>2, <1>5 DEF ThreadsFine
      <3>4. handle'[Initial] = NULL
        BY <1>2, <3>1, CaptureAssumption DEF ThreadsFine
      <3>5. QED
        BY <1>1, <1>2, <3>2, <3>3, <3>4 DEF ThreadsFine
    <2>4. \A v \in Threads \ {t} : at'[v] = at[v] /\ call'[v] = call[v]
      BY <1>1 DEF Others
    <2>5. QED
      BY <1>1, <1>3, <2>1, <2>2, <2>3, <2>4, CallSubject
  <1>6. QED
    BY <1>4, <1>5

\* pthread_join and pthread_detach look a thread up that nobody has claimed.
LEMMA CallLookUp ==
  ASSUME Typed, NamesInv, CallInv, NEW t \in Threads, NEW u \in Threads,
         NEW label \in {"joining", "detaching"}, LookUp(t, u, label)
  PROVE  CallInv'
  <1>1. /\ at[t] = "idle" /\ at'[t] = label
        /\ parent_ready[u] /\ ~detached[u] /\ ~claimed[u] /\ claimed'[u]
        /\ \A v \in Threads \ {t} : at'[v] = at[v] /\ call'[v] = call[v]
        /\ \A v \in Threads \ {u} : claimed'[v] = claimed[v]
        /\ call'[t].subject = u /\ call'[t].key = handle[u] /\ handle[u] \in Handles
        /\ call'[t].found \in 0 .. next_instance - 1
        /\ UNCHANGED <<next_instance, instance, handle, detached, parent_ready>>
    BY LookUpStep
  <1>2. (\A v \in Threads : CallFine(v)) /\ CallsApart /\ ThreadsFine
    BY CallByThread
  <1>3. u # Initial /\ instance[u] # 0
    BY <1>1, <1>2 DEF ThreadsFine, NamesInv
  <1>4. \A v \in Threads \ {t} : (Creating(v) \/ Serving(v)) => call[v].subject # u
    BY <1>1, <1>2 DEF CallFine
  <1>5. Serving(t)' /\ ~Creating(t)' /\ ~Recalls(t)'
    BY <1>1 DEF Creating, Recalls, Serving, Pending
  <1>6. call'[t].found < next_instance'
    <2>1. next_instance \in Nat
      BY DEF Typed
    <2>2. QED
      BY <1>1, <2>1
  <1>7. CallFine(t)'
    BY <1>1, <1>3, <1>5, <1>6, NullIsNobody DEF CallFine
  <1>8. ThreadsFine'
    BY <1>1, <1>2 DEF ThreadsFine
  <1>9. QED
    BY <1>1, <1>4, <1>5, <1>7, <1>8, CallSubject

\* After the real call a thread forgets the handle, or ends its call.
LEMMA CallServed ==
  ASSUME Typed, CallInv, NEW t \in Threads, Serving(t), next_instance' = next_instance,
         instance' = instance,
         (\E e \in Events : Begins(t, e, "forgetting")) \/ (Ends(t) /\ at'[t] = "idle")
  PROVE  CallFine(t)' /\ ~Creating(t)' /\ ~Serving(t)'
  <1>1. CallFine(t)
    BY CallByThread
  <1>2. call[t].found < next_instance /\ next_instance \in Nat /\ call[t].found \in Nat
    BY <1>1 DEF CallFine, Typed, Calls
  <1>3. 0 < next_instance
    BY <1>2
  <1>4. CASE \E e \in Events : Begins(t, e, "forgetting")
    <2>1. /\ at'[t] = "reserving" /\ call'[t].then = "forgetting"
          /\ call'[t].subject = call[t].subject /\ call'[t].key = call[t].key
          /\ call'[t].found = call[t].found
      BY <1>4 DEF Begins
    <2>2. ~Creating(t)' /\ ~Serving(t)'
      BY <2>1 DEF Creating, Serving, Pending
    <2>3. QED
      BY <1>1, <1>2, <2>1, <2>2 DEF CallFine
  <1>5. CASE Ends(t) /\ at'[t] = "idle"
    <2>1. call'[t].subject = NULL /\ call'[t].found = 0
      BY <1>5 DEF Ends
    <2>2. ~Creating(t)' /\ ~Serving(t)' /\ ~Recalls(t)'
      BY <1>5 DEF Creating, Serving, Recalls, Pending
    <2>3. QED
      BY <1>3, <2>1, <2>2 DEF CallFine
  <1>6. QED
    BY <1>4, <1>5

\* The real pthread_join lets the handle go, the real pthread_detach does once
\* the thread has ended.
LEMMA CallServes ==
  ASSUME Typed, CallInv, NEW t \in Threads, RealJoin(t) \/ RealDetach(t)
  PROVE  CallInv'
  <1> DEFINE s == call[t].subject
  <1>1. /\ Others(t) /\ at[t] \in {"joining", "detaching"}
        /\ UNCHANGED <<next_instance, instance, claimed, parent_ready>>
        /\ \A u \in Threads \ {s} : detached'[u] = detached[u] /\ handle'[u] = handle[u]
        /\ handle'[s] \in {NULL, handle[s]}
        /\ (\E e \in Events : Begins(t, e, "forgetting")) \/ (Ends(t) /\ at'[t] = "idle")
    <2>1. CASE RealJoin(t)
      BY <2>1, RealJoinStep
    <2>2. CASE RealDetach(t)
      BY <2>2, RealDetachStep
    <2>3. QED
      BY <2>1, <2>2
  <1>2. (\A v \in Threads : CallFine(v)) /\ CallsApart /\ ThreadsFine
    BY CallByThread
  <1>3. Serving(t) /\ CallFine(t)
    BY <1>1, <1>2 DEF Serving
  <1>4. s \in Threads /\ s # Initial /\ parent_ready[s] /\ claimed[s]
    BY <1>3 DEF CallFine
  <1>5. \A v \in Threads \ {t} : (Creating(v) \/ Serving(v)) => call[v].subject # s
    BY <1>2, <1>3, <1>4 DEF CallsApart, CallFine
  <1> HIDE DEF s
  <1>6. CallFine(t)' /\ ~Creating(t)' /\ ~Serving(t)'
    BY <1>1, <1>3, CallServed
  <1>7. ThreadsFine'
    <2>1. \A u, v \in Threads : handle'[u] # NULL /\ handle'[u] = handle'[v] => u = v
      BY <1>1, <1>2 DEF ThreadsFine
    <2>2. \A u \in Threads : parent_ready'[u] /\ ~claimed'[u] /\ ~detached'[u] => handle'[u] # NULL
      BY <1>1, <1>2, <1>4 DEF ThreadsFine
    <2>3. handle'[Initial] = NULL /\ ~parent_ready'[Initial]
      BY <1>1, <1>2, <1>4, CaptureAssumption DEF ThreadsFine
    <2>4. QED
      BY <1>1, <1>2, <2>1, <2>2, <2>3 DEF ThreadsFine
  <1>8. \A v \in Threads \ {t} : at'[v] = at[v] /\ call'[v] = call[v]
    BY <1>1 DEF Others
  <1>9. QED
    BY <1>1, <1>4, <1>5, <1>6, <1>7, <1>8, CallSubject

\* Every step leaves the calls what they hold on to.
LEMMA CallKept ==
  ASSUME Typed, SlotsInv, NamesInv, EventsInv, CallInv, blocks \subseteq heap,
         NEW t \in Threads, Step(t)
  PROVE  CallInv'
  BY CallLog, CallQuiet, CallCreate, CallRelease, CallEnd, CallLookUp, CallServes
     DEF Step, Join, Detach

------------------------------------------------------------------------------
(* The invariants hold from the start, and every step keeps them. *)

\* What is kept together: the rows need the slots, the numbers and the events,
\* and those need the calls.
Recorded ==
  /\ Typed /\ SlotsInv /\ NamesInv /\ EventsInv /\ ExitInv /\ RowsInv
  /\ Ownership /\ CallInv

\* The process has started, and one thread runs main.
LEMMA InitRecorded ==
  ASSUME Init
  PROVE  Recorded
  <1>0. /\ Initial \in Threads /\ Capacity \in Nat \ {0}
        /\ Budgets \subseteq [blocks : Nat, threads : Nat, entries : Nat \ {0}]
        /\ NULL \notin Handles /\ NULL \notin Addresses
    BY CaptureAssumption
  <1> DEFINE e == Event("process", 1, NULL, NULL)
  <1>1. e \in Events /\ e # NULL /\ e.type = "process" /\ e.tid = 1
    <2>1. e \in Events
      BY DEF Event, Events, EventTypes
    <2>2. QED
      BY <2>1, NullIsNobody DEF Event
  <1>2. slots = [n \in 1 .. Capacity |-> IF n = 1 THEN e ELSE NULL]
    BY DEF Init
  <1> HIDE DEF e
  <1>3. /\ next_index = 1 /\ next_instance = 2 /\ heap = {} /\ blocks = {}
        /\ budget \in [blocks : Nat, threads : Nat, entries : Nat \ {0}]
        /\ overflow = FALSE
    BY <1>0 DEF Init
  <1>4. \A t \in Threads :
          /\ instance[t] = (IF t = Initial THEN 1 ELSE 0)
          /\ handle[t] = NULL /\ ~detached[t] /\ ~claimed[t] /\ ~parent_ready[t]
          /\ at[t] = (IF t = Initial THEN "idle" ELSE "unborn")
          /\ call[t] = NoCall /\ did[t] = <<>>
    BY DEF Init
  <1>5. Typed
    <2>1. slots \in [1 .. Capacity -> Events \cup {NULL}]
      BY <1>1, <1>2
    <2>2. instance \in [Threads -> 0 .. next_instance - 1]
      BY <1>3 DEF Init
    <2>3. /\ handle \in [Threads -> Handles \cup {NULL}] /\ detached \in [Threads -> BOOLEAN]
          /\ claimed \in [Threads -> BOOLEAN] /\ parent_ready \in [Threads -> BOOLEAN]
      BY DEF Init
    <2>4. thread_map \in [0 .. budget.entries - 1 -> Entries(next_instance)]
      BY DEF Init, Entries
    <2>5. at \in [Threads -> Labels]
      BY DEF Init, Labels
    <2>6. call \in [Threads -> Calls]
      BY NoCallTyped DEF Init
    <2>7. did \in [Threads -> Seq(Events)]
      <3>1. <<>> \in Seq(Events)
        OBVIOUS
      <3>2. QED
        BY <3>1 DEF Init
    <2>8. QED
      BY <1>3, <2>1, <2>2, <2>3, <2>4, <2>5, <2>6, <2>7 DEF Typed
  <1>6. SlotsInv
    <2>1. \A t \in Threads : at[t] # "committing"
      BY <1>4
    <2>2. slots[1] # NULL /\ slots[1].type = "process"
      BY <1>0, <1>1, <1>2
    <2>3. \A n \in 1 .. Capacity : n > next_index => slots[n] = NULL
      BY <1>2, <1>3
    <2>4. QED
      BY <1>3, <2>1, <2>2, <2>3 DEF SlotsInv
  <1>7. NamesInv
    <2>1. \A n \in 1 .. Capacity : slots[n] # NULL => slots[n] = e
      BY <1>2
    <2>2. e.type \notin ThreadTypes /\ e.tid \in 1 .. next_instance - 1
      BY <1>1, <1>3 DEF ThreadTypes
    <2>3. \A n \in 1 .. Capacity : slots[n] # NULL =>
            /\ slots[n].tid \in 1 .. next_instance - 1
            /\ slots[n].type \in ThreadTypes => slots[n].result \in 1 .. next_instance - 1
      BY <2>1, <2>2
    <2>4. QED
      BY <1>0, <1>3, <1>4, <2>3 DEF NamesInv
  <1>8. EventsInv
    BY <1>4, NoCallTyped DEF EventsInv, Pending
  <1>9. ExitInv
    BY <1>4 DEF ExitInv
  <1>10. RowsInv
    <2>1. \A t \in Threads : RowsOf(instance[t]) = {}
      <3> TAKE t \in Threads
      <3>1. RowsOf(instance[t]) = FilledIn(slots, instance[t])
        BY <1>5, <1>6, RowsOfNow
      <3>2. \A n \in 1 .. Capacity : slots[n] # NULL => slots[n].type = "process"
        BY <1>1, <1>2
      <3>3. QED
        BY <3>1, <3>2 DEF FilledIn
    <2>2. Cardinality({}) = 0
      BY FS_EmptySet
    <2>3. \A t \in Threads : Logged(t) = 0 /\ at[t] # "committing"
      BY <1>4 DEF Logged, Pending
    <2>4. QED
      BY <2>1, <2>2, <2>3 DEF RowsInv
  <1>11. Ownership
    <2>1. \A t \in Threads : HandOf(call[t].event) = {} /\ HandFits(t)
      BY <1>4, Hands, NoCallTyped DEF HandFits
    <2>2. QED
      BY <1>3, <2>1, OwnershipByThread
  <1>12. CallInv
    <2>1. \A t \in Threads : ~Creating(t) /\ ~Serving(t) /\ ~Recalls(t)
      BY <1>4 DEF Creating, Serving, Recalls, Pending
    <2>2. \A t \in Threads : CallFine(t)
      BY <1>3, <1>4, <2>1, NoCallTyped DEF CallFine
    <2>3. CallsApart /\ ThreadsFine
      BY <1>0, <1>4, <2>1 DEF CallsApart, ThreadsFine
    <2>4. QED
      BY <2>2, <2>3, CallByThread
  <1>13. QED
    BY <1>5, <1>6, <1>7, <1>8, <1>9, <1>10, <1>11, <1>12 DEF Recorded

\* Every step of every thread.
LEMMA StepRecorded ==
  ASSUME Recorded, NEW t \in Threads, Step(t)
  PROVE  Recorded'
  <1>1. Typed /\ SlotsInv /\ NamesInv /\ EventsInv /\ ExitInv /\ RowsInv /\ Ownership /\ CallInv
    BY DEF Recorded
  <1>2. blocks \subseteq heap
    BY <1>1 DEF Ownership
  <1>3. /\ Typed'
        /\ Reserve(t) \/ Commit(t) \/ Flag(t) \/ ExitGroup(t) \/ Beginning(t) \/ Quiet
    BY <1>1, <1>2, StepKinds
  <1>4. SlotsInv'
    BY <1>1, <1>3, SlotsKept
  <1>5. NamesInv'
    BY <1>1, <1>3, NamesKept
  <1>6. EventsInv'
    BY <1>1, <1>3, EventsKept
  <1>7. ExitInv'
    BY <1>1, <1>3, ExitKept
  <1>8. RowsInv'
    BY <1>1, <1>3, <1>4, RowsKept
  <1>9. Ownership'
    BY <1>1, OwnershipKept
  <1>10. CallInv'
    BY <1>1, <1>2, CallKept
  <1>11. QED
    BY <1>3, <1>4, <1>5, <1>6, <1>7, <1>8, <1>9, <1>10 DEF Recorded

\* A stuttering step.
LEMMA StutterRecorded ==
  ASSUME Recorded, UNCHANGED vars
  PROVE  Recorded'
  <1>1. /\ Typed /\ SlotsInv /\ NamesInv /\ EventsInv /\ ExitInv /\ RowsInv
        /\ Ownership /\ CallInv
    BY DEF Recorded
  <1>2. /\ budget' = budget /\ next_index' = next_index /\ overflow' = overflow
        /\ slots' = slots /\ heap' = heap /\ blocks' = blocks
        /\ next_instance' = next_instance /\ instance' = instance /\ handle' = handle
        /\ detached' = detached /\ claimed' = claimed /\ parent_ready' = parent_ready
        /\ thread_map' = thread_map /\ at' = at /\ call' = call /\ did' = did
    BY DEF vars, fileVars, heapVars, threadVars
  <1>3. Typed' /\ SlotsInv'
    BY <1>1, <1>2 DEF Typed, SlotsInv
  <1>4. NamesInv' /\ ExitInv'
    BY <1>1, <1>2 DEF NamesInv, ExitInv
  <1>5. EventsInv'
    BY <1>1, <1>2 DEF EventsInv, Pending
  <1>6. RowsInv'
    <2>1. \A t \in Threads : RowsFine(t)
      BY <1>1, RowsByThread
    <2>2. Refused' <=> Refused
      BY <1>2, RefusedSame
    <2>3. \A t \in Threads : RowsFine(t)'
      <3> TAKE t \in Threads
      <3>1. RowsFine(t)
        BY <2>1
      <3>2. Pending(t)' <=> Pending(t)
        BY <1>2 DEF Pending
      <3>3. QED
        BY <1>1, <1>2, <1>3, <2>2, <3>1, <3>2, RowsFrame
    <2>4. QED
      BY <2>3, RowsByThread
  <1>7. Ownership'
    <2>1. \A t \in Threads : HandFits(t)
      BY <1>1, OwnershipByThread
    <2>2. \A t \in Threads : HandFits(t)'
      BY <1>2, <2>1 DEF HandFits, Pending
    <2>3. QED
      BY <1>1, <1>2, <2>2, OwnershipByThread
  <1>8. CallInv'
    <2>1. (\A t \in Threads : CallFine(t)) /\ CallsApart /\ ThreadsFine
      BY <1>1, CallByThread
    <2>2. \A t \in Threads : CallFine(t)'
      BY <1>2, <2>1 DEF CallFine, Creating, Serving, Recalls, Pending
    <2>3. CallsApart' /\ ThreadsFine'
      BY <1>2, <2>1 DEF CallsApart, ThreadsFine, Creating, Serving, Pending
    <2>4. QED
      BY <2>2, <2>3, CallByThread
  <1>9. QED
    BY <1>3, <1>4, <1>5, <1>6, <1>7, <1>8 DEF Recorded

\* In every state of every run.
THEOREM RecordedAlways == Spec => []Recorded
  <1>1. Init => Recorded
    BY InitRecorded
  <1>2. Recorded /\ [Next]_vars => Recorded'
    BY StepRecorded, StutterRecorded DEF Next
  <1>3. QED
    BY <1>1, <1>2, PTL DEF Spec

\* The types, and that nobody fills a slot that another fills or has filled.
\* (reserve_event_slot, commit_event)
THEOREM TypeCorrect == Spec => []TypeOK
  <1>1. Recorded => TypeOK
    <2> SUFFICES ASSUME Recorded PROVE TypeOK
      OBVIOUS
    <2>1. Typed /\ SlotsInv /\ blocks \subseteq heap
      BY DEF Recorded, Ownership
    <2>2. \A i \in DOMAIN thread_map :
            thread_map[i] \in {EMPTY, DELETED}
                                \cup { Used(h, n) : h \in Handles, n \in 1 .. next_instance - 1 }
      <3>1. thread_map \in [0 .. budget.entries - 1 -> Entries(next_instance)]
        BY <2>1 DEF Typed
      <3>2. \A i \in DOMAIN thread_map : thread_map[i] \in Entries(next_instance)
        BY <3>1
      <3> DEFINE E == {EMPTY, DELETED}
                        \cup { Used(h, n) : h \in Handles, n \in 1 .. next_instance - 1 }
      <3>3. Entries(next_instance) = E
        BY SMT DEF Entries
      <3> HIDE DEF E
      <3>4. \A i \in DOMAIN thread_map : thread_map[i] \in E
        BY <3>2, <3>3
      <3>5. QED
        BY ONLY <3>4 DEF E
    <2>3. budget \in [blocks : Nat, threads : Nat, entries : Nat]
      BY <2>1 DEF Typed
    <2>4. \A t \in Threads : at[t] = "committing" =>
            /\ slots[call[t].slot] = NULL
            /\ \A u \in Threads \ {t} : at[u] = "committing" => call[u].slot # call[t].slot
      BY <2>1 DEF SlotsInv
    <2>5. QED
      BY <2>1, <2>2, <2>3, <2>4 DEF Typed, TypeOK
  <1>2. QED
    BY <1>1, RecordedAlways, PTL

\* Whenever the process dies, the rows of a thread are a prefix of its events,
\* in order, but for the one it was logging; and a process that the hook ends
\* leaves a file that the converter refuses.
\* (reserve_event_slot, commit_event, capture_fatal, bin_to_rply)
THEOREM RowsArePrefix == Spec => []RowsAreAPrefix
  <1>1. Recorded => RowsAreAPrefix
    <2> SUFFICES ASSUME Recorded PROVE RowsAreAPrefix
      OBVIOUS
    <2>1. Typed /\ ExitInv /\ RowsInv
      BY DEF Recorded
    <2>2. (\E t \in Threads : at[t] = "killed") => Refused
      BY <2>1 DEF ExitInv, Refused
    <2>3. \A t \in Threads : Logged(t) \in {Len(did[t]) - 1, Len(did[t])}
      BY DEF Logged
    <2>4. QED
      BY <2>1, <2>2, <2>3 DEF RowsInv, RowsAreAPrefix
  <1>2. QED
    BY <1>1, RecordedAlways, PTL

------------------------------------------------------------------------------
(* An address is given back before it is given out again. *)

\* What the file says of an address, while nothing is written.
LEMMA SameFile ==
  ASSUME slots' = slots, NEW a
  PROVE  Gives(a)' = Gives(a) /\ Returns(a)' = Returns(a) /\ (Closed(a)' <=> Closed(a))
  <1>1. Gives(a)' = Gives(a) /\ Returns(a)' = Returns(a)
    BY DEF Gives, Returns
  <1>2. QED
    BY <1>1 DEF Closed

\* An address that was given to a realloc stays one that was.
LEMMA ReallocatedStays ==
  ASSUME Typed, NEW a, did' = did
  PROVE  Reallocated(a)' <=> Reallocated(a)
  BY DEF Reallocated

\* What a thread logs is the only address that can become one.
LEMMA ReallocatedGrows ==
  ASSUME Typed, NEW a, NEW t \in Threads, NEW e \in Events,
         did'[t] = Append(did[t], e), \A u \in Threads \ {t} : did'[u] = did[u],
         ~Reallocated(a)'
  PROVE  ~Reallocated(a) /\ ~(e.type = "realloc" /\ e.address = a)
  <1>1. did[t] \in Seq(Events)
    BY DEF Typed
  <1>2. /\ Len(did[t]) \in Nat /\ Len(did'[t]) = Len(did[t]) + 1
        /\ did'[t][Len(did'[t])] = e
        /\ \A i \in 1 .. Len(did[t]) : did'[t][i] = did[t][i]
        /\ DOMAIN did[t] = 1 .. Len(did[t])
    BY <1>1, LastAppended
  <1>3. DOMAIN did'[t] = 1 .. Len(did'[t])
    BY <1>1
  <1>4. \A i \in DOMAIN did[t] : i \in DOMAIN did'[t] /\ did'[t][i] = did[t][i]
    BY <1>2, <1>3
  <1>5. Len(did'[t]) \in DOMAIN did'[t]
    BY <1>2, <1>3
  <1>6. ~(e.type = "realloc" /\ e.address = a)
    BY <1>2, <1>5 DEF Reallocated
  <1>7. \A u \in Threads : \A i \in DOMAIN did[u] :
           i \in DOMAIN did'[u] /\ did'[u][i] = did[u][i]
    BY <1>4
  <1>8. ~Reallocated(a)
    BY <1>7 DEF Reallocated
  <1>9. QED
    BY <1>6, <1>8

\* A thread can rely on the same as long as it stays where it is, or moves to a
\* place that asks nothing of its block.
LEMMA HandFrame ==
  ASSUME slots' = slots, NEW a, NEW u \in Threads, HandInv(u, a),
         a \in HandOf(call'[u].event) =>
           /\ call'[u].event = call[u].event
           /\ Pending(u)' => Pending(u)
           /\ at'[u] = "committing" => at[u] = "committing" /\ call'[u].slot = call[u].slot
           /\ at'[u] = "freeing" => at[u] = "freeing"
  PROVE  HandInv(u, a)'
  <1>1. Gives(a)' = Gives(a) /\ Returns(a)' = Returns(a) /\ (Closed(a)' <=> Closed(a))
    BY SameFile
  <1>2. SUFFICES ASSUME a \in HandOf(call'[u].event) PROVE HandInv(u, a)'
    BY DEF HandInv, InHand, HandOf
  <1>3. /\ call'[u].event = call[u].event
        /\ Pending(u)' => Pending(u)
        /\ at'[u] = "committing" => at[u] = "committing" /\ call'[u].slot = call[u].slot
        /\ at'[u] = "freeing" => at[u] = "freeing"
    BY <1>2
  <1>4. a \in InHand(u)
    BY <1>2, <1>3 DEF InHand
  <1>5. /\ Pending(u) /\ call[u].event.type \in AllocTypes => Closed(a)
        /\ at[u] = "committing" /\ call[u].event.type \in AllocTypes \cup {"free"}
             => \A n \in Gives(a) \cup Returns(a) : n < call[u].slot
        /\ at[u] = "freeing" => Closed(a)
    BY <1>4 DEF HandInv
  <1>6. QED
    BY <1>1, <1>3, <1>5 DEF HandInv

\* The file stays; an address leaves the heap only when it is given back.
LEMMA AlternatesFrame ==
  ASSUME slots' = slots, NEW a, Alternates(a), a \notin heap' => a \notin heap \/ Closed(a),
         \A u \in Threads : HandInv(u, a)'
  PROVE  Alternates(a)'
  <1>1. Gives(a)' = Gives(a) /\ Returns(a)' = Returns(a) /\ (Closed(a)' <=> Closed(a))
    BY SameFile
  <1>2. QED
    BY <1>1 DEF Alternates

\* Every slot filled so far lies before the next one.
LEMMA FilledBefore ==
  ASSUME Typed, SlotsInv, NEW a
  PROVE  \A n \in Gives(a) \cup Returns(a) : n \in 1 .. Capacity /\ n <= next_index
  BY DEF Gives, Returns, SlotsInv, Typed

\* The slot a thread takes is behind all that is told of its block.
LEMMA AlternatesReserved ==
  ASSUME Typed, SlotsInv, NEW a, Alternates(a), NEW t \in Threads, Reserve(t)
  PROVE  Alternates(a)'
  <1>1. /\ slots' = slots /\ heap' = heap /\ at[t] = "reserving"
        /\ call'[t].event = call[t].event
        /\ \A v \in Threads \ {t} : at'[v] = at[v] /\ call'[v] = call[v]
        /\ \/ at'[t] = "committing" /\ call'[t].slot = next_index + 1
           \/ at'[t] = "failing" /\ call' = call
    BY ReserveStep DEF Others, SameTale, heapVars
  <1>2. \A u \in Threads : HandInv(u, a)
    BY DEF Alternates
  <1>3. ASSUME NEW u \in Threads PROVE HandInv(u, a)'
    <2>1. CASE u # t
      <3>1. at'[u] = at[u] /\ call'[u] = call[u]
        BY <1>1, <2>1
      <3>2. Pending(u)' => Pending(u)
        BY <3>1 DEF Pending
      <3>3. QED
        BY <1>1, <1>2, <3>1, <3>2, HandFrame
    <2>2. CASE u = t /\ at'[t] = "failing"
      <3>1. ~Pending(t)'
        BY <2>2 DEF Pending
      <3>2. QED
        BY <1>1, <1>2, <2>2, <3>1, HandFrame
    <2>3. CASE u = t /\ at'[t] = "committing" /\ call'[t].slot = next_index + 1
      <3>1. SUFFICES ASSUME a \in HandOf(call'[t].event) PROVE HandInv(t, a)'
        BY <2>3 DEF HandInv, InHand, HandOf
      <3>2. a \in InHand(t) /\ Pending(t)
        BY <1>1, <3>1 DEF InHand, Pending
      <3>3. call[t].event.type \in AllocTypes => Closed(a)
        BY <1>2, <3>2 DEF HandInv
      <3>4. \A n \in Gives(a) \cup Returns(a) : n < next_index + 1
        <4>1. next_index \in Nat /\ Capacity \in Nat
          BY CaptureAssumption DEF Typed
        <4>2. QED
          BY <4>1, FilledBefore
      <3>5. Gives(a)' = Gives(a) /\ Returns(a)' = Returns(a) /\ (Closed(a)' <=> Closed(a))
        BY <1>1, SameFile
      <3>6. QED
        BY <1>1, <2>3, <3>3, <3>4, <3>5 DEF HandInv
    <2>4. QED
      BY <1>1, <2>1, <2>2, <2>3
  <1>4. QED
    BY <1>1, <1>3, AlternatesFrame

\* What an event that is committed adds to the file.
LEMMA FileGrows ==
  ASSUME Typed, SlotsInv, EventsInv, NEW a, NEW t \in Threads, Commit(t)
  PROVE  LET e == call[t].event
             k == call[t].slot
         IN  /\ k \in 1 .. Capacity /\ k \notin Gives(a) /\ k \notin Returns(a)
             /\ Gives(a)' = Gives(a) \cup { n \in {k} : e.type \in AllocTypes /\ e.result = a }
             /\ Returns(a)' = Returns(a) \cup { n \in {k} : e.type = "free" /\ e.address = a }
  <1> DEFINE e == call[t].event
             k == call[t].slot
  <1>1. /\ k \in 2 .. Capacity /\ slots[k] = NULL /\ e \in Events /\ slots'[k] = e
        /\ \A n \in 1 .. Capacity : n # k => slots'[n] = slots[n]
    BY CommitStep
  <1>2. e # NULL
    BY <1>1, NullIsNobody
  <1>3. k \in 1 .. Capacity
    BY <1>1, CaptureAssumption
  <1> HIDE DEF e, k
  <1>4. k \notin Gives(a) /\ k \notin Returns(a)
    BY <1>1 DEF Gives, Returns
  <1>5. Gives(a)' = Gives(a) \cup { n \in {k} : e.type \in AllocTypes /\ e.result = a }
    BY <1>1, <1>2, <1>3 DEF Gives
  <1>6. Returns(a)' = Returns(a) \cup { n \in {k} : e.type = "free" /\ e.address = a }
    BY <1>1, <1>2, <1>3 DEF Returns
  <1>7. QED
    BY <1>3, <1>4, <1>5, <1>6 DEF e, k

\* A thread commits what it did with another block, or with none.
LEMMA AlternatesElsewhere ==
  ASSUME Typed, SlotsInv, EventsInv, NEW a \in Addresses, Alternates(a), NEW t \in Threads,
         Commit(t), ~(call[t].event.type \in AllocTypes /\ call[t].event.result = a),
         ~(call[t].event.type = "free" /\ call[t].event.address = a)
  PROVE  Alternates(a)'
  <1>1. /\ heap' = heap /\ call' = call /\ at[t] = "committing" /\ at'[t] = call[t].then
        /\ \A v \in Threads \ {t} : at'[v] = at[v]
        /\ call[t].event \in Events
    BY CommitStep DEF Others, heapVars
  <1>2. Gives(a)' = Gives(a) /\ Returns(a)' = Returns(a)
    <2> DEFINE e == call[t].event
               k == call[t].slot
    <2>1. /\ Gives(a)' = Gives(a) \cup { n \in {k} : e.type \in AllocTypes /\ e.result = a }
          /\ Returns(a)' = Returns(a) \cup { n \in {k} : e.type = "free" /\ e.address = a }
      BY FileGrows, Zenon
    <2>2. ~(e.type \in AllocTypes /\ e.result = a) /\ ~(e.type = "free" /\ e.address = a)
      OBVIOUS
    <2> HIDE DEF e, k
    <2>3. { n \in {k} : e.type \in AllocTypes /\ e.result = a } = {}
      BY <2>2
    <2>4. { n \in {k} : e.type = "free" /\ e.address = a } = {}
      BY <2>2
    <2>5. Gives(a)' = Gives(a)
      BY <2>1, <2>3
    <2>6. Returns(a)' = Returns(a)
      BY <2>1, <2>4
    <2>7. QED
      BY <2>5, <2>6
  <1>3. Closed(a)' <=> Closed(a)
    BY <1>2 DEF Closed
  <1>4. \A u \in Threads : HandInv(u, a)
    BY DEF Alternates
  <1>5. <<call[t].event.type, call[t].then>> \in Continuations /\ call[t].event # NULL
    BY <1>1 DEF EventsInv, Pending
  <1>6. ASSUME NEW u \in Threads PROVE HandInv(u, a)'
    <2>1. CASE u # t
      <3>1. at'[u] = at[u] /\ call'[u] = call[u]
        BY <1>1, <2>1
      <3>2. HandInv(u, a)
        BY <1>4
      <3>3. QED
        BY <1>2, <1>3, <3>1, <3>2 DEF HandInv, InHand, HandOf, Pending
    <2>2. CASE u = t
      <3>1. CASE call[t].event.type = "realloc_failed"
        <4>1. at'[t] = "returning"
          BY <1>1, <1>5, <3>1 DEF Continuations
        <4>2. QED
          BY <2>2, <4>1 DEF HandInv, Pending
      <3>2. CASE call[t].event.type # "realloc_failed"
        <4>1. a \notin HandOf(call[t].event)
          BY <3>2 DEF HandOf
        <4>2. QED
          BY <1>1, <2>2, <4>1 DEF HandInv, InHand, HandOf
      <3>3. QED
        BY <3>1, <3>2
    <2>3. QED
      BY <2>1, <2>2
  <1>7. QED
    BY <1>1, <1>2, <1>3, <1>6 DEF Alternates

\* A block in the hands of the thread that commits is in no other's.
LEMMA OnlyHand ==
  ASSUME Ownership, NEW a, NEW t \in Threads, a \in HandOf(call[t].event), call' = call
  PROVE  \A u \in Threads \ {t} : HandInv(u, a)'
  <1>1. \A u \in Threads \ {t} : a \notin HandOf(call'[u].event)
    BY OwnershipByThread
  <1>2. QED
    BY <1>1 DEF HandInv, InHand, HandOf

\* The event that gives the block out is behind the one that gave it back.
LEMMA AlternatesGiven ==
  ASSUME Typed, SlotsInv, EventsInv, Ownership, NEW a \in Addresses, Alternates(a),
         NEW t \in Threads, Commit(t),
         call[t].event.type \in AllocTypes, call[t].event.result = a
  PROVE  Alternates(a)'
  <1> DEFINE k == call[t].slot
  <1>1. /\ heap' = heap /\ call' = call /\ at[t] = "committing" /\ at'[t] = call[t].then
        /\ call[t].event \in Events
    BY CommitStep DEF heapVars
  <1>2. call[t].event # NULL /\ Pending(t) /\ call[t].event.type # "free"
    BY <1>1, NullIsNobody DEF Pending, AllocTypes
  <1>3. a \in HandOf(call[t].event)
    BY <1>2 DEF HandOf
  <1>4. a \in heap
    BY <1>3, OwnershipByThread
  <1>5. Closed(a) /\ \A n \in Gives(a) \cup Returns(a) : n < k
    BY <1>1, <1>2, <1>3 DEF Alternates, HandInv, InHand
  <1>6. k \notin Gives(a) /\ Gives(a)' = Gives(a) \cup {k} /\ Returns(a)' = Returns(a)
    BY <1>2, FileGrows
  <1>7. call[t].then = "returning"
    <2>1. <<call[t].event.type, call[t].then>> \in Continuations
      BY <1>2 DEF EventsInv
    <2>2. QED
      BY <2>1 DEF Continuations, AllocTypes
  <1>8. HandInv(t, a)'
    BY <1>1, <1>7 DEF HandInv, Pending
  <1>9. \A u \in Threads : HandInv(u, a)'
    BY <1>1, <1>3, <1>8, OnlyHand
  <1>10. \A i, j \in Gives(a)' : i < j => \E r \in Returns(a)' : i < r /\ r < j
    <2>1. \A i, j \in Gives(a) : i < j => \E r \in Returns(a) : i < r /\ r < j
      BY DEF Alternates
    <2>2. \A i \in Gives(a) : \E r \in Returns(a) : i < r /\ r < k
      BY <1>5 DEF Closed
    <2>3. Gives(a) \subseteq Int /\ k \in Int /\ Returns(a) \subseteq Int
      <3>1. k \in 2 .. Capacity /\ Capacity \in Int
        BY CommitStep, CaptureAssumption
      <3>2. QED
        BY <3>1 DEF Gives, Returns
    <2> HIDE DEF k
    <2>4. TAKE i, j \in Gives(a)'
    <2>5. HAVE i < j
    <2>6. i # k
      BY <1>5, <1>6, <2>3, <2>5
    <2>7. i \in Gives(a)
      BY <1>6, <2>6
    <2>8. \E r \in Returns(a) : i < r /\ r < j
      BY <1>6, <2>1, <2>2, <2>5, <2>7
    <2>9. QED
      BY <1>6, <2>8
  <1>11. QED
    BY <1>1, <1>4, <1>9, <1>10 DEF Alternates

\* The event of free is behind all that gave the block out.
LEMMA AlternatesReturned ==
  ASSUME Typed, SlotsInv, EventsInv, Ownership, NEW a \in Addresses, Alternates(a),
         NEW t \in Threads, Commit(t),
         call[t].event.type = "free", call[t].event.address = a
  PROVE  Alternates(a)'
  <1> DEFINE k == call[t].slot
  <1>1. /\ heap' = heap /\ call' = call /\ at[t] = "committing" /\ at'[t] = call[t].then
        /\ call[t].event \in Events
    BY CommitStep DEF heapVars
  <1>2. call[t].event # NULL /\ call[t].event.type \notin AllocTypes
    BY <1>1, NullIsNobody DEF AllocTypes
  <1>3. a \in HandOf(call[t].event)
    BY <1>2 DEF HandOf
  <1>4. a \in heap
    BY <1>3, OwnershipByThread
  <1>5. \A n \in Gives(a) : n < k
    BY <1>1, <1>3 DEF Alternates, HandInv, InHand
  <1>6. Gives(a)' = Gives(a) /\ Returns(a)' = Returns(a) \cup {k}
    BY <1>2, FileGrows
  <1>7. Closed(a)'
    <2> HIDE DEF k
    <2>1. QED
      BY <1>5, <1>6 DEF Closed
  <1>8. HandInv(t, a)'
    <2>1. <<call[t].event.type, call[t].then>> \in Continuations
      BY <1>1 DEF EventsInv, Pending
    <2>2. call[t].then = "freeing"
      BY <2>1 DEF Continuations
    <2>3. QED
      BY <1>1, <1>7, <2>2 DEF HandInv, Pending
  <1>9. \A u \in Threads : HandInv(u, a)'
    BY <1>1, <1>3, <1>8, OnlyHand
  <1>10. \A i, j \in Gives(a)' : i < j => \E r \in Returns(a)' : i < r /\ r < j
    <2>1. \A i, j \in Gives(a) : i < j => \E r \in Returns(a) : i < r /\ r < j
      BY DEF Alternates
    <2> HIDE DEF k
    <2>2. QED
      BY <1>6, <2>1
  <1>11. QED
    BY <1>7, <1>9, <1>10 DEF Alternates

\* The overflow flag and the exit.
LEMMA AlternatesExit ==
  ASSUME Typed, NEW a, Alternates(a), NEW t \in Threads, Flag(t) \/ ExitGroup(t)
  PROVE  Alternates(a)'
  <1>1. /\ slots' = slots /\ heap' = heap /\ call' = call
        /\ \A u \in Threads : at'[u] = at[u] \/ at'[u] \in {"exiting", "killed"}
    BY FlagStep, ExitStep DEF Others, fileVars, heapVars
  <1>2. ASSUME NEW u \in Threads PROVE HandInv(u, a)'
    <2>1. HandInv(u, a)
      BY DEF Alternates
    <2>2. /\ Pending(u)' => Pending(u)
          /\ at'[u] = "committing" => at[u] = "committing"
          /\ at'[u] = "freeing" => at[u] = "freeing"
      <3>1. at'[u] = at[u] \/ at'[u] \in {"exiting", "killed"}
        BY <1>1
      <3>2. QED
        BY <3>1 DEF Pending
    <2>3. QED
      BY <1>1, <2>1, <2>2, HandFrame
  <1>3. QED
    BY <1>1, <1>2, AlternatesFrame

\* An event of a block is begun: who gets an address gets one that is free.
LEMMA AlternatesBegun ==
  ASSUME Typed, NEW a, Alternates(a), NEW t \in Threads, Beginning(t),
         a \notin heap' => a \notin heap,
         a \in HandOf(call'[t].event) /\ call'[t].event.type \in AllocTypes => a \notin heap
  PROVE  Alternates(a)'
  <1>1. /\ slots' = slots /\ at'[t] = "reserving"
        /\ \A u \in Threads \ {t} : at'[u] = at[u] /\ call'[u] = call[u]
    BY BeginningFile
  <1>2. a \notin heap => Closed(a)
    BY DEF Alternates
  <1>3. ASSUME NEW u \in Threads PROVE HandInv(u, a)'
    <2>1. HandInv(u, a)
      BY DEF Alternates
    <2>2. CASE u # t
      <3>1. at'[u] = at[u] /\ call'[u] = call[u]
        BY <1>1, <2>2
      <3>2. Pending(u)' => Pending(u)
        BY <3>1 DEF Pending
      <3>3. QED
        BY <1>1, <2>1, <3>1, <3>2, HandFrame
    <2>3. CASE u = t
      <3>1. Closed(a)' <=> Closed(a)
        BY <1>1, SameFile
      <3>2. a \in InHand(t)' /\ call'[t].event.type \in AllocTypes => Closed(a)'
        BY <1>2, <3>1 DEF InHand, HandOf
      <3>3. QED
        BY <1>1, <2>3, <3>2 DEF HandInv
    <2>4. QED
      BY <2>2, <2>3
  <1>4. QED
    BY <1>1, <1>3, AlternatesFrame

\* Nothing is begun: nobody relies on more than before.
LEMMA AlternatesQuiet ==
  ASSUME NEW a, Alternates(a), Quiet, a \notin heap' => a \notin heap \/ Closed(a)
  PROVE  Alternates(a)'
  <1>1. slots' = slots
    BY QuietFile
  <1>2. ASSUME NEW u \in Threads PROVE HandInv(u, a)'
    <2>1. HandInv(u, a)
      BY DEF Alternates
    <2>2. /\ Pending(u) \/ Pending(u)' => at'[u] = at[u] /\ call'[u] = call[u]
          /\ call'[u].event \in {NULL, call[u].event}
          /\ at'[u] = "freeing" => at[u] = "freeing"
      BY DEF Quiet
    <2>3. Pending(u)' => Pending(u)
      BY <2>2 DEF Pending
    <2>4. at'[u] = "committing" => at[u] = "committing" /\ call'[u].slot = call[u].slot
      BY <2>2 DEF Pending
    <2>5. a \in HandOf(call'[u].event) => call'[u].event = call[u].event
      BY <2>2, Hands
    <2>6. QED
      BY <1>1, <2>1, <2>2, <2>3, <2>4, <2>5, HandFrame
  <1>3. QED
    BY <1>1, <1>2, AlternatesFrame

\* An event of a thread's life leaves the hand empty.
LEMMA EmptyHand ==
  ASSUME NEW t \in Threads, NEW e \in Events, NEW then, Begins(t, e, then), e.type \in ThreadTypes
  PROVE  HandOf(call'[t].event) = {}
  BY Hands DEF Begins

\* The steps of a thread's life leave the heap, and log of no block.
LEMMA LifeSteps ==
  ASSUME Typed, NamesInv, CallInv, NEW t \in Threads,
         \/ \E u \in Threads : Create(t, u)
         \/ CreateFails(t) \/ Register(t) \/ Created(t) \/ Release(t) \/ Begin(t) \/ Finish(t)
         \/ End(t) \/ Join(t) \/ Detach(t) \/ RealJoin(t) \/ RealDetach(t) \/ Forget(t)
  PROVE  heap' = heap /\ (Quiet \/ (Beginning(t) /\ HandOf(call'[t].event) = {}))
  <1>1. CASE Register(t)
    <2>1. /\ UNCHANGED heapVars
          /\ \/ \E e \in Events : Begins(t, e, "created") /\ e.type = "create"
             \/ at'[t] = "failing"
      BY <1>1, RegisterStep
    <2>2. Beginning(t) => HandOf(call'[t].event) = {}
      BY <2>1, BeginningFile, EmptyHand DEF ThreadTypes
    <2>3. QED
      BY <1>1, <2>1, <2>2, RegisterKind DEF heapVars
  <1>2. CASE Created(t)
    <2>1. /\ UNCHANGED heapVars
          /\ \/ \E e \in Events : Begins(t, e, "dismissing") /\ e.type = "detach"
             \/ at'[t] = "releasing"
      BY <1>2, CreatedStep
    <2>2. Beginning(t) => HandOf(call'[t].event) = {}
      BY <2>1, BeginningFile, EmptyHand DEF ThreadTypes
    <2>3. QED
      BY <1>2, <2>1, <2>2, CreatedKind DEF heapVars
  <1>3. CASE RealJoin(t)
    <2>1. /\ UNCHANGED heapVars
          /\ \/ \E e \in Events : Begins(t, e, "forgetting") /\ e.type = "join"
             \/ at'[t] = "idle"
      BY <1>3, RealJoinStep
    <2>2. Beginning(t) => HandOf(call'[t].event) = {}
      BY <2>1, BeginningFile, EmptyHand DEF ThreadTypes
    <2>3. QED
      BY <1>3, <2>1, <2>2, RealJoinKind DEF heapVars
  <1>4. CASE RealDetach(t)
    <2>1. /\ UNCHANGED heapVars
          /\ \/ \E e \in Events : Begins(t, e, "forgetting") /\ e.type = "detach"
             \/ at'[t] = "idle"
      BY <1>4, RealDetachStep
    <2>2. Beginning(t) => HandOf(call'[t].event) = {}
      BY <2>1, BeginningFile, EmptyHand DEF ThreadTypes
    <2>3. QED
      BY <1>4, <2>1, <2>2, RealDetachKind DEF heapVars
  <1>5. CASE Begin(t)
    <2>1. UNCHANGED heapVars /\ \E e \in Events : Begins(t, e, "idle") /\ e.type = "start"
      BY <1>5, BeginStep
    <2>2. HandOf(call'[t].event) = {}
      BY <2>1, EmptyHand DEF ThreadTypes
    <2>3. QED
      BY <1>5, <2>1, <2>2, BeginBegins DEF heapVars
  <1>6. CASE Finish(t)
    <2>1. UNCHANGED heapVars /\ \E e \in Events : Begins(t, e, "ending") /\ e.type = "end"
      BY <1>6, FinishStep
    <2>2. HandOf(call'[t].event) = {}
      BY <2>1, EmptyHand DEF ThreadTypes
    <2>3. QED
      BY <1>6, <2>1, <2>2, FinishBegins DEF heapVars
  <1>7. CASE (\E u \in Threads : Create(t, u)) \/ CreateFails(t)
    <2>1. heap' = heap
      BY <1>7 DEF Create, CreateFails, heapVars
    <2>2. QED
      BY <1>7, <2>1, CreateKind, CreateFailsKind
  <1>8. CASE Release(t) \/ End(t) \/ Forget(t)
    <2>1. heap' = heap
      BY <1>8 DEF Release, End, Forget, heapVars
    <2>2. QED
      BY <1>8, <2>1, ReleaseKind, EndKind, ForgetKind
  <1>9. CASE Join(t) \/ Detach(t)
    <2>1. heap' = heap
      BY <1>9 DEF Join, Detach, LookUp, heapVars
    <2>2. QED
      BY <1>9, <2>1, LookUpKind DEF Join, Detach
  <1>10. QED
    BY <1>1, <1>2, <1>3, <1>4, <1>5, <1>6, <1>7, <1>8, <1>9

\* An address that is not given to a realloc keeps its turns.
LEMMA AlternatesKept ==
  ASSUME Recorded, AlternationInv, NEW t \in Threads, Step(t),
         NEW a \in Addresses, ~Reallocated(a)'
  PROVE  Alternates(a)'
  <1>1. Typed /\ SlotsInv /\ NamesInv /\ EventsInv /\ Ownership /\ CallInv
    BY DEF Recorded
  <1>2. blocks \subseteq heap /\ heap \subseteq Addresses
    BY <1>1 DEF Ownership, Typed
  <1>3. ~Reallocated(a) => Alternates(a)
    BY DEF AlternationInv
  <1>4. CASE Reserve(t)
    <2>1. ~Reallocated(a)
      BY <1>1, <1>4, ReserveStep, ReallocatedStays
    <2>2. QED
      BY <1>1, <1>3, <1>4, <2>1, AlternatesReserved
  <1>5. CASE Commit(t)
    <2>1. ~Reallocated(a)
      BY <1>1, <1>5, CommitStep, ReallocatedStays
    <2>2. QED
      BY <1>1, <1>3, <1>5, <2>1, AlternatesElsewhere, AlternatesGiven, AlternatesReturned
  <1>6. CASE Flag(t) \/ ExitGroup(t)
    <2>1. ~Reallocated(a)
      BY <1>1, <1>6, FlagStep, ExitStep, ReallocatedStays
    <2>2. QED
      BY <1>1, <1>3, <1>6, <2>1, AlternatesExit
  <1>7. CASE Malloc(t)
    <2>1. PICK b \in (Addresses \ heap) \cup {NULL} :
            /\ heap' = heap \cup ({b} \ {NULL})
            /\ \E e \in Events : Begins(t, e, "returning") /\ e.type = "malloc" /\ e.result = b
      BY <1>1, <1>7, MallocStep
    <2>2. PICK e \in Events : Begins(t, e, "returning") /\ e.type = "malloc" /\ e.result = b
      BY <2>1
    <2>3. /\ call'[t].event = e /\ did'[t] = Append(did[t], e)
          /\ \A u \in Threads \ {t} : did'[u] = did[u]
      BY <1>1, <1>7, <2>2, MallocStep DEF Begins, Others
    <2>4. ~Reallocated(a)
      BY <1>1, <2>3, ReallocatedGrows
    <2>5. HandOf(e) \cap heap = {}
      <3>1. e.type \in AllocTypes
        BY <2>2 DEF AllocTypes
      <3>2. QED
        BY <1>2, <2>1, <2>2, <3>1, Hands, NullIsNobody
    <2>6. Beginning(t)
      BY <1>1, <1>7, MallocBegins
    <2>7. QED
      BY <1>1, <1>3, <2>1, <2>3, <2>4, <2>5, <2>6, AlternatesBegun
  <1>8. CASE Realloc(t)
    <2>1. PICK b \in blocks, e \in Events :
            /\ blocks' = blocks \ {b} /\ Begins(t, e, "returning") /\ e.address = b
            /\ \/ /\ e.type = "realloc"
                  /\ \E c \in (Addresses \ heap) \cup {b} :
                       heap' = (heap \ {b}) \cup {c} /\ e.result = c
               \/ e.type = "realloc" /\ heap' = heap \ {b} /\ e.result = NULL
               \/ e.type = "realloc_failed" /\ heap' = heap
      BY <1>1, <1>2, <1>8, ReallocStep
    <2>2. /\ call'[t].event = e /\ did'[t] = Append(did[t], e)
          /\ \A u \in Threads \ {t} : did'[u] = did[u]
      BY <1>1, <1>2, <1>8, <2>1, ReallocStep DEF Begins, Others
    <2>3. ~Reallocated(a) /\ ~(e.type = "realloc" /\ e.address = a)
      BY <1>1, <2>2, ReallocatedGrows
    <2>4. a \notin heap' => a \notin heap
      BY <2>1, <2>3
    <2>5. a \in HandOf(e) /\ e.type \in AllocTypes => a \notin heap
      <3>1. SUFFICES ASSUME a \in HandOf(e), e.type \in AllocTypes PROVE a \notin heap
        OBVIOUS
      <3>2. a = e.result /\ e.type = "realloc"
        BY <2>1, <3>1, Hands DEF AllocTypes
      <3>3. QED
        BY <1>2, <2>1, <2>3, <3>2, NullIsNobody
    <2>6. Beginning(t)
      BY <1>1, <1>2, <1>8, ReallocBegins
    <2>7. QED
      BY <1>1, <1>3, <2>2, <2>3, <2>4, <2>5, <2>6, AlternatesBegun
  <1>9. CASE Free(t)
    <2>1. PICK e \in Events : Begins(t, e, "freeing") /\ e.type = "free"
      BY <1>1, <1>2, <1>9, FreeStep
    <2>2. /\ call'[t].event = e /\ did'[t] = Append(did[t], e) /\ heap' = heap
          /\ \A u \in Threads \ {t} : did'[u] = did[u]
      BY <1>1, <1>2, <1>9, <2>1, FreeStep DEF Begins, Others
    <2>3. ~Reallocated(a)
      BY <1>1, <2>2, ReallocatedGrows
    <2>4. call'[t].event.type \notin AllocTypes
      BY <2>1, <2>2 DEF AllocTypes
    <2>5. Beginning(t)
      BY <1>1, <1>2, <1>9, FreeBegins
    <2>6. QED
      BY <1>1, <1>3, <2>2, <2>3, <2>4, <2>5, AlternatesBegun
  <1>10. CASE Return(t)
    <2>1. heap' = heap /\ Quiet
      BY <1>1, <1>10, ReturnStep, ReturnKind
    <2>2. ~Reallocated(a)
      BY <1>1, <2>1, QuietFile, ReallocatedStays
    <2>3. QED
      BY <1>3, <2>1, <2>2, AlternatesQuiet
  <1>11. CASE RealFree(t)
    <2>1. heap' = heap \ {call[t].event.address} /\ Quiet /\ at[t] = "freeing"
      BY <1>1, <1>11, RealFreeStep, RealFreeKind
    <2>2. ~Reallocated(a)
      BY <1>1, <2>1, QuietFile, ReallocatedStays
    <2>3. HandInv(t, a)
      BY <1>3, <2>2 DEF Alternates
    <2>4. a = call[t].event.address => Closed(a)
      <3>1. call[t].event # NULL /\ call[t].event.type = "free"
        BY <1>1, <2>1 DEF Ownership
      <3>2. a = call[t].event.address => a \in InHand(t)
        BY <3>1 DEF InHand, HandOf
      <3>3. QED
        BY <2>1, <2>3, <3>2 DEF HandInv
    <2>5. QED
      BY <1>3, <2>1, <2>2, <2>4, AlternatesQuiet
  <1>12. CASE \/ \E u \in Threads : Create(t, u)
              \/ CreateFails(t) \/ Register(t) \/ Created(t) \/ Release(t) \/ Begin(t) \/ Finish(t)
              \/ End(t) \/ Join(t) \/ Detach(t) \/ RealJoin(t) \/ RealDetach(t) \/ Forget(t)
    <2>1. heap' = heap /\ (Quiet \/ (Beginning(t) /\ HandOf(call'[t].event) = {}))
      BY <1>1, <1>12, LifeSteps
    <2>2. CASE Quiet
      <3>1. ~Reallocated(a)
        BY <1>1, <2>2, QuietFile, ReallocatedStays
      <3>2. QED
        BY <1>3, <2>1, <2>2, <3>1, AlternatesQuiet
    <2>3. CASE Beginning(t) /\ HandOf(call'[t].event) = {}
      <3>1. PICK e \in Events : /\ did'[t] = Append(did[t], e)
                                /\ \A u \in Threads \ {t} : did'[u] = did[u]
        BY <2>3 DEF Beginning, Begins, Others
      <3>2. ~Reallocated(a)
        BY <1>1, <3>1, ReallocatedGrows
      <3>3. QED
        BY <1>1, <1>3, <2>1, <2>3, <3>2, AlternatesBegun
    <2>4. QED
      BY <2>1, <2>2, <2>3
  <1>13. QED
    BY <1>4, <1>5, <1>6, <1>7, <1>8, <1>9, <1>10, <1>11, <1>12 DEF Step

\* What is committed names its block, like what was logged.
LEMMA NamesOfBlocksKept ==
  ASSUME Recorded, NEW t \in Threads, Step(t),
         \A n \in 1 .. Capacity : slots[n] # NULL => BlockNamed(slots[n])
  PROVE  \A n \in 1 .. Capacity : slots'[n] # NULL => BlockNamed(slots'[n])
  <1>1. Typed /\ SlotsInv /\ NamesInv /\ EventsInv /\ Ownership /\ CallInv
    BY DEF Recorded
  <1>2. blocks \subseteq heap
    BY <1>1 DEF Ownership
  <1>3. CASE Commit(t)
    <2>1. /\ slots'[call[t].slot] = call[t].event /\ call[t].event \in Events
          /\ \A n \in 1 .. Capacity : n # call[t].slot => slots'[n] = slots[n]
      BY <1>1, <1>3, CommitStep
    <2>2. BlockNamed(call[t].event)
      BY <1>1, <2>1, NullIsNobody, OwnershipByThread DEF HandFits
    <2>3. QED
      BY <2>1, <2>2
  <1>4. CASE ~Commit(t)
    <2>1. Reserve(t) \/ Flag(t) \/ ExitGroup(t) \/ Beginning(t) \/ Quiet
      BY <1>1, <1>2, <1>4, StepKinds
    <2>2. slots' = slots
      BY <1>1, <2>1, ReserveStep, FlagStep, ExitStep, BeginningFile, QuietFile DEF fileVars
    <2>3. QED
      BY <2>2
  <1>5. QED
    BY <1>3, <1>4

\* Nothing has been given out when the process starts.
LEMMA InitAlternates ==
  ASSUME Init
  PROVE  AlternationInv
  <1>1. /\ slots = [i \in 1 .. Capacity |-> IF i = 1 THEN Event("process", 1, NULL, NULL) ELSE NULL]
        /\ call = [t \in Threads |-> NoCall]
    BY DEF Init
  <1>2. \A n \in 1 .. Capacity : slots[n] # NULL => slots[n].type = "process"
    BY <1>1 DEF Event
  <1>3. \A n \in 1 .. Capacity : slots[n] # NULL => BlockNamed(slots[n])
    BY <1>2 DEF BlockNamed, AllocTypes
  <1>4. \A a \in Addresses : Gives(a) = {}
    BY <1>2 DEF Gives, AllocTypes
  <1>5. \A a \in Addresses, t \in Threads : HandInv(t, a)
    BY <1>1, NoCallTyped, Hands DEF HandInv, InHand
  <1>6. QED
    BY <1>3, <1>4, <1>5 DEF AlternationInv, Alternates, Closed

\* Every step keeps the turns of every address.
LEMMA StepAlternates ==
  ASSUME Recorded, AlternationInv, NEW t \in Threads, Step(t)
  PROVE  AlternationInv'
  <1>1. \A n \in 1 .. Capacity : slots'[n] # NULL => BlockNamed(slots'[n])
    BY NamesOfBlocksKept DEF AlternationInv
  <1>2. \A a \in Addresses : ~Reallocated(a)' => Alternates(a)'
    BY AlternatesKept
  <1>3. QED
    BY <1>1, <1>2 DEF AlternationInv, BlockNamed

\* A stuttering step.
LEMMA StutterAlternates ==
  ASSUME Recorded, AlternationInv, UNCHANGED vars
  PROVE  AlternationInv'
  <1>1. slots' = slots /\ heap' = heap /\ at' = at /\ call' = call /\ did' = did
    BY DEF vars, fileVars, heapVars
  <1>2. Typed
    BY DEF Recorded
  <1>3. \A n \in 1 .. Capacity : slots'[n] # NULL => BlockNamed(slots'[n])
    BY <1>1 DEF AlternationInv
  <1>4. ASSUME NEW a \in Addresses, ~Reallocated(a)' PROVE Alternates(a)'
    <2>1. Alternates(a)
      BY <1>1, <1>2, <1>4, ReallocatedStays DEF AlternationInv
    <2>2. ASSUME NEW u \in Threads PROVE HandInv(u, a)'
      <3>1. HandInv(u, a)
        BY <2>1 DEF Alternates
      <3>2. Pending(u)' => Pending(u)
        BY <1>1 DEF Pending
      <3>3. QED
        BY <1>1, <3>1, <3>2, HandFrame
    <2>3. QED
      BY <1>1, <2>1, <2>2, AlternatesFrame
  <1>5. QED
    BY <1>3, <1>4 DEF AlternationInv, BlockNamed

\* Between two rows that give out the same address a row gives it back, unless
\* the address was given to a realloc: free is logged before the real call,
\* and a block is in one thread's hands until it is free.
\* (free, malloc, realloc, commit_event)
THEOREM BlocksTakeTurns == Spec => []BlocksAlternate
  <1>1. Init => AlternationInv
    BY InitAlternates
  <1>2. Recorded /\ AlternationInv /\ [Next]_vars => AlternationInv'
    BY StepAlternates, StutterAlternates DEF Next
  <1>3. Recorded /\ AlternationInv => BlocksAlternate
    <2> SUFFICES ASSUME Recorded, AlternationInv PROVE BlocksAlternate
      OBVIOUS
    <2> DEFINE OfType(t, type) == { n \in DOMAIN did[t] : did[t][n].type = type }
               reallocated ==
                 UNION { { did[t][n].address : n \in OfType(t, "realloc") } : t \in Threads }
    <2>1. Typed /\ SlotsInv
      BY DEF Recorded
    <2>2. /\ Rows = { n \in 1 .. Capacity : slots[n] # NULL /\ slots[n].type # "process" }
          /\ \A n \in Rows : n \in 1 .. Capacity /\ slots[n] \in Events
      BY <2>1, RowsAreSlots
    <2>3. \A a : a \notin reallocated => ~Reallocated(a)
      BY DEF Reallocated
    <2> HIDE DEF reallocated
    <2>4. ASSUME NEW i \in Rows, NEW j \in Rows, i < j,
                 {slots[i].type, slots[j].type} \subseteq AllocTypes,
                 slots[i].result = slots[j].result,
                 slots[i].result \notin {NULL} \cup reallocated
          PROVE  \E k \in Rows : /\ i < k /\ k < j
                                 /\ slots[k].type = "free" /\ slots[k].address = slots[i].result
      <3> DEFINE a == slots[i].result
      <3>1. i \in 1 .. Capacity /\ slots[i] # NULL /\ j \in 1 .. Capacity /\ slots[j] # NULL
        BY <2>2
      <3>2. a \in Addresses
        BY <2>4, <3>1 DEF AlternationInv, BlockNamed
      <3>3. Alternates(a)
        BY <2>3, <2>4, <3>2 DEF AlternationInv
      <3>4. i \in Gives(a) /\ j \in Gives(a)
        BY <2>4, <3>1 DEF Gives
      <3>5. PICK k \in Returns(a) : i < k /\ k < j
        BY <2>4, <3>3, <3>4 DEF Alternates
      <3>6. /\ k \in 1 .. Capacity /\ slots[k] # NULL
            /\ slots[k].type = "free" /\ slots[k].address = a
        BY <3>5 DEF Returns
      <3>7. QED
        BY <2>2, <3>5, <3>6
    <2>5. \A i, j \in Rows :
            /\ i < j /\ {slots[i].type, slots[j].type} \subseteq AllocTypes
            /\ slots[i].result = slots[j].result
            /\ slots[i].result \notin {NULL} \cup reallocated
            => \E k \in Rows : /\ i < k /\ k < j
                               /\ slots[k].type = "free" /\ slots[k].address = slots[i].result
      BY <2>4
    <2>6. QED
      BY <2>5 DEF BlocksAlternate, reallocated
  <1>4. QED
    BY <1>1, <1>2, <1>3, RecordedAlways, PTL DEF Spec

------------------------------------------------------------------------------
(* What is told of a thread. *)

\* What the file tells of a number, while nothing is written.
LEMMA ToldSame ==
  ASSUME slots' = slots, NEW type, NEW i
  PROVE  Told(type, i)' = Told(type, i)
  BY DEF Told

\* What an event that is committed adds.
LEMMA ToldGrows ==
  ASSUME Typed, SlotsInv, EventsInv, NEW type, NEW i, NEW t \in Threads, Commit(t)
  PROVE  LET e == call[t].event
             k == call[t].slot
         IN  /\ k \in 1 .. Capacity /\ k \notin Told(type, i)
             /\ Told(type, i)' = Told(type, i) \cup { n \in {k} : e.type = type /\ e.result = i }
  <1> DEFINE e == call[t].event
             k == call[t].slot
  <1>1. /\ k \in 2 .. Capacity /\ slots[k] = NULL /\ e \in Events /\ slots'[k] = e
        /\ \A n \in 1 .. Capacity : n # k => slots'[n] = slots[n]
    BY CommitStep
  <1>2. e # NULL
    BY <1>1, NullIsNobody
  <1>3. k \in 1 .. Capacity
    BY <1>1, CaptureAssumption
  <1> HIDE DEF e, k
  <1>4. k \notin Told(type, i)
    BY <1>1 DEF Told
  <1>5. Told(type, i)' = Told(type, i) \cup { n \in {k} : e.type = type /\ e.result = i }
    BY <1>1, <1>2, <1>3 DEF Told
  <1>6. QED
    BY <1>3, <1>4, <1>5 DEF e, k

\* Nothing more is about to be told.
TellsNoMore ==
  \A u \in Threads : Pending(u)' =>
    /\ Pending(u) /\ call'[u].event = call[u].event
    /\ at'[u] = "committing" => at[u] = "committing" /\ call'[u].slot = call[u].slot

\* The steps that begin no event.
LEMMA NoMore ==
  ASSUME Typed, EventsInv, NEW t \in Threads, Flag(t) \/ ExitGroup(t) \/ Quiet
  PROVE  slots' = slots /\ TellsNoMore
  <1>1. CASE Flag(t)
    <2>1. /\ slots' = slots /\ call' = call /\ at'[t] = "exiting"
          /\ \A v \in Threads \ {t} : at'[v] = at[v]
      BY <1>1, FlagStep DEF Others
    <2>2. QED
      BY <2>1 DEF TellsNoMore, Pending
  <1>2. CASE ExitGroup(t)
    <2>1. slots' = slots /\ \A v \in Threads : at'[v] = "killed"
      BY <1>2, ExitStep DEF fileVars
    <2>2. QED
      BY <2>1 DEF TellsNoMore, Pending
  <1>3. CASE Quiet
    <2>1. slots' = slots
      BY <1>3, QuietFile
    <2>2. \A v \in Threads : Pending(v)' => at'[v] = at[v] /\ call'[v] = call[v]
      BY <1>3 DEF Quiet
    <2>3. QED
      BY <2>1, <2>2 DEF TellsNoMore, Pending
  <1>4. QED
    BY <1>1, <1>2, <1>3

\* What was told stays told, and what was not stays so.
Keeps(type, i) ==
  /\ NotTold(type, i) => NotTold(type, i)'
  /\ Told(type, i) # {} => Told(type, i)' # {}

\* The steps that begin no event keep all of it.
LEMMA KeepsAll ==
  ASSUME Typed, SlotsInv, EventsInv, NEW t \in Threads,
         Reserve(t) \/ Commit(t) \/ Flag(t) \/ ExitGroup(t) \/ Quiet, NEW type, NEW i
  PROVE  Keeps(type, i)
  <1>1. CASE Reserve(t)
    <2>1. /\ slots' = slots /\ at[t] = "reserving" /\ call'[t].event = call[t].event
          /\ \A v \in Threads \ {t} : at'[v] = at[v] /\ call'[v] = call[v]
      BY <1>1, ReserveStep DEF Others, SameTale
    <2>2. \A u \in Threads : Telling(u, type, i)' => Telling(u, type, i)
      BY <2>1 DEF Telling, Pending
    <2>3. Told(type, i)' = Told(type, i)
      BY <2>1, ToldSame
    <2>4. QED
      BY <2>2, <2>3 DEF Keeps, NotTold
  <1>2. CASE Commit(t)
    <2>1. /\ call' = call /\ at[t] = "committing"
          /\ \A v \in Threads \ {t} : at'[v] = at[v]
      BY <1>2, CommitStep DEF Others
    <2>2. \A u \in Threads : Telling(u, type, i)' => Telling(u, type, i)
      BY <2>1 DEF Telling, Pending
    <2>3. NotTold(type, i) => ~(call[t].event.type = type /\ call[t].event.result = i)
      BY <2>1 DEF NotTold, Telling, Pending
    <2>4. Told(type, i) \subseteq Told(type, i)'
      BY <1>2, ToldGrows
    <2>5. ~(call[t].event.type = type /\ call[t].event.result = i) => Told(type, i)' = Told(type, i)
      BY <1>2, ToldGrows
    <2>6. QED
      BY <2>2, <2>3, <2>4, <2>5 DEF Keeps, NotTold
  <1>3. CASE Flag(t) \/ ExitGroup(t) \/ Quiet
    <2>1. slots' = slots /\ TellsNoMore
      BY <1>3, NoMore
    <2>2. \A u \in Threads : Telling(u, type, i)' => Telling(u, type, i)
      BY <2>1 DEF Telling, TellsNoMore
    <2>3. Told(type, i)' = Told(type, i)
      BY <2>1, ToldSame
    <2>4. QED
      BY <2>2, <2>3 DEF Keeps, NotTold
  <1>4. QED
    BY <1>1, <1>2, <1>3

\* An event that is begun is the only one that becomes told.
LEMMA KeepsOthers ==
  ASSUME NEW t \in Threads, Beginning(t), NEW type, NEW i
  PROVE  /\ Told(type, i)' = Told(type, i)
         /\ ~(call'[t].event.type = type /\ call'[t].event.result = i) => Keeps(type, i)
  <1>1. /\ slots' = slots
        /\ \A u \in Threads \ {t} : at'[u] = at[u] /\ call'[u] = call[u]
    BY BeginningFile
  <1>2. \A u \in Threads \ {t} : Telling(u, type, i)' => Telling(u, type, i)
    BY <1>1 DEF Telling, Pending
  <1>3. Telling(t, type, i)' => call'[t].event.type = type /\ call'[t].event.result = i
    BY DEF Telling
  <1>4. Told(type, i)' = Told(type, i)
    BY <1>1, ToldSame
  <1>5. QED
    BY <1>2, <1>3, <1>4 DEF Keeps, NotTold

\* Nothing more is told: what is told comes once and in order as before.
LEMMA ToldStays ==
  ASSUME slots' = slots, TellsNoMore, NEW i, ToldOf(i)
  PROVE  ToldOf(i)'
  <1>1. \A type : Told(type, i)' = Told(type, i)
    BY ToldSame
  <1>2. \A type : \A u \in Threads : Telling(u, type, i)' =>
          /\ Telling(u, type, i)
          /\ at'[u] = "committing" => at[u] = "committing" /\ call'[u].slot = call[u].slot
    BY DEF Telling, TellsNoMore
  <1>3. ASSUME NEW type \in ThreadTypes PROVE Once(type, i)'
    <2>1. Once(type, i)
      BY DEF ToldOf
    <2>2. QED
      BY <1>1, <1>2, <2>1 DEF Once
  <1>4. ASSUME NEW pair \in Presupposes PROVE InOrder(pair[1], pair[2], i)'
    <2>1. InOrder(pair[1], pair[2], i)
      BY DEF ToldOf
    <2>2. QED
      BY <1>1, <1>2, <2>1 DEF InOrder
  <1>5. QED
    BY <1>3, <1>4 DEF ToldOf

\* Every slot filled so far lies before the next one.
LEMMA ToldBefore ==
  ASSUME Typed, SlotsInv, NEW type, NEW i
  PROVE  \A n \in Told(type, i) : n \in 1 .. Capacity /\ n < next_index + 1
  <1>1. next_index \in Nat /\ Capacity \in Nat
    BY CaptureAssumption DEF Typed
  <1>2. \A n \in Told(type, i) : n \in 1 .. Capacity /\ n <= next_index
    BY <1>1 DEF Told, SlotsInv
  <1>3. QED
    BY <1>1, <1>2

\* The slot a thread takes is behind all that was told.
LEMMA ToldReserved ==
  ASSUME Typed, SlotsInv, NEW t \in Threads, Reserve(t), NEW i, ToldOf(i)
  PROVE  ToldOf(i)'
  <1>1. /\ slots' = slots /\ at[t] = "reserving" /\ call'[t].event = call[t].event
        /\ \A v \in Threads \ {t} : at'[v] = at[v] /\ call'[v] = call[v]
        /\ at'[t] = "committing" => call'[t].slot = next_index + 1
    BY ReserveStep DEF Others, SameTale
  <1>2. \A type : Told(type, i)' = Told(type, i)
    BY <1>1, ToldSame
  <1>3. \A type : \A u \in Threads : Telling(u, type, i)' => Telling(u, type, i)
    BY <1>1 DEF Telling, Pending
  <1>4. ASSUME NEW type \in ThreadTypes PROVE Once(type, i)'
    <2>1. Once(type, i)
      BY DEF ToldOf
    <2>2. QED
      BY <1>2, <1>3, <2>1 DEF Once
  <1>5. ASSUME NEW pair \in Presupposes PROVE InOrder(pair[1], pair[2], i)'
    <2> DEFINE later == pair[1]
               earlier == pair[2]
    <2>1. InOrder(later, earlier, i)
      BY DEF ToldOf
    <2> HIDE DEF later, earlier
    <2>2. ASSUME NEW u \in Threads, Telling(u, later, i)'
          PROVE  \E p \in Told(earlier, i) : at'[u] = "committing" => p < call'[u].slot
      <3>1. PICK p \in Told(earlier, i) : at[u] = "committing" => p < call[u].slot
        BY <1>3, <2>1, <2>2 DEF InOrder
      <3>2. p < next_index + 1
        BY ToldBefore
      <3>3. at'[u] = "committing" => p < call'[u].slot
        BY <1>1, <3>1, <3>2
      <3>4. QED
        BY <3>3
    <2>3. InOrder(later, earlier, i)'
      BY <1>2, <2>1, <2>2 DEF InOrder
    <2>4. QED
      BY <2>3 DEF later, earlier
  <1>6. QED
    BY <1>4, <1>5 DEF ToldOf

\* What is committed was not told before, and follows what it presupposes.
LEMMA ToldCommitted ==
  ASSUME Typed, SlotsInv, EventsInv, NEW t \in Threads, Commit(t), NEW i, ToldOf(i)
  PROVE  ToldOf(i)'
  <1> DEFINE e == call[t].event
             k == call[t].slot
  <1>1. /\ call' = call /\ at[t] = "committing" /\ at'[t] = call[t].then
        /\ \A v \in Threads \ {t} : at'[v] = at[v]
    BY CommitStep DEF Others
  <1>2. ~Pending(t)'
    <2>1. <<e.type, call[t].then>> \in Continuations
      BY <1>1 DEF EventsInv, Pending
    <2>2. QED
      BY <1>1, <2>1 DEF Continuations, Pending
  <1>3. \A type : \A u \in Threads : Telling(u, type, i)' => Telling(u, type, i) /\ u # t
    BY <1>1, <1>2 DEF Telling, Pending
  <1>4. \A type : Telling(t, type, i) <=> e.type = type /\ e.result = i
    BY <1>1 DEF Telling, Pending
  <1>5. \A type : /\ Telling(t, type, i) => Told(type, i)' = Told(type, i) \cup {k}
                  /\ ~Telling(t, type, i) => Told(type, i)' = Told(type, i)
    <2>1. ASSUME NEW type
          PROVE  /\ Telling(t, type, i) => Told(type, i)' = Told(type, i) \cup {k}
                 /\ ~Telling(t, type, i) => Told(type, i)' = Told(type, i)
      <3>1. Told(type, i)' = Told(type, i) \cup { n \in {k} : e.type = type /\ e.result = i }
        BY ToldGrows
      <3>2. QED
        BY <1>4, <3>1
    <2>2. QED
      BY <2>1
  <1> HIDE DEF e, k
  <1>6. ASSUME NEW type \in ThreadTypes PROVE Once(type, i)'
    <2>1. Once(type, i)
      BY DEF ToldOf
    <2>2. CASE Telling(t, type, i)
      <3>1. Told(type, i)' = {k}
        BY <1>5, <2>1, <2>2 DEF Once
      <3>2. \A u \in Threads : ~Telling(u, type, i)'
        BY <1>3, <2>1, <2>2 DEF Once
      <3>3. QED
        BY <3>1, <3>2 DEF Once
    <2>3. CASE ~Telling(t, type, i)
      <3>1. Told(type, i)' = Told(type, i)
        BY <1>5, <2>3
      <3>2. QED
        BY <1>3, <2>1, <3>1 DEF Once
    <2>4. QED
      BY <2>2, <2>3
  <1>7. ASSUME NEW pair \in Presupposes PROVE InOrder(pair[1], pair[2], i)'
    <2> DEFINE later == pair[1]
               earlier == pair[2]
    <2>1. InOrder(later, earlier, i)
      BY DEF ToldOf
    <2> HIDE DEF later, earlier
    <2>2. \A p \in Told(earlier, i) : p \in Told(earlier, i)'
      BY <1>5
    <2>3. ASSUME NEW q \in Told(later, i)' PROVE \E p \in Told(earlier, i)' : p < q
      <3>1. CASE q \in Told(later, i)
        BY <2>1, <2>2, <3>1 DEF InOrder
      <3>2. CASE q \notin Told(later, i)
        <4>1. Telling(t, later, i) /\ q = k
          BY <1>5, <3>2
        <4>2. \E p \in Told(earlier, i) : p < k
          BY <1>1, <2>1, <4>1 DEF InOrder, k
        <4>3. QED
          BY <2>2, <4>1, <4>2
      <3>3. QED
        BY <3>1, <3>2
    <2>4. ASSUME NEW u \in Threads, Telling(u, later, i)'
          PROVE  \E p \in Told(earlier, i)' : at'[u] = "committing" => p < call'[u].slot
      <3>1. Telling(u, later, i) /\ at'[u] = at[u] /\ call'[u] = call[u]
        BY <1>1, <1>3, <2>4
      <3>2. QED
        BY <2>1, <2>2, <3>1 DEF InOrder
    <2>5. InOrder(later, earlier, i)'
      BY <2>3, <2>4 DEF InOrder
    <2>6. QED
      BY <2>5 DEF later, earlier
  <1>8. QED
    BY <1>6, <1>7 DEF ToldOf

\* The event that thread t begins is new, and what it presupposes is told.
Fresh(e) ==
  e.type \in ThreadTypes =>
    /\ NotTold(e.type, e.result)
    /\ \A pair \in Presupposes : pair[1] = e.type => Told(pair[2], e.result) # {}

\* An event that is begun.
LEMMA ToldBegun ==
  ASSUME NEW t \in Threads, Beginning(t), Fresh(call'[t].event), NEW i, ToldOf(i)
  PROVE  ToldOf(i)'
  <1> DEFINE e == call'[t].event
  <1>1. /\ slots' = slots /\ at'[t] = "reserving"
        /\ \A u \in Threads \ {t} : at'[u] = at[u] /\ call'[u] = call[u]
    BY BeginningFile
  <1>2. \A type : Told(type, i)' = Told(type, i)
    BY <1>1, ToldSame
  <1>3. \A type : \A u \in Threads \ {t} : Telling(u, type, i)' <=> Telling(u, type, i)
    BY <1>1 DEF Telling, Pending
  <1>4. \A type : Telling(t, type, i)' <=> e.type = type /\ e.result = i
    BY <1>1 DEF Telling, Pending
  <1>5. ASSUME NEW type \in ThreadTypes PROVE Once(type, i)'
    <2>1. Once(type, i)
      BY DEF ToldOf
    <2>2. CASE Telling(t, type, i)'
      <3>1. NotTold(type, i)
        BY <1>4, <2>2 DEF Fresh
      <3>2. QED
        BY <1>2, <1>3, <3>1 DEF Once, NotTold
    <2>3. CASE ~Telling(t, type, i)'
      BY <1>2, <1>3, <2>1, <2>3 DEF Once
    <2>4. QED
      BY <2>2, <2>3
  <1>6. ASSUME NEW pair \in Presupposes PROVE InOrder(pair[1], pair[2], i)'
    <2> DEFINE later == pair[1]
               earlier == pair[2]
    <2>1. InOrder(later, earlier, i) /\ later \in ThreadTypes
      BY DEF ToldOf, Presupposes, ThreadTypes
    <2>2. Telling(t, later, i)' => Told(earlier, i) # {}
      BY <1>4, <2>1 DEF Fresh
    <2> HIDE DEF later, earlier
    <2>3. ASSUME NEW u \in Threads, Telling(u, later, i)'
          PROVE  \E p \in Told(earlier, i) : at'[u] = "committing" => p < call'[u].slot
      <3>1. CASE u = t
        BY <1>1, <2>2, <2>3, <3>1
      <3>2. CASE u # t
        <4>1. Telling(u, later, i) /\ at'[u] = at[u] /\ call'[u] = call[u]
          BY <1>1, <1>3, <2>3, <3>2
        <4>2. QED
          BY <2>1, <4>1 DEF InOrder
      <3>3. QED
        BY <3>1, <3>2
    <2>4. InOrder(later, earlier, i)'
      BY <1>2, <2>1, <2>3 DEF InOrder
    <2>5. QED
      BY <2>4 DEF later, earlier
  <1>7. QED
    BY <1>5, <1>6 DEF ToldOf

------------------------------------------------------------------------------
(* The map from handles to numbers. *)

\* The least of a set of numbers is the one with none before it.
LEMMA LeastIsMin ==
  ASSUME NEW S \in SUBSET Nat, NEW m \in S, \A n \in S : m <= n
  PROVE  Min(S) = m
  <1>1. Min(S) \in S /\ \A n \in S : Min(S) <= n
    BY MinIsLeast
  <1>2. Min(S) <= m /\ m <= Min(S) /\ m \in Nat /\ Min(S) \in Nat
    BY <1>1
  <1>3. QED
    BY <1>2

\* The map keeps its size.
LEMMA SameSize ==
  ASSUME Typed, Typed', DOMAIN thread_map' = DOMAIN thread_map
  PROVE  budget'.entries = budget.entries
  <1> DEFINE m == budget.entries
             n == budget'.entries
  <1>1. m \in Nat \ {0} /\ DOMAIN thread_map = 0 .. m - 1
    BY DEF Typed
  <1>2. n \in Nat \ {0} /\ DOMAIN thread_map' = 0 .. n - 1
    BY DEF Typed
  <1> HIDE DEF m, n
  <1>3. 0 .. m - 1 = 0 .. n - 1
    BY <1>1, <1>2
  <1>4. m - 1 \in 0 .. n - 1 /\ n - 1 \in 0 .. m - 1
    BY <1>1, <1>2, <1>3
  <1>5. m = n
    BY <1>1, <1>2, <1>4
  <1>6. QED
    BY <1>5 DEF m, n

\* The searches in a map that does not change.
LEMMA SameMap ==
  ASSUME Typed, Typed', thread_map' = thread_map, NEW h
  PROVE  /\ Stops(h)' = Stops(h) /\ Entry(h)' = Entry(h)
         /\ \A j : Holds(h, j)' <=> Holds(h, j)
  <1>1. budget'.entries = budget.entries
    BY SameSize
  <1>2. \A n : Probe(h, n)' = Probe(h, n)
    BY <1>1 DEF Probe
  <1>3. \A j : Holds(h, j)' <=> Holds(h, j)
    BY DEF Holds
  <1>4. Stops(h)' = Stops(h)
    BY <1>1, <1>2, <1>3 DEF Stops
  <1>5. QED
    BY <1>2, <1>3, <1>4 DEF Entry

\* What a search passes, and what it stops at.
LEMMA SearchEnds ==
  ASSUME Typed, NEW h, Stops(h) # {}
  PROVE  LET m == Min(Stops(h))
         IN  /\ m \in Stops(h) /\ m \in 0 .. budget.entries - 1 /\ Entry(h) = Probe(h, m)
             /\ thread_map[Entry(h)] = EMPTY \/ Holds(h, Entry(h))
             /\ \A n \in 0 .. budget.entries - 1 : n < m =>
                  thread_map[Probe(h, n)] # EMPTY /\ ~Holds(h, Probe(h, n))
  <1> DEFINE m == Min(Stops(h))
  <1>1. Stops(h) \in SUBSET Nat
    BY MapTyped DEF Stops
  <1>2. m \in Stops(h) /\ \A n \in Stops(h) : m <= n
    BY <1>1, MinIsLeast
  <1>3. m \in 0 .. budget.entries - 1 /\ (thread_map[Probe(h, m)] = EMPTY \/ Holds(h, Probe(h, m)))
    BY <1>2 DEF Stops
  <1>4. Entry(h) = Probe(h, m)
    BY DEF Entry
  <1>5. budget.entries \in Nat
    BY MapTyped
  <1> HIDE DEF m
  <1>6. ASSUME NEW n \in 0 .. budget.entries - 1, n < m
        PROVE  thread_map[Probe(h, n)] # EMPTY /\ ~Holds(h, Probe(h, n))
    <2>1. n \notin Stops(h)
      BY <1>2, <1>3, <1>5, <1>6
    <2>2. QED
      BY <2>1 DEF Stops
  <1>7. QED
    BY <1>2, <1>3, <1>4, <1>6 DEF m

\* In the next state, a search ends at the first probe that holds the handle, if
\* none before it is empty or holds it.
LEMMA SearchFinds ==
  ASSUME Typed', NEW h, NEW m \in 0 .. budget'.entries - 1, Holds(h, Probe(h, m))',
         \A n \in 0 .. budget'.entries - 1 : n < m =>
           thread_map'[Probe(h, n)'] # EMPTY /\ ~Holds(h, Probe(h, n))'
  PROVE  Stops(h)' # {} /\ Entry(h)' = Probe(h, m)'
  <1>1. m \in Stops(h)'
    BY DEF Stops
  <1>2. \A n \in Stops(h)' : n \in 0 .. budget'.entries - 1 /\ ~(n < m)
    BY DEF Stops
  <1>3. budget'.entries \in Nat
    BY DEF Typed
  <1>4. Stops(h)' \in SUBSET Nat /\ \A n \in Stops(h)' : m <= n
    BY <1>2, <1>3
  <1>5. Min(Stops(h)') = m
    BY <1>1, <1>4, LeastIsMin
  <1>6. QED
    BY <1>1, <1>5 DEF Entry

\* One entry is written, and never to EMPTY: the search for any other handle
\* still finds the entry it found.
LEMMA OtherEntry ==
  ASSUME Typed, Typed', NEW c \in DOMAIN thread_map, NEW x, x # EMPTY,
         thread_map' = [thread_map EXCEPT ![c] = x],
         NEW h \in Handles, ~(x.state = "used" /\ x.key = h), NEW j \in DOMAIN thread_map, j # c,
         Holds(h, j), Stops(h) # {}, j = Entry(h)
  PROVE  Stops(h)' # {} /\ j = Entry(h)'
  <1>1. budget'.entries = budget.entries
    BY SameSize
  <1>2. PICK m \in 0 .. budget.entries - 1 :
          /\ j = Probe(h, m)
          /\ \A n \in 0 .. budget.entries - 1 : n < m =>
               thread_map[Probe(h, n)] # EMPTY /\ ~Holds(h, Probe(h, n))
    BY SearchEnds
  <1>3. \A n : Probe(h, n)' = Probe(h, n)
    BY <1>1 DEF Probe
  <1>4. /\ thread_map'[c] = x
        /\ \A k \in DOMAIN thread_map : k # c => thread_map'[k] = thread_map[k]
    OBVIOUS
  <1>5. \A n \in 0 .. budget.entries - 1 : Probe(h, n) \in DOMAIN thread_map
    BY MapTyped, ProbeInside
  <1>6. /\ Holds(h, j)' /\ ~Holds(h, c)'
        /\ \A k \in DOMAIN thread_map : k # c => (Holds(h, k)' <=> Holds(h, k))
    BY <1>4 DEF Holds
  <1>7. ASSUME NEW n \in 0 .. budget'.entries - 1, n < m
        PROVE  thread_map'[Probe(h, n)'] # EMPTY /\ ~Holds(h, Probe(h, n))'
    <2>1. PICK k \in DOMAIN thread_map : k = Probe(h, n) /\ k = Probe(h, n)'
      BY <1>1, <1>3, <1>5
    <2>2. thread_map[k] # EMPTY /\ ~Holds(h, k)
      BY <1>1, <1>2, <1>7, <2>1
    <2>3. thread_map'[k] # EMPTY /\ ~Holds(h, k)'
      BY <1>4, <1>6, <2>2
    <2>4. QED
      BY <2>1, <2>3 DEF Holds
  <1>8. m \in 0 .. budget'.entries - 1 /\ Probe(h, m)' = j
    BY <1>1, <1>2, <1>3
  <1>9. Holds(h, Probe(h, m))'
    BY <1>6, <1>8 DEF Holds
  <1>10. QED
    BY <1>7, <1>8, <1>9, SearchFinds

\* The place that thread_map_put takes: no earlier probe is there, is empty or
\* holds the handle, and no other entry holds it.
LEMMA PlaceOfPut ==
  ASSUME Typed, OneEntry, NEW h \in Handles, Stops(h) # {}
  PROVE  /\ \E m \in 0 .. budget.entries - 1 :
              /\ PutPlace(h) = Probe(h, m)
              /\ \A n \in 0 .. budget.entries - 1 : n < m =>
                   /\ thread_map[Probe(h, n)] # EMPTY /\ ~Holds(h, Probe(h, n))
                   /\ Probe(h, n) # PutPlace(h)
         /\ \A j \in DOMAIN thread_map : j # PutPlace(h) => ~Holds(h, j)
  <1>1. PICK m \in 0 .. budget.entries - 1 :
          /\ m = Min(Stops(h)) /\ Entry(h) = Probe(h, m)
          /\ thread_map[Entry(h)] = EMPTY \/ Holds(h, Entry(h))
          /\ \A n \in 0 .. budget.entries - 1 : n < m =>
               thread_map[Probe(h, n)] # EMPTY /\ ~Holds(h, Probe(h, n))
    BY SearchEnds
  <1>2. \A j \in DOMAIN thread_map : Holds(h, j) => j = Entry(h)
    BY DEF OneEntry
  <1> DEFINE deleted == { n \in 0 .. m : thread_map[Probe(h, n)] = DELETED }
  <1>3. PutPlace(h) = IF Found(h) \/ deleted = {} THEN Entry(h) ELSE Probe(h, Min(deleted))
    BY <1>1 DEF PutPlace
  <1>4. \A n : n \in deleted <=> n \in 0 .. m /\ thread_map[Probe(h, n)] = DELETED
    OBVIOUS
  <1> HIDE DEF deleted
  <1>5. CASE Found(h) \/ deleted = {}
    <2>1. PutPlace(h) = Entry(h)
      BY <1>3, <1>5
    <2>2. \A n \in 0 .. budget.entries - 1 : n < m => Probe(h, n) # Entry(h)
      BY <1>1
    <2>3. QED
      BY <1>1, <1>2, <2>1, <2>2
  <1>6. CASE ~Found(h) /\ deleted # {}
    <2>1. budget.entries \in Nat
      BY MapTyped
    <2>2. deleted \in SUBSET Nat
      BY <1>4, <2>1
    <2>3. PICK d \in deleted : d = Min(deleted) /\ \A n \in deleted : d <= n
      BY <1>6, <2>2, MinIsLeast
    <2>4. /\ d \in 0 .. m /\ thread_map[Probe(h, d)] = DELETED
          /\ PutPlace(h) = Probe(h, d)
      BY <1>3, <1>4, <1>6, <2>3
    <2>5. d \in 0 .. budget.entries - 1
      BY <2>1, <2>4
    <2>6. ASSUME NEW n \in 0 .. budget.entries - 1, n < d
          PROVE  /\ thread_map[Probe(h, n)] # EMPTY /\ ~Holds(h, Probe(h, n))
                 /\ Probe(h, n) # PutPlace(h)
      <3>1. n \in 0 .. m /\ n < m /\ n \notin deleted
        BY <2>1, <2>3, <2>4, <2>6
      <3>2. thread_map[Probe(h, n)] # DELETED
        BY <1>4, <3>1
      <3>3. QED
        BY <1>1, <2>4, <3>1, <3>2
    <2>7. \A j \in DOMAIN thread_map : ~Holds(h, j)
      BY <1>2, <1>6 DEF Found, OneEntry
    <2>8. QED
      BY <2>4, <2>5, <2>6, <2>7
  <1>7. QED
    BY <1>5, <1>6

\* The searches after an entry was put for a handle.
LEMMA OneEntryPut ==
  ASSUME Typed, Typed', OneEntry, NEW h \in Handles, NEW i, Stops(h) # {},
         thread_map' = [thread_map EXCEPT ![PutPlace(h)] = Used(h, i)]
  PROVE  OneEntry'
  <1>1. PICK m \in 0 .. budget.entries - 1, c \in DOMAIN thread_map :
          /\ c = PutPlace(h) /\ c = Probe(h, m)
          /\ \A n \in 0 .. budget.entries - 1 : n < m =>
               /\ thread_map[Probe(h, n)] # EMPTY /\ ~Holds(h, Probe(h, n))
               /\ Probe(h, n) # c
          /\ \A j \in DOMAIN thread_map : j # c => ~Holds(h, j)
    BY PlaceOfPut, PlaceInside, MapTyped
  <1>2. thread_map' = [thread_map EXCEPT ![c] = Used(h, i)]
    BY <1>1
  <1>3. /\ thread_map'[c] = Used(h, i) /\ DOMAIN thread_map' = DOMAIN thread_map
        /\ \A k \in DOMAIN thread_map : k # c => thread_map'[k] = thread_map[k]
    BY <1>2
  <1>4. budget'.entries = budget.entries
    BY <1>3, SameSize
  <1>5. Holds(h, c)'
    BY <1>3, EntryKinds DEF Holds
  <1>6. \A n : Probe(h, n)' = Probe(h, n)
    BY <1>4 DEF Probe
  <1>7. Stops(h)' # {} /\ Entry(h)' = c
    <2>1. ASSUME NEW n \in 0 .. budget'.entries - 1, n < m
          PROVE  thread_map'[Probe(h, n)'] # EMPTY /\ ~Holds(h, Probe(h, n))'
      <3>1. \E k \in DOMAIN thread_map : k = Probe(h, n)
        BY <1>4, MapTyped, ProbeInside
      <3>2. PICK k \in DOMAIN thread_map : k = Probe(h, n) /\ k = Probe(h, n)'
        BY <1>6, <3>1
      <3>3. thread_map[k] # EMPTY /\ ~Holds(h, k) /\ k # c
        BY <1>1, <1>4, <2>1, <3>2
      <3>4. thread_map'[k] # EMPTY /\ ~Holds(h, k)'
        BY <1>3, <3>3 DEF Holds
      <3>5. QED
        BY <3>2, <3>4 DEF Holds
    <2>2. Probe(h, m)' = c
      BY <1>1, <1>6
    <2>3. Holds(h, Probe(h, m))'
      BY <1>5, <2>2 DEF Holds
    <2>4. QED
      BY <1>4, <2>1, <2>2, <2>3, SearchFinds
  <1>8. ASSUME NEW g \in Handles, NEW j \in DOMAIN thread_map', Holds(g, j)'
        PROVE  Stops(g)' # {} /\ j = Entry(g)'
    <2>1. CASE j = c
      <3>1. g = h
        BY <1>3, <1>8, <2>1, EntryKinds DEF Holds
      <3>2. QED
        BY <1>7, <2>1, <3>1
    <2>2. CASE j # c
      <3>1. j \in DOMAIN thread_map /\ Holds(g, j)
        BY <1>3, <1>8, <2>2 DEF Holds
      <3>2. g # h
        BY <1>1, <2>2, <3>1
      <3>3. Stops(g) # {} /\ j = Entry(g)
        BY <3>1 DEF OneEntry
      <3>4. Used(h, i) # EMPTY /\ Used(h, i).key = h
        BY EntryKinds
      <3>5. QED
        BY <1>2, <2>2, <3>1, <3>2, <3>3, <3>4, OtherEntry
    <2>3. QED
      BY <2>1, <2>2
  <1>9. QED
    BY <1>8 DEF OneEntry

\* The searches after an entry was marked as deleted.
LEMMA OneEntryDeleted ==
  ASSUME Typed, Typed', OneEntry, NEW h \in Handles, Found(h),
         thread_map' = [thread_map EXCEPT ![Entry(h)] = DELETED]
  PROVE  OneEntry'
  <1>1. PICK c \in DOMAIN thread_map : c = Entry(h)
    BY EntryInside, MapTyped DEF Found
  <1>2. thread_map' = [thread_map EXCEPT ![c] = DELETED]
    BY <1>1
  <1>3. /\ thread_map'[c] = DELETED /\ DOMAIN thread_map' = DOMAIN thread_map
        /\ \A k \in DOMAIN thread_map : k # c => thread_map'[k] = thread_map[k]
    BY <1>2
  <1>4. DELETED # EMPTY /\ DELETED.state # "used"
    BY DEF DELETED, EMPTY
  <1>5. ASSUME NEW g \in Handles, NEW j \in DOMAIN thread_map', Holds(g, j)'
        PROVE  Stops(g)' # {} /\ j = Entry(g)'
    <2>1. j # c
      BY <1>3, <1>4, <1>5 DEF Holds
    <2>2. j \in DOMAIN thread_map /\ Holds(g, j)
      BY <1>3, <1>5, <2>1 DEF Holds
    <2>3. Stops(g) # {} /\ j = Entry(g)
      BY <2>2 DEF OneEntry
    <2>4. QED
      BY <1>2, <1>4, <2>1, <2>2, <2>3, OtherEntry
  <1>6. QED
    BY <1>5 DEF OneEntry

\* The map does not change, and no thread that is in it gets another handle or
\* number.
LEMMA MapStays ==
  ASSUME Typed, Typed', OneEntry, RightEntry, thread_map' = thread_map,
         \A u \in Threads : handle'[u] # NULL /\ Registered(u)' =>
           Registered(u) /\ handle'[u] = handle[u] /\ instance'[u] = instance[u]
  PROVE  OneEntry' /\ RightEntry'
  <1>1. \A h : /\ Stops(h)' = Stops(h) /\ Entry(h)' = Entry(h)
               /\ \A j : Holds(h, j)' <=> Holds(h, j)
    BY SameMap
  <1>2. OneEntry'
    BY <1>1 DEF OneEntry
  <1>3. ASSUME NEW h \in Handles, NEW j \in DOMAIN thread_map', NEW u \in Threads,
               Holds(h, j)', handle'[u] = h, Registered(u)'
        PROVE  thread_map'[j].instance = instance'[u]
    <2>1. handle'[u] # NULL
      BY <1>3, NullIsNobody
    <2>2. Registered(u) /\ handle[u] = h /\ instance'[u] = instance[u] /\ Holds(h, j)
      BY <1>1, <1>3, <2>1
    <2>3. QED
      BY <2>2 DEF RightEntry
  <1>4. RightEntry'
    BY <1>3 DEF RightEntry
  <1>5. QED
    BY <1>2, <1>4

\* A call registers its new thread once: with the step that puts it into the map.
LEMMA RegisteredStays ==
  ASSUME NEW t \in Threads, \A v \in Threads \ {t} : at'[v] = at[v] /\ call'[v] = call[v],
         Creating(t)' /\ at'[t] # "registering" =>
           Creating(t) /\ at[t] # "registering" /\ call'[t].subject = call[t].subject,
         \A v \in Threads : parent_ready'[v] => Registered(v)
  PROVE  \A u \in Threads : Registered(u)' => Registered(u)
  <1> SUFFICES ASSUME NEW u \in Threads, Registered(u)' PROVE Registered(u)
    OBVIOUS
  <1>1. CASE parent_ready'[u]
    BY <1>1
  <1>2. CASE \E v \in Threads : call'[v].subject = u /\ Creating(v)' /\ at'[v] # "registering"
    <2>1. PICK v \in Threads : call'[v].subject = u /\ Creating(v)' /\ at'[v] # "registering"
      BY <1>2
    <2>2. CASE v = t
      BY <2>1, <2>2 DEF Registered
    <2>3. CASE v # t
      <3>1. Creating(v)
        BY <2>1, <2>3 DEF Creating, Pending
      <3>2. QED
        BY <2>1, <2>3, <3>1 DEF Registered
    <2>4. QED
      BY <2>2, <2>3
  <1>3. QED
    BY <1>1, <1>2 DEF Registered

\* The entry of the new thread.
LEMMA RightEntryPut ==
  ASSUME Typed, Typed', CallInv, OneEntry, RightEntry, NEW t \in Threads, Creating(t),
         Others(t), threadVars' = threadVars, Stops(call[t].key) # {},
         call'[t].subject = call[t].subject,
         thread_map' = [thread_map EXCEPT ![PutPlace(call[t].key)] =
                          Used(call[t].key, instance[call[t].subject])]
  PROVE  OneEntry' /\ RightEntry'
  <1>a. /\ call[t].key \in Handles /\ call[t].subject \in Threads
        /\ handle[call[t].subject] = call[t].key
    BY CreatingSubject
  <1>b. PICK h \in Handles : h = call[t].key
    BY <1>a
  <1>c. PICK s \in Threads : s = call[t].subject
    BY <1>a
  <1>d. PICK i \in Nat : i = instance[s]
    BY DEF Typed
  <1>1. h = call[t].key /\ s = call[t].subject /\ i = instance[s] /\ handle[s] = h
    BY <1>a, <1>b, <1>c, <1>d
  <1>2. Stops(h) # {} /\ thread_map' = [thread_map EXCEPT ![PutPlace(h)] = Used(h, i)]
    BY <1>1
  <1>3. OneEntry'
    BY <1>2, OneEntryPut
  <1>4. PICK c \in DOMAIN thread_map : c = PutPlace(h)
    BY <1>2, PlaceInside, MapTyped
  <1>5. \A j \in DOMAIN thread_map : j # c => ~Holds(h, j)
    BY <1>2, <1>4, PlaceOfPut
  <1>6. /\ thread_map'[c] = Used(h, i) /\ DOMAIN thread_map' = DOMAIN thread_map
        /\ \A k \in DOMAIN thread_map : k # c => thread_map'[k] = thread_map[k]
    BY <1>2, <1>4
  <1>7. /\ handle' = handle /\ instance' = instance /\ parent_ready' = parent_ready
        /\ \A v \in Threads \ {t} : at'[v] = at[v] /\ call'[v] = call[v]
    BY DEF threadVars, Others
  <1>8. \A u, v \in Threads : handle[u] # NULL /\ handle[u] = handle[v] => u = v
    BY DEF CallInv
  <1>9. ASSUME NEW g \in Handles, NEW j \in DOMAIN thread_map', NEW u \in Threads,
               Holds(g, j)', handle'[u] = g, Registered(u)'
        PROVE  thread_map'[j].instance = instance'[u]
    <2>1. CASE j = c
      <3>1. g = h
        BY <1>6, <1>9, <2>1, EntryKinds DEF Holds
      <3>2. u = s
        BY <1>1, <1>7, <1>8, <1>9, <3>1, NullIsNobody
      <3>3. QED
        BY <1>1, <1>6, <1>7, <2>1, <3>2, EntryKinds
    <2>2. CASE j # c
      <3>1. j \in DOMAIN thread_map /\ Holds(g, j)
        BY <1>6, <1>9, <2>2 DEF Holds
      <3>2. g # h
        BY <1>5, <2>2, <3>1
      <3>3. u # s
        BY <1>1, <1>7, <1>9, <3>2
      <3>4. Registered(u)
        <4>1. CASE parent_ready'[u]
          BY <1>7, <4>1 DEF Registered
        <4>2. CASE \E v \in Threads : call'[v].subject = u /\ Creating(v)' /\ at'[v] # "registering"
          <5>1. PICK v \in Threads : call'[v].subject = u /\ Creating(v)' /\ at'[v] # "registering"
            BY <4>2
          <5>2. v # t
            BY <1>1, <3>3, <5>1
          <5>3. Creating(v)
            BY <1>7, <5>1, <5>2 DEF Creating, Pending
          <5>4. QED
            BY <1>7, <5>1, <5>2, <5>3 DEF Registered
        <4>3. QED
          BY <1>9, <4>1, <4>2 DEF Registered
      <3>5. thread_map[j].instance = instance[u]
        BY <1>7, <1>9, <3>1, <3>4 DEF RightEntry
      <3>6. QED
        BY <1>6, <1>7, <2>2, <3>1, <3>5
    <2>3. QED
      BY <2>1, <2>2
  <1>10. RightEntry'
    BY <1>9 DEF RightEntry
  <1>11. QED
    BY <1>3, <1>10

\* An entry is marked as deleted.
LEMMA RightEntryDeleted ==
  ASSUME Typed, Typed', OneEntry, RightEntry, NEW h \in Handles, Found(h),
         thread_map' = [thread_map EXCEPT ![Entry(h)] = DELETED],
         handle' = handle, instance' = instance,
         \A u \in Threads : Registered(u)' => Registered(u)
  PROVE  OneEntry' /\ RightEntry'
  <1>1. OneEntry'
    BY OneEntryDeleted
  <1>2. PICK c \in DOMAIN thread_map : c = Entry(h)
    BY EntryInside, MapTyped DEF Found
  <1>3. /\ thread_map'[c] = DELETED /\ DOMAIN thread_map' = DOMAIN thread_map
        /\ \A k \in DOMAIN thread_map : k # c => thread_map'[k] = thread_map[k]
    BY <1>2
  <1>4. ASSUME NEW g \in Handles, NEW j \in DOMAIN thread_map', NEW u \in Threads,
               Holds(g, j)', handle'[u] = g, Registered(u)'
        PROVE  thread_map'[j].instance = instance'[u]
    <2>1. j # c
      BY <1>3, <1>4, EntryKinds DEF Holds
    <2>2. j \in DOMAIN thread_map /\ Holds(g, j)
      BY <1>3, <1>4, <2>1 DEF Holds
    <2>3. thread_map[j].instance = instance[u]
      BY <1>4, <2>2 DEF RightEntry
    <2>4. QED
      BY <1>3, <2>1, <2>2, <2>3
  <1>5. RightEntry'
    BY <1>4 DEF RightEntry
  <1>6. QED
    BY <1>1, <1>5

\* thread_map_get of a thread that can be joined finds its number or none.
LEMMA GetsItsNumber ==
  ASSUME Typed, RightEntry, NEW u \in Threads, parent_ready[u], handle[u] \in Handles
  PROVE  Get(handle[u]) \in {0, instance[u]}
  <1> DEFINE h == handle[u]
  <1>1. Registered(u)
    BY DEF Registered
  <1>2. CASE Found(h)
    <2>1. Entry(h) \in DOMAIN thread_map /\ Holds(h, Entry(h))
      BY <1>2, EntryInside, MapTyped DEF Found
    <2>2. thread_map[Entry(h)].instance = instance[u]
      BY <1>1, <2>1 DEF RightEntry
    <2>3. QED
      BY <1>2, <2>2 DEF Get
  <1>3. CASE ~Found(h)
    BY <1>3 DEF Get
  <1>4. QED
    BY <1>2, <1>3

\* The steps that leave the map alone, and give no thread a handle or a number.
LEMMA MapFrame ==
  ASSUME Typed, Typed', OneEntry, RightEntry, NEW t \in Threads,
         \A v \in Threads \ {t} : at'[v] = at[v] /\ call'[v] = call[v],
         Creating(t)' /\ at'[t] # "registering" =>
           Creating(t) /\ at[t] # "registering" /\ call'[t].subject = call[t].subject,
         \A v \in Threads : parent_ready'[v] => Registered(v),
         thread_map' = thread_map, instance' = instance,
         \A u \in Threads : handle'[u] \in {NULL, handle[u]}
  PROVE  OneEntry' /\ RightEntry'
  BY RegisteredStays, MapStays

\* The log, the exit and the calls about blocks leave the map alone.
LEMMA MapLog ==
  ASSUME Typed, Typed', SlotsInv, EventsInv, blocks \subseteq heap, OneEntry, RightEntry,
         NEW t \in Threads,
         \/ Reserve(t) \/ Commit(t) \/ Flag(t) \/ ExitGroup(t)
         \/ Malloc(t) \/ Realloc(t) \/ Return(t) \/ Free(t) \/ RealFree(t) \/ CreateFails(t)
  PROVE  OneEntry' /\ RightEntry'
  <1>1. \A v \in Threads : parent_ready[v] => Registered(v)
    BY DEF Registered
  <1>2. CASE Reserve(t)
    <2>1. /\ Others(t) /\ thread_map' = thread_map /\ UNCHANGED threadVars
          /\ at[t] = "reserving" /\ at'[t] \in {"committing", "failing"}
          /\ call'[t].then = call[t].then /\ call'[t].subject = call[t].subject
      BY <1>2, ReserveStep DEF SameTale
    <2>2. Creating(t)' => Creating(t) /\ at[t] # "registering"
      BY <2>1 DEF Creating, Pending
    <2>3. QED
      BY <1>1, <2>1, <2>2, MapFrame DEF Others, threadVars
  <1>3. CASE Commit(t)
    <2>1. /\ Others(t) /\ thread_map' = thread_map /\ UNCHANGED threadVars /\ call' = call
          /\ at[t] = "committing" /\ at'[t] = call[t].then
      BY <1>3, CommitStep
    <2>2. <<call[t].event.type, call[t].then>> \in Continuations
      BY <2>1 DEF EventsInv, Pending
    <2>3. call[t].then \in {"returning", "freeing", "created", "dismissing", "forgetting",
                            "idle", "ending"}
      BY <2>2 DEF Continuations
    <2>4. Creating(t)' => Creating(t) /\ at[t] # "registering"
      BY <2>1, <2>3 DEF Creating, Pending
    <2>5. QED
      BY <1>1, <2>1, <2>4, MapFrame DEF Others, threadVars
  <1>4. CASE Flag(t)
    <2>1. /\ Others(t) /\ thread_map' = thread_map /\ UNCHANGED threadVars /\ at'[t] = "exiting"
      BY <1>4, FlagStep
    <2>2. ~Creating(t)'
      BY <2>1 DEF Creating, Pending
    <2>3. QED
      BY <1>1, <2>1, <2>2, MapFrame DEF Others, threadVars
  <1>5. CASE ExitGroup(t)
    <2>1. /\ thread_map' = thread_map /\ UNCHANGED threadVars
          /\ \A v \in Threads : at'[v] = "killed"
      BY <1>5, ExitStep
    <2>2. \A v \in Threads : ~Creating(v)'
      BY <2>1 DEF Creating, Pending
    <2>3. \A u \in Threads : Registered(u)' => Registered(u)
      BY <2>1, <2>2 DEF Registered, threadVars
    <2>4. QED
      BY <2>1, <2>3, MapStays DEF threadVars
  <1>6. CASE Malloc(t) \/ Realloc(t) \/ Free(t)
    <2>1. /\ Others(t) /\ thread_map' = thread_map /\ UNCHANGED threadVars
          /\ \E e \in Events, then \in {"returning", "freeing"} : Begins(t, e, then)
      BY <1>6, MallocStep, ReallocStep, FreeStep
    <2>2. ~Creating(t)'
      BY <2>1 DEF Creating, Pending, Begins
    <2>3. QED
      BY <1>1, <2>1, <2>2, MapFrame DEF Others, threadVars
  <1>7. CASE Return(t) \/ RealFree(t)
    <2>1. /\ Others(t) /\ thread_map' = thread_map /\ UNCHANGED threadVars /\ at'[t] = "idle"
      BY <1>7, ReturnStep, RealFreeStep
    <2>2. ~Creating(t)'
      BY <2>1 DEF Creating, Pending
    <2>3. QED
      BY <1>1, <2>1, <2>2, MapFrame DEF Others, threadVars
  <1>8. CASE CreateFails(t)
    <2>1. thread_map' = thread_map /\ UNCHANGED threadVars /\ at' = at /\ call' = call
      BY <1>8, CreateFailsStep
    <2>2. \A u \in Threads : Registered(u)' => Registered(u)
      BY <2>1 DEF Registered, Creating, Pending, threadVars
    <2>3. QED
      BY <2>1, <2>2, MapStays DEF threadVars
  <1>9. QED
    BY <1>2, <1>3, <1>4, <1>5, <1>6, <1>7, <1>8

\* The calls that create a thread: it is in the map before it is let go.
LEMMA MapCreate ==
  ASSUME Typed, Typed', NamesInv, CallInv, OneEntry, RightEntry, NEW t \in Threads,
         (\E u \in Threads : Create(t, u)) \/ Register(t) \/ Created(t) \/ Release(t)
  PROVE  OneEntry' /\ RightEntry'
  <1>1. \A v \in Threads : parent_ready[v] => Registered(v)
    BY DEF Registered
  <1>2. CASE \E u \in Threads : Create(t, u)
    <2>1. PICK u \in Threads : Create(t, u)
      BY <1>2
    <2>2. /\ at[u] = "unborn" /\ at'[t] = "registering" /\ at'[u] = "waiting"
          /\ parent_ready' = parent_ready /\ thread_map' = thread_map
          /\ \A v \in Threads \ {t} : call'[v] = call[v]
          /\ \A v \in Threads \ {u} : instance'[v] = instance[v] /\ handle'[v] = handle[v]
          /\ \A v \in Threads \ {t, u} : at'[v] = at[v]
      BY <2>1, CreateStep
    <2>3. instance[u] = 0 /\ ~parent_ready[u]
      BY <2>2 DEF NamesInv
    <2>4. \A v \in Threads : call[v].subject # u
      <3> SUFFICES ASSUME NEW v \in Threads, call[v].subject = u PROVE FALSE
        OBVIOUS
      <3>1. call[v].subject # NULL
        BY NullIsNobody
      <3>2. QED
        BY <2>3, <3>1 DEF CallInv
    <2>5. \A v \in Threads : Creating(v)' /\ at'[v] # "registering" =>
            v # t /\ v # u /\ Creating(v)
      BY <2>2 DEF Creating, Pending
    <2>6. ASSUME NEW w \in Threads, Registered(w)'
          PROVE  Registered(w) /\ w # u
      <3>1. CASE parent_ready'[w]
        BY <2>2, <2>3, <3>1 DEF Registered
      <3>2. CASE \E v \in Threads : call'[v].subject = w /\ Creating(v)' /\ at'[v] # "registering"
        <4>1. PICK v \in Threads : call'[v].subject = w /\ Creating(v)' /\ at'[v] # "registering"
          BY <3>2
        <4>2. v # t /\ v # u /\ Creating(v)
          BY <2>5, <4>1
        <4>3. call[v].subject = w /\ at[v] # "registering"
          BY <2>2, <4>1, <4>2
        <4>4. QED
          BY <2>4, <4>2, <4>3 DEF Registered
      <3>3. QED
        BY <2>6, <3>1, <3>2 DEF Registered
    <2>7. QED
      BY <2>2, <2>6, MapStays
  <1>3. CASE Register(t)
    <2>1. /\ Others(t) /\ at[t] = "registering" /\ UNCHANGED threadVars
          /\ \/ /\ Stops(call[t].key) # {}
                /\ thread_map' = [thread_map EXCEPT ![PutPlace(call[t].key)] =
                                    Used(call[t].key, instance[call[t].subject])]
                /\ \E e \in Events : Begins(t, e, "created")
             \/ at'[t] = "failing" /\ thread_map' = thread_map
      BY <1>3, RegisterStep
    <2>2. Creating(t)
      BY <2>1 DEF Creating
    <2>3. CASE at'[t] = "failing" /\ thread_map' = thread_map
      <3>1. ~Creating(t)'
        BY <2>3 DEF Creating, Pending
      <3>2. QED
        BY <1>1, <2>1, <2>3, <3>1, MapFrame DEF Others, threadVars
    <2>4. CASE /\ Stops(call[t].key) # {}
               /\ thread_map' = [thread_map EXCEPT ![PutPlace(call[t].key)] =
                                   Used(call[t].key, instance[call[t].subject])]
               /\ \E e \in Events : Begins(t, e, "created")
      <3>1. call'[t].subject = call[t].subject
        BY <2>4 DEF Begins
      <3>2. QED
        BY <2>1, <2>2, <2>4, <3>1, RightEntryPut
    <2>5. QED
      BY <2>1, <2>3, <2>4
  <1>4. CASE Created(t)
    <2>1. /\ Others(t) /\ at[t] = "created" /\ thread_map' = thread_map /\ UNCHANGED threadVars
          /\ \/ \E e \in Events : Begins(t, e, "dismissing")
             \/ at'[t] = "releasing" /\ call' = call
      BY <1>4, CreatedStep
    <2>2. Creating(t) /\ call'[t].subject = call[t].subject
      BY <2>1 DEF Creating, Begins
    <2>3. QED
      BY <1>1, <2>1, <2>2, MapFrame DEF Others, threadVars
  <1>5. CASE Release(t)
    <2>1. /\ Others(t) /\ at[t] = "releasing" /\ at'[t] = "idle" /\ thread_map' = thread_map
          /\ handle' = handle /\ instance' = instance
          /\ \A u \in Threads \ {call[t].subject} : parent_ready'[u] = parent_ready[u]
      BY <1>5, ReleaseStep
    <2>2. Creating(t) /\ ~Creating(t)'
      BY <2>1 DEF Creating, Pending
    <2>3. \A v \in Threads : parent_ready'[v] => Registered(v)
      BY <2>1, <2>2 DEF Registered
    <2>4. QED
      BY <2>1, <2>2, <2>3, MapFrame DEF Others
  <1>6. QED
    BY <1>2, <1>3, <1>4, <1>5

\* The other calls of the threads.
LEMMA MapThreads ==
  ASSUME Typed, Typed', NamesInv, CallInv, OneEntry, RightEntry, NEW t \in Threads,
         \/ Begin(t) \/ Finish(t) \/ End(t) \/ Join(t) \/ Detach(t)
         \/ RealJoin(t) \/ RealDetach(t) \/ Forget(t)
  PROVE  OneEntry' /\ RightEntry'
  <1>1. \A v \in Threads : parent_ready[v] => Registered(v)
    BY DEF Registered
  <1>2. CASE Begin(t) \/ Finish(t)
    <2>1. /\ Others(t) /\ thread_map' = thread_map /\ UNCHANGED threadVars
          /\ \E e \in Events, then \in {"idle", "ending"} : Begins(t, e, then)
      BY <1>2, BeginStep, FinishStep
    <2>2. ~Creating(t)'
      BY <2>1 DEF Creating, Pending, Begins
    <2>3. QED
      BY <1>1, <2>1, <2>2, MapFrame DEF Others, threadVars
  <1>3. CASE End(t)
    <2>1. /\ Others(t) /\ at'[t] = "gone" /\ thread_map' = thread_map
          /\ instance' = instance /\ parent_ready' = parent_ready
          /\ \A u \in Threads : handle'[u] \in {NULL, handle[u]}
      BY <1>3, EndStep
    <2>2. ~Creating(t)'
      BY <2>1 DEF Creating, Pending
    <2>3. QED
      BY <1>1, <2>1, <2>2, MapFrame DEF Others
  <1>4. CASE Join(t) \/ Detach(t)
    <2>1. PICK u \in Threads, label \in {"joining", "detaching"} : LookUp(t, u, label)
      BY <1>4 DEF Join, Detach
    <2>2. /\ at'[t] = label /\ thread_map' = thread_map
          /\ instance' = instance /\ parent_ready' = parent_ready /\ handle' = handle
          /\ \A v \in Threads \ {t} : at'[v] = at[v] /\ call'[v] = call[v]
      BY <2>1, LookUpStep
    <2>3. ~Creating(t)'
      BY <2>2 DEF Creating, Pending
    <2>4. QED
      BY <1>1, <2>2, <2>3, MapFrame
  <1>5. CASE RealJoin(t) \/ RealDetach(t)
    <2>1. /\ Others(t) /\ thread_map' = thread_map
          /\ instance' = instance /\ parent_ready' = parent_ready
          /\ \A u \in Threads : handle'[u] \in {NULL, handle[u]}
          /\ \/ \E e \in Events : Begins(t, e, "forgetting")
             \/ at'[t] = "idle"
      <3>1. CASE RealJoin(t)
        BY <3>1, RealJoinStep
      <3>2. CASE RealDetach(t)
        BY <3>2, RealDetachStep
      <3>3. QED
        BY <1>5, <3>1, <3>2
    <2>2. ~Creating(t)'
      BY <2>1 DEF Creating, Pending, Begins
    <2>3. QED
      BY <1>1, <2>1, <2>2, MapFrame DEF Others
  <1>6. CASE Forget(t)
    <2>1. /\ Others(t) /\ UNCHANGED threadVars
          /\ \/ Found(call[t].key) /\ thread_map' = [thread_map EXCEPT ![Entry(call[t].key)] = DELETED]
             \/ thread_map' = thread_map
          /\ \/ at[t] = "dismissing" /\ at'[t] = "releasing" /\ call' = call
             \/ at[t] = "forgetting" /\ at'[t] = "idle"
      BY <1>6, ForgetStep
    <2>2. call[t].key \in Handles
      BY <2>1 DEF CallInv
    <2>3. Creating(t)' => Creating(t) /\ at[t] # "registering" /\ call'[t].subject = call[t].subject
      BY <2>1 DEF Creating, Pending
    <2>4. \A u \in Threads : Registered(u)' => Registered(u)
      BY <1>1, <2>1, <2>3, RegisteredStays DEF Others, threadVars
    <2>5. PICK h \in Handles : h = call[t].key
      BY <2>2
    <2>6. \/ Found(h) /\ thread_map' = [thread_map EXCEPT ![Entry(h)] = DELETED]
          \/ thread_map' = thread_map
      BY <2>1, <2>5
    <2>7. handle' = handle /\ instance' = instance
      BY <2>1 DEF threadVars
    <2>8. QED
      BY <2>4, <2>6, <2>7, RightEntryDeleted, MapStays
  <1>7. QED
    BY <1>2, <1>3, <1>4, <1>5, <1>6

\* Every step keeps the map right.
LEMMA MapKept ==
  ASSUME Typed, Typed', SlotsInv, NamesInv, EventsInv, CallInv, blocks \subseteq heap,
         OneEntry, RightEntry, NEW t \in Threads, Step(t)
  PROVE  OneEntry' /\ RightEntry'
  BY MapLog, MapCreate, MapThreads DEF Step

------------------------------------------------------------------------------
(* What a thread has told of itself. *)

\* Nothing is told of a number that was not given out.
LEMMA NobodyTold ==
  ASSUME NamesInv, EventsInv, NEW type \in ThreadTypes, NEW i, i \notin 1 .. next_instance - 1
  PROVE  NotTold(type, i)
  <1>1. Told(type, i) = {}
    BY DEF NamesInv, Told
  <1>2. \A t \in Threads : ~Telling(t, type, i)
    BY DEF EventsInv, Telling
  <1>3. QED
    BY <1>1, <1>2 DEF NotTold

\* A thread has a number of its own.
LEMMA OwnNumber ==
  ASSUME Typed, NamesInv, NEW t \in Threads, NEW u \in Threads, instance[t] = instance[u],
         instance[t] # 0
  PROVE  t = u
  BY DEF NamesInv

\* A thread reserves a slot, or finds none.
LEMMA StandingReserved ==
  ASSUME Typed, SlotsInv, EventsInv, StandingInv, NEW x \in Threads, Reserve(x)
  PROVE  StandingInv'
  <1>1. /\ instance' = instance /\ at[x] = "reserving" /\ call'[x].event = call[x].event
        /\ at'[x] \in {"committing", "failing"}
        /\ \A v \in Threads \ {x} : at'[v] = at[v] /\ call'[v] = call[v]
    BY ReserveStep DEF Others, SameTale, threadVars
  <1>2. ASSUME NEW t \in Threads, NEW i \in Nat, instance'[t] = i PROVE Standing(t, i)'
    <2>1. Standing(t, i)
      BY <1>1, <1>2 DEF StandingInv
    <2>2. Keeps("start", i) /\ Keeps("end", i)
      BY KeepsAll
    <2>3. /\ at'[t] = "waiting" => at[t] = "waiting"
          /\ at'[t] \in {"ending", "gone"} => at[t] \in {"ending", "gone"}
          /\ Alive(t)' => Alive(t)
          /\ Started(t)' => Started(t)
      BY <1>1 DEF Alive, Started, Pending
    <2>4. QED
      BY <2>1, <2>2, <2>3 DEF Standing, Keeps
  <1>3. QED
    BY <1>2 DEF StandingInv

\* A thread fills its slot: with its start and its end among others.
LEMMA StandingCommitted ==
  ASSUME Typed, SlotsInv, NamesInv, EventsInv, StandingInv, NEW x \in Threads, Commit(x)
  PROVE  StandingInv'
  <1>1. /\ instance' = instance /\ call' = call /\ at[x] = "committing" /\ at'[x] = call[x].then
        /\ \A v \in Threads \ {x} : at'[v] = at[v]
    BY CommitStep DEF Others, threadVars
  <1>2. /\ <<call[x].event.type, call[x].then>> \in Continuations
        /\ call[x].event.type \in {"start", "end"} => call[x].event.result = instance[x]
    BY <1>1 DEF EventsInv, Pending
  <1>3. ASSUME NEW type, NEW i, call[x].event.type = type, call[x].event.result = i
        PROVE  Told(type, i)' # {}
    <2> DEFINE k == call[x].slot
    <2>1. Told(type, i)' = Told(type, i) \cup
            { n \in {k} : call[x].event.type = type /\ call[x].event.result = i }
      BY ToldGrows
    <2>2. { n \in {k} : call[x].event.type = type /\ call[x].event.result = i } = {k}
      BY <1>3
    <2>3. QED
      BY <2>1, <2>2
  <1>4. ASSUME NEW t \in Threads, NEW i \in Nat, instance'[t] = i PROVE Standing(t, i)'
    <2>1. Standing(t, i) /\ instance[t] = i
      BY <1>1, <1>4 DEF StandingInv
    <2>2. Keeps("start", i) /\ Keeps("end", i)
      BY KeepsAll
    <2>3. CASE t # x
      <3>1. /\ at'[t] = at[t]
            /\ Alive(t)' <=> Alive(t)
            /\ Started(t)' <=> Started(t)
        BY <1>1, <2>3 DEF Alive, Started, Pending
      <3>2. QED
        BY <2>1, <2>2, <3>1 DEF Standing, Keeps
    <2>4. CASE t = x
      <3>1. at'[t] # "waiting" /\ at'[t] # "gone"
        BY <1>1, <1>2, <2>4 DEF Continuations
      <3>2. Alive(t)' => Alive(t)
        BY <1>1, <1>2, <2>4 DEF Alive, Pending, Continuations
      <3>3. Started(t)' => Started(t) \/ call[t].event.type = "start"
        BY <1>1, <2>4 DEF Started, Pending
      <3>4. call[t].event.type = "start" => Told("start", i)' # {}
        BY <1>2, <1>3, <2>1, <2>4
      <3>5. at'[t] = "ending" => Told("end", i)' # {}
        <4>1. at'[t] = "ending" => call[t].event.type = "end"
          BY <1>1, <1>2, <2>4 DEF Continuations
        <4>2. QED
          BY <1>2, <1>3, <2>1, <2>4, <4>1
      <3>6. QED
        BY <2>1, <2>2, <3>1, <3>2, <3>3, <3>4, <3>5 DEF Standing, Keeps
    <2>5. QED
      BY <2>3, <2>4
  <1>5. QED
    BY <1>4 DEF StandingInv

\* The process ends, and nobody tells anything more.
LEMMA StandingExit ==
  ASSUME Typed, SlotsInv, EventsInv, StandingInv, NEW x \in Threads, Flag(x) \/ ExitGroup(x)
  PROVE  StandingInv'
  <1>1. /\ instance' = instance /\ call' = call
        /\ \A v \in Threads : at'[v] = at[v] \/ at'[v] \in {"exiting", "killed"}
    BY FlagStep, ExitStep DEF Others, threadVars
  <1>2. ASSUME NEW t \in Threads, NEW i \in Nat, instance'[t] = i PROVE Standing(t, i)'
    <2>1. Standing(t, i)
      BY <1>1, <1>2 DEF StandingInv
    <2>2. Keeps("start", i) /\ Keeps("end", i)
      BY KeepsAll
    <2>3. CASE at'[t] = at[t]
      <3>1. (Alive(t)' <=> Alive(t)) /\ (Started(t)' <=> Started(t))
        BY <1>1, <2>3 DEF Alive, Started, Pending
      <3>2. QED
        BY <2>1, <2>2, <2>3, <3>1 DEF Standing, Keeps
    <2>4. CASE at'[t] \in {"exiting", "killed"}
      <3>1. ~Alive(t)' /\ ~Started(t)'
        BY <2>4 DEF Alive, Started, Pending
      <3>2. QED
        BY <2>4, <3>1 DEF Standing
    <2>5. QED
      BY <1>1, <2>3, <2>4
  <1>3. QED
    BY <1>2 DEF StandingInv

\* A thread begins to log an event: only its own start and end are about it.
LEMMA StandingBegun ==
  ASSUME Typed, NamesInv, StandingInv, NEW x \in Threads, Beginning(x)
  PROVE  StandingInv'
  <1>1. /\ instance' = instance /\ at'[x] = "reserving"
        /\ \A v \in Threads \ {x} : at'[v] = at[v] /\ call'[v] = call[v]
    BY BeginningFile
  <1>2. /\ at[x] \in {"idle", "registering", "created", "waiting", "joining", "detaching"}
        /\ at[x] = "waiting" => call'[x].event.type = "start"
        /\ call'[x].event.type \in ThreadTypes => call'[x].event.result \in 1 .. next_instance - 1
        /\ call'[x].event.type \in {"start", "end"} => call'[x].event.result = instance[x]
    BY DEF Beginning, Begins
  <1>3. ASSUME NEW t \in Threads, NEW i \in Nat, instance'[t] = i PROVE Standing(t, i)'
    <2>1. Standing(t, i) /\ instance[t] = i
      BY <1>1, <1>3 DEF StandingInv
    <2>2. /\ Told("start", i)' = Told("start", i) /\ Told("end", i)' = Told("end", i)
          /\ \A type : ~(call'[x].event.type = type /\ call'[x].event.result = i) => Keeps(type, i)
      BY KeepsOthers
    <2>3. CASE t # x
      <3>1. /\ at'[t] = at[t]
            /\ Alive(t)' <=> Alive(t)
            /\ Started(t)' <=> Started(t)
        BY <1>1, <2>3 DEF Alive, Started, Pending
      <3>2. ~(call'[x].event.type \in {"start", "end"} /\ call'[x].event.result = i)
        <4>1. SUFFICES ASSUME call'[x].event.type \in {"start", "end"}, call'[x].event.result = i
                       PROVE  FALSE
          OBVIOUS
        <4>2. i = instance[x] /\ i \in 1 .. next_instance - 1
          BY <1>2, <4>1 DEF ThreadTypes
        <4>3. QED
          BY <2>1, <2>3, <4>2, OwnNumber
      <3>3. Keeps("start", i) /\ Keeps("end", i)
        BY <2>2, <3>2
      <3>4. QED
        BY <2>1, <3>1, <3>3 DEF Standing, Keeps
    <2>4. CASE t = x
      <3>1. /\ Alive(t)' => call'[x].event.type # "end"
            /\ Started(t)' => call'[x].event.type # "start"
        BY <1>1, <2>4 DEF Alive, Started, Pending
      <3>2. Alive(t) /\ (at[t] # "waiting" => Started(t))
        BY <1>2, <2>4 DEF Alive, Started, Pending
      <3>3. Alive(t)' => NotTold("end", i)'
        BY <2>1, <2>2, <3>1, <3>2 DEF Standing, Keeps
      <3>4. Started(t)' /\ t # Initial => Told("start", i)' # {}
        BY <1>2, <2>1, <2>2, <2>4, <3>1, <3>2 DEF Standing
      <3>5. QED
        BY <1>1, <2>4, <3>3, <3>4 DEF Standing
    <2>5. QED
      BY <2>3, <2>4
  <1>4. QED
    BY <1>3 DEF StandingInv

\* Nothing is logged, but a thread may be born or gone.
LEMMA StandingQuiet ==
  ASSUME Typed, SlotsInv, NamesInv, EventsInv, StandingInv, Quiet
  PROVE  StandingInv'
  <1>1. ASSUME NEW t \in Threads, NEW i \in Nat, instance'[t] = i PROVE Standing(t, i)'
    <2>1. Keeps("start", i) /\ Keeps("end", i)
      BY CaptureAssumption, KeepsAll
    <2>2. CASE at'[t] = at[t]
      <3>1. instance'[t] = instance[t]
        BY <2>2 DEF Quiet
      <3>2. Standing(t, i)
        BY <1>1, <3>1 DEF StandingInv
      <3>3. Pending(t) \/ Pending(t)' => call'[t] = call[t]
        BY DEF Quiet
      <3>4. (Alive(t)' <=> Alive(t)) /\ (Started(t)' <=> Started(t))
        BY <2>2, <3>3 DEF Alive, Started, Pending
      <3>5. QED
        BY <2>1, <2>2, <3>2, <3>4 DEF Standing, Keeps
    <2>3. CASE at'[t] # at[t] /\ at'[t] = "waiting"
      <3>1. instance'[t] # instance[t]
        BY <2>3 DEF Quiet
      <3>2. i = next_instance
        BY <1>1, <3>1 DEF Quiet
      <3>3. NotTold("start", i) /\ NotTold("end", i)
        <4>1. next_instance \in Nat
          BY DEF Typed
        <4>2. i \notin 1 .. next_instance - 1
          BY <3>2, <4>1
        <4>3. QED
          BY <4>2, NobodyTold DEF ThreadTypes
      <3>4. ~Started(t)'
        BY <2>3 DEF Started, Pending
      <3>5. QED
        BY <2>1, <2>3, <3>3, <3>4 DEF Standing, Keeps
    <2>4. CASE at'[t] # at[t] /\ at'[t] # "waiting"
      <3>1. /\ ~Pending(t) /\ ~Pending(t)' /\ instance'[t] = instance[t]
            /\ at[t] \notin {"unborn", "killed", "waiting", "failing", "exiting", "gone"}
            /\ at'[t] # "ending" /\ (at[t] = "ending" <=> at'[t] = "gone")
        BY <2>4 DEF Quiet
      <3>2. Standing(t, i)
        BY <1>1, <3>1 DEF StandingInv
      <3>3. (Alive(t)' => Alive(t)) /\ Started(t)
        BY <3>1 DEF Alive, Started
      <3>4. QED
        BY <2>1, <2>4, <3>1, <3>2, <3>3 DEF Standing, Keeps
    <2>5. QED
      BY <2>2, <2>3, <2>4
  <1>2. QED
    BY <1>1 DEF StandingInv

\* Every step keeps what the threads have told of themselves.
LEMMA StandingKept ==
  ASSUME Typed, SlotsInv, NamesInv, EventsInv, CallInv, blocks \subseteq heap, StandingInv,
         NEW t \in Threads, Step(t)
  PROVE  StandingInv'
  BY StepKinds, StandingReserved, StandingCommitted, StandingExit, StandingBegun, StandingQuiet

------------------------------------------------------------------------------
(* What a call has told of its thread. *)

\* A call that creates, joins or detaches nobody has told nothing.
LEMMA SubjectIdle ==
  ASSUME NEW x, NEW i, ~Creating(x)', ~Serving(x)'
  PROVE  Subject(x, i)'
  BY DEF Subject, Creating, Serving

\* The call of a thread that does not move.
LEMMA SubjectSame ==
  ASSUME NEW v, NEW i, at'[v] = at[v], call'[v] = call[v], Subject(v, i),
         Creating(v) => Keeps("create", i) /\ Keeps("detach", i)
  PROVE  Subject(v, i)'
  <1>1. CASE Creating(v)
    BY <1>1 DEF Subject, Keeps, Pending, Serving
  <1>2. CASE ~Creating(v)
    BY <1>2 DEF Subject, Pending, Serving, Creating
  <1>3. QED
    BY <1>1, <1>2

\* One thread moves on with its call; of the subjects of the others nothing is told.
LEMMA SubjectMove ==
  ASSUME CallInv, SubjectInv, NEW x \in Threads,
         \A v \in Threads \ {x} : at'[v] = at[v] /\ call'[v] = call[v],
         \A w \in Threads : instance[w] # 0 => instance'[w] = instance[w],
         \A v \in Threads \ {x}, i \in Nat :
           Creating(v) /\ instance[call[v].subject] = i => Keeps("create", i) /\ Keeps("detach", i),
         \A i \in Nat : call'[x].subject \in Threads /\ instance'[call'[x].subject] = i
           => Subject(x, i)'
  PROVE  SubjectInv'
  <1>1. ASSUME NEW v \in Threads, NEW i \in Nat,
               call'[v].subject \in Threads, instance'[call'[v].subject] = i
        PROVE  Subject(v, i)'
    <2>1. CASE v = x
      BY <1>1, <2>1
    <2>2. CASE v # x
      <3>1. at'[v] = at[v] /\ call'[v] = call[v]
        BY <2>2
      <3>2. call[v].subject # NULL
        BY <1>1, <3>1, NullIsNobody
      <3>3. instance[call[v].subject] = i
        BY <1>1, <3>1, <3>2 DEF CallInv
      <3>4. Subject(v, i)
        BY <1>1, <3>1, <3>3 DEF SubjectInv
      <3>5. QED
        BY <2>2, <3>1, <3>3, <3>4, SubjectSame
    <2>3. QED
      BY <2>1, <2>2
  <1>2. QED
    BY <1>1 DEF SubjectInv

\* The steps that begin no event.
LEMMA SubjectKeeps ==
  ASSUME Typed, SlotsInv, NamesInv, EventsInv, CallInv, SubjectInv, NEW x \in Threads,
         Reserve(x) \/ Commit(x) \/ Flag(x) \/ Quiet,
         \A v \in Threads \ {x} : at'[v] = at[v] /\ call'[v] = call[v],
         \A i \in Nat : call'[x].subject \in Threads /\ instance'[call'[x].subject] = i
           => Subject(x, i)'
  PROVE  SubjectInv'
  <1>1. \A i : Keeps("create", i) /\ Keeps("detach", i)
    BY KeepsAll
  <1>2. \A w \in Threads : instance[w] # 0 => instance'[w] = instance[w]
    <2>1. CASE Quiet
      BY <2>1 DEF Quiet, NamesInv
    <2>2. CASE Reserve(x) \/ Commit(x) \/ Flag(x)
      BY <2>2, ReserveStep, CommitStep, FlagStep DEF threadVars
    <2>3. QED
      BY <2>1, <2>2
  <1>3. QED
    BY <1>1, <1>2, SubjectMove

\* The steps that begin an event.
LEMMA SubjectBegins ==
  ASSUME CallInv, SubjectInv, NEW x \in Threads, Beginning(x),
         call'[x].event.type \in {"create", "detach"} =>
           \A v \in Threads \ {x} : Creating(v) => instance[call[v].subject] # call'[x].event.result,
         \A i \in Nat : call'[x].subject \in Threads /\ instance'[call'[x].subject] = i
           => Subject(x, i)'
  PROVE  SubjectInv'
  <1>1. instance' = instance /\ \A v \in Threads \ {x} : at'[v] = at[v] /\ call'[v] = call[v]
    BY BeginningFile
  <1>2. \A type, i : ~(call'[x].event.type = type /\ call'[x].event.result = i) => Keeps(type, i)
    BY KeepsOthers
  <1>3. \A v \in Threads \ {x}, i \in Nat :
          Creating(v) /\ instance[call[v].subject] = i => Keeps("create", i) /\ Keeps("detach", i)
    BY <1>2
  <1>4. QED
    BY <1>1, <1>3, SubjectMove

\* The log and the exit.
LEMMA SubjectLog ==
  ASSUME Typed, SlotsInv, NamesInv, EventsInv, CallInv, SubjectInv, NEW x \in Threads,
         Reserve(x) \/ Commit(x) \/ Flag(x) \/ ExitGroup(x)
  PROVE  SubjectInv'
  <1>1. CASE Reserve(x)
    <2>1. /\ Others(x) /\ instance' = instance
          /\ at[x] = "reserving" /\ at'[x] \in {"committing", "failing"}
          /\ call'[x].event = call[x].event /\ call'[x].then = call[x].then
          /\ call'[x].subject = call[x].subject
      BY <1>1, ReserveStep DEF SameTale, threadVars
    <2>2. ASSUME NEW i \in Nat, call'[x].subject \in Threads, instance'[call'[x].subject] = i
          PROVE  Subject(x, i)'
      <3>1. Subject(x, i)
        BY <2>1, <2>2 DEF SubjectInv
      <3>2. Keeps("create", i) /\ Keeps("detach", i)
        BY <1>1, KeepsAll
      <3>3. QED
        BY <2>1, <3>1, <3>2 DEF Subject, Serving, Pending, Keeps
    <2>3. QED
      BY <1>1, <2>1, <2>2, SubjectKeeps DEF Others
  <1>2. CASE Commit(x)
    <2>1. /\ Others(x) /\ instance' = instance /\ call' = call
          /\ at[x] = "committing" /\ at'[x] = call[x].then
      BY <1>2, CommitStep DEF threadVars
    <2>2. <<call[x].event.type, call[x].then>> \in Continuations
      BY <2>1 DEF EventsInv, Pending
    <2>3. ASSUME NEW i \in Nat, call'[x].subject \in Threads, instance'[call'[x].subject] = i
          PROVE  Subject(x, i)'
      <3>1. Subject(x, i)
        BY <2>1, <2>3 DEF SubjectInv
      <3>2. Keeps("create", i) /\ Keeps("detach", i)
        BY <1>2, KeepsAll
      <3>3. CASE call[x].then = "created"
        <4>1. call[x].event.type = "create" /\ call[x].event.result = i
          BY <2>1, <2>2, <3>1, <3>3 DEF Continuations, Subject, Pending
        <4> DEFINE k == call[x].slot
        <4>2. Told("create", i)' = Told("create", i) \cup
                { n \in {k} : call[x].event.type = "create" /\ call[x].event.result = i }
          BY <1>2, ToldGrows
        <4>3. { n \in {k} : call[x].event.type = "create" /\ call[x].event.result = i } = {k}
          BY <4>1
        <4>4. Told("create", i)' # {}
          BY <4>2, <4>3
        <4>5. NotTold("detach", i)
          BY <2>1, <3>1, <3>3 DEF Subject, Pending
        <4>6. QED
          BY <2>1, <3>2, <3>3, <4>4, <4>5 DEF Subject, Serving, Pending, Keeps
      <3>4. CASE call[x].then = "dismissing"
        <4>1. Told("create", i) # {}
          BY <2>1, <3>1, <3>4 DEF Subject, Pending
        <4>2. QED
          BY <2>1, <3>2, <3>4, <4>1 DEF Subject, Serving, Pending, Keeps
      <3>5. CASE call[x].then \notin {"created", "dismissing"}
        <4>1. ~Creating(x)' /\ ~Serving(x)'
          BY <2>1, <2>2, <3>5 DEF Creating, Serving, Pending, Continuations
        <4>2. QED
          BY <4>1, SubjectIdle
      <3>6. QED
        BY <3>3, <3>4, <3>5
    <2>4. QED
      BY <1>2, <2>1, <2>3, SubjectKeeps DEF Others
  <1>3. CASE Flag(x)
    <2>1. Others(x) /\ at'[x] = "exiting"
      BY <1>3, FlagStep
    <2>2. ~Creating(x)' /\ ~Serving(x)'
      BY <2>1 DEF Creating, Serving, Pending
    <2>3. QED
      BY <1>3, <2>1, <2>2, SubjectIdle, SubjectKeeps DEF Others
  <1>4. CASE ExitGroup(x)
    <2>1. \A v \in Threads : at'[v] = "killed"
      BY <1>4, ExitStep
    <2>2. \A v \in Threads : ~Creating(v)' /\ ~Serving(v)'
      BY <2>1 DEF Creating, Serving, Pending
    <2>3. QED
      BY <2>2, SubjectIdle DEF SubjectInv
  <1>5. QED
    BY <1>1, <1>2, <1>3, <1>4

\* Blocks, and the threads that start and end.
LEMMA SubjectElsewhere ==
  ASSUME Typed, SlotsInv, NamesInv, EventsInv, CallInv, SubjectInv, blocks \subseteq heap,
         NEW x \in Threads,
         \/ Malloc(x) \/ Realloc(x) \/ Return(x) \/ Free(x) \/ RealFree(x) \/ CreateFails(x)
         \/ Begin(x) \/ Finish(x) \/ End(x)
  PROVE  SubjectInv'
  <1>1. CASE Malloc(x) \/ Realloc(x) \/ Free(x) \/ Begin(x) \/ Finish(x)
    <2>1. Beginning(x)
      BY <1>1, MallocBegins, ReallocBegins, FreeBegins, BeginBegins, FinishBegins
    <2>2. \E e \in Events, then \in {"returning", "freeing", "idle", "ending"} :
            Begins(x, e, then) /\ e.type \notin {"create", "detach"}
      BY <1>1, MallocStep, ReallocStep, FreeStep, BeginStep, FinishStep
    <2>3. /\ call'[x].event.type \notin {"create", "detach"}
          /\ ~Creating(x)' /\ ~Serving(x)'
      BY <2>2 DEF Begins, Creating, Serving, Pending
    <2>4. QED
      BY <2>1, <2>3, SubjectIdle, SubjectBegins
  <1>2. CASE Return(x) \/ RealFree(x) \/ End(x)
    <2>1. Quiet
      BY <1>2, ReturnKind, RealFreeKind, EndKind
    <2>2. Others(x) /\ at'[x] \in {"idle", "gone"}
      BY <1>2, ReturnStep, RealFreeStep, EndStep
    <2>3. ~Creating(x)' /\ ~Serving(x)'
      BY <2>2 DEF Creating, Serving, Pending
    <2>4. QED
      BY <2>1, <2>2, <2>3, SubjectIdle, SubjectKeeps DEF Others
  <1>3. CASE CreateFails(x)
    <2>1. Quiet
      BY <1>3, CreateFailsKind
    <2>2. at' = at /\ call' = call /\ instance' = instance
      BY <1>3, CreateFailsStep DEF threadVars
    <2>3. ASSUME NEW i \in Nat, call'[x].subject \in Threads, instance'[call'[x].subject] = i
          PROVE  Subject(x, i)'
      <3>1. Subject(x, i)
        BY <2>2, <2>3 DEF SubjectInv
      <3>2. Keeps("create", i) /\ Keeps("detach", i)
        BY <2>1, KeepsAll
      <3>3. QED
        BY <2>2, <3>1, <3>2, SubjectSame
    <2>4. QED
      BY <2>1, <2>2, <2>3, SubjectKeeps
  <1>4. QED
    BY <1>1, <1>2, <1>3

\* The new thread of a call is no other call's.
LEMMA OwnSubject ==
  ASSUME Typed, NamesInv, CallInv, NEW x \in Threads, Creating(x) \/ Serving(x)
  PROVE  \A v \in Threads \ {x} : Creating(v) => instance[call[v].subject] # instance[call[x].subject]
  <1> SUFFICES ASSUME NEW v \in Threads \ {x}, Creating(v),
                      instance[call[v].subject] = instance[call[x].subject]
               PROVE  FALSE
    OBVIOUS
  <1>1. /\ call[v].subject \in Threads /\ instance[call[v].subject] # 0
        /\ ~claimed[call[v].subject]
    BY CreatingSubject
  <1>2. /\ call[x].subject \in Threads
        /\ Creating(x) \/ claimed[call[x].subject]
    BY CreatingSubject, ClaimedSubject DEF Serving
  <1>3. call[v].subject = call[x].subject
    BY <1>1, <1>2, OwnNumber
  <1>4. QED
    BY <1>1, <1>2, <1>3 DEF CallInv

\* pthread_create tells of the new thread when it is in the map, and lets it go
\* when that is told.
LEMMA SubjectCreates ==
  ASSUME Typed, SlotsInv, NamesInv, EventsInv, CallInv, SubjectInv, NEW x \in Threads,
         (\E u \in Threads : Create(x, u)) \/ Register(x) \/ Created(x) \/ Release(x)
  PROVE  SubjectInv'
  <1>1. CASE \E u \in Threads : Create(x, u)
    <2>1. PICK u \in Threads : Create(x, u)
      BY <1>1
    <2>2. /\ Quiet /\ at'[x] = "registering" /\ at'[u] = "waiting" /\ at[u] = "unborn"
          /\ call'[x].subject = u /\ instance'[u] = next_instance
          /\ \A v \in Threads \ {x} : call'[v] = call[v]
          /\ \A v \in Threads \ {x, u} : at'[v] = at[v]
      BY <2>1, CreateStep, CreateKind
    <2>3. ASSUME NEW type \in {"create", "detach"} PROVE NotTold(type, next_instance)
      <3>1. next_instance \in Nat /\ next_instance \notin 1 .. next_instance - 1
        BY DEF Typed
      <3>2. QED
        BY <3>1, NobodyTold DEF ThreadTypes
    <2>4. \A i : Keeps("create", i) /\ Keeps("detach", i)
      BY <2>2, KeepsAll
    <2>5. ASSUME NEW i \in Nat, instance'[call'[x].subject] = i PROVE Subject(x, i)'
      <3>1. i = next_instance
        BY <2>2, <2>5
      <3>2. NotTold("create", i) /\ NotTold("detach", i)
        BY <2>3, <3>1
      <3>3. NotTold("create", i)' /\ NotTold("detach", i)'
        BY <2>4, <3>2 DEF Keeps
      <3>4. QED
        BY <2>2, <3>3 DEF Subject, Serving, Pending
    <2>6. ASSUME NEW v \in Threads, NEW i \in Nat,
                 call'[v].subject \in Threads, instance'[call'[v].subject] = i
          PROVE  Subject(v, i)'
      <3>1. CASE v = x
        BY <2>5, <2>6, <3>1
      <3>2. CASE v = u /\ v # x
        <4>1. ~Creating(v)' /\ ~Serving(v)'
          BY <2>2, <3>2 DEF Creating, Serving, Pending
        <4>2. QED
          BY <4>1, SubjectIdle
      <3>3. CASE v # u /\ v # x
        <4>1. at'[v] = at[v] /\ call'[v] = call[v]
          BY <2>2, <3>3
        <4>2. call[v].subject \in Threads /\ call[v].subject # NULL
          BY <2>6, <4>1, NullIsNobody
        <4>3. instance[call[v].subject] # 0
          BY <4>2 DEF CallInv
        <4>4. instance'[call[v].subject] = instance[call[v].subject]
          BY <2>2, <4>2, <4>3 DEF Quiet, NamesInv
        <4>5. Subject(v, i)
          BY <2>6, <4>1, <4>2, <4>4 DEF SubjectInv
        <4>6. QED
          BY <2>4, <4>1, <4>5, SubjectSame
      <3>4. QED
        BY <3>1, <3>2, <3>3
    <2>7. QED
      BY <2>6 DEF SubjectInv
  <1>2. CASE Register(x)
    <2>1. /\ Others(x) /\ at[x] = "registering" /\ instance' = instance
          /\ \/ \E e \in Events : /\ Begins(x, e, "created") /\ e.type = "create"
                                  /\ e.result = instance[call[x].subject]
             \/ at'[x] = "failing"
      BY <1>2, RegisterStep DEF threadVars
    <2>2. Creating(x)
      BY <2>1 DEF Creating
    <2>3. CASE at'[x] = "failing"
      <3>1. ~Creating(x)' /\ ~Serving(x)'
        BY <2>3 DEF Creating, Serving, Pending
      <3>2. Quiet
        BY <1>2, <2>3, RegisterKind, BeginningFile
      <3>3. QED
        BY <2>1, <3>1, <3>2, SubjectIdle, SubjectKeeps DEF Others
    <2>4. CASE \E e \in Events : /\ Begins(x, e, "created") /\ e.type = "create"
                                 /\ e.result = instance[call[x].subject]
      <3>1. /\ at'[x] = "reserving" /\ call'[x].then = "created"
            /\ call'[x].event.type = "create" /\ call'[x].subject = call[x].subject
            /\ call'[x].event.result = instance[call[x].subject]
        BY <2>4 DEF Begins
      <3>2. Beginning(x)
        <4>1. ~Quiet
          BY <2>1, <3>1 DEF Quiet, Pending
        <4>2. QED
          BY <1>2, <4>1, RegisterKind
      <3>3. ASSUME NEW i \in Nat, call'[x].subject \in Threads, instance'[call'[x].subject] = i
            PROVE  Subject(x, i)'
        <4>1. Subject(x, i) /\ call'[x].event.result = i
          BY <2>1, <3>1, <3>3 DEF SubjectInv
        <4>2. Keeps("detach", i)
          BY <3>1, <3>2, KeepsOthers
        <4>3. NotTold("detach", i)'
          BY <2>1, <4>1, <4>2 DEF Subject, Keeps
        <4>4. QED
          BY <3>1, <4>1, <4>3 DEF Subject, Serving, Pending
      <3>4. QED
        BY <2>2, <3>1, <3>2, <3>3, OwnSubject, SubjectBegins
    <2>5. QED
      BY <2>1, <2>3, <2>4
  <1>3. CASE Created(x)
    <2>1. /\ Others(x) /\ at[x] = "created" /\ instance' = instance
          /\ \/ \E e \in Events : /\ Begins(x, e, "dismissing") /\ e.type = "detach"
                                  /\ e.result = instance[call[x].subject]
             \/ at'[x] = "releasing" /\ call' = call
      BY <1>3, CreatedStep DEF threadVars
    <2>2. Creating(x)
      BY <2>1 DEF Creating
    <2>3. CASE at'[x] = "releasing" /\ call' = call
      <3>1. Quiet
        BY <1>3, <2>3, CreatedKind, BeginningFile
      <3>2. ASSUME NEW i \in Nat, call'[x].subject \in Threads, instance'[call'[x].subject] = i
            PROVE  Subject(x, i)'
        <4>1. Subject(x, i)
          BY <2>1, <2>3, <3>2 DEF SubjectInv
        <4>2. Keeps("create", i)
          BY <3>1, KeepsAll
        <4>3. Told("create", i)' # {}
          BY <2>1, <4>1, <4>2 DEF Subject, Keeps
        <4>4. QED
          BY <2>3, <4>3 DEF Subject, Serving, Pending
      <3>3. QED
        BY <2>1, <3>1, <3>2, SubjectKeeps DEF Others
    <2>4. CASE \E e \in Events : /\ Begins(x, e, "dismissing") /\ e.type = "detach"
                                 /\ e.result = instance[call[x].subject]
      <3>1. /\ at'[x] = "reserving" /\ call'[x].then = "dismissing"
            /\ call'[x].event.type = "detach" /\ call'[x].subject = call[x].subject
            /\ call'[x].event.result = instance[call[x].subject]
        BY <2>4 DEF Begins
      <3>2. Beginning(x)
        <4>1. ~Quiet
          BY <2>1, <3>1 DEF Quiet, Pending
        <4>2. QED
          BY <1>3, <4>1, CreatedKind
      <3>3. ASSUME NEW i \in Nat, call'[x].subject \in Threads, instance'[call'[x].subject] = i
            PROVE  Subject(x, i)'
        <4>1. Subject(x, i)
          BY <2>1, <3>1, <3>3 DEF SubjectInv
        <4>2. Told("create", i)' = Told("create", i)
          BY <3>2, KeepsOthers
        <4>3. Told("create", i)' # {}
          BY <2>1, <4>1, <4>2 DEF Subject
        <4>4. QED
          BY <3>1, <4>3 DEF Subject, Serving, Pending
      <3>4. QED
        BY <2>2, <3>1, <3>2, <3>3, OwnSubject, SubjectBegins
    <2>5. QED
      BY <2>1, <2>3, <2>4
  <1>4. CASE Release(x)
    <2>1. Others(x) /\ at'[x] = "idle"
      BY <1>4, ReleaseStep
    <2>2. ~Creating(x)' /\ ~Serving(x)'
      BY <2>1 DEF Creating, Serving, Pending
    <2>3. QED
      BY <1>4, <2>1, <2>2, ReleaseKind, SubjectIdle, SubjectKeeps DEF Others
  <1>5. QED
    BY <1>1, <1>2, <1>3, <1>4

\* A call that found a number found that of its thread.
LEMMA FoundItsNumber ==
  ASSUME Typed, CallInv, SubjectInv, NEW x \in Threads, Serving(x), call[x].found # 0
  PROVE  call[x].found = instance[call[x].subject]
  <1>1. call[x].subject \in Threads
    BY ClaimedSubject DEF Serving
  <1>2. PICK i \in Nat : i = instance[call[x].subject]
    BY <1>1 DEF Typed
  <1>3. Subject(x, i)
    BY <1>1, <1>2 DEF SubjectInv
  <1>4. QED
    BY <1>2, <1>3 DEF Subject

\* pthread_join and pthread_detach find the number of their thread, or none.
LEMMA SubjectServes ==
  ASSUME Typed, SlotsInv, NamesInv, EventsInv, CallInv, RightEntry, SubjectInv,
         NEW x \in Threads, Join(x) \/ Detach(x) \/ RealJoin(x) \/ RealDetach(x) \/ Forget(x)
  PROVE  SubjectInv'
  <1>1. CASE Join(x) \/ Detach(x)
    <2>1. PICK u \in Threads, label \in {"joining", "detaching"} : LookUp(x, u, label)
      BY <1>1 DEF Join, Detach
    <2>2. /\ Quiet /\ at'[x] = label /\ instance' = instance
          /\ call'[x].subject = u /\ call'[x].found = Get(handle[u])
          /\ \A v \in Threads \ {x} : at'[v] = at[v] /\ call'[v] = call[v]
      BY <2>1, LookUpStep, LookUpKind
    <2>3. Get(handle[u]) \in {0, instance[u]}
      BY <2>1, LookUpStep, GetsItsNumber
    <2>4. ~Pending(x)' /\ at'[x] \notin {"registering", "created", "dismissing", "releasing"}
      BY <2>2 DEF Pending
    <2>5. ASSUME NEW i \in Nat, instance'[call'[x].subject] = i PROVE Subject(x, i)'
      <3>1. call'[x].found \in {0, i}
        BY <2>2, <2>3, <2>5
      <3>2. QED
        BY <2>4, <3>1 DEF Subject
    <2>6. QED
      BY <2>2, <2>5, SubjectKeeps
  <1>2. CASE RealJoin(x) \/ RealDetach(x)
    <2>1. /\ Others(x) /\ at[x] \in {"joining", "detaching"} /\ instance' = instance
          /\ \/ \E e \in Events : /\ Begins(x, e, "forgetting") /\ e.result = call[x].found
                                  /\ e.result \in 1 .. next_instance - 1
             \/ at'[x] = "idle"
      BY <1>2, RealJoinStep, RealDetachStep
    <2>2. Beginning(x) \/ Quiet
      BY <1>2, RealJoinKind, RealDetachKind
    <2>3. ~Creating(x)' /\ ~Serving(x)'
      BY <2>1 DEF Begins, Creating, Serving, Pending
    <2>4. CASE Quiet
      BY <2>1, <2>3, <2>4, SubjectIdle, SubjectKeeps DEF Others
    <2>5. CASE Beginning(x)
      <3>1. at'[x] = "reserving"
        BY <2>5, BeginningFile
      <3>2. call'[x].event.result = call[x].found /\ call[x].found # 0
        BY <2>1, <3>1 DEF Begins
      <3>3. Serving(x)
        BY <2>1 DEF Serving
      <3>4. call[x].found = instance[call[x].subject]
        BY <3>2, <3>3, FoundItsNumber
      <3>5. QED
        BY <2>3, <2>5, <3>2, <3>3, <3>4, OwnSubject, SubjectIdle, SubjectBegins
    <2>6. QED
      BY <2>2, <2>4, <2>5
  <1>3. CASE Forget(x)
    <2>1. /\ Others(x) /\ instance' = instance
          /\ \/ at[x] = "dismissing" /\ at'[x] = "releasing" /\ call' = call
             \/ at'[x] = "idle"
      BY <1>3, ForgetStep DEF threadVars
    <2>2. Quiet
      BY <1>3, ForgetKind
    <2>3. ASSUME NEW i \in Nat, call'[x].subject \in Threads, instance'[call'[x].subject] = i
          PROVE  Subject(x, i)'
      <3>1. CASE at'[x] = "idle"
        <4>1. ~Creating(x)' /\ ~Serving(x)'
          BY <3>1 DEF Creating, Serving, Pending
        <4>2. QED
          BY <4>1, SubjectIdle
      <3>2. CASE at[x] = "dismissing" /\ at'[x] = "releasing" /\ call' = call
        <4>1. Subject(x, i)
          BY <2>1, <2>3, <3>2 DEF SubjectInv
        <4>2. Keeps("create", i)
          BY <2>2, KeepsAll
        <4>3. Told("create", i)' # {}
          BY <3>2, <4>1, <4>2 DEF Subject, Keeps
        <4>4. QED
          BY <3>2, <4>3 DEF Subject, Serving, Pending
      <3>3. QED
        BY <2>1, <3>1, <3>2
    <2>4. QED
      BY <2>1, <2>2, <2>3, SubjectKeeps DEF Others
  <1>4. QED
    BY <1>1, <1>2, <1>3

\* Every step keeps what the calls have told.
LEMMA SubjectKept ==
  ASSUME Typed, SlotsInv, NamesInv, EventsInv, CallInv, blocks \subseteq heap, RightEntry,
         SubjectInv, NEW t \in Threads, Step(t)
  PROVE  SubjectInv'
  BY SubjectLog, SubjectElsewhere, SubjectCreates, SubjectServes DEF Step

------------------------------------------------------------------------------
(* What was told of a thread, and its handle. *)

\* A thread whose handle is kept or let go by a call that claimed it.
LEMMA HandledSame ==
  ASSUME NEW t, NEW i, Handled(t, i), Keeps("create", i), Keeps("detach", i), Keeps("join", i),
         parent_ready'[t] => parent_ready[t], detached'[t] = detached[t],
         claimed[t] => claimed'[t], handle'[t] \in {NULL, handle[t]}
  PROVE  Handled(t, i)'
  BY DEF Handled, Keeps

\* One thread is told of, and nothing that counts is told of the others.
LEMMA HandledMove ==
  ASSUME HandledInv, NEW s \in Threads,
         \A t \in Threads \ {s} :
           /\ instance'[t] = instance[t] /\ parent_ready'[t] = parent_ready[t]
           /\ detached'[t] = detached[t] /\ claimed'[t] = claimed[t] /\ handle'[t] = handle[t],
         \A t \in Threads \ {s}, i \in Nat : instance[t] = i /\ i # 0 =>
           Keeps("create", i) /\ Keeps("detach", i) /\ Keeps("join", i),
         \A i \in Nat : instance'[s] = i /\ i # 0 => Handled(s, i)'
  PROVE  HandledInv'
  <1>1. ASSUME NEW t \in Threads, NEW i \in Nat, instance'[t] = i, i # 0 PROVE Handled(t, i)'
    <2>1. CASE t = s
      BY <1>1, <2>1
    <2>2. CASE t # s
      <3>1. instance[t] = i /\ Handled(t, i)
        BY <1>1, <2>2 DEF HandledInv
      <3>2. Keeps("create", i) /\ Keeps("detach", i) /\ Keeps("join", i)
        BY <1>1, <2>2, <3>1
      <3>3. QED
        BY <2>2, <3>1, <3>2, HandledSame
    <2>3. QED
      BY <2>1, <2>2
  <1>2. QED
    BY <1>1 DEF HandledInv

\* Steps that begin no event, let no thread go and detach none.
LEMMA HandledKeeps ==
  ASSUME Typed, SlotsInv, EventsInv, HandledInv, NEW x \in Threads,
         Reserve(x) \/ Commit(x) \/ Flag(x) \/ ExitGroup(x) \/ Quiet,
         instance' = instance, detached' = detached, parent_ready' = parent_ready,
         \A t \in Threads : (claimed[t] => claimed'[t]) /\ handle'[t] \in {NULL, handle[t]}
  PROVE  HandledInv'
  <1>1. \A i : Keeps("create", i) /\ Keeps("detach", i) /\ Keeps("join", i)
    BY KeepsAll
  <1>2. ASSUME NEW t \in Threads, NEW i \in Nat, instance'[t] = i, i # 0 PROVE Handled(t, i)'
    <2>1. Handled(t, i)
      BY <1>2 DEF HandledInv
    <2>2. QED
      BY <1>1, <2>1, HandledSame
  <1>3. QED
    BY <1>2 DEF HandledInv

\* Steps that begin an event that says nothing of a handle.
LEMMA HandledBegins ==
  ASSUME HandledInv, NEW x \in Threads, Beginning(x), threadVars' = threadVars,
         call'[x].event.type \notin {"create", "detach", "join"}
  PROVE  HandledInv'
  <1>1. \A i : Keeps("create", i) /\ Keeps("detach", i) /\ Keeps("join", i)
    BY KeepsOthers
  <1>2. ASSUME NEW t \in Threads, NEW i \in Nat, instance'[t] = i, i # 0 PROVE Handled(t, i)'
    <2>1. Handled(t, i)
      BY <1>2 DEF HandledInv, threadVars
    <2>2. QED
      BY <1>1, <2>1, HandledSame DEF threadVars
  <1>3. QED
    BY <1>2 DEF HandledInv

\* The log, the exit and the steps that leave the handles of the others alone.
LEMMA HandledElsewhere ==
  ASSUME Typed, SlotsInv, NamesInv, EventsInv, CallInv, HandledInv, blocks \subseteq heap,
         NEW x \in Threads,
         \/ Reserve(x) \/ Commit(x) \/ Flag(x) \/ ExitGroup(x)
         \/ Malloc(x) \/ Realloc(x) \/ Return(x) \/ Free(x) \/ RealFree(x) \/ CreateFails(x)
         \/ Begin(x) \/ Finish(x) \/ End(x) \/ Join(x) \/ Detach(x) \/ Forget(x)
  PROVE  HandledInv'
  <1>1. CASE Reserve(x) \/ Commit(x) \/ Flag(x) \/ ExitGroup(x)
    <2>1. UNCHANGED threadVars
      BY <1>1, ReserveStep, CommitStep, FlagStep, ExitStep
    <2>2. QED
      BY <1>1, <2>1, HandledKeeps DEF threadVars
  <1>2. CASE Malloc(x) \/ Realloc(x) \/ Free(x) \/ Begin(x) \/ Finish(x)
    <2>1. Beginning(x)
      BY <1>2, MallocBegins, ReallocBegins, FreeBegins, BeginBegins, FinishBegins
    <2>2. /\ UNCHANGED threadVars
          /\ \E e \in Events, then \in Labels :
               Begins(x, e, then) /\ e.type \notin {"create", "detach", "join"}
      BY <1>2, MallocStep, ReallocStep, FreeStep, BeginStep, FinishStep DEF Labels
    <2>3. call'[x].event.type \notin {"create", "detach", "join"}
      BY <2>2 DEF Begins
    <2>4. QED
      BY <2>1, <2>2, <2>3, HandledBegins
  <1>3. CASE Return(x) \/ RealFree(x) \/ CreateFails(x) \/ Forget(x)
    <2>1. Quiet
      BY <1>3, ReturnKind, RealFreeKind, CreateFailsKind, ForgetKind
    <2>2. UNCHANGED threadVars
      BY <1>3, ReturnStep, RealFreeStep, CreateFailsStep, ForgetStep
    <2>3. QED
      BY <2>1, <2>2, HandledKeeps DEF threadVars
  <1>4. CASE End(x)
    <2>1. /\ instance' = instance /\ detached' = detached /\ parent_ready' = parent_ready
          /\ claimed' = claimed /\ \A t \in Threads : handle'[t] \in {NULL, handle[t]}
      BY <1>4, EndStep
    <2>2. QED
      BY <1>4, <2>1, EndKind, HandledKeeps
  <1>5. CASE Join(x) \/ Detach(x)
    <2>1. PICK u \in Threads, label \in {"joining", "detaching"} : LookUp(x, u, label)
      BY <1>5 DEF Join, Detach
    <2>2. /\ Quiet
          /\ instance' = instance /\ detached' = detached /\ parent_ready' = parent_ready
          /\ handle' = handle /\ claimed'[u]
          /\ \A v \in Threads \ {u} : claimed'[v] = claimed[v]
      BY <2>1, LookUpStep, LookUpKind
    <2>3. QED
      BY <2>2, HandledKeeps
  <1>6. QED
    BY <1>1, <1>2, <1>3, <1>4, <1>5

\* pthread_create: the thread is new, then told of, dismissed if it is detached,
\* and let go.
LEMMA HandledCreates ==
  ASSUME Typed, SlotsInv, NamesInv, EventsInv, CallInv, HandledInv, SubjectInv,
         NEW x \in Threads,
         (\E u \in Threads : Create(x, u)) \/ Register(x) \/ Created(x) \/ Release(x)
  PROVE  HandledInv'
  <1>1. CASE \E u \in Threads : Create(x, u)
    <2>1. PICK u \in Threads : Create(x, u)
      BY <1>1
    <2>2. /\ Quiet /\ at[u] = "unborn" /\ instance'[u] = next_instance
          /\ claimed' = claimed /\ parent_ready' = parent_ready
          /\ \A v \in Threads \ {u} :
               /\ instance'[v] = instance[v] /\ handle'[v] = handle[v]
               /\ detached'[v] = detached[v]
      BY <2>1, CreateStep, CreateKind
    <2>3. \A i : Keeps("create", i) /\ Keeps("detach", i) /\ Keeps("join", i)
      BY <2>2, KeepsAll
    <2>4. ~parent_ready[u]
      BY <2>2 DEF NamesInv
    <2>5. ASSUME NEW i \in Nat, instance'[u] = i PROVE Handled(u, i)'
      <3>1. i \notin 1 .. next_instance - 1
        BY <2>2, <2>5 DEF Typed
      <3>2. NotTold("detach", i) /\ NotTold("join", i)
        BY <3>1, NobodyTold DEF ThreadTypes
      <3>3. NotTold("detach", i)' /\ NotTold("join", i)'
        BY <2>3, <3>2 DEF Keeps
      <3>4. QED
        BY <2>2, <2>4, <3>3 DEF Handled
    <2>6. QED
      BY <2>2, <2>3, <2>5, HandledMove
  <1>2. CASE Register(x)
    <2>1. UNCHANGED threadVars
      BY <1>2, RegisterStep
    <2>2. CASE Quiet
      BY <2>1, <2>2, HandledKeeps DEF threadVars
    <2>3. CASE Beginning(x)
      <3>1. call'[x].event.type = "create"
        <4>1. at'[x] = "reserving"
          BY <2>3, BeginningFile
        <4>2. QED
          BY <1>2, <4>1, RegisterStep DEF Begins
      <3>2. \A i : /\ Told("create", i)' = Told("create", i)
                   /\ Keeps("detach", i) /\ Keeps("join", i)
        BY <2>3, <3>1, KeepsOthers
      <3>3. ASSUME NEW t \in Threads, NEW i \in Nat, instance'[t] = i, i # 0
            PROVE  Handled(t, i)'
        <4>1. Handled(t, i)
          BY <2>1, <3>3 DEF HandledInv, threadVars
        <4>2. QED
          BY <2>1, <3>2, <4>1 DEF Handled, Keeps, threadVars
      <3>4. QED
        BY <3>3 DEF HandledInv
    <2>4. QED
      BY <1>2, <2>2, <2>3, RegisterKind
  <1>3. CASE Created(x)
    <2> DEFINE s == call[x].subject
    <2>1. /\ Others(x) /\ at[x] = "created" /\ UNCHANGED threadVars
          /\ \/ /\ detached[s]
                /\ \E e \in Events : /\ Begins(x, e, "dismissing") /\ e.type = "detach"
                                     /\ e.result = instance[s]
             \/ at'[x] = "releasing"
      BY <1>3, CreatedStep
    <2>2. CASE Quiet
      BY <2>1, <2>2, HandledKeeps DEF threadVars
    <2>3. CASE Beginning(x)
      <3>1. at'[x] = "reserving"
        BY <2>3, BeginningFile
      <3>2. /\ detached[s] /\ call'[x].event.type = "detach"
            /\ call'[x].event.result = instance[s]
        BY <2>1, <3>1 DEF Begins
      <3>3. s \in Threads
        BY <2>1, CreatingSubject DEF Creating
      <3>4. \A i : /\ Told("create", i)' = Told("create", i) /\ Keeps("join", i)
                   /\ Keeps("create", i)
                   /\ i # instance[s] => Keeps("detach", i)
        BY <2>3, <3>2, KeepsOthers
      <3> HIDE DEF s
      <3>5. ASSUME NEW t \in Threads, NEW i \in Nat, instance'[t] = i, i # 0
            PROVE  Handled(t, i)'
        <4>1. Handled(t, i) /\ instance[t] = i
          BY <2>1, <3>5 DEF HandledInv, threadVars
        <4>2. CASE t = s
          BY <2>1, <3>2, <3>4, <4>1, <4>2 DEF Handled, Keeps, threadVars
        <4>3. CASE t # s
          <5>1. i # instance[s]
            BY <3>3, <3>5, <4>1, <4>3, OwnNumber
          <5>2. Keeps("detach", i) /\ Keeps("create", i) /\ Keeps("join", i)
            BY <3>4, <5>1
          <5>3. QED
            BY <2>1, <4>1, <5>2, HandledSame DEF threadVars
        <4>4. QED
          BY <4>2, <4>3
      <3>6. QED
        BY <3>5 DEF HandledInv
    <2>4. QED
      BY <1>3, <2>2, <2>3, CreatedKind
  <1>4. CASE Release(x)
    <2>1. /\ Others(x) /\ at[x] = "releasing" /\ call[x].subject \in Threads
          /\ instance' = instance /\ handle' = handle /\ detached' = detached /\ claimed' = claimed
          /\ \A u \in Threads \ {call[x].subject} : parent_ready'[u] = parent_ready[u]
      BY <1>4, ReleaseStep
    <2>2. PICK s \in Threads : s = call[x].subject
      BY <2>1
    <2>3. Quiet
      BY <1>4, ReleaseKind
    <2>4. \A i : Keeps("create", i) /\ Keeps("detach", i) /\ Keeps("join", i)
      BY <2>3, KeepsAll
    <2>5. ASSUME NEW i \in Nat, instance'[s] = i, i # 0 PROVE Handled(s, i)'
      <3>1. Handled(s, i) /\ Subject(x, i)
        BY <2>1, <2>2, <2>5 DEF HandledInv, SubjectInv
      <3>2. Told("create", i) # {}
        BY <2>1, <3>1 DEF Subject
      <3>3. QED
        BY <2>1, <2>4, <3>1, <3>2 DEF Handled, Keeps
    <2>6. QED
      BY <2>1, <2>2, <2>4, <2>5, HandledMove
  <1>5. QED
    BY <1>1, <1>2, <1>3, <1>4

\* pthread_join and pthread_detach: a thread that is joined has lost its handle
\* when its join is told, and one that is detached is so before that is told.
LEMMA HandledServes ==
  ASSUME Typed, SlotsInv, NamesInv, EventsInv, CallInv, HandledInv, SubjectInv,
         NEW x \in Threads, RealJoin(x) \/ RealDetach(x)
  PROVE  HandledInv'
  <1>1. Serving(x)
    BY RealJoinStep, RealDetachStep DEF Serving
  <1>2. PICK s \in Threads : /\ s = call[x].subject
                             /\ claimed[s] /\ ~detached[s] /\ handle[s] # NULL
    BY <1>1, ClaimedSubject DEF Serving
  <1>3. /\ Others(x) /\ UNCHANGED <<instance, claimed, parent_ready>>
        /\ \A u \in Threads \ {s} : detached'[u] = detached[u] /\ handle'[u] = handle[u]
        /\ \/ /\ handle'[s] = NULL /\ detached'[s] = detached[s]
              /\ \/ \E e \in Events : /\ Begins(x, e, "forgetting") /\ e.type = "join"
                                      /\ e.result = call[x].found
                                      /\ e.result \in 1 .. next_instance - 1
                 \/ at'[x] = "idle"
           \/ /\ detached'[s]
              /\ \/ \E e \in Events : /\ Begins(x, e, "forgetting") /\ e.type = "detach"
                                      /\ e.result = call[x].found
                                      /\ e.result \in 1 .. next_instance - 1
                 \/ at'[x] = "idle"
    <2>1. CASE RealJoin(x)
      BY <1>2, <2>1, RealJoinStep
    <2>2. CASE RealDetach(x)
      BY <1>2, <2>2, RealDetachStep
    <2>3. QED
      BY <2>1, <2>2
  <1>4. \A i : i # instance[s] => Keeps("create", i) /\ Keeps("detach", i) /\ Keeps("join", i)
    <2>1. CASE Quiet
      BY <2>1, KeepsAll
    <2>2. CASE Beginning(x)
      <3>1. at'[x] = "reserving"
        BY <2>2, BeginningFile
      <3>2. call'[x].event.result = call[x].found /\ call[x].found # 0
        BY <1>3, <3>1 DEF Begins
      <3>3. call'[x].event.result = instance[s]
        BY <1>1, <1>2, <3>2, FoundItsNumber
      <3>4. QED
        BY <2>2, <3>3, KeepsOthers
    <2>3. QED
      BY <2>1, <2>2, RealJoinKind, RealDetachKind
  <1>5. \A i : /\ Told("create", i) # {} => Told("create", i)' # {}
               /\ detached'[s] => Keeps("join", i)
               /\ ~detached'[s] => Keeps("detach", i)
    <2>1. CASE Quiet
      BY <2>1, KeepsAll DEF Keeps
    <2>2. CASE Beginning(x)
      <3>1. at'[x] = "reserving"
        BY <2>2, BeginningFile
      <3>2. \/ detached'[s] /\ call'[x].event.type = "detach"
            \/ ~detached'[s] /\ call'[x].event.type = "join"
        BY <1>2, <1>3, <3>1 DEF Begins
      <3>3. QED
        BY <2>2, <3>2, KeepsOthers
    <2>3. QED
      BY <2>1, <2>2, RealJoinKind, RealDetachKind
  <1>6. ASSUME NEW i \in Nat, instance'[s] = i, i # 0 PROVE Handled(s, i)'
    <2>1. Handled(s, i)
      BY <1>3, <1>6 DEF HandledInv
    <2>2. NotTold("join", i) /\ NotTold("detach", i)
      BY <1>2, <2>1 DEF Handled
    <2>3. parent_ready'[s] => Told("create", i)' # {}
      BY <1>3, <1>5, <2>1 DEF Handled
    <2>4. ~detached'[s] => NotTold("detach", i)'
      BY <1>5, <2>2 DEF Keeps
    <2>5. NotTold("join", i)' \/ (claimed'[s] /\ ~detached'[s] /\ handle'[s] = NULL)
      BY <1>2, <1>3, <1>5, <2>2 DEF Keeps
    <2>6. QED
      BY <2>3, <2>4, <2>5 DEF Handled
  <1>7. \A t \in Threads \ {s}, i \in Nat : instance[t] = i /\ i # 0 => i # instance[s]
    BY OwnNumber
  <1>8. QED
    BY <1>3, <1>4, <1>6, <1>7, HandledMove

\* Every step keeps what is told of a thread in step with its handle.
LEMMA HandledKept ==
  ASSUME Typed, SlotsInv, NamesInv, EventsInv, CallInv, blocks \subseteq heap,
         HandledInv, SubjectInv, NEW t \in Threads, Step(t)
  PROVE  HandledInv'
  BY HandledElsewhere, HandledCreates, HandledServes DEF Step

------------------------------------------------------------------------------
(* What is told comes once, and in order. *)

\* The events of each type that are new, and what they presuppose.
LEMMA FreshEvent ==
  ASSUME NEW e, NEW i, e.result = i,
         \/ e.type = "create" /\ NotTold("create", i)
         \/ e.type = "start" /\ NotTold("start", i) /\ Told("create", i) # {}
         \/ e.type = "end" /\ NotTold("end", i) /\ Told("start", i) # {}
         \/ e.type = "join" /\ NotTold("join", i) /\ Told("end", i) # {}
         \/ e.type = "detach" /\ NotTold("detach", i) /\ Told("create", i) # {}
  PROVE  Fresh(e)
  <1>1. NotTold(e.type, i)
    OBVIOUS
  <1>2. ASSUME NEW pair \in Presupposes, pair[1] = e.type PROVE Told(pair[2], i) # {}
    <2>1. \/ pair = <<"start", "create">> \/ pair = <<"end", "start">>
          \/ pair = <<"join", "end">> \/ pair = <<"detach", "create">>
      BY DEF Presupposes
    <2>2. \/ pair[1] = "start" /\ pair[2] = "create"
          \/ pair[1] = "end" /\ pair[2] = "start"
          \/ pair[1] = "join" /\ pair[2] = "end"
          \/ pair[1] = "detach" /\ pair[2] = "create"
      BY <2>1
    <2>3. QED
      BY <1>2, <2>2
  <1>3. QED
    BY <1>1, <1>2 DEF Fresh

\* What a thread tells of the thread it creates is new.
LEMMA FreshCreates ==
  ASSUME Typed, CallInv, SubjectInv, NEW x \in Threads, Register(x) \/ Created(x), Beginning(x)
  PROVE  Fresh(call'[x].event)
  <1>1. at'[x] = "reserving"
    BY BeginningFile
  <1>2. Creating(x)
    BY RegisterStep, CreatedStep DEF Creating
  <1>3. call[x].subject \in Threads
    BY <1>2, CreatingSubject
  <1>4. PICK i \in Nat : i = instance[call[x].subject]
    BY <1>3 DEF Typed
  <1>5. Subject(x, i)
    BY <1>3, <1>4 DEF SubjectInv
  <1>6. \/ at[x] = "registering" /\ call'[x].event.type = "create" /\ call'[x].event.result = i
        \/ at[x] = "created" /\ call'[x].event.type = "detach" /\ call'[x].event.result = i
    <2>1. CASE Register(x)
      BY <1>1, <1>4, <2>1, RegisterStep DEF Begins
    <2>2. CASE Created(x)
      BY <1>1, <1>4, <2>2, CreatedStep DEF Begins
    <2>3. QED
      BY <2>1, <2>2
  <1>7. /\ at[x] = "registering" => NotTold("create", i)
        /\ at[x] = "created" => NotTold("detach", i) /\ Told("create", i) # {}
    BY <1>5 DEF Subject
  <1>8. QED
    BY <1>6, <1>7, FreshEvent

\* A thread tells its start when its creation is told, and its end after that.
LEMMA FreshLife ==
  ASSUME Typed, NamesInv, StandingInv, HandledInv, NEW x \in Threads, Begin(x) \/ Finish(x)
  PROVE  Fresh(call'[x].event)
  <1>1. \/ /\ at[x] = "waiting" /\ parent_ready[x]
           /\ call'[x].event.type = "start" /\ call'[x].event.result = instance[x]
        \/ /\ at[x] = "idle" /\ x # Initial
           /\ call'[x].event.type = "end" /\ call'[x].event.result = instance[x]
    <2>1. CASE Begin(x)
      BY <2>1, BeginStep DEF Begins
    <2>2. CASE Finish(x)
      BY <2>2, FinishStep DEF Begins
    <2>3. QED
      BY <2>1, <2>2
  <1>2. instance[x] # 0
    BY <1>1 DEF NamesInv
  <1>3. PICK i \in Nat : i = instance[x] /\ i # 0
    BY <1>2 DEF Typed
  <1>4. Standing(x, i) /\ Handled(x, i)
    BY <1>3 DEF StandingInv, HandledInv
  <1>5. CASE at[x] = "waiting" /\ parent_ready[x]
    <2>1. NotTold("start", i) /\ Told("create", i) # {}
      BY <1>4, <1>5 DEF Standing, Handled
    <2>2. QED
      BY <1>1, <1>3, <1>5, <2>1, FreshEvent
  <1>6. CASE at[x] = "idle" /\ x # Initial
    <2>1. Alive(x) /\ Started(x)
      BY <1>6 DEF Alive, Started, Pending
    <2>2. NotTold("end", i) /\ Told("start", i) # {}
      BY <1>4, <1>6, <2>1 DEF Standing
    <2>3. QED
      BY <1>1, <1>3, <1>6, <2>2, FreshEvent
  <1>7. QED
    BY <1>1, <1>5, <1>6

\* The join of a thread is told after its end, and its detach after its creation.
LEMMA FreshServes ==
  ASSUME Typed, CallInv, StandingInv, HandledInv, SubjectInv, NEW x \in Threads,
         RealJoin(x) \/ RealDetach(x), Beginning(x)
  PROVE  Fresh(call'[x].event)
  <1>1. at'[x] = "reserving"
    BY BeginningFile
  <1>2. Serving(x)
    BY RealJoinStep, RealDetachStep DEF Serving
  <1>3. PICK s \in Threads : /\ s = call[x].subject
                             /\ parent_ready[s] /\ ~detached[s] /\ handle[s] # NULL
    BY <1>2, ClaimedSubject DEF Serving
  <1>4. /\ call'[x].event.result = call[x].found /\ call[x].found # 0
        /\ \/ call'[x].event.type = "join" /\ at[s] = "gone"
           \/ call'[x].event.type = "detach"
    <2>1. CASE RealJoin(x)
      BY <1>1, <1>3, <2>1, RealJoinStep DEF Begins
    <2>2. CASE RealDetach(x)
      BY <1>1, <2>2, RealDetachStep DEF Begins
    <2>3. QED
      BY <2>1, <2>2
  <1>5. PICK i \in Nat : i = instance[s] /\ i # 0 /\ call'[x].event.result = i
    <2>1. call[x].found = instance[s]
      BY <1>2, <1>3, <1>4, FoundItsNumber
    <2>2. instance[s] \in Nat
      BY DEF Typed
    <2>3. QED
      BY <1>4, <2>1, <2>2
  <1>6. Standing(s, i) /\ Handled(s, i)
    BY <1>5 DEF StandingInv, HandledInv
  <1>7. NotTold("detach", i) /\ Told("create", i) # {} /\ NotTold("join", i)
    BY <1>3, <1>6 DEF Handled
  <1>8. at[s] = "gone" => Told("end", i) # {}
    BY <1>6 DEF Standing
  <1>9. QED
    BY <1>4, <1>5, <1>7, <1>8, FreshEvent

\* Every event that is begun is new.
LEMMA FreshBegins ==
  ASSUME Typed, NamesInv, EventsInv, CallInv, blocks \subseteq heap,
         StandingInv, HandledInv, SubjectInv, NEW x \in Threads, Step(x), Beginning(x)
  PROVE  Fresh(call'[x].event)
  <1>1. /\ at'[x] = "reserving" /\ at[x] # "reserving" /\ slots' = slots
        /\ \A v \in Threads \ {x} : at'[v] = at[v]
    BY BeginningFile DEF Beginning
  <1>2. CASE Malloc(x) \/ Realloc(x) \/ Free(x)
    <2>1. \E e \in Events, then \in {"returning", "freeing"} :
            Begins(x, e, then) /\ e.type \notin ThreadTypes
      <3>1. {"malloc", "realloc", "realloc_failed", "free"} \cap ThreadTypes = {}
        BY DEF ThreadTypes
      <3>2. \E e \in Events, then \in {"returning", "freeing"} :
              Begins(x, e, then) /\ e.type \in {"malloc", "realloc", "realloc_failed", "free"}
        BY <1>2, MallocStep, ReallocStep, FreeStep
      <3>3. QED
        BY <3>1, <3>2
    <2>2. QED
      BY <2>1 DEF Begins, Fresh
  <1>3. CASE Register(x) \/ Created(x)
    BY <1>3, FreshCreates
  <1>4. CASE Begin(x) \/ Finish(x)
    BY <1>4, FreshLife
  <1>5. CASE RealJoin(x) \/ RealDetach(x)
    BY <1>5, FreshServes
  <1>6. ~Quiet
    BY <1>1 DEF Quiet, Pending
  <1>7. ~(Reserve(x) \/ Commit(x) \/ Flag(x) \/ ExitGroup(x))
    <2>1. ~Reserve(x)
      BY <1>1 DEF Reserve
    <2>2. ~Commit(x)
      BY <1>1 DEF Beginning, Commit
    <2>3. ~Flag(x)
      BY <1>1 DEF Beginning, Flag
    <2>4. ~ExitGroup(x)
      BY <1>1 DEF Beginning, ExitGroup
    <2>5. QED
      BY <2>1, <2>2, <2>3, <2>4
  <1>8. ~(Return(x) \/ RealFree(x) \/ CreateFails(x) \/ Release(x) \/ End(x) \/ Forget(x))
    BY <1>6, ReturnKind, RealFreeKind, CreateFailsKind, ReleaseKind, EndKind, ForgetKind
  <1>9. ~(Join(x) \/ Detach(x)) /\ ~\E u \in Threads : Create(x, u)
    BY <1>6, LookUpKind, CreateKind DEF Join, Detach
  <1>10. QED
    BY <1>2, <1>3, <1>4, <1>5, <1>7, <1>8, <1>9 DEF Step

\* Every step keeps what is told in order.
LEMMA ToldKept ==
  ASSUME Typed, SlotsInv, NamesInv, EventsInv, CallInv, blocks \subseteq heap,
         ToldInv, StandingInv, HandledInv, SubjectInv, NEW x \in Threads, Step(x)
  PROVE  ToldInv'
  <1>1. \A i \in Nat : ToldOf(i)
    BY DEF ToldInv
  <1>2. ASSUME NEW i \in Nat PROVE ToldOf(i)'
    <2>1. CASE Reserve(x)
      BY <1>1, <2>1, ToldReserved
    <2>2. CASE Commit(x)
      BY <1>1, <2>2, ToldCommitted
    <2>3. CASE Flag(x) \/ ExitGroup(x) \/ Quiet
      BY <1>1, <2>3, NoMore, ToldStays
    <2>4. CASE Beginning(x)
      BY <1>1, <2>4, FreshBegins, ToldBegun
    <2>5. QED
      BY <2>1, <2>2, <2>3, <2>4, StepKinds
  <1>3. QED
    BY <1>2 DEF ToldInv

\* Nothing has been told of any thread when the process starts.
LEMMA InitLife ==
  ASSUME Init
  PROVE  LifeInv
  <1>1. /\ slots = [n \in 1 .. Capacity |-> IF n = 1 THEN Event("process", 1, NULL, NULL) ELSE NULL]
        /\ parent_ready = [t \in Threads |-> FALSE]
        /\ at = [t \in Threads |-> IF t = Initial THEN "idle" ELSE "unborn"]
        /\ call = [t \in Threads |-> NoCall]
    BY DEF Init
  <1>2. \A n \in 1 .. Capacity : slots[n] # NULL => slots[n].type = "process"
    BY <1>1 DEF Event
  <1>3. \A t \in Threads : at[t] \in {"idle", "unborn"}
    BY <1>1
  <1>4. \A t \in Threads : call[t].subject \notin Threads /\ ~parent_ready[t]
    BY <1>1, NullIsNobody DEF NoCall
  <1>5. ASSUME NEW type \in ThreadTypes, NEW i
        PROVE  Told(type, i) = {} /\ NotTold(type, i) /\ \A t \in Threads : ~Telling(t, type, i)
    <2>1. Told(type, i) = {}
      BY <1>2 DEF Told, ThreadTypes
    <2>2. \A t \in Threads : ~Telling(t, type, i)
      BY <1>3 DEF Telling, Pending
    <2>3. QED
      BY <2>1, <2>2 DEF NotTold
  <1>6. {"create", "start", "end", "join", "detach"} = ThreadTypes
    BY DEF ThreadTypes
  <1>7. OneEntry /\ RightEntry
    <2>1. thread_map = [n \in 0 .. budget.entries - 1 |-> EMPTY]
      BY DEF Init
    <2>2. \A h, j : j \in DOMAIN thread_map => ~Holds(h, j)
      BY <2>1 DEF Holds, EMPTY
    <2>3. QED
      BY <2>2 DEF OneEntry, RightEntry
  <1>8. ToldInv
    <2>1. ASSUME NEW i \in Nat, NEW type \in ThreadTypes PROVE Once(type, i)
      BY <1>5 DEF Once
    <2>2. ASSUME NEW i \in Nat, NEW pair \in Presupposes PROVE InOrder(pair[1], pair[2], i)
      <3>1. pair[1] \in ThreadTypes
        BY DEF Presupposes, ThreadTypes
      <3>2. QED
        BY <1>5, <3>1 DEF InOrder
    <2>3. QED
      BY <2>1, <2>2 DEF ToldInv, ToldOf
  <1>9. ASSUME NEW t \in Threads, NEW i \in Nat PROVE Standing(t, i)
    <2>1. at[t] \in {"idle", "unborn"} /\ (t # Initial => at[t] = "unborn")
      BY <1>1
    <2>2. ~(Started(t) /\ t # Initial)
      BY <2>1 DEF Started, Pending
    <2>3. QED
      BY <1>5, <1>6, <2>1, <2>2 DEF Standing
  <1>10. ASSUME NEW t \in Threads, NEW i \in Nat PROVE Handled(t, i)
    BY <1>4, <1>5, <1>6 DEF Handled
  <1>11. QED
    BY <1>4, <1>7, <1>8, <1>9, <1>10 DEF LifeInv, StandingInv, HandledInv, SubjectInv

\* Every step keeps what is told of the threads.
LEMMA StepLife ==
  ASSUME Recorded, LifeInv, NEW t \in Threads, Step(t)
  PROVE  LifeInv'
  <1>1. /\ Typed /\ SlotsInv /\ NamesInv /\ EventsInv /\ CallInv
        /\ blocks \subseteq heap
    BY DEF Recorded, Ownership
  <1>2. OneEntry /\ RightEntry /\ ToldInv /\ StandingInv /\ HandledInv /\ SubjectInv
    BY DEF LifeInv
  <1>3. Typed'
    BY <1>1, StepKinds
  <1>4. OneEntry' /\ RightEntry'
    BY <1>1, <1>2, <1>3, MapKept
  <1>5. ToldInv'
    BY <1>1, <1>2, ToldKept
  <1>6. StandingInv' /\ HandledInv' /\ SubjectInv'
    BY <1>1, <1>2, StandingKept, HandledKept, SubjectKept
  <1>7. QED
    BY <1>4, <1>5, <1>6 DEF LifeInv

\* A stuttering step.
LEMMA StutterLife ==
  ASSUME LifeInv, UNCHANGED vars
  PROVE  LifeInv'
  <1>1. /\ budget' = budget /\ slots' = slots /\ instance' = instance /\ handle' = handle
        /\ detached' = detached /\ claimed' = claimed /\ parent_ready' = parent_ready
        /\ thread_map' = thread_map /\ at' = at /\ call' = call
    BY DEF vars, fileVars, threadVars
  <1>2. OneEntry' /\ RightEntry'
    <2>1. OneEntry /\ RightEntry
      BY DEF LifeInv
    <2>2. \A h, j : Holds(h, j)' <=> Holds(h, j)
      BY <1>1 DEF Holds
    <2>3. \A h : Stops(h)' = Stops(h) /\ Entry(h)' = Entry(h)
      BY <1>1 DEF Entry, Stops, Holds, Probe
    <2>4. \A u : Registered(u)' <=> Registered(u)
      BY <1>1 DEF Registered, Creating, Pending
    <2>5. OneEntry'
      BY <1>1, <2>1, <2>2, <2>3 DEF OneEntry
    <2>6. RightEntry'
      BY <1>1, <2>1, <2>2, <2>4 DEF RightEntry
    <2>7. QED
      BY <2>5, <2>6
  <1>3. \A type, i : Told(type, i)' = Told(type, i)
    BY <1>1 DEF Told
  <1>4. \A u, type, i : Telling(u, type, i)' <=> Telling(u, type, i)
    BY <1>1 DEF Telling, Pending
  <1>5. \A type, i : NotTold(type, i)' <=> NotTold(type, i)
    BY <1>3, <1>4 DEF NotTold
  <1>6. ToldInv'
    <2>1. \A type, i : Once(type, i) => Once(type, i)'
      BY <1>3, <1>4 DEF Once
    <2>2. \A later, earlier, i : InOrder(later, earlier, i) => InOrder(later, earlier, i)'
      BY <1>1, <1>3, <1>4 DEF InOrder
    <2>3. QED
      BY <2>1, <2>2 DEF LifeInv, ToldInv, ToldOf
  <1>7. StandingInv'
    <2>1. \A u, i : Standing(u, i) => Standing(u, i)'
      BY <1>1, <1>3, <1>5 DEF Standing, Alive, Started, Pending
    <2>2. QED
      BY <1>1, <2>1 DEF LifeInv, StandingInv
  <1>8. HandledInv'
    <2>1. \A u, i : Handled(u, i) => Handled(u, i)'
      BY <1>1, <1>3, <1>5 DEF Handled
    <2>2. QED
      BY <1>1, <2>1 DEF LifeInv, HandledInv
  <1>9. SubjectInv'
    <2>1. \A u, i : Subject(u, i) => Subject(u, i)'
      BY <1>1, <1>3, <1>5 DEF Subject, Serving, Pending
    <2>2. QED
      BY <1>1, <2>1 DEF LifeInv, SubjectInv
  <1>10. QED
    BY <1>2, <1>6, <1>7, <1>8, <1>9 DEF LifeInv

\* A set of slots without two different ones has at most one.
LEMMA AtMostOne ==
  ASSUME NEW S, \A p, q \in S : p = q
  PROVE  Cardinality(S) <= 1
  <1>1. CASE S = {}
    BY <1>1, FS_EmptySet
  <1>2. CASE S # {}
    <2>1. PICK p \in S : TRUE
      BY <1>2
    <2>2. S = {p}
      BY <2>1
    <2>3. Cardinality({p}) = 1
      BY FS_Singleton
    <2>4. QED
      BY <2>2, <2>3
  <1>3. QED
    BY <1>1, <1>2

\* What holds of the slots holds of the rows.
LEMMA LifeIsOrdered ==
  ASSUME Recorded, LifeInv
  PROVE  LifecycleOrder
  <1> DEFINE Before(i, earlier, later) ==
               \A q \in Places(later, i) : \E p \in Places(earlier, i) : p < q
  <1>1. ASSUME NEW type \in ThreadTypes, NEW i PROVE Places(type, i) = Told(type, i)
    <2>1. Rows = { n \in 1 .. Capacity : slots[n] # NULL /\ slots[n].type # "process" }
      BY RowsAreSlots DEF Recorded
    <2>2. type # "process"
      BY DEF ThreadTypes
    <2>3. QED
      BY <2>1, <2>2 DEF Places, Told
  <1>2. ASSUME NEW i \in Nat, NEW type \in ThreadTypes PROVE Cardinality(Places(type, i)) <= 1
    <2>1. Once(type, i)
      BY DEF LifeInv, ToldInv, ToldOf
    <2>2. QED
      BY <1>1, <2>1, AtMostOne DEF Once
  <1>3. ASSUME NEW i \in Nat, NEW later \in ThreadTypes, NEW earlier \in ThreadTypes,
               <<later, earlier>> \in Presupposes
        PROVE  Before(i, earlier, later)
    <2>1. InOrder(later, earlier, i)
      BY <1>3 DEF LifeInv, ToldInv, ToldOf
    <2>2. QED
      BY <1>1, <2>1 DEF InOrder
  <1>4. ASSUME NEW i \in Nat
        PROVE  /\ Before(i, "create", "start") /\ Before(i, "start", "end")
               /\ Before(i, "end", "join") /\ Before(i, "create", "detach")
    BY <1>3 DEF Presupposes, ThreadTypes
  <1>5. ASSUME NEW t \in Threads, instance[t] # 0, Places("join", instance[t]) # {}
        PROVE  handle[t] = NULL /\ ~detached[t]
    <2>1. instance[t] \in Nat
      BY DEF Recorded, Typed
    <2>2. Handled(t, instance[t])
      BY <1>5, <2>1 DEF LifeInv, HandledInv
    <2>3. "join" \in ThreadTypes
      BY DEF ThreadTypes
    <2>4. ~NotTold("join", instance[t])
      BY <1>1, <1>5, <2>3 DEF NotTold
    <2>5. QED
      BY <2>2, <2>4 DEF Handled
  <1>6. \A t \in Threads : instance[t] \in Nat
    BY DEF Recorded, Typed
  <1> DEFINE life == <<"create", "start", "end", "join">>
  <1>7. ASSUME NEW i \in Nat, NEW n \in 2 .. Len(life) PROVE Before(i, life[n - 1], life[n])
    <2>1. n \in {2, 3, 4}
      OBVIOUS
    <2>2. CASE n = 2
      <3>1. life[n - 1] = "create" /\ life[n] = "start"
        BY <2>2
      <3>2. QED
        BY <1>4, <3>1
    <2>3. CASE n = 3
      <3>1. life[n - 1] = "start" /\ life[n] = "end"
        BY <2>3
      <3>2. QED
        BY <1>4, <3>1
    <2>4. CASE n = 4
      <3>1. life[n - 1] = "end" /\ life[n] = "join"
        BY <2>4
      <3>2. QED
        BY <1>4, <3>1
    <2>5. QED
      BY <2>1, <2>2, <2>3, <2>4
  <1>8. QED
    BY <1>2, <1>4, <1>5, <1>6, <1>7 DEF LifecycleOrder

\* The rows of a thread's life come once and in order, whichever threads wrote
\* them, and a join names a thread that was really joined: the map has the
\* number of the thread whose pthread_t it is asked for, although the pthread_t
\* may be another thread's by the time the join is logged.
\* (pthread_create, thread_start_trampoline, pthread_join, pthread_detach, thread_map_put)
THEOREM LivesInOrder == Spec => []LifecycleOrder
  <1>1. Init => LifeInv
    BY InitLife
  <1>2. Recorded /\ LifeInv /\ [Next]_vars => LifeInv'
    BY StepLife, StutterLife DEF Next
  <1>3. Recorded /\ LifeInv => LifecycleOrder
    BY LifeIsOrdered
  <1>4. QED
    BY <1>1, <1>2, <1>3, RecordedAlways, PTL DEF Spec
==============================================================================
