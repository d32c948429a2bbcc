-------------------------- MODULE SyntheticWorkload --------------------------
(***************************************************************************)
(* The phase-based workload of synthetic_mstress_runtime.c.  Waves of      *)
(* workers make the allocator calls of a profile, each worker at its own   *)
(* pace.  A block that another thread is to free is pushed on the stack    *)
(* inbound of that thread; a free that finds nothing is a debt, paid later.*)
(* The descriptors of freed blocks go back to their owner, over its stack  *)
(* recycled when another thread freed the block.                           *)
(*                                                                         *)
(* A step has at most one access to what other threads can see, with the   *)
(* private work before and after it.  The tag in the head of a stack is    *)
(* left out: a compare-and-swap succeeds here whenever the top is the one  *)
(* that was loaded.  "malloc" stands for the seven plain allocation        *)
(* functions.                                                              *)
(***************************************************************************)
EXTENDS Integers, Sequences, FiniteSets, FiniteSetsExt, Functions

CONSTANTS
  Threads,
  Profiles,   \* see IsProfile
  Outcomes,   \* of an allocation: see Reallocate and Allocated
  NULL

FreeFunctions == {"free", "free_sized"}
AllocFunctions == {"malloc", "realloc"}
FunctionIds == FreeFunctions \cup AllocFunctions

\* What a thread does in a phase: its calls, how many of its frees are of
\* blocks of others, how many of its reallocs have no block, and to whom the
\* blocks go that it publishes.  A wave is a sequence of phases.
Models ==
  [counts : [FunctionIds -> Nat], remote_free : Nat, realloc_null : Nat, route : Seq(Threads)]

\* Some call of some thread is in the wave.
HasWork(w) == \E i \in DOMAIN w, t \in Threads, f \in FunctionIds : w[i][t].counts[f] # 0

\* The runs that do not end at once: the code fails when a route names no
\* worker and when nobody has a call in a wave.
IsProfile(p) ==
  /\ p.capacity \in [Threads -> Nat]
  /\ p.waves # <<>>
  /\ \A w \in DOMAIN p.waves :
       /\ \A i \in DOMAIN p.waves[w] : p.waves[w][i] \in [Threads -> Models]
       /\ HasWork(p.waves[w])

ASSUME ProfileAssumption == \A p \in Profiles : IsProfile(p)
ASSUME OutcomeAssumption == Outcomes \subseteq {"block", "failure", "nothing"} /\ Outcomes # {}

VARIABLES
  profile,
  main, wave,
  ready, started, generated_done, failed,   \* g_ready, g_start, ...
  at,                                       \* where each worker is
  phase, remaining, shares,                 \* the phase under way
  local_debt, remote_debt,
  call,                                     \* the call under way
  local,                                    \* blocks the worker may free
  fresh,                                    \* next_descriptor_offset
  local_free,                               \* head of the private free list
  heads,                                    \* recycled_head and inbound_head
  next, owner, block,                       \* g_objects
  counts                                    \* function_counts

waveVars == <<main, wave, ready, started, generated_done, failed>>
phaseVars == <<phase, remaining, shares>>
debtVars == <<local_debt, remote_debt>>
privateVars == <<local, fresh, local_free>>
objectVars == <<heads, next, owner, block>>
vars == <<profile, waveVars, at, phaseVars, debtVars, call, privateVars, objectVars, counts>>

\* A descriptor is named by its place in the range of a thread.
Descriptors == UNION { {t} \X (1 .. profile.capacity[t]) : t \in Threads }

ModelOf(w, i, t) == profile.waves[w][i][t]
Model(t) == ModelOf(wave, phase[t], t)
Calls(m, functions) == SumFunctionOnSet(m.counts, functions)

\* The threads with any call in the wave.
ActiveIn(w) ==
  { t \in Threads : \E i \in DOMAIN profile.waves[w] : Calls(ModelOf(w, i, t), FunctionIds) # 0 }
Active == ActiveIn(wave)

NoDebt == [f \in FreeFunctions |-> 0]
NoShares == [publish |-> 0, remote |-> 0, null |-> 0, ordinal |-> 0]
NoCall ==
  [function |-> "free", target |-> NULL, null |-> FALSE, purpose |-> "none",
   object |-> NULL, stack |-> <<"inbound", NULL>>, old |-> NULL, link |-> NULL]

Goto(t, label) == at' = [at EXCEPT ![t] = label]

Init ==
  /\ profile \in Profiles
  /\ main = "launching" /\ wave = 1
  /\ ready = 0 /\ started = FALSE /\ generated_done = 0 /\ failed = FALSE
  /\ at = [t \in Threads |-> "out"]
  /\ phase = [t \in Threads |-> 1]
  /\ remaining = [t \in Threads |-> [f \in FunctionIds |-> 0]]
  /\ shares = [t \in Threads |-> NoShares]
  /\ local_debt = [t \in Threads |-> NoDebt] /\ remote_debt = [t \in Threads |-> NoDebt]
  /\ call = [t \in Threads |-> NoCall]
  /\ local = [t \in Threads |-> {}] /\ fresh = [t \in Threads |-> 0]
  /\ local_free = [t \in Threads |-> NULL]
  /\ heads = [s \in {"recycled", "inbound"} \X Threads |-> NULL]
  /\ next = [d \in Descriptors |-> NULL]
  /\ owner = [d \in Descriptors |-> NULL]
  /\ block = [d \in Descriptors |-> FALSE]
  /\ counts = [t \in Threads |-> [f \in FunctionIds |-> 0]]

-----------------------------------------------------------------------------
(* The waves. *)

\* The main thread creates the workers of the wave; they wait at the gate.
Launch ==
  /\ main = "launching"
  /\ main' = "gathering"
  /\ ready' = 0 /\ started' = FALSE /\ generated_done' = 0
  /\ at' = [t \in Threads |-> IF t \in Active THEN "arriving" ELSE "out"]
  /\ UNCHANGED <<profile, wave, failed, phaseVars, debtVars, call, privateVars, objectVars, counts>>

Arrive(t) ==
  /\ at[t] = "arriving"
  /\ ready' = ready + 1
  /\ Goto(t, "gate")
  /\ UNCHANGED <<profile, main, wave, started, generated_done, failed, phaseVars, debtVars, call,
                 privateVars, objectVars, counts>>

Open ==
  /\ main = "gathering" /\ ready = Cardinality(Active)
  /\ main' = "joining" /\ started' = TRUE
  /\ UNCHANGED <<profile, wave, ready, generated_done, failed, at, phaseVars, debtVars, call,
                 privateVars, objectVars, counts>>

\* The workers are joined; the next wave is launched unless one has failed.
Join ==
  /\ main = "joining" /\ \A t \in Active : at[t] = "gone"
  /\ IF failed \/ wave = Len(profile.waves)
     THEN main' = "over" /\ UNCHANGED wave
     ELSE main' = "launching" /\ wave' = wave + 1
  /\ UNCHANGED <<profile, ready, started, generated_done, failed, at, phaseVars, debtVars, call,
                 privateVars, objectVars, counts>>

BeginPhase(t, i) ==
  /\ phase' = [phase EXCEPT ![t] = i]
  /\ remaining' = [remaining EXCEPT ![t] = ModelOf(wave, i, t).counts]
  /\ shares' = [shares EXCEPT ![t] = NoShares]

Enter(t) ==
  /\ at[t] = "gate" /\ started
  /\ Goto(t, "choosing")
  /\ local_debt' = [local_debt EXCEPT ![t] = NoDebt]
  /\ remote_debt' = [remote_debt EXCEPT ![t] = NoDebt]
  /\ BeginPhase(t, 1)
  /\ UNCHANGED <<profile, waveVars, call, privateVars, objectVars, counts>>

\* Mutant: a worker that sees a failure does not say that it is done.
EndPhaseWithoutLeaving(t) ==
  /\ at[t] = "choosing"
  /\ SumFunction(remaining[t]) = 0 \/ failed
  /\ IF phase[t] < Len(profile.waves[wave])
     THEN BeginPhase(t, phase[t] + 1) /\ UNCHANGED at
     ELSE Goto(t, IF failed THEN "gone" ELSE "leaving") /\ UNCHANGED phaseVars
  /\ UNCHANGED <<profile, waveVars, debtVars, call, privateVars, objectVars, counts>>

\* The calls of the phase are made, or some worker has failed.
EndPhase(t) ==
  /\ at[t] = "choosing"
  /\ SumFunction(remaining[t]) = 0 \/ failed
  /\ IF phase[t] < Len(profile.waves[wave])
     THEN BeginPhase(t, phase[t] + 1) /\ UNCHANGED at
     ELSE Goto(t, "leaving") /\ UNCHANGED phaseVars
  /\ UNCHANGED <<profile, waveVars, debtVars, call, privateVars, objectVars, counts>>

\* The calls are all made; debts may be left.
Leave(t) ==
  /\ at[t] = "leaving"
  /\ generated_done' = generated_done + 1
  /\ Goto(t, "left")
  /\ UNCHANGED <<profile, main, wave, ready, started, failed, phaseVars, debtVars, call,
                 privateVars, objectVars, counts>>

Settle(t) ==
  /\ at[t] = "left"
  /\ Goto(t, IF failed THEN "gone" ELSE "settling at the end")
  /\ UNCHANGED <<profile, waveVars, phaseVars, debtVars, call, privateVars, objectVars, counts>>

-----------------------------------------------------------------------------
(* The stacks. *)

\* stack_pop: load the head and the object under it, then swap.
StartPop(t, stack, purpose) ==
  /\ call' = [call EXCEPT ![t].stack = stack, ![t].purpose = purpose, ![t].old = heads[stack],
                          ![t].link = IF heads[stack] = NULL THEN NULL ELSE next[heads[stack]]]
  /\ Goto(t, "popping")

PopRetry(t) ==
  LET c == call[t] IN
  /\ at[t] = "popping" /\ c.old # NULL /\ heads[c.stack] # c.old
  /\ StartPop(t, c.stack, c.purpose)
  /\ UNCHANGED <<profile, waveVars, phaseVars, debtVars, privateVars, objectVars, counts>>

\* stack_push: load the head and link the object to it, then swap.
Link(t) ==
  LET c == call[t] IN
  /\ call' = [call EXCEPT ![t].old = heads[c.stack]]
  /\ next' = [next EXCEPT ![c.object] = heads[c.stack]]
  /\ Goto(t, "pushing")
  /\ UNCHANGED <<profile, waveVars, phaseVars, debtVars, privateVars, heads, owner, block, counts>>

StartPush(t) == at[t] = "linking" /\ Link(t)

\* Mutant: the object keeps its link when the swap is tried again.
PushRetryUnlinked(t) ==
  /\ at[t] = "pushing" /\ heads[call[t].stack] # call[t].old
  /\ call' = [call EXCEPT ![t].old = heads[call[t].stack]]
  /\ UNCHANGED <<profile, waveVars, at, phaseVars, debtVars, privateVars, objectVars, counts>>

PushRetry(t) == at[t] = "pushing" /\ heads[call[t].stack] # call[t].old /\ Link(t)

\* Where a worker goes after a call, by what the call was for.
After(purpose) ==
  CASE purpose \in {"allocate", "local debt"} -> "settling"
    [] purpose \in {"local free", "remote free", "remote debt"} -> "draining"
    [] purpose = "local debt at the end" -> "settling at the end"
    [] purpose = "remote debt at the end" -> "draining at the end"

Push(t) ==
  LET c == call[t] IN
  /\ at[t] = "pushing" /\ heads[c.stack] = c.old
  /\ heads' = [heads EXCEPT ![c.stack] = c.object]
  /\ call' = [call EXCEPT ![t] = NoCall]
  /\ Goto(t, After(c.purpose))
  /\ UNCHANGED <<profile, waveVars, phaseVars, debtVars, privateVars, next, owner, block, counts>>

-----------------------------------------------------------------------------
(* Frees. *)

\* recycle_object: the descriptor goes to the private list of its owner, or is
\* pushed on its stack.
Recycle(t, d, purpose) ==
  IF owner[d] = t
  THEN /\ next' = [next EXCEPT ![d] = local_free[t]]
       /\ local_free' = [local_free EXCEPT ![t] = d]
       /\ call' = [call EXCEPT ![t] = NoCall]
       /\ Goto(t, After(purpose))
  ELSE /\ call' = [call EXCEPT ![t] = [NoCall EXCEPT !.object = d, !.purpose = purpose,
                                                     !.stack = <<"recycled", owner[d]>>]]
       /\ Goto(t, "linking")
       /\ UNCHANGED <<next, local_free>>

CountCall(t, f, n) == counts' = [counts EXCEPT ![t][f] = @ + n]

\* run_free_call
FreeCall(t, f, d, purpose) ==
  /\ block' = [block EXCEPT ![d] = FALSE]
  /\ CountCall(t, f, 1)
  /\ Recycle(t, d, purpose)

FreeLocal(t, f, purpose) ==
  \E d \in local[t] :
    /\ local' = [local EXCEPT ![t] = @ \ {d}]
    /\ FreeCall(t, f, d, purpose)

Owed(debt) == SumFunction(debt) # 0
\* Mutant: the test is of the other function.
FirstOwedSwapped(debt) == IF debt["free_sized"] # 0 THEN "free" ELSE "free_sized"

\* Debts are paid with free before free_sized.
FirstOwed(debt) == IF debt["free"] # 0 THEN "free" ELSE "free_sized"

Chosen(t, f) ==
  /\ at[t] = "choosing" /\ ~failed
  /\ remaining[t][f] # 0
  /\ remaining' = [remaining EXCEPT ![t][f] = @ - 1]
  /\ UNCHANGED <<profile, waveVars, phase>>

\* An accumulator spreads "share" of "total" calls evenly over them.
Due(sum, share, total) == share # 0 /\ sum + share >= total
Advance(sum, share, total) == IF Due(sum, share, total) THEN sum + share - total ELSE sum + share

FreeShare(t) ==
  Advance(shares[t].remote, Model(t).remote_free, Calls(Model(t), FreeFunctions))
RemoteDue(t) == Due(shares[t].remote, Model(t).remote_free, Calls(Model(t), FreeFunctions))

\* run_local_free
ChooseLocalFree(t, f) ==
  /\ Chosen(t, f) /\ ~RemoteDue(t)
  /\ shares' = [shares EXCEPT ![t].remote = FreeShare(t)]
  /\ \/ /\ local[t] = {}
        /\ local_debt' = [local_debt EXCEPT ![t][f] = @ + 1]
        /\ Goto(t, "draining")
        /\ UNCHANGED <<call, privateVars, objectVars, counts>>
     \/ /\ FreeLocal(t, f, "local free")
        /\ UNCHANGED <<local_debt, fresh, heads, owner>>
  /\ UNCHANGED remote_debt

\* run_remote_free
ChooseRemoteFree(t, f) ==
  /\ Chosen(t, f) /\ RemoteDue(t)
  /\ shares' = [shares EXCEPT ![t].remote = FreeShare(t)]
  /\ call' = [call EXCEPT ![t].function = f]
  /\ Goto(t, "seeking")
  /\ UNCHANGED <<debtVars, privateVars, objectVars, counts>>

StartRemoteFree(t) ==
  /\ at[t] = "seeking"
  /\ StartPop(t, <<"inbound", t>>, "remote free")
  /\ UNCHANGED <<profile, waveVars, phaseVars, debtVars, privateVars, objectVars, counts>>

\* drain_local_debt: after an allocation, and at the end of the wave.
DrainLocal(t, label, purpose) ==
  /\ at[t] = label
  /\ local[t] # {} /\ Owed(local_debt[t])
  /\ LET f == FirstOwed(local_debt[t]) IN
     /\ local_debt' = [local_debt EXCEPT ![t][f] = @ - 1]
     /\ FreeLocal(t, f, purpose)
  /\ UNCHANGED <<profile, waveVars, phaseVars, remote_debt, fresh, heads, owner>>

LocalSettled(t) ==
  /\ at[t] = "settling"
  /\ local[t] = {} \/ ~Owed(local_debt[t])
  /\ Goto(t, "draining")
  /\ UNCHANGED <<profile, waveVars, phaseVars, debtVars, call, privateVars, objectVars, counts>>

\* Frees for which there was never a block are made with a null pointer.
Underflow(t) ==
  /\ at[t] = "settling at the end"
  /\ local[t] = {} \/ ~Owed(local_debt[t])
  /\ counts' = [counts EXCEPT ![t] =
       [f \in FunctionIds |-> @[f] + (IF f \in FreeFunctions THEN local_debt[t][f] ELSE 0)]]
  /\ local_debt' = [local_debt EXCEPT ![t] = NoDebt]
  /\ Goto(t, "draining at the end")
  /\ UNCHANGED <<profile, waveVars, phaseVars, remote_debt, call, privateVars, objectVars>>

\* drain_one_remote, called until it does nothing.
DrainRemote(t) ==
  \/ /\ at[t] = "draining" /\ ~Owed(remote_debt[t])
     /\ Goto(t, "choosing")
     /\ UNCHANGED <<profile, waveVars, phaseVars, debtVars, call, privateVars, objectVars, counts>>
  \/ /\ at[t] = "draining at the end" /\ ~Owed(remote_debt[t])
     /\ Goto(t, "gone")
     /\ UNCHANGED <<profile, waveVars, phaseVars, debtVars, call, privateVars, objectVars, counts>>
  \/ /\ at[t] \in {"draining", "draining at the end"} /\ Owed(remote_debt[t])
     /\ StartPop(t, <<"inbound", t>>,
                 IF at[t] = "draining" THEN "remote debt" ELSE "remote debt at the end")
     /\ UNCHANGED <<profile, waveVars, phaseVars, debtVars, privateVars, objectVars, counts>>

PopBlock(t) ==
  LET c == call[t] IN
  /\ at[t] = "popping" /\ c.purpose # "allocate"
  /\ c.old # NULL /\ heads[c.stack] = c.old
  /\ heads' = [heads EXCEPT ![c.stack] = c.link]
  /\ IF c.purpose = "remote free"
     THEN FreeCall(t, c.function, c.old, c.purpose) /\ UNCHANGED remote_debt
     ELSE LET f == FirstOwed(remote_debt[t]) IN
          /\ remote_debt' = [remote_debt EXCEPT ![t][f] = @ - 1]
          /\ FreeCall(t, f, c.old, c.purpose)
  /\ UNCHANGED <<profile, waveVars, phaseVars, local_debt, local, fresh, owner>>

\* Mutant: the free is dropped.
PopNoBlockForgotten(t) ==
  LET c == call[t] IN
  /\ at[t] = "popping" /\ c.purpose # "allocate" /\ c.old = NULL
  /\ Goto(t, CASE c.purpose = "remote free" -> "draining"
               [] c.purpose = "remote debt" -> "choosing"
               [] c.purpose = "remote debt at the end" -> "checking")
  /\ call' = [call EXCEPT ![t] = NoCall]
  /\ UNCHANGED <<profile, waveVars, phaseVars, debtVars, privateVars, objectVars, counts>>

\* There is no block: the free becomes a debt, or a debt stays.
PopNoBlock(t) ==
  LET c == call[t] IN
  /\ at[t] = "popping" /\ c.purpose # "allocate" /\ c.old = NULL
  /\ IF c.purpose = "remote free"
     THEN remote_debt' = [remote_debt EXCEPT ![t][c.function] = @ + 1]
     ELSE UNCHANGED remote_debt
  /\ Goto(t, CASE c.purpose = "remote free" -> "draining"
               [] c.purpose = "remote debt" -> "choosing"
               [] c.purpose = "remote debt at the end" -> "checking")
  /\ call' = [call EXCEPT ![t] = NoCall]
  /\ UNCHANGED <<profile, waveVars, phaseVars, local_debt, privateVars, objectVars, counts>>

\* finish_debts gives up when every worker has made its calls.
Check(t) ==
  /\ at[t] = "checking"
  /\ IF generated_done = Cardinality(Active)
     THEN failed' = TRUE /\ Goto(t, "gone")
     ELSE Goto(t, "draining at the end") /\ UNCHANGED failed
  /\ UNCHANGED <<profile, main, wave, ready, started, generated_done, phaseVars, debtVars, call,
                 privateVars, objectVars, counts>>

-----------------------------------------------------------------------------
(* Allocations. *)

NullDue(t) == Due(shares[t].null, Model(t).realloc_null, Model(t).counts["realloc"])

\* The thread that is to free the block of this call, or NULL.
Target(t) ==
  LET m == Model(t) IN
  IF Due(shares[t].publish, Len(m.route), Calls(m, AllocFunctions))
  THEN m.route[shares[t].ordinal + 1]
  ELSE NULL

AllocShares(t, f) ==
  LET m == Model(t) IN
  [shares[t] EXCEPT
     !.publish = Advance(@, Len(m.route), Calls(m, AllocFunctions)),
     !.ordinal = IF Target(t) # NULL THEN @ + 1 ELSE @,
     !.null = IF f = "realloc" THEN Advance(@, m.realloc_null, m.counts[f]) ELSE @]

ChooseAlloc(t, f) ==
  /\ Chosen(t, f)
  /\ shares' = [shares EXCEPT ![t] = AllocShares(t, f)]
  /\ call' = [call EXCEPT ![t] = [NoCall EXCEPT
                !.function = f, !.target = Target(t), !.purpose = "allocate",
                !.null = f # "realloc" \/ NullDue(t) \/ local[t] = {}]]
  /\ Goto(t, "allocating")
  /\ UNCHANGED <<debtVars, privateVars, objectVars, counts>>

\* The object is published, or stays with the thread.
Keep(t, d) ==
  IF call[t].target = NULL
  THEN /\ local' = [local EXCEPT ![t] = @ \cup {d}]
       /\ call' = [call EXCEPT ![t] = NoCall]
       /\ Goto(t, "settling")
  ELSE /\ local' = [local EXCEPT ![t] = @ \ {d}]
       /\ call' = [call EXCEPT ![t].object = d, ![t].stack = <<"inbound", call[t].target>>]
       /\ Goto(t, "linking")

\* realloc of a block of the thread, which moves, stays because the call
\* fails, or is released because the size is 0.
Reallocate(t) ==
  /\ at[t] = "allocating" /\ ~call[t].null
  /\ CountCall(t, "realloc", 1)
  /\ \E d \in local[t], outcome \in Outcomes :
       /\ block' = CASE outcome = "block" -> [block EXCEPT ![d] = TRUE]
                     [] outcome = "failure" -> block
                     [] outcome = "nothing" -> [block EXCEPT ![d] = FALSE]
       /\ IF outcome = "nothing" /\ call[t].target = NULL
          THEN local' = [local EXCEPT ![t] = @ \ {d}] /\ Recycle(t, d, "allocate")
          ELSE Keep(t, d) /\ UNCHANGED <<next, local_free>>
  /\ UNCHANGED <<profile, waveVars, phaseVars, debtVars, fresh, heads, owner>>

\* A new block, or none, for the descriptor.
Allocated(t, d) ==
  /\ CountCall(t, call[t].function, 1)
  /\ \E outcome \in Outcomes : block' = [block EXCEPT ![d] = outcome = "block"]
  /\ owner' = [owner EXCEPT ![d] = t]
  /\ Keep(t, d)
  /\ UNCHANGED <<profile, waveVars, phaseVars, debtVars, next>>

\* take_descriptor: the private list, else the stack, else a new one.
TakeLocal(t) ==
  /\ at[t] = "allocating" /\ call[t].null /\ local_free[t] # NULL
  /\ local_free' = [local_free EXCEPT ![t] = next[local_free[t]]]
  /\ Allocated(t, local_free[t])
  /\ UNCHANGED <<fresh, heads>>

StartTake(t) ==
  /\ at[t] = "allocating" /\ call[t].null /\ local_free[t] = NULL
  /\ StartPop(t, <<"recycled", t>>, "allocate")
  /\ UNCHANGED <<profile, waveVars, phaseVars, debtVars, privateVars, objectVars, counts>>

TakeRecycled(t) ==
  LET c == call[t] IN
  /\ at[t] = "popping" /\ c.purpose = "allocate"
  /\ c.old # NULL /\ heads[c.stack] = c.old
  /\ heads' = [heads EXCEPT ![c.stack] = c.link]
  /\ Allocated(t, c.old)
  /\ UNCHANGED <<fresh, local_free>>

TakeFresh(t) ==
  /\ at[t] = "popping" /\ call[t].purpose = "allocate" /\ call[t].old = NULL
  /\ fresh[t] < profile.capacity[t]
  /\ fresh' = [fresh EXCEPT ![t] = @ + 1]
  /\ Allocated(t, <<t, fresh[t] + 1>>)
  /\ UNCHANGED <<local_free, heads>>

Exhausted(t) ==
  /\ at[t] = "popping" /\ call[t].purpose = "allocate" /\ call[t].old = NULL
  /\ fresh[t] = profile.capacity[t]
  /\ failed' = TRUE
  /\ call' = [call EXCEPT ![t] = NoCall]
  /\ Goto(t, "settling")
  /\ UNCHANGED <<profile, main, wave, ready, started, generated_done, phaseVars, debtVars,
                 privateVars, objectVars, counts>>

-----------------------------------------------------------------------------
Main == Launch \/ Open \/ Join

Worker(t) ==
  \/ Arrive(t) \/ Enter(t) \/ EndPhase(t) \/ Leave(t) \/ Settle(t)
  \/ PopRetry(t) \/ StartPush(t) \/ PushRetry(t) \/ Push(t)
  \/ \E f \in FreeFunctions : ChooseLocalFree(t, f) \/ ChooseRemoteFree(t, f)
  \/ StartRemoteFree(t)
  \/ DrainLocal(t, "settling", "local debt")
  \/ DrainLocal(t, "settling at the end", "local debt at the end")
  \/ LocalSettled(t) \/ Underflow(t) \/ DrainRemote(t) \/ PopBlock(t) \/ PopNoBlock(t) \/ Check(t)
  \/ \E f \in AllocFunctions : ChooseAlloc(t, f)
  \/ Reallocate(t) \/ TakeLocal(t) \/ StartTake(t) \/ TakeRecycled(t) \/ TakeFresh(t) \/ Exhausted(t)

Next == Main \/ \E t \in Threads : Worker(t)

Fairness == WF_vars(Main) /\ \A t \in Threads : WF_vars(Worker(t))

Spec == Init /\ [][Next]_vars /\ Fairness

-----------------------------------------------------------------------------
(* Properties. *)

Labels ==
  {"out", "arriving", "gate", "choosing", "leaving", "left", "settling", "settling at the end",
   "draining", "draining at the end", "checking", "gone", "seeking", "allocating", "popping",
   "linking", "pushing"}

\* The variables have their types: counters never fall below 0, and a worker
\* never holds more debts than it has made free calls.
TypeOK ==
  /\ main \in {"launching", "gathering", "joining", "over"}
  /\ wave \in DOMAIN profile.waves
  /\ ready \in 0 .. Cardinality(Threads) /\ generated_done \in 0 .. Cardinality(Threads)
  /\ started \in BOOLEAN /\ failed \in BOOLEAN
  /\ at \in [Threads -> Labels]
  /\ phase \in [Threads -> Nat \ {0}]
  /\ remaining \in [Threads -> [FunctionIds -> Nat]]
  /\ local_debt \in [Threads -> [FreeFunctions -> Nat]]
  /\ remote_debt \in [Threads -> [FreeFunctions -> Nat]]
  /\ local \in [Threads -> SUBSET Descriptors]
  /\ \A t \in Threads : fresh[t] \in 0 .. profile.capacity[t]
  /\ \A s \in DOMAIN heads : heads[s] \in Descriptors \cup {NULL}
  /\ next \in [Descriptors -> Descriptors \cup {NULL}]
  /\ owner \in [Descriptors -> Threads \cup {NULL}]
  /\ block \in [Descriptors -> BOOLEAN]
  /\ counts \in [Threads -> [FunctionIds -> Nat]]

\* The list under a head, followed for as many links as there are descriptors.
Walk(head) ==
  LET last == Cardinality(Descriptors)
      link[n \in 0 .. last] ==
        IF n = 0 THEN head ELSE IF link[n - 1] = NULL THEN NULL ELSE next[link[n - 1]]
  IN IF head = NULL THEN <<NULL>> ELSE [n \in 1 .. last + 1 |-> link[n - 1]]
Chain(head) == Range(Walk(head)) \ {NULL}
Ends(head) == NULL \in Range(Walk(head))

Places == {"local", "local_free", "recycled", "inbound", "hand"} \X Threads
Content(place) ==
  LET t == place[2] IN
  CASE place[1] = "local" -> local[t]
    [] place[1] = "local_free" -> Chain(local_free[t])
    [] place[1] = "hand" -> {call[t].object} \ {NULL}
    [] OTHER -> Chain(heads[place])

\* Whatever the workers push and pop at the same time, a list never has a
\* cycle, and a descriptor in use is in exactly one place: nothing is lost, no
\* block is freed twice, and no descriptor that was given back has a block.
OnePlace ==
  /\ \A s \in DOMAIN heads : Ends(heads[s])
  /\ \A t \in Threads : Ends(local_free[t])
  /\ LET content == [p \in Places |-> Content(p)] IN
     \A d \in Descriptors :
       LET places == { p \in Places : d \in content[p] } IN
       /\ Cardinality(places) = IF d[2] <= fresh[d[1]] THEN 1 ELSE 0
       /\ block[d] => \E p \in places : p[1] \notin {"recycled", "local_free"}

SumOverWaves(done, F(_, _)) ==
  SumFunction([w \in 1 .. done |->
                 SumFunction([i \in DOMAIN profile.waves[w] |-> F(w, i)])])

RoutedTo(t, w, i) ==
  SumFunction([u \in Threads |->
    Cardinality({ n \in DOMAIN ModelOf(w, i, u).route : ModelOf(w, i, u).route[n] = t })])

\* After a wave without failure every worker has made exactly the calls of its
\* quota, debts included, and what waits on a stack inbound is what was routed
\* there for the frees of later waves.
WaveIsComplete ==
  main \in {"launching", "over"} /\ ~failed =>
    LET done == IF main = "over" THEN wave ELSE wave - 1 IN
    \A t \in Threads :
      /\ \A f \in FunctionIds :
           counts[t][f] = SumOverWaves(done, LAMBDA w, i : ModelOf(w, i, t).counts[f])
      /\ Cardinality(Chain(heads["inbound", t])) =
           SumOverWaves(done, LAMBDA w, i : RoutedTo(t, w, i) - ModelOf(w, i, t).remote_free)

\* A worker that gives up on a debt has no block on its stack: the route is
\* exhausted, as the message says.
GivesUpWithoutBlocks ==
  [][\A t \in Threads : at[t] = "checking" /\ at'[t] = "gone" => heads["inbound", t] = NULL]_vars

\* The workers of every wave come to their end, with the debts of one paid by
\* the others or given up: nobody waits for ever.
RunEnds == <>(main = "over")

=============================================================================
