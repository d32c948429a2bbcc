------------------------- MODULE ReplayTraceProofs -------------------------
(***************************************************************************)
(* What the preprocessing of any trace gives the replays, for every number *)
(* of threads, addresses, timestamps and records: a sound plan, in which   *)
(* each generation of a slot is published and consumed once and no wait    *)
(* looks forward.  The lemmas relate a plan p to the plan q that one more  *)
(* record makes of it.                                                     *)
(***************************************************************************)
EXTENDS ReplayTrace, FiniteSums, TLAPS

\* An operation of a worker is pushed.
Pushes(p, q, t, op) ==
  /\ op \in Operations
  /\ q.ops = [p.ops EXCEPT ![t] = Append(@, op)]

\* A record widens the span of the trace to its timestamp.
Widens(p, q, e) ==
  /\ q.min \in Nat /\ q.min <= e.ts /\ e.ts <= q.max
  /\ p.min # NONE => q.min <= p.min
  /\ p.max <= q.max

\* What a record does to the lists and the map: nothing, ...
Passes(p, q) == q.ops = p.ops /\ q.live = p.live /\ q.slots = p.slots

\* ... a new slot, ...
Allocates(p, q, e) ==
  /\ e.result \in Addresses
  /\ Pushes(p, q, e.tid, [ts |-> e.ts, kind |-> OpAlloc, slot |-> p.slots,
                    wait |-> 0, out |-> 1, empty |-> FALSE])
  /\ q.live = [p.live EXCEPT ![e.result] = [slot |-> p.slots, gen |-> 1, ts |-> e.ts]]
  /\ q.slots = p.slots + 1

\* ... a free of a block the trace does not know, ...
Ignores(p, q, e) ==
  /\ Pushes(p, q, e.tid, [ts |-> e.ts, kind |-> OpUnknownFree, slot |-> 0,
                    wait |-> 0, out |-> 0, empty |-> FALSE])
  /\ q.live = p.live /\ q.slots = p.slots

\* ... or the end of a block's generation, by a free or by a reallocation, which
\* may have moved the block.
Ends(p, q, e, op) ==
  /\ e.address \in Addresses /\ p.live[e.address] # NONE
  /\ Pushes(p, q, e.tid, op)
  /\ op.slot = p.live[e.address].slot /\ op.wait = p.live[e.address].gen
  /\ op.ts = Later(e.ts, p.live[e.address].ts)
  /\ q.slots = p.slots

Releases(p, q, e, op) ==
  /\ Ends(p, q, e, op)
  /\ op.kind = OpFree \/ (op.kind = OpRealloc /\ op.out = op.wait + 1)
  /\ q.live = [p.live EXCEPT ![e.address] = NONE]

Moves(p, q, e, op) ==
  /\ Ends(p, q, e, op)
  /\ op.kind = OpRealloc /\ op.out = op.wait + 1
  /\ e.result \in Addresses
  /\ q.live = [[p.live EXCEPT ![e.address] = NONE] EXCEPT ![e.result] =
                     [slot |-> op.slot, gen |-> op.out, ts |-> op.ts]]

Outcome(p, q, e) ==
  \/ Passes(p, q) \/ Allocates(p, q, e) \/ Ignores(p, q, e)
  \/ \E op \in Operations : Releases(p, q, e, op) \/ Moves(p, q, e, op)

\* Two plans of the same span and the same starts of the workers, ...
SameSpan(r, s) ==
  r.min = s.min /\ r.max = s.max /\ r.start = s.start /\ r.first = s.first

\* ... and of the same span, where a worker may start at the record.
Within(r, s, e) ==
  /\ r.min = s.min /\ r.max = s.max
  /\ \A t \in Tids : r.start[t] \in {s.start[t], e.ts} /\ r.first[t] \in {s.first[t], e.ts}

------------------------------------------------------------------------------

\* A span that stays the same stays within.
LEMMA SpanSteps ==
  ASSUME NEW r, NEW s, NEW e, SameSpan(r, s)
  PROVE  /\ Within(r, s, e)
         /\ \A m : SameSpan(s, m) => SameSpan(r, m)
         /\ \A m : Within(s, m, e) => Within(r, m, e)
  BY DEF SameSpan, Within

\* The span after a record.
LEMMA StampedType ==
  ASSUME NEW s \in Plans, NEW e \in Records
  PROVE  /\ Stamped(s, e) \in Plans
         /\ Stamped(s, e).ops = s.ops /\ Stamped(s, e).live = s.live
         /\ Stamped(s, e).slots = s.slots
         /\ Stamped(s, e).min \in Nat /\ Stamped(s, e).min <= e.ts
         /\ e.ts <= Stamped(s, e).max /\ s.max <= Stamped(s, e).max
         /\ s.min # NONE => Stamped(s, e).min <= s.min
         /\ Stamped(s, e).start = s.start /\ Stamped(s, e).first = s.first
  <1>1. e.ts \in Nat
    BY DEF Records
  <1>2. EarlierOf(s.min, e.ts) \in Nat /\ EarlierOf(s.min, e.ts) <= e.ts
          /\ (s.min # NONE => EarlierOf(s.min, e.ts) <= s.min)
    BY <1>1, TraceAssumption DEF EarlierOf, Plans
  <1>3. Later(s.max, e.ts) \in Nat /\ e.ts <= Later(s.max, e.ts) /\ s.max <= Later(s.max, e.ts)
    BY <1>1 DEF Later, Plans
  <1>4. QED
    BY <1>2, <1>3 DEF Stamped, Plans

\* The first and last operation of a worker after a record.
LEMMA NotedType ==
  ASSUME NEW s \in Plans, NEW e \in Records
  PROVE  /\ Noted(s, e) \in Plans
         /\ Noted(s, e).ops = s.ops /\ Noted(s, e).live = s.live
         /\ Noted(s, e).slots = s.slots
         /\ Within(Noted(s, e), s, e)
  <1>1. e.ts \in Nat /\ e.tid \in Tids
    BY DEF Records
  <1>2. EarlierOf(s.first[e.tid], e.ts) \in Nat /\ Later(s.last[e.tid], e.ts) \in Nat
    BY <1>1, TraceAssumption DEF EarlierOf, Later, Plans
  <1>3. QED
    <2>1. Noted(s, e).first[e.tid] \in {s.first[e.tid], e.ts}
      BY <1>1 DEF Noted, EarlierOf, Plans
    <2>2. Within(Noted(s, e), s, e)
      BY <1>1, <2>1 DEF Within, Noted, Plans
    <2>3. QED
      BY <1>1, <1>2, <2>2 DEF Noted, Plans

\* An operation pushed.
LEMMA PushedType ==
  ASSUME NEW s \in Plans, NEW e \in Records, NEW op \in Operations, NEW r, r = Pushed(s, e, op)
  PROVE  /\ r \in Plans /\ SameSpan(r, s)
         /\ Pushes(s, r, e.tid, op)
         /\ r.live = s.live /\ r.slots = s.slots
  <1>1. e.tid \in Tids
    BY DEF Records
  <1>2. Append(s.ops[e.tid], op) \in Seq(Operations)
    BY <1>1 DEF Plans
  <1>3. [s.ops EXCEPT ![e.tid] = Append(@, op)] \in [Tids -> Seq(Operations)]
    BY <1>1, <1>2 DEF Plans
  <1>4. r \in Plans /\ SameSpan(r, s) /\ r.live = s.live /\ r.slots = s.slots
    BY <1>3 DEF Pushed, Plans, SameSpan
  <1>5. r.ops = [s.ops EXCEPT ![e.tid] = Append(@, op)]
    BY DEF Pushed, Plans
  <1>6. QED
    BY <1>4, <1>5 DEF Pushes

\* The map changed at one address.
Mapped(s, a, v) == [s EXCEPT !.live[a] = v]

Maps(s, r, a, v) == r.live = [s.live EXCEPT ![a] = v]

\* A mapping of an address leaves a plan a plan.
LEMMA MappedType ==
  ASSUME NEW s \in Plans, NEW a \in Addresses, NEW v, v \in Blocks \/ v = NONE,
         NEW r, r = Mapped(s, a, v)
  PROVE  /\ r \in Plans /\ SameSpan(r, s)
         /\ Maps(s, r, a, v)
         /\ r.ops = s.ops /\ r.slots = s.slots
  <1>1. [s.live EXCEPT ![a] = v] \in [Addresses -> Blocks \cup {NONE}]
    BY DEF Plans
  <1>2. r \in Plans /\ SameSpan(r, s) /\ r.ops = s.ops /\ r.slots = s.slots
    BY <1>1 DEF Mapped, Plans, SameSpan
  <1>3. Maps(s, r, a, v)
    BY DEF Mapped, Maps, Plans
  <1>4. QED
    BY <1>2, <1>3

\* A slot more.
Counted(s) == [s EXCEPT !.slots = @ + 1]

\* So does a count of the blocks.
LEMMA CountedType ==
  ASSUME NEW s \in Plans, NEW r, r = Counted(s)
  PROVE  /\ r \in Plans /\ SameSpan(r, s)
         /\ r.slots = s.slots + 1
         /\ r.live = s.live /\ r.ops = s.ops
  <1>1. s.slots + 1 \in Nat
    BY DEF Plans
  <1>2. QED
    BY <1>1 DEF Counted, Plans, SameSpan

\* The life of a worker's thread recorded.
LEMMA LifetimeType ==
  ASSUME NEW s \in Plans, NEW e \in Records,
         NEW r, \/ r = [s EXCEPT !.start[e.tid] = EarlierOf(@, e.ts)]
                \/ r = [s EXCEPT !.end[e.tid] = LaterOf(@, e.ts)]
  PROVE  /\ r \in Plans
         /\ r.live = s.live /\ r.ops = s.ops /\ r.slots = s.slots
         /\ Within(r, s, e)
  <1>1. e.ts \in Nat /\ e.tid \in Tids
    BY DEF Records
  <1>2. CASE r = [s EXCEPT !.start[e.tid] = EarlierOf(@, e.ts)]
    <2>1. EarlierOf(s.start[e.tid], e.ts) \in Nat \cup {NONE}
      BY <1>1 DEF EarlierOf, Plans
    <2>2. [s.start EXCEPT ![e.tid] = EarlierOf(@, e.ts)] \in [Tids -> Nat \cup {NONE}]
      BY <1>1, <2>1 DEF Plans
    <2>3. \A t \in Tids : r.start[t] \in {s.start[t], e.ts}
      BY <1>1, <1>2 DEF EarlierOf, Plans
    <2>4. QED
      BY <1>2, <2>2, <2>3 DEF Plans, Within
  <1>3. CASE r = [s EXCEPT !.end[e.tid] = LaterOf(@, e.ts)]
    <2>1. LaterOf(s.end[e.tid], e.ts) \in Nat \cup {NONE}
      BY <1>1 DEF LaterOf, Plans
    <2>2. [s.end EXCEPT ![e.tid] = LaterOf(@, e.ts)] \in [Tids -> Nat \cup {NONE}]
      BY <1>1, <2>1 DEF Plans
    <2>3. QED
      BY <1>3, <2>2 DEF Plans, Within
  <1>4. QED
    BY <1>2, <1>3

\* Which part of the preprocessing a record enters.
LEMMA PreparedByFunction ==
  ASSUME NEW p, NEW e \in Records, NEW s, s = Stamped(p, e)
  PROVE  /\ e.func = AllocI => Prepared(p, e) = AfterAlloc(s, e)
         /\ e.func = FreeI => Prepared(p, e) = AfterFree(s, e)
         /\ e.func = ReallocI => Prepared(p, e) = AfterRealloc(s, e)
         /\ e.func = ThreadStartI =>
              Prepared(p, e) = [s EXCEPT !.start[e.tid] = EarlierOf(@, e.ts)]
         /\ e.func = ThreadEndI =>
              Prepared(p, e) = [s EXCEPT !.end[e.tid] = LaterOf(@, e.ts)]
  <1> DEFINE started == [s EXCEPT !.start[e.tid] = EarlierOf(@, e.ts)]
             ended == [s EXCEPT !.end[e.tid] = LaterOf(@, e.ts)]
  <1>1. Prepared(p, e) = CASE e.func = AllocI       -> AfterAlloc(s, e)
                              [] e.func = FreeI        -> AfterFree(s, e)
                              [] e.func = ReallocI     -> AfterRealloc(s, e)
                              [] e.func = ThreadStartI -> started
                              [] e.func = ThreadEndI   -> ended
                              [] OTHER                 -> s
    BY Zenon DEF Prepared
  <1> HIDE DEF started, ended
  <1>2. /\ e.func = AllocI => Prepared(p, e) = AfterAlloc(s, e)
        /\ e.func = FreeI => Prepared(p, e) = AfterFree(s, e)
        /\ e.func = ReallocI => Prepared(p, e) = AfterRealloc(s, e)
        /\ e.func = ThreadStartI => Prepared(p, e) = started
        /\ e.func = ThreadEndI => Prepared(p, e) = ended
    BY <1>1 DEF AllocI, FreeI, ReallocI, ThreadStartI, ThreadEndI
  <1>3. QED
    BY <1>2 DEF started, ended

\* A new slot, from a plan whose lists and map are those of the plan before.
LEMMA NewBlockOutcome ==
  ASSUME NEW p \in Plans, NEW s \in Plans, s.ops = p.ops, s.live = p.live, s.slots = p.slots,
         NEW e \in Records, e.result # NULL, NEW q, q = NewBlock(s, e)
  PROVE  q \in Plans /\ SameSpan(q, s) /\ Outcome(p, q, e)
  <1>1. e.ts \in Nat /\ e.tid \in Tids /\ e.result \in Addresses /\ p.slots \in Nat
    BY DEF Records, Plans
  <1>2. PICK op \in Operations :
          op = [ts |-> e.ts, kind |-> OpAlloc, slot |-> p.slots,
                wait |-> 0, out |-> 1, empty |-> FALSE]
    BY <1>1 DEF Operations
  <1>3. PICK block \in Blocks : block = [slot |-> p.slots, gen |-> 1, ts |-> e.ts]
    <2>1. [slot |-> p.slots, gen |-> 1, ts |-> e.ts] \in Blocks
      BY <1>1 DEF Blocks
    <2>2. QED
      BY <2>1
  <1>4. PICK r \in Plans : r = Pushed(s, e, op)
    BY PushedType
  <1>5. PICK c \in Plans : c = Counted(r)
    BY CountedType
  <1>6. q = Mapped(c, e.result, block)
    BY <1>2, <1>3, <1>4, <1>5 DEF NewBlock, Counted, Mapped
  <1>7. /\ SameSpan(r, s) /\ Pushes(s, r, e.tid, op)
        /\ r.live = s.live /\ r.slots = s.slots
    BY <1>4, PushedType
  <1>8. SameSpan(c, r) /\ c.slots = r.slots + 1 /\ c.live = r.live /\ c.ops = r.ops
    BY <1>5, CountedType
  <1>9. /\ q \in Plans /\ SameSpan(q, c)
        /\ Maps(c, q, e.result, block) /\ q.ops = c.ops /\ q.slots = c.slots
    BY <1>1, <1>6, MappedType
  <1>10. SameSpan(q, s)
    BY <1>7, <1>8, <1>9 DEF SameSpan
  <1>11. Pushes(p, q, e.tid, op)
    BY <1>7, <1>8, <1>9 DEF Pushes
  <1>12. q.live = [p.live EXCEPT ![e.result] = block]
    BY <1>7, <1>8, <1>9 DEF Maps
  <1>13. Allocates(p, q, e)
    BY <1>1, <1>2, <1>3, <1>7, <1>8, <1>9, <1>11, <1>12 DEF Allocates
  <1>14. QED
    BY <1>9, <1>10, <1>13 DEF Outcome

\* A reallocation of a block b the trace knows.
LEMMA KnownReallocOutcome ==
  ASSUME NEW p \in Plans, NEW s \in Plans, s.ops = p.ops, s.live = p.live, s.slots = p.slots,
         NEW e \in Records, e.address # NULL, p.live[e.address] # NONE,
         NEW q, q = AfterKnownRealloc(s, e)
  PROVE  q \in Plans /\ SameSpan(q, s) /\ Outcome(p, q, e)
  <1>1. /\ e.ts \in Nat /\ e.tid \in Tids /\ e.address \in Addresses /\ e.empty \in BOOLEAN
        /\ e.result \in Addresses \cup {NULL}
    BY DEF Records
  <1>2. PICK b \in Blocks : b = p.live[e.address]
    BY <1>1 DEF Plans
  <1>3. b.slot \in Nat /\ b.gen \in Nat /\ b.gen + 1 \in Nat \ {0} /\ Later(e.ts, b.ts) \in Nat
    BY <1>1 DEF Blocks, Later
  <1>4. PICK op \in Operations :
          op = [ts |-> Later(e.ts, b.ts), kind |-> OpRealloc, slot |-> b.slot,
                wait |-> b.gen, out |-> b.gen + 1, empty |-> e.empty]
    BY <1>1, <1>3 DEF Operations
  <1>5. PICK moved \in Blocks : moved = [slot |-> op.slot, gen |-> op.out, ts |-> op.ts]
    BY <1>3, <1>4 DEF Blocks
  <1>6. /\ op.kind = OpRealloc /\ op.slot = b.slot /\ op.wait = b.gen /\ op.out = op.wait + 1
        /\ op.ts = Later(e.ts, b.ts)
    BY <1>4
  <1>7. PICK r \in Plans : r = Pushed(s, e, op)
    BY PushedType
  <1>8. PICK c \in Plans : c = Mapped(r, e.address, NONE)
    BY <1>1, MappedType
  <1>9. q = IF e.result = NULL THEN IF e.empty THEN c ELSE s
            ELSE Mapped(c, e.result, moved)
    BY <1>2, <1>4, <1>5, <1>7, <1>8 DEF AfterKnownRealloc, StampAfter, Mapped
  <1>10. /\ SameSpan(r, s) /\ Pushes(s, r, e.tid, op)
         /\ r.live = s.live /\ r.slots = s.slots
    BY <1>7, PushedType
  <1>11. SameSpan(c, r) /\ Maps(r, c, e.address, NONE) /\ c.ops = r.ops /\ c.slots = r.slots
    BY <1>1, <1>8, MappedType
  <1>12. ASSUME q.ops = c.ops, q.slots = c.slots PROVE Ends(p, q, e, op)
    <2>1. Pushes(p, q, e.tid, op)
      BY <1>10, <1>11, <1>12 DEF Pushes
    <2>2. QED
      BY <1>1, <1>2, <1>6, <1>10, <1>11, <1>12, <2>1 DEF Ends
  <1>13. CASE e.result = NULL /\ ~e.empty
    <2>1. q = s
      BY <1>9, <1>13
    <2>2. QED
      BY <2>1 DEF Outcome, Passes, SameSpan
  <1>14. CASE e.result = NULL /\ e.empty
    <2>1. q = c
      BY <1>9, <1>14
    <2>2. q.live = [p.live EXCEPT ![e.address] = NONE]
      BY <1>10, <1>11, <2>1 DEF Maps
    <2>3. Releases(p, q, e, op)
      BY <1>6, <1>12, <2>1, <2>2 DEF Releases
    <2>4. SameSpan(q, s)
      BY <1>10, <1>11, <2>1 DEF SameSpan
    <2>5. QED
      BY <2>1, <2>3, <2>4 DEF Outcome
  <1>15. CASE e.result # NULL
    <2>1. e.result \in Addresses /\ q = Mapped(c, e.result, moved)
      BY <1>1, <1>9, <1>15
    <2>2. /\ q \in Plans /\ SameSpan(q, c) /\ Maps(c, q, e.result, moved)
          /\ q.ops = c.ops /\ q.slots = c.slots
      BY <2>1, MappedType
    <2>3. c.live = [p.live EXCEPT ![e.address] = NONE]
      BY <1>10, <1>11 DEF Maps
    <2>4. q.live = [[p.live EXCEPT ![e.address] = NONE] EXCEPT ![e.result] =
                      [slot |-> op.slot, gen |-> op.out, ts |-> op.ts]]
      BY <1>5, <2>2, <2>3 DEF Maps
    <2>5. Moves(p, q, e, op)
      BY <1>6, <1>12, <2>1, <2>2, <2>4 DEF Moves
    <2>6. SameSpan(q, s)
      BY <1>10, <1>11, <2>2 DEF SameSpan
    <2>7. QED
      BY <2>2, <2>5, <2>6 DEF Outcome
  <1>16. QED
    BY <1>13, <1>14, <1>15

\* A free of a block the trace does not know.
LEMMA UnknownFreeOutcome ==
  ASSUME NEW p \in Plans, NEW n \in Plans, n.ops = p.ops, n.live = p.live, n.slots = p.slots,
         NEW e \in Records, NEW op,
         op = [ts |-> e.ts, kind |-> OpUnknownFree, slot |-> 0,
               wait |-> 0, out |-> 0, empty |-> FALSE],
         NEW q, q = Pushed(n, e, op)
  PROVE  q \in Plans /\ SameSpan(q, n) /\ Outcome(p, q, e)
  <1>1. op \in Operations
    BY DEF Records, Operations
  <1>2. /\ q \in Plans /\ SameSpan(q, n) /\ Pushes(n, q, e.tid, op)
        /\ q.live = n.live /\ q.slots = n.slots
    BY <1>1, PushedType
  <1>3. Pushes(p, q, e.tid, op)
    BY <1>2 DEF Pushes
  <1>4. Ignores(p, q, e)
    BY <1>2, <1>3 DEF Ignores
  <1>5. QED
    BY <1>2, <1>4 DEF Outcome

\* A free of a block b.
LEMMA KnownFreeOutcome ==
  ASSUME NEW p \in Plans, NEW n \in Plans, n.ops = p.ops, n.live = p.live, n.slots = p.slots,
         NEW e \in Records, e.address \in Addresses, NEW b \in Blocks, p.live[e.address] = b,
         b # NONE, NEW op,
         op = [ts |-> Later(e.ts, b.ts), kind |-> OpFree, slot |-> b.slot,
               wait |-> b.gen, out |-> 0, empty |-> FALSE],
         NEW q, q = Mapped(Pushed(n, e, op), e.address, NONE)
  PROVE  q \in Plans /\ SameSpan(q, n) /\ Outcome(p, q, e)
  <1>1. op \in Operations
    <2>1. Later(e.ts, b.ts) \in Nat
      BY DEF Records, Blocks, Later
    <2>2. QED
      BY <2>1 DEF Blocks, Operations
  <1>2. PICK r \in Plans : r = Pushed(n, e, op)
    BY <1>1, PushedType
  <1>3. /\ SameSpan(r, n) /\ Pushes(n, r, e.tid, op)
        /\ r.live = n.live /\ r.slots = n.slots
    BY <1>1, <1>2, PushedType
  <1>4. q = Mapped(r, e.address, NONE)
    BY <1>2
  <1>5. /\ q \in Plans /\ SameSpan(q, r) /\ Maps(r, q, e.address, NONE)
        /\ q.ops = r.ops /\ q.slots = r.slots
    BY <1>4, MappedType
  <1>6. Pushes(p, q, e.tid, op)
    BY <1>3, <1>5 DEF Pushes
  <1>7. Ends(p, q, e, op)
    BY <1>3, <1>5, <1>6 DEF Ends
  <1>8. q.live = [p.live EXCEPT ![e.address] = NONE]
    BY <1>3, <1>5 DEF Maps
  <1>9. Releases(p, q, e, op)
    BY <1>7, <1>8 DEF Releases
  <1>10. SameSpan(q, n)
    BY <1>3, <1>5, SpanSteps
  <1>11. QED
    BY <1>1, <1>5, <1>9, <1>10 DEF Outcome

\* A free.
LEMMA FreeOutcome ==
  ASSUME NEW p \in Plans, NEW s \in Plans, s.ops = p.ops, s.live = p.live, s.slots = p.slots,
         NEW e \in Records, NEW q, q = AfterFree(s, e)
  PROVE  q \in Plans /\ Within(q, s, e) /\ Outcome(p, q, e)
  <1>1. PICK n \in Plans : n = Noted(s, e)
    BY NotedType
  <1>2. /\ n.ops = p.ops /\ n.live = p.live /\ n.slots = p.slots
        /\ Within(n, s, e)
    BY <1>1, NotedType
  <1>3. e.address \in Addresses \cup {NULL}
    BY DEF Records
  <1>4. CASE e.address = NULL
    <2>1. q = s
      BY <1>4 DEF AfterFree
    <2>2. QED
      BY <2>1 DEF Outcome, Passes, Within
  <1>5. CASE e.address # NULL /\ p.live[e.address] = NONE
    <2>1. q = Pushed(n, e, [ts |-> e.ts, kind |-> OpUnknownFree, slot |-> 0,
                            wait |-> 0, out |-> 0, empty |-> FALSE])
      BY <1>1, <1>5 DEF AfterFree
    <2>2. q \in Plans /\ SameSpan(q, n) /\ Outcome(p, q, e)
      BY <1>2, <2>1, UnknownFreeOutcome
    <2>3. QED
      BY <1>2, <2>2, SpanSteps
  <1>6. CASE e.address # NULL /\ p.live[e.address] # NONE
    <2>1. PICK b \in Blocks : b = p.live[e.address]
      BY <1>3, <1>6 DEF Plans
    <2>2. q = Mapped(Pushed(n, e, [ts |-> Later(e.ts, b.ts), kind |-> OpFree,
                                   slot |-> b.slot, wait |-> b.gen, out |-> 0,
                                   empty |-> FALSE]), e.address, NONE)
      BY <1>1, <1>6, <2>1 DEF AfterFree, StampAfter, Mapped
    <2>3. q \in Plans /\ SameSpan(q, n) /\ Outcome(p, q, e)
      BY <1>2, <1>3, <1>6, <2>1, <2>2, KnownFreeOutcome
    <2>4. QED
      BY <1>2, <2>3, SpanSteps
  <1>7. QED
    BY <1>4, <1>5, <1>6

\* A record widens the span and has one of the outcomes.
LEMMA PreparedOutcome ==
  ASSUME NEW p \in Plans, NEW e \in Records, NEW q, q = Prepared(p, e)
  PROVE  /\ q \in Plans /\ Widens(p, q, e) /\ Outcome(p, q, e)
         /\ \A t \in Tids : q.start[t] \in {p.start[t], e.ts} /\ q.first[t] \in {p.first[t], e.ts}
  <1>1. PICK s \in Plans : s = Stamped(p, e)
    BY StampedType
  <1>2. /\ s.ops = p.ops /\ s.live = p.live /\ s.slots = p.slots
        /\ s.min \in Nat /\ s.min <= e.ts /\ e.ts <= s.max /\ p.max <= s.max
        /\ p.min # NONE => s.min <= p.min
        /\ s.start = p.start /\ s.first = p.first
    BY <1>1, StampedType
  <1>3. SUFFICES q \in Plans /\ Within(q, s, e) /\ Outcome(p, q, e)
    BY <1>2 DEF Widens, Within
  <1>4. PICK n \in Plans : n = Noted(s, e)
    BY NotedType
  <1>5. n.ops = p.ops /\ n.live = p.live /\ n.slots = p.slots /\ Within(n, s, e)
    BY <1>2, <1>4, NotedType
  <1>6. ASSUME SameSpan(q, n) PROVE Within(q, s, e)
    BY <1>5, <1>6, SpanSteps
  <1>7. ASSUME q = s \/ q = n PROVE q \in Plans /\ Within(q, s, e) /\ Outcome(p, q, e)
    <2>1. Within(s, s, e)
      BY DEF Within
    <2>2. Passes(p, q)
      BY <1>2, <1>5, <1>7 DEF Passes
    <2>3. QED
      BY <1>5, <1>7, <2>1, <2>2 DEF Outcome
  <1>8. CASE e.func = AllocI
    <2>1. q = IF e.result = NULL THEN s ELSE NewBlock(n, e)
      BY <1>1, <1>4, <1>8, PreparedByFunction DEF AfterAlloc
    <2>2. CASE e.result = NULL
      BY <1>7, <2>1, <2>2
    <2>3. CASE e.result # NULL
      <3>1. q \in Plans /\ SameSpan(q, n) /\ Outcome(p, q, e)
        BY <1>5, <2>1, <2>3, NewBlockOutcome
      <3>2. QED
        BY <1>6, <3>1
    <2>4. QED
      BY <2>2, <2>3
  <1>9. CASE e.func = FreeI
    <2>1. q = AfterFree(s, e)
      BY <1>1, <1>9, PreparedByFunction
    <2>2. QED
      BY <1>2, <2>1, FreeOutcome
  <1>10. CASE e.func = ReallocI
    <2>1. q = IF e.address # NULL /\ p.live[e.address] # NONE
                THEN AfterKnownRealloc(n, e)
                ELSE IF e.result = NULL THEN n ELSE NewBlock(n, e)
      BY <1>1, <1>2, <1>4, <1>10, PreparedByFunction DEF AfterRealloc
    <2>2. CASE e.address # NULL /\ p.live[e.address] # NONE
      <3>1. q \in Plans /\ SameSpan(q, n) /\ Outcome(p, q, e)
        BY <1>5, <2>1, <2>2, KnownReallocOutcome
      <3>2. QED
        BY <1>6, <3>1
    <2>3. CASE ~(e.address # NULL /\ p.live[e.address] # NONE) /\ e.result = NULL
      BY <1>7, <2>1, <2>3
    <2>4. CASE ~(e.address # NULL /\ p.live[e.address] # NONE) /\ e.result # NULL
      <3>1. q \in Plans /\ SameSpan(q, n) /\ Outcome(p, q, e)
        BY <1>5, <2>1, <2>4, NewBlockOutcome
      <3>2. QED
        BY <1>6, <3>1
    <2>5. QED
      BY <2>2, <2>3, <2>4
  <1>11. CASE e.func = ThreadStartI \/ e.func = ThreadEndI
    <2>1. \/ q = [s EXCEPT !.start[e.tid] = EarlierOf(@, e.ts)]
          \/ q = [s EXCEPT !.end[e.tid] = LaterOf(@, e.ts)]
      BY <1>1, <1>11, PreparedByFunction
    <2>2. q \in Plans /\ q.live = s.live /\ q.ops = s.ops /\ q.slots = s.slots /\ Within(q, s, e)
      BY <2>1, LifetimeType
    <2>3. Passes(p, q)
      BY <1>2, <2>2 DEF Passes
    <2>4. QED
      BY <2>2, <2>3 DEF Outcome
  <1>12. QED
    BY <1>8, <1>9, <1>10, <1>11 DEF Records, Funcs

------------------------------------------------------------------------------
(* The inductive invariant *)

\* An operation that uses a slot uses one that was handed out.
SlotsHandedOut(p) ==
  \A x \in Positions(p) : OpAt(p, x).kind # OpUnknownFree => OpAt(p, x).slot < p.slots

\* Two live addresses are two slots.
LiveSlotsDiffer(p) ==
  \A a, b \in Addresses :
    p.live[a] # NONE /\ p.live[b] # NONE /\ p.live[a].slot = p.live[b].slot => a = b

\* A live block has the newest generation of its slot, which nobody has
\* consumed and an operation not later than the block has published.
NewestGeneration(p, block) ==
  /\ block.slot < p.slots
  /\ p.min # NONE /\ p.min <= block.ts /\ block.ts <= p.max
  /\ \A x \in Positions(p) : OpAt(p, x).slot = block.slot =>
       /\ OpAt(p, x).kind \in {OpAlloc, OpRealloc} => OpAt(p, x).out <= block.gen
       /\ OpAt(p, x).kind \in {OpFree, OpRealloc} => OpAt(p, x).wait < block.gen
  /\ \E y \in Positions(p) : Publishes(p, y, block.slot, block.gen) /\ OpAt(p, y).ts <= block.ts

LiveIsNewest(p) == \A a \in Addresses : p.live[a] # NONE => NewestGeneration(p, p.live[a])

Stamps(p) == \A x \in Positions(p) : p.min # NONE /\ p.min <= OpAt(p, x).ts /\ OpAt(p, x).ts <= p.max

\* An allocation publishes the first generation, a reallocation the next one.
Shape(op) ==
  /\ op.kind = OpAlloc => op.out = 1 /\ op.empty = FALSE
  /\ op.kind = OpRealloc => op.out = op.wait + 1

Shapes(p) == \A x \in Positions(p) : Shape(OpAt(p, x))

Sound(p) ==
  /\ SlotsHandedOut(p) /\ LiveSlotsDiffer(p) /\ LiveIsNewest(p) /\ Stamps(p) /\ Shapes(p)
  /\ OncePublishedOnceConsumed(p) /\ PublishedBeforeConsumed(p)

\* The positions hold operations.
LEMMA OperationAt ==
  ASSUME NEW p \in Plans, NEW x \in Positions(p)
  PROVE  OpAt(p, x) \in Operations
  <1>1. p.ops \in [Tids -> Seq(Operations)]
    BY DEF Plans
  <1>2. PICK u \in Tids : x \in {u} \X (1 .. Len(p.ops[u]))
    BY DEF Positions
  <1>3. p.ops[x[1]][x[2]] \in Operations
    BY <1>1, <1>2
  <1>4. QED
    BY <1>3 DEF OpAt

\* A stamp within the span stays within it.
LEMMA SpanGrows ==
  ASSUME NEW p \in Plans, NEW q \in Plans, NEW e \in Records, Widens(p, q, e),
         NEW n \in Nat, p.min # NONE, p.min <= n, n <= p.max
  PROVE  q.min # NONE /\ q.min <= n /\ n <= q.max
  <1>1. p.min \in Nat /\ p.max \in Nat /\ q.min \in Nat /\ q.max \in Nat
    BY DEF Plans, Widens
  <1>2. QED
    BY <1>1, TraceAssumption DEF Widens

\* What a push adds to the positions, and what it leaves.
LEMMA PushPositions ==
  ASSUME NEW p \in Plans, NEW q \in Plans, NEW t \in Tids, NEW op, Pushes(p, q, t, op)
  PROVE  \E z : /\ z \notin Positions(p) /\ Positions(q) = Positions(p) \cup {z}
                /\ OpAt(q, z) = op
                /\ \A x \in Positions(p) : OpAt(q, x) = OpAt(p, x) /\ (x[1] = z[1] => x[2] < z[2])
  <1>0. p.ops \in [Tids -> Seq(Operations)] /\ op \in Operations
    BY DEF Plans, Pushes
  <1>n. PICK n \in Nat : n = Len(p.ops[t])
    BY <1>0
  <1>1. p.ops \in [Tids -> Seq(Operations)] /\ op \in Operations /\ n = Len(p.ops[t])
    BY <1>0, <1>n
  <1> DEFINE z == <<t, n + 1>>
  <1>2. /\ Len(q.ops[t]) = n + 1 /\ q.ops[t][n + 1] = op
        /\ \A i \in 1 .. n : q.ops[t][i] = p.ops[t][i]
        /\ \A u \in Tids \ {t} : q.ops[u] = p.ops[u]
    BY <1>1 DEF Pushes
  <1>3. \A x : x \in Positions(p) <=> \E u \in Tids : \E i \in 1 .. Len(p.ops[u]) : x = <<u, i>>
    BY DEF Positions
  <1>4. \A x : x \in Positions(q) <=> \E u \in Tids : \E i \in 1 .. Len(q.ops[u]) : x = <<u, i>>
    BY DEF Positions
  <1>5. ASSUME NEW u \in Tids
        PROVE  Len(p.ops[u]) \in Nat /\ Len(q.ops[u]) = IF u = t THEN n + 1 ELSE Len(p.ops[u])
    BY <1>1, <1>2
  <1>6. z \notin Positions(p)
    BY <1>3, <1>1
  <1>7. ASSUME NEW x
        PROVE  x \in Positions(q) <=> x \in Positions(p) \/ x = z
    <2>1. ASSUME x \in Positions(q) PROVE x \in Positions(p) \/ x = z
      <3>1. PICK u \in Tids : \E i \in 1 .. Len(q.ops[u]) : x = <<u, i>>
        BY <2>1, <1>4
      <3>2. PICK i \in 1 .. Len(q.ops[u]) : x = <<u, i>>
        BY <3>1
      <3>3. QED
        BY <3>2, <1>1, <1>3, <1>5
    <2>2. ASSUME x \in Positions(p) PROVE x \in Positions(q)
      <3>1. PICK u \in Tids : \E i \in 1 .. Len(p.ops[u]) : x = <<u, i>>
        BY <2>2, <1>3
      <3>2. PICK i \in 1 .. Len(p.ops[u]) : x = <<u, i>>
        BY <3>1
      <3>3. i \in 1 .. Len(q.ops[u])
        BY <1>1, <1>5
      <3>4. QED
        BY <3>2, <3>3, <1>4
    <2>3. z \in Positions(q)
      BY <1>1, <1>2, <1>4
    <2>4. QED
      BY <2>1, <2>2, <2>3
  <1>8. OpAt(q, z) = op
    BY <1>2 DEF OpAt
  <1>9. ASSUME NEW x \in Positions(p)
        PROVE  OpAt(q, x) = OpAt(p, x) /\ (x[1] = z[1] => x[2] < z[2])
    <2>1. PICK u \in Tids : \E i \in 1 .. Len(p.ops[u]) : x = <<u, i>>
      BY <1>3
    <2>2. PICK i \in 1 .. Len(p.ops[u]) : x = <<u, i>>
      BY <2>1
    <2>3. i \in Nat /\ (u = t => i <= n /\ q.ops[u][i] = p.ops[u][i])
      BY <1>1, <1>2
    <2>4. OpAt(q, x) = OpAt(p, x)
      BY <2>2, <2>3, <1>2 DEF OpAt
    <2>5. QED
      BY <2>2, <2>3, <2>4, <1>1
  <1>10. QED
    BY <1>6, <1>7, <1>8, <1>9

\* A record that changes neither the lists nor the map.
LEMMA PassesKeeps ==
  ASSUME NEW p \in Plans, Sound(p), NEW q \in Plans, NEW e \in Records, Widens(p, q, e), Passes(p, q)
  PROVE  Sound(q)
  <1>1. Positions(q) = Positions(p) /\ \A x \in Positions(p) : OpAt(q, x) = OpAt(p, x)
    BY DEF Positions, OpAt, Passes
  <1>2. q.live = p.live /\ q.slots = p.slots
    BY DEF Passes
  <1>3. \A x \in Positions(p) : OpAt(p, x).ts \in Nat
    BY OperationAt DEF Operations
  <1>4. SlotsHandedOut(q) /\ LiveSlotsDiffer(q) /\ OncePublishedOnceConsumed(q) /\ PublishedBeforeConsumed(q)
    BY <1>1, <1>2
      DEF Sound, SlotsHandedOut, LiveSlotsDiffer, OncePublishedOnceConsumed, PublishedBeforeConsumed, Publishes, Consumes
  <1>5. Stamps(q) /\ Shapes(q)
    BY <1>1, <1>3, SpanGrows DEF Sound, Stamps, Shapes
  <1>6. LiveIsNewest(q)
    <2> SUFFICES ASSUME NEW a \in Addresses, p.live[a] # NONE
                 PROVE  NewestGeneration(q, q.live[a])
      BY <1>2 DEF LiveIsNewest
    <2>1. PICK b \in Blocks : b = p.live[a] /\ NewestGeneration(p, b)
      BY DEF Sound, LiveIsNewest, Plans
    <2>2. q.live[a] = b
      BY <1>2, <2>1
    <2>3. q.min # NONE /\ q.min <= b.ts /\ b.ts <= q.max
      BY <2>1, SpanGrows DEF NewestGeneration, Blocks
    <2>4. \E y \in Positions(p) : Publishes(q, y, b.slot, b.gen) /\ OpAt(q, y).ts <= b.ts
      BY <1>1, <2>1 DEF NewestGeneration, Publishes
    <2>5. NewestGeneration(q, b)
      BY <1>1, <1>2, <2>1, <2>3, <2>4 DEF NewestGeneration
    <2>6. QED
      BY <2>2, <2>5
  <1>7. QED
    BY <1>4, <1>5, <1>6 DEF Sound

\* A push whose stamp lies in the span leaves every block whose slot it does
\* not use as it was.
LEMMA PushElsewhere ==
  ASSUME NEW p \in Plans, NEW q \in Plans, NEW e \in Records, Widens(p, q, e),
         NEW op, Pushes(p, q, e.tid, op), p.slots <= q.slots,
         NEW b \in Blocks, NewestGeneration(p, b),
         op.kind # OpUnknownFree => op.slot # b.slot
  PROVE  NewestGeneration(q, b)
  <1>1. PICK z : /\ z \notin Positions(p) /\ Positions(q) = Positions(p) \cup {z}
                 /\ OpAt(q, z) = op
                 /\ \A x \in Positions(p) : OpAt(q, x) = OpAt(p, x) /\ (x[1] = z[1] => x[2] < z[2])
    BY PushPositions DEF Records
  <1>2. q.min # NONE /\ q.min <= b.ts /\ b.ts <= q.max
    BY SpanGrows DEF NewestGeneration, Blocks
  <1>3. \E y \in Positions(q) : Publishes(q, y, b.slot, b.gen) /\ OpAt(q, y).ts <= b.ts
    BY <1>1 DEF NewestGeneration, Publishes
  <1>4. b.slot < q.slots
    <2>1. b.slot \in Nat /\ p.slots \in Nat /\ q.slots \in Nat
      BY DEF Blocks, Plans
    <2>2. QED
      BY <2>1 DEF NewestGeneration
  <1>5. \A x \in Positions(q) : OpAt(q, x).slot = b.slot =>
          /\ OpAt(q, x).kind \in {OpAlloc, OpRealloc} => OpAt(q, x).out <= b.gen
          /\ OpAt(q, x).kind \in {OpFree, OpRealloc} => OpAt(q, x).wait < b.gen
    BY <1>1 DEF NewestGeneration, OpAlloc, OpFree, OpRealloc, OpUnknownFree
  <1>6. QED
    BY <1>2, <1>3, <1>4, <1>5 DEF NewestGeneration

\* A push whose stamp lies in the span keeps every stamp in the span, and every
\* slot that was handed out.
LEMMA PushStamps ==
  ASSUME NEW p \in Plans, Sound(p), NEW q \in Plans, NEW e \in Records, Widens(p, q, e),
         NEW op, Pushes(p, q, e.tid, op), p.slots <= q.slots,
         q.min <= op.ts, op.ts <= q.max,
         op.kind # OpUnknownFree => op.slot < q.slots, Shape(op)
  PROVE  Stamps(q) /\ SlotsHandedOut(q) /\ Shapes(q)
  <1>1. PICK z : /\ z \notin Positions(p) /\ Positions(q) = Positions(p) \cup {z}
                 /\ OpAt(q, z) = op
                 /\ \A x \in Positions(p) : OpAt(q, x) = OpAt(p, x) /\ (x[1] = z[1] => x[2] < z[2])
    BY PushPositions DEF Records
  <1>2. \A x \in Positions(p) : OpAt(p, x) \in Operations
    BY OperationAt
  <1>3. q.min # NONE
    BY TraceAssumption DEF Widens
  <1>4. Stamps(q)
    <2> SUFFICES ASSUME NEW x \in Positions(q)
                 PROVE  q.min <= OpAt(q, x).ts /\ OpAt(q, x).ts <= q.max
      BY <1>3 DEF Stamps
    <2>1. CASE x \in Positions(p)
      <3>1. PICK n \in Nat : n = OpAt(p, x).ts
        BY <1>2, <2>1 DEF Operations
      <3>2. q.min <= n /\ n <= q.max
        BY <3>1, <2>1, SpanGrows DEF Sound, Stamps
      <3>3. QED
        BY <1>1, <2>1, <3>1, <3>2
    <2>2. QED
      BY <1>1, <2>1
  <1>5. SlotsHandedOut(q)
    <2>1. ASSUME NEW x \in Positions(p), OpAt(p, x).kind # OpUnknownFree
          PROVE  OpAt(p, x).slot < q.slots
      <3>1. OpAt(p, x).slot \in Nat /\ p.slots \in Nat /\ q.slots \in Nat
        BY <1>2 DEF Operations, Plans
      <3>2. QED
        BY <2>1, <3>1 DEF Sound, SlotsHandedOut
    <2>2. QED
      BY <1>1, <2>1 DEF SlotsHandedOut
  <1>6. Shapes(q)
    BY <1>1 DEF Sound, Shapes
  <1>7. QED
    BY <1>4, <1>5, <1>6

\* A free of an unknown block concerns no slot.
LEMMA IgnoresKeeps ==
  ASSUME NEW p \in Plans, Sound(p), NEW q \in Plans, NEW e \in Records, Widens(p, q, e), Ignores(p, q, e)
  PROVE  Sound(q)
  <1>1. PICK op \in Operations :
          /\ op = [ts |-> e.ts, kind |-> OpUnknownFree, slot |-> 0,
                   wait |-> 0, out |-> 0, empty |-> FALSE]
          /\ Pushes(p, q, e.tid, op)
    BY DEF Ignores, Pushes
  <1>2. q.live = p.live /\ q.slots = p.slots /\ p.slots \in Nat
    BY DEF Ignores, Plans
  <1>3. PICK z : /\ z \notin Positions(p) /\ Positions(q) = Positions(p) \cup {z}
                 /\ OpAt(q, z) = op
                 /\ \A x \in Positions(p) : OpAt(q, x) = OpAt(p, x) /\ (x[1] = z[1] => x[2] < z[2])
    BY <1>1, PushPositions DEF Records
  <1>4. op.kind = OpUnknownFree /\ op.kind \notin {OpAlloc, OpFree, OpRealloc}
          /\ q.min <= op.ts /\ op.ts <= q.max
    BY <1>1 DEF Widens, OpAlloc, OpFree, OpRealloc, OpUnknownFree
  <1>5. Stamps(q) /\ SlotsHandedOut(q) /\ Shapes(q)
    <2>1. Shape(op)
      BY <1>4 DEF Shape
    <2>2. QED
      BY <1>1, <1>2, <1>4, <2>1, PushStamps
  <1>6. LiveSlotsDiffer(q)
    BY <1>2 DEF Sound, LiveSlotsDiffer
  <1>7. OncePublishedOnceConsumed(q)
    BY <1>3, <1>4 DEF Sound, OncePublishedOnceConsumed, Publishes, Consumes
  <1>8. PublishedBeforeConsumed(q)
    BY <1>3, <1>4 DEF Sound, PublishedBeforeConsumed, Publishes
  <1>9. LiveIsNewest(q)
    <2> SUFFICES ASSUME NEW a \in Addresses, p.live[a] # NONE
                 PROVE  NewestGeneration(q, q.live[a])
      BY <1>2 DEF LiveIsNewest
    <2>1. PICK b \in Blocks : b = p.live[a] /\ NewestGeneration(p, b)
      BY DEF Sound, LiveIsNewest, Plans
    <2>2. q.live[a] = b
      BY <1>2, <2>1
    <2>3. NewestGeneration(q, b)
      BY <1>1, <1>2, <1>4, <2>1, PushElsewhere
    <2>4. QED
      BY <2>2, <2>3
  <1>10. QED
    BY <1>5, <1>6, <1>7, <1>8, <1>9 DEF Sound

\* A new slot has one operation, which publishes its first generation.
LEMMA AllocatesKeeps ==
  ASSUME NEW p \in Plans, Sound(p), NEW q \in Plans, NEW e \in Records, Widens(p, q, e), Allocates(p, q, e)
  PROVE  Sound(q)
  <1>1. PICK op \in Operations :
          /\ op = [ts |-> e.ts, kind |-> OpAlloc, slot |-> p.slots,
                   wait |-> 0, out |-> 1, empty |-> FALSE]
          /\ Pushes(p, q, e.tid, op)
    BY DEF Allocates, Pushes
  <1>2. PICK new \in Blocks : new = [slot |-> p.slots, gen |-> 1, ts |-> e.ts]
    <2>1. e.ts \in Nat /\ p.slots \in Nat
      BY DEF Records, Plans
    <2>2. [slot |-> p.slots, gen |-> 1, ts |-> e.ts] \in Blocks
      BY <2>1 DEF Blocks
    <2>3. QED
      BY <2>2
  <1>3. /\ q.live = [p.live EXCEPT ![e.result] = new] /\ e.result \in Addresses
        /\ q.slots = p.slots + 1 /\ p.slots \in Nat
        /\ p.live \in [Addresses -> Blocks \cup {NONE}]
    BY <1>2 DEF Allocates, Plans
  <1>4. PICK z : /\ z \notin Positions(p) /\ Positions(q) = Positions(p) \cup {z}
                 /\ OpAt(q, z) = op
                 /\ \A x \in Positions(p) : OpAt(q, x) = OpAt(p, x) /\ (x[1] = z[1] => x[2] < z[2])
    BY <1>1, PushPositions DEF Records
  <1>5. /\ op.kind = OpAlloc /\ op.kind \notin {OpUnknownFree, OpFree, OpRealloc}
        /\ op.slot = p.slots /\ op.out = 1
        /\ q.min <= op.ts /\ op.ts <= q.max /\ op.ts = e.ts
    BY <1>1 DEF Widens, OpAlloc, OpFree, OpRealloc, OpUnknownFree
  <1>6. /\ \A x \in Positions(p) : OpAt(p, x).kind # OpUnknownFree => OpAt(p, x).slot # p.slots
        /\ \A x \in Positions(p) : OpAt(p, x).kind \in {OpAlloc, OpRealloc, OpFree} =>
             OpAt(p, x).slot # p.slots
    <2>1. ASSUME NEW x \in Positions(p), OpAt(p, x).kind # OpUnknownFree
          PROVE  OpAt(p, x).slot # p.slots
      <3>1. OpAt(p, x).slot < p.slots
        BY <2>1 DEF Sound, SlotsHandedOut
      <3>2. QED
        BY <3>1, <1>3
    <2>2. QED
      BY <2>1 DEF OpAlloc, OpFree, OpRealloc, OpUnknownFree
  <1>7. \A a \in Addresses : p.live[a] # NONE => p.live[a].slot # p.slots
    <2> SUFFICES ASSUME NEW a \in Addresses, p.live[a] # NONE
                 PROVE  p.live[a].slot # p.slots
      OBVIOUS
    <2>1. p.live[a].slot < p.slots
      BY DEF Sound, LiveIsNewest, NewestGeneration
    <2>2. QED
      BY <2>1, <1>3
  <1>8. Stamps(q) /\ SlotsHandedOut(q) /\ Shapes(q)
    <2>1. Shape(op)
      BY <1>1, <1>5 DEF Shape
    <2>2. QED
      BY <1>1, <1>3, <1>5, <2>1, PushStamps
  <1>9. LiveSlotsDiffer(q)
    <2>1. new.slot = p.slots
      BY <1>2
    <2>2. QED
      BY <1>3, <1>7, <2>1 DEF Sound, LiveSlotsDiffer
  <1>10. OncePublishedOnceConsumed(q)
    <2>1. ASSUME NEW x \in Positions(q), NEW y \in Positions(q),
                 OpAt(q, x).kind \in {OpFree, OpRealloc},
                 Consumes(q, y, OpAt(q, x).slot, OpAt(q, x).wait)
          PROVE  x = y
      BY <1>4, <1>5, <2>1 DEF Sound, OncePublishedOnceConsumed, Consumes
    <2>2. ASSUME NEW x \in Positions(q), NEW y \in Positions(q),
                 OpAt(q, x).kind \in {OpAlloc, OpRealloc},
                 Publishes(q, y, OpAt(q, x).slot, OpAt(q, x).out)
          PROVE  x = y
      BY <1>4, <1>5, <1>6, <2>2 DEF Sound, OncePublishedOnceConsumed, Publishes
    <2>3. QED
      BY <2>1, <2>2 DEF OncePublishedOnceConsumed
  <1>11. PublishedBeforeConsumed(q)
    BY <1>4, <1>5 DEF Sound, PublishedBeforeConsumed, Publishes
  <1>12. LiveIsNewest(q)
    <2> SUFFICES ASSUME NEW a \in Addresses, q.live[a] # NONE
                 PROVE  NewestGeneration(q, q.live[a])
      BY DEF LiveIsNewest
    <2>1. CASE a = e.result
      <3>1. q.live[a] = new /\ new.slot = p.slots /\ new.gen = 1 /\ new.ts = e.ts
        BY <1>2, <1>3, <2>1
      <3>2. q.min # NONE
        BY TraceAssumption DEF Widens
      <3>3. Publishes(q, z, new.slot, new.gen) /\ OpAt(q, z).ts <= new.ts /\ z \in Positions(q)
        <4>1. e.ts \in Nat
          BY DEF Records
        <4>2. QED
          BY <4>1, <1>4, <1>5, <3>1 DEF Publishes
      <3>4. \A x \in Positions(q) : OpAt(q, x).slot = new.slot =>
              /\ OpAt(q, x).kind \in {OpAlloc, OpRealloc} => OpAt(q, x).out <= new.gen
              /\ OpAt(q, x).kind \in {OpFree, OpRealloc} => OpAt(q, x).wait < new.gen
        BY <1>4, <1>5, <1>6, <3>1
      <3>5. NewestGeneration(q, new)
        BY <1>3, <1>5, <3>1, <3>2, <3>3, <3>4 DEF NewestGeneration
      <3>6. QED
        BY <3>1, <3>5
    <2>2. CASE a # e.result
      <3>1. PICK b \in Blocks : b = p.live[a] /\ NewestGeneration(p, b) /\ q.live[a] = b
        BY <1>3, <2>2 DEF Sound, LiveIsNewest
      <3>2. b.slot # p.slots /\ p.slots <= q.slots
        BY <1>3, <1>7, <3>1, <2>2
      <3>3. NewestGeneration(q, b)
        BY <1>1, <1>5, <3>1, <3>2, PushElsewhere
      <3>4. QED
        BY <3>1, <3>3
    <2>3. QED
      BY <2>1, <2>2
  <1>13. QED
    BY <1>8, <1>9, <1>10, <1>11, <1>12 DEF Sound

\* The operation that ends a generation is the first to consume it, and comes
\* after the one that published it.
LEMMA EndsKeeps ==
  ASSUME NEW p \in Plans, Sound(p), NEW q \in Plans, NEW e \in Records, Widens(p, q, e),
         NEW op \in Operations, Ends(p, q, e, op),
         op.kind = OpFree \/ (op.kind = OpRealloc /\ op.out = op.wait + 1)
  PROVE  /\ Stamps(q) /\ SlotsHandedOut(q) /\ Shapes(q)
         /\ OncePublishedOnceConsumed(q) /\ PublishedBeforeConsumed(q)
         /\ \A a \in Addresses \ {e.address}, b \in Blocks :
              p.live[a] = b /\ b # NONE => NewestGeneration(q, b)
         /\ op.kind = OpRealloc =>
              \A moved \in Blocks :
                moved.slot = op.slot /\ moved.gen = op.out /\ moved.ts = op.ts
                  => NewestGeneration(q, moved)
  <1>1. PICK b \in Blocks : b = p.live[e.address] /\ NewestGeneration(p, b)
    BY DEF Ends, Sound, LiveIsNewest, Plans
  <1>2. /\ Pushes(p, q, e.tid, op) /\ op.slot = b.slot /\ op.wait = b.gen /\ op.ts = Later(e.ts, b.ts)
        /\ q.slots = p.slots /\ p.slots \in Nat
        /\ p.live \in [Addresses -> Blocks \cup {NONE}]
    BY <1>1 DEF Ends, Plans
  <1>3. /\ b.slot \in Nat /\ b.gen \in Nat /\ b.ts \in Nat /\ e.ts \in Nat
        /\ op.slot \in Nat /\ op.wait \in Nat /\ op.out \in Nat /\ op.ts \in Nat
    BY DEF Blocks, Records, Operations
  <1>4. PICK z : /\ z \notin Positions(p) /\ Positions(q) = Positions(p) \cup {z}
                 /\ OpAt(q, z) = op
                 /\ \A x \in Positions(p) : OpAt(q, x) = OpAt(p, x) /\ (x[1] = z[1] => x[2] < z[2])
    BY <1>2, PushPositions DEF Records
  <1>5. \A x \in Positions(p) : OpAt(p, x) \in Operations
    BY OperationAt
  <1>6. /\ op.kind \in {OpFree, OpRealloc} /\ op.kind # OpUnknownFree
        /\ op.kind \in {OpAlloc, OpRealloc} => op.kind = OpRealloc /\ op.out = b.gen + 1
    BY <1>2 DEF OpAlloc, OpFree, OpRealloc, OpUnknownFree
  <1>7. b.ts <= op.ts
    BY <1>2, <1>3 DEF Later
  <1>8. /\ \A x \in Positions(p) : OpAt(p, x).slot = op.slot /\ OpAt(p, x).kind \in {OpFree, OpRealloc}
             => OpAt(p, x).wait < op.wait
        /\ \A x \in Positions(p) : OpAt(p, x).slot = op.slot /\ OpAt(p, x).kind \in {OpAlloc, OpRealloc}
             => OpAt(p, x).out <= op.wait
    BY <1>1, <1>2 DEF NewestGeneration
  <1>9. Stamps(q) /\ SlotsHandedOut(q) /\ Shapes(q)
    <2>1. q.min <= b.ts /\ b.ts <= q.max
      BY <1>1, SpanGrows DEF NewestGeneration, Blocks
    <2>2. q.min <= op.ts /\ op.ts <= q.max
      BY <1>2, <2>1 DEF Widens, Later
    <2>3. op.slot < q.slots
      BY <1>1, <1>2 DEF NewestGeneration
    <2>4. Shape(op)
      BY <1>6 DEF Shape, OpAlloc, OpFree, OpRealloc
    <2>5. QED
      BY <1>2, <2>2, <2>3, <2>4, PushStamps
  <1>10. OncePublishedOnceConsumed(q)
    <2>1. ASSUME NEW x \in Positions(q), NEW y \in Positions(q),
                 OpAt(q, x).kind \in {OpFree, OpRealloc},
                 Consumes(q, y, OpAt(q, x).slot, OpAt(q, x).wait)
          PROVE  x = y
      <3>1. CASE x \in Positions(p) /\ y \in Positions(p)
        BY <1>4, <2>1, <3>1 DEF Sound, OncePublishedOnceConsumed, Consumes
      <3>2. CASE x \in Positions(p) /\ y = z
        <4>1. OpAt(p, x).wait < op.wait /\ OpAt(p, x).wait = op.wait
          BY <1>4, <1>8, <2>1, <3>2 DEF Consumes
        <4>2. QED
          BY <4>1, <1>3
      <3>3. CASE x = z /\ y \in Positions(p)
        <4>1. OpAt(p, y).wait < op.wait /\ OpAt(p, y).wait = op.wait
          BY <1>4, <1>8, <2>1, <3>3 DEF Consumes
        <4>2. QED
          BY <4>1, <1>3
      <3>4. QED
        BY <1>4, <2>1, <3>1, <3>2, <3>3
    <2>2. ASSUME NEW x \in Positions(q), NEW y \in Positions(q),
                 OpAt(q, x).kind \in {OpAlloc, OpRealloc},
                 Publishes(q, y, OpAt(q, x).slot, OpAt(q, x).out)
          PROVE  x = y
      <3>1. CASE x \in Positions(p) /\ y \in Positions(p)
        BY <1>4, <2>2, <3>1 DEF Sound, OncePublishedOnceConsumed, Publishes
      <3>2. CASE x \in Positions(p) /\ y = z
        <4>1. OpAt(p, x).out <= op.wait /\ OpAt(p, x).out = op.wait + 1
          BY <1>2, <1>4, <1>6, <1>8, <2>2, <3>2 DEF Publishes
        <4>2. QED
          BY <4>1, <1>3
      <3>3. CASE x = z /\ y \in Positions(p)
        <4>1. OpAt(p, y).out <= op.wait /\ OpAt(p, y).out = op.wait + 1
          BY <1>2, <1>4, <1>6, <1>8, <2>2, <3>3 DEF Publishes
        <4>2. QED
          BY <4>1, <1>3
      <3>4. QED
        BY <1>4, <2>2, <3>1, <3>2, <3>3
    <2>3. QED
      BY <2>1, <2>2 DEF OncePublishedOnceConsumed
  <1>11. PublishedBeforeConsumed(q)
    <2> SUFFICES ASSUME NEW x \in Positions(q), OpAt(q, x).kind \in {OpFree, OpRealloc}
                 PROVE  \E y \in Positions(q) :
                          /\ Publishes(q, y, OpAt(q, x).slot, OpAt(q, x).wait)
                          /\ OpAt(q, y).ts <= OpAt(q, x).ts
                          /\ x[1] = y[1] => y[2] < x[2]
      BY DEF PublishedBeforeConsumed
    <2>1. CASE x \in Positions(p)
      BY <1>4, <2>1 DEF Sound, PublishedBeforeConsumed, Publishes
    <2>2. CASE x = z
      <3>1. PICK y \in Positions(p) : Publishes(p, y, b.slot, b.gen) /\ OpAt(p, y).ts <= b.ts
        BY <1>1 DEF NewestGeneration
      <3>2. OpAt(p, y).ts \in Nat
        BY <1>5 DEF Operations
      <3>3. OpAt(p, y).ts <= op.ts
        BY <1>3, <1>7, <3>1, <3>2
      <3>4. Publishes(q, y, OpAt(q, x).slot, OpAt(q, x).wait)
        BY <1>2, <1>4, <2>2, <3>1 DEF Publishes
      <3>5. QED
        BY <1>4, <2>2, <3>3, <3>4
    <2>3. QED
      BY <1>4, <2>1, <2>2
  <1>12. ASSUME NEW a \in Addresses \ {e.address}, NEW c \in Blocks, p.live[a] = c, c # NONE
         PROVE  NewestGeneration(q, c)
    <2>1. NewestGeneration(p, c)
      BY <1>12 DEF Sound, LiveIsNewest
    <2>2. c.slot # op.slot
      BY <1>1, <1>2, <1>12 DEF Sound, LiveSlotsDiffer, Ends
    <2>3. QED
      BY <1>2, <2>1, <2>2, PushElsewhere
  <1>13. ASSUME NEW moved \in Blocks, op.kind = OpRealloc,
                moved.slot = op.slot, moved.gen = op.out, moved.ts = op.ts
         PROVE  NewestGeneration(q, moved)
    <2>1. op.out = op.wait + 1
      BY <1>13 DEF OpFree, OpRealloc
    <2>2. \A x \in Positions(q) : OpAt(q, x).slot = moved.slot =>
            /\ OpAt(q, x).kind \in {OpAlloc, OpRealloc} => OpAt(q, x).out <= moved.gen
            /\ OpAt(q, x).kind \in {OpFree, OpRealloc} => OpAt(q, x).wait < moved.gen
      <3> SUFFICES ASSUME NEW x \in Positions(q), OpAt(q, x).slot = moved.slot
                   PROVE  /\ OpAt(q, x).kind \in {OpAlloc, OpRealloc} => OpAt(q, x).out <= moved.gen
                          /\ OpAt(q, x).kind \in {OpFree, OpRealloc} => OpAt(q, x).wait < moved.gen
        OBVIOUS
      <3>1. CASE x \in Positions(p)
        <4>1. OpAt(p, x).out \in Nat /\ OpAt(p, x).wait \in Nat /\ OpAt(q, x) = OpAt(p, x)
          BY <1>4, <1>5, <3>1 DEF Operations
        <4>2. QED
          BY <1>3, <1>8, <1>13, <2>1, <3>1, <4>1
      <3>2. CASE x = z
        BY <1>3, <1>4, <1>13, <2>1, <3>2
      <3>3. QED
        BY <1>4, <3>1, <3>2
    <2>3. z \in Positions(q) /\ Publishes(q, z, moved.slot, moved.gen) /\ OpAt(q, z).ts <= moved.ts
      BY <1>3, <1>4, <1>13 DEF Publishes
    <2>4. q.min # NONE /\ q.min <= moved.ts /\ moved.ts <= q.max
      <3>1. q.min # NONE
        BY TraceAssumption DEF Widens
      <3>2. QED
        BY <1>4, <1>9, <1>13, <3>1 DEF Stamps
    <2>5. moved.slot < q.slots
      BY <1>1, <1>2, <1>13 DEF NewestGeneration
    <2>6. QED
      BY <2>2, <2>3, <2>4, <2>5 DEF NewestGeneration
  <1>14. QED
    BY <1>9, <1>10, <1>11, <1>12, <1>13

\* A free takes the newest generation of its slot, and leaves the others.
LEMMA ReleasesKeeps ==
  ASSUME NEW p \in Plans, Sound(p), NEW q \in Plans, NEW e \in Records, Widens(p, q, e),
         NEW op \in Operations, Releases(p, q, e, op)
  PROVE  Sound(q)
  <1>1. /\ Stamps(q) /\ SlotsHandedOut(q) /\ Shapes(q)
         /\ OncePublishedOnceConsumed(q) /\ PublishedBeforeConsumed(q)
        /\ \A a \in Addresses \ {e.address}, b \in Blocks :
             p.live[a] = b /\ b # NONE => NewestGeneration(q, b)
    BY EndsKeeps DEF Releases
  <1>2. /\ q.live = [p.live EXCEPT ![e.address] = NONE] /\ e.address \in Addresses
        /\ p.live \in [Addresses -> Blocks \cup {NONE}]
    BY DEF Releases, Ends, Plans
  <1>3. LiveSlotsDiffer(q)
    BY <1>2 DEF Sound, LiveSlotsDiffer
  <1>4. LiveIsNewest(q)
    <2> SUFFICES ASSUME NEW a \in Addresses, q.live[a] # NONE
                 PROVE  NewestGeneration(q, q.live[a])
      BY DEF LiveIsNewest
    <2>1. PICK b \in Blocks : b = p.live[a] /\ b = q.live[a] /\ b # NONE /\ a # e.address
      BY <1>2
    <2>2. NewestGeneration(q, b)
      BY <1>1, <2>1
    <2>3. QED
      BY <2>1, <2>2
  <1>5. QED
    BY <1>1, <1>3, <1>4 DEF Sound

\* A realloc of a known block keeps its slot, or ends its generation.
LEMMA MovesKeeps ==
  ASSUME NEW p \in Plans, Sound(p), NEW q \in Plans, NEW e \in Records, Widens(p, q, e),
         NEW op \in Operations, Moves(p, q, e, op)
  PROVE  Sound(q)
  <1>1. /\ Stamps(q) /\ SlotsHandedOut(q) /\ Shapes(q)
         /\ OncePublishedOnceConsumed(q) /\ PublishedBeforeConsumed(q)
        /\ \A a \in Addresses \ {e.address}, b \in Blocks :
             p.live[a] = b /\ b # NONE => NewestGeneration(q, b)
        /\ \A moved \in Blocks :
             moved.slot = op.slot /\ moved.gen = op.out /\ moved.ts = op.ts
               => NewestGeneration(q, moved)
    BY EndsKeeps DEF Moves
  <1>2. PICK moved \in Blocks : moved = [slot |-> op.slot, gen |-> op.out, ts |-> op.ts]
    <2>1. op.out \in Nat \ {0} /\ op.slot \in Nat /\ op.ts \in Nat
      BY DEF Moves, Operations
    <2>2. [slot |-> op.slot, gen |-> op.out, ts |-> op.ts] \in Blocks
      BY <2>1 DEF Blocks
    <2>3. QED
      BY <2>2
  <1>3. /\ q.live = [[p.live EXCEPT ![e.address] = NONE] EXCEPT ![e.result] = moved]
        /\ e.address \in Addresses /\ e.result \in Addresses
        /\ p.live[e.address] # NONE /\ op.slot = p.live[e.address].slot
        /\ p.live \in [Addresses -> Blocks \cup {NONE}]
    BY <1>2 DEF Moves, Ends, Plans
  <1>4. NewestGeneration(q, moved)
    BY <1>1, <1>2
  <1>5. \A a \in Addresses : q.live[a] # NONE =>
          \/ a = e.result /\ q.live[a] = moved
          \/ a \notin {e.address, e.result} /\ q.live[a] = p.live[a]
    BY <1>3
  <1>6. LiveSlotsDiffer(q)
    <2> SUFFICES ASSUME NEW a \in Addresses, NEW b \in Addresses,
                        q.live[a] # NONE, q.live[b] # NONE,
                        q.live[a].slot = q.live[b].slot
                 PROVE  a = b
      BY DEF LiveSlotsDiffer
    <2>1. moved.slot = p.live[e.address].slot
      BY <1>2, <1>3
    <2>2. QED
      BY <1>3, <1>5, <2>1 DEF Sound, LiveSlotsDiffer
  <1>7. LiveIsNewest(q)
    <2> SUFFICES ASSUME NEW a \in Addresses, q.live[a] # NONE
                 PROVE  NewestGeneration(q, q.live[a])
      BY DEF LiveIsNewest
    <2>1. CASE q.live[a] = moved
      BY <1>4, <2>1
    <2>2. CASE a \notin {e.address, e.result} /\ q.live[a] = p.live[a]
      <3>1. PICK b \in Blocks : b = p.live[a] /\ b = q.live[a] /\ b # NONE
        BY <1>3, <2>2
      <3>2. NewestGeneration(q, b)
        BY <1>1, <2>2, <3>1
      <3>3. QED
        BY <3>1, <3>2
    <2>3. QED
      BY <1>5, <2>1, <2>2
  <1>8. QED
    BY <1>1, <1>6, <1>7 DEF Sound

\* A worker starts within the span, and only a trace without records has none.
Lived(p) ==
  /\ p.min # NONE => p.min <= p.max
  /\ \A t \in Tids :
       /\ p.start[t] # NONE => p.min # NONE /\ p.start[t] <= p.max
       /\ p.first[t] # NONE => p.min # NONE /\ p.first[t] <= p.max
       /\ p.end[t] # NONE => p.min # NONE

\* Every record keeps a plan sound.
LEMMA PreparedKeeps ==
  ASSUME NEW p \in Plans, Sound(p), Lived(p), NEW e \in Records, NEW q, q = Prepared(p, e)
  PROVE  q \in Plans /\ Sound(q) /\ Lived(q)
  <1>1. /\ q \in Plans /\ Widens(p, q, e) /\ Outcome(p, q, e)
        /\ \A t \in Tids : q.start[t] \in {p.start[t], e.ts} /\ q.first[t] \in {p.first[t], e.ts}
    BY PreparedOutcome
  <1>2. Sound(q)
    BY <1>1, PassesKeeps, AllocatesKeeps, IgnoresKeeps, ReleasesKeeps, MovesKeeps DEF Outcome
  <1>3. /\ q.min \in Nat /\ q.min # NONE /\ q.max \in Nat /\ p.max \in Nat /\ e.ts \in Nat
        /\ p.max <= q.max /\ q.min <= e.ts /\ e.ts <= q.max
    BY <1>1, TraceAssumption DEF Plans, Records, Widens
  <1>4. ASSUME NEW n, NEW m, n # NONE => n <= p.max, n \in Nat \cup {NONE},
               m \in {n, e.ts}, m # NONE
        PROVE  m <= q.max
    BY <1>3, <1>4
  <1>5. ASSUME NEW t \in Tids
        PROVE  /\ q.start[t] # NONE => q.start[t] <= q.max
               /\ q.first[t] # NONE => q.first[t] <= q.max
    <2>1. p.start[t] \in Nat \cup {NONE} /\ p.first[t] \in Nat \cup {NONE}
      BY DEF Plans
    <2>2. QED
      BY <1>1, <1>4, <2>1 DEF Lived
  <1>6. Lived(q)
    BY <1>3, <1>5 DEF Lived
  <1>7. QED
    BY <1>1, <1>2, <1>6

\* So is the plan of no records.
LEMMA EmptyPlanSound == EmptyPlan \in Plans /\ Sound(EmptyPlan) /\ Lived(EmptyPlan)
  <1>1. EmptyPlan \in Plans
    BY DEF EmptyPlan, Plans
  <1>2. \A t \in Tids : EmptyPlan.ops[t] = <<>>
    BY DEF EmptyPlan
  <1>3. Positions(EmptyPlan) = {}
    BY <1>2 DEF Positions
  <1>4. \A a \in Addresses : EmptyPlan.live[a] = NONE
    BY DEF EmptyPlan
  <1>5. Sound(EmptyPlan)
    BY <1>3, <1>4 DEF Sound, SlotsHandedOut, LiveSlotsDiffer, LiveIsNewest, Stamps, Shapes,
                      OncePublishedOnceConsumed, PublishedBeforeConsumed
  <1>6. Lived(EmptyPlan)
    BY DEF Lived, EmptyPlan
  <1>7. QED
    BY <1>1, <1>5, <1>6

\* h holds the plans of the first m records of a trace.
Follows(trace, h, m) ==
  h = [n \in 0 .. m |-> IF n = 0 THEN EmptyPlan ELSE Prepared(h[n - 1], trace[n])]

\* They exist, record by record.
LEMMA PlansExist ==
  ASSUME NEW trace
  PROVE  \A m \in Nat : \E h : Follows(trace, h, m)
  <1> DEFINE Bad == { m \in Nat : ~\E h : Follows(trace, h, m) }
  <1> SUFFICES ASSUME Bad # {} PROVE FALSE
    OBVIOUS
  <1>1. PICK m \in Bad : \A n \in Bad : m <= n
    <2>1. Bad \in SUBSET Nat
      OBVIOUS
    <2> HIDE DEF Bad
    <2>2. QED
      BY <2>1, LeastNat
  <1>2. m # 0
    <2> DEFINE h == [n \in 0 .. 0 |-> EmptyPlan]
    <2>1. Follows(trace, h, 0)
      BY DEF Follows
    <2>2. QED
      BY <2>1
  <1>3. m \in Nat /\ m - 1 \in Nat /\ m - 1 \notin Bad
    BY <1>1, <1>2
  <1>4. PICK g : Follows(trace, g, m - 1)
    BY <1>3
  <1> DEFINE h == [n \in 0 .. m |-> IF n = m THEN Prepared(g[m - 1], trace[m]) ELSE g[n]]
  <1>5. ASSUME NEW n \in 0 .. m
        PROVE  h[n] = IF n = 0 THEN EmptyPlan ELSE Prepared(h[n - 1], trace[n])
    <2>1. CASE n = m
      <3>1. n - 1 \in 0 .. m /\ n - 1 # m /\ n # 0
        BY <1>2, <1>3, <2>1
      <3>2. h[n - 1] = g[m - 1]
        BY <2>1, <3>1
      <3>3. QED
        BY <2>1, <3>1, <3>2
    <2>2. CASE n # m
      <3>1. n \in 0 .. (m - 1) /\ h[n] = g[n]
        BY <1>3, <2>2
      <3>2. g[n] = IF n = 0 THEN EmptyPlan ELSE Prepared(g[n - 1], trace[n])
        BY <1>4, <3>1 DEF Follows
      <3>3. n # 0 => h[n - 1] = g[n - 1]
        BY <1>3, <3>1
      <3>4. QED
        BY <3>1, <3>2, <3>3
    <2>3. QED
      BY <2>1, <2>2
  <1>6. h = [n \in 0 .. m |-> h[n]]
    OBVIOUS
  <1> HIDE DEF h
  <1>7. Follows(trace, h, m)
    BY <1>5, <1>6 DEF Follows
  <1>8. QED
    BY <1>1, <1>7

\* The plan of any trace is sound.
THEOREM PreprocessedSound ==
  ASSUME NEW trace \in Seq(Records)
  PROVE  LET p == Preprocessed(trace) IN p \in Plans /\ Sound(p) /\ Lived(p)
  <1>1. PICK l \in Nat : l = Len(trace)
    OBVIOUS
  <1> DEFINE h == CHOOSE g : Follows(trace, g, l)
             Good(p) == p \in Plans /\ Sound(p) /\ Lived(p)
  <1>2. Preprocessed(trace) = h[l]
    BY <1>1, Zenon DEF Preprocessed, Follows
  <1>3. Follows(trace, h, l)
    <2>1. \E g : Follows(trace, g, l)
      BY PlansExist
    <2>2. QED
      BY <2>1, Zenon
  <1> HIDE DEF h
  <1> DEFINE Bad == { n \in 0 .. l : ~Good(h[n]) }
  <1> SUFFICES ASSUME Bad # {} PROVE FALSE
    BY <1>1, <1>2
  <1>4. PICK n \in Bad : \A k \in Bad : n <= k
    <2>1. Bad \in SUBSET Nat
      OBVIOUS
    <2> HIDE DEF Bad
    <2>2. QED
      BY <2>1, LeastNat
  <1>5. h[n] = IF n = 0 THEN EmptyPlan ELSE Prepared(h[n - 1], trace[n])
    BY <1>3, <1>4 DEF Follows
  <1>6. CASE n = 0
    BY <1>4, <1>5, <1>6, EmptyPlanSound
  <1>7. CASE n # 0
    <2>1. n - 1 \in 0 .. l /\ n - 1 \notin Bad /\ trace[n] \in Records
      BY <1>1, <1>4, <1>7
    <2>2. Good(h[n - 1])
      BY <2>1
    <2>3. Good(h[n])
      BY <1>5, <1>7, <2>1, <2>2, PreparedKeeps
    <2>4. QED
      BY <1>4, <2>3
  <1>8. QED
    BY <1>6, <1>7
==============================================================================
