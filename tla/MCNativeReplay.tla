--------------------------- MODULE MCNativeReplay ----------------------------
(* Small traces for NativeReplay. *)
EXTENDS NativeReplay

CONSTANTS t1, t2, t3, a1, a2

Record(func, t, ts, address, result, empty) ==
  [func |-> func, tid |-> t, ts |-> ts, address |-> address, result |-> result, empty |-> empty]

A(t, ts, a) == Record(Alloc, t, ts, NULL, a, FALSE)
F(t, ts, a) == Record(Free, t, ts, a, NULL, FALSE)
R(t, ts, a, b) == Record(Realloc, t, ts, a, b, FALSE)
R0(t, ts, a, b) == Record(Realloc, t, ts, a, b, TRUE)
Life(t, ts) == Record(Lifecycle, t, ts, NULL, NULL, TRUE)

\* t1 allocates, t2 frees and recycles the slot, t1 allocates again.
HandOver ==
  << Life(t1, 0), A(t1, 1, a1), F(t2, 1, a1), A(t2, 2, a2), A(t1, 2, a1), F(t1, 2, a2), F(t2, 2, a1) >>

\* The same block goes round three threads; its slot is reused by the third.
Round ==
  << A(t1, 1, a1), R(t2, 1, a1, a2), F(t3, 1, a2), A(t3, 2, a1), F(t1, 2, a1) >>

\* Reallocations that fail, release, move, and have no block.
Resizes ==
  << A(t1, 1, a1), R(t2, 1, a1, NULL), R(t1, 1, a1, a2), R0(t2, 1, a2, NULL), R(t2, 2, NULL, a1),
     R0(t1, 2, a1, a1) >>

\* Records of blocks that the trace does not know, and a failed allocation.
Strangers == << F(t1, 1, a1), A(t2, 1, NULL), R(t2, 1, a2, a1), F(t1, 2, a1), F(t2, 2, NULL) >>

\* An address given out twice is refused, and so is a trace without calls.
Doubled == << A(t1, 1, a1), A(t2, 1, a1) >>
Silent == << Life(t1, 1) >>

\* A slot used until its generations are at their end.
Worn == << A(t1, 1, a1), F(t1, 1, a1), A(t1, 1, a1), F(t1, 1, a1), A(t1, 1, a1) >>

\* Every trace of four records in which two threads pass two blocks between
\* them, and every block a record names is known: t1 allocates a1 and makes at
\* most one more call.
Exchanges ==
  LET pair == {t1, t2}
      blocks == {a1, a2}
      RecordsAt(ts) ==
        UNION { { A(t, ts, a), F(t, ts, a), R(t, ts, a, NULL), R0(t, ts, a, NULL) }
                  \cup { R(t, ts, a, b) : b \in blocks } : t \in pair, a \in blocks }
      Known(trace) ==
        LET made == ImageOf(trace)
        IN  /\ ~made.refused
            /\ \A t \in pair : \A i \in 1 .. Len(made.ops[t]) :
                 made.ops[t][i].kind \notin {OpUnknownFree, OpReallocNull}
      Longer(traces) ==
        { trace \in { Append(s, e) : s \in traces, e \in RecordsAt(Len(CHOOSE s \in traces : TRUE) \div 2 + 1) } :
            Known(trace) }
  IN  { trace \in Longer(Longer(Longer({<< A(t1, 1, a1) >>}))) :
          Len(ImageOf(trace).ops[t2]) >= 2 }

AllTraces == Exchanges \cup {HandOver, Round, Resizes, Strangers, Doubled, Silent, Worn}
==============================================================================
