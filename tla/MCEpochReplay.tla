--------------------------- MODULE MCEpochReplay -----------------------------
(* Small traces for EpochReplay. *)
EXTENDS EpochReplay, SequencesExt

CONSTANTS t1, t2, t3, a1, a2

Record(func, t, ts, address, result) ==
  [func |-> func, tid |-> t, ts |-> ts, address |-> address, result |-> result,
   empty |-> func = ReallocI /\ result = NULL]

Alloc(t, ts, a) == Record(AllocI, t, ts, NULL, a)
Free(t, ts, a) == Record(FreeI, t, ts, a, NULL)
Realloc(t, ts, a, b) == Record(ReallocI, t, ts, a, b)
Start(t, ts) == Record(ThreadStartI, t, ts, NULL, NULL)
End(t, ts) == Record(ThreadEndI, t, ts, NULL, NULL)

\* Two workers that hand blocks to each other in every epoch: a free that waits
\* for a realloc of the other, a block that moves, one that is released by a
\* realloc, an unknown free, and a block that outlives the trace.
Exchange ==
  << Start(t1, 1), Start(t2, 1), Alloc(t1, 1, a1), Realloc(t2, 1, a1, a2), Free(t1, 2, a2),
     Alloc(t2, 3, a1), Realloc(t1, 4, a1, NULL), Free(t2, 4, a2), Alloc(t1, 5, a1),
     Free(t2, 5, a1), Alloc(t2, 5, a1), End(t1, 5), End(t2, 6) >>

\* Three workers, of which one ends early and one has no operations.
Company ==
  << Alloc(t1, 1, a1), Start(t3, 2), Free(t2, 2, a1), Alloc(t2, 4, a2), End(t3, 5),
     Free(t1, 6, a2) >>

\* The second thread starts while the first is under way, and outlives it.
Latecomer ==
  << Start(t1, 1), Alloc(t1, 1, a1), Start(t2, 3), Alloc(t1, 3, a2), Free(t2, 3, a1),
     End(t1, 4), Alloc(t2, 5, a1), Free(t2, 7, a2), End(t2, 8) >>

\* Nobody is left when the second thread starts.
Relay ==
  << Start(t1, 1), Alloc(t1, 1, a1), End(t1, 2), Start(t2, 5), Free(t2, 5, a1), End(t2, 6) >>

\* Every trace in which two threads in turn hand each other two blocks: t1
\* allocates a1, and three records follow, each at the time of the one before
\* or an epoch later, none of which frees an unknown block.
Exchanges ==
  LET blocks == {a1, a2}
      Known(trace) == \A t \in {t1, t2} :
        LET ops == Preprocessed(trace).ops[t]
        IN  \A i \in 1 .. Len(ops) : ops[i].kind # OpUnknownFree
      After(e) ==
        LET t == IF e.tid = t1 THEN t2 ELSE t1
        IN  UNION { {Free(t, ts, a), Realloc(t, ts, a, NULL)}
                      \cup { Realloc(t, ts, a, b) : b \in blocks } : ts \in {e.ts, e.ts + 1}, a \in blocks }
      Longer(traces) ==
        { trace \in UNION { { Append(s, e) : e \in After(Last(s)) } : s \in traces } : Known(trace) }
  IN  Longer(Longer(Longer({<<Alloc(t1, 1, a1)>>})))

AllTraces == Exchanges \cup {Exchange, Company, Latecomer, Relay}
LateTraces == {Latecomer}
==============================================================================
