------------------------ MODULE MCSyntheticWorkload --------------------------
(* Small profiles for SyntheticWorkload. *)
EXTENDS SyntheticWorkload

CONSTANTS t1, t2, t3

Quota(malloc, realloc, free, free_sized, remote, null, route) ==
  [counts |-> [f \in FunctionIds |->
                 CASE f = "malloc" -> malloc [] f = "realloc" -> realloc
                   [] f = "free" -> free [] f = "free_sized" -> free_sized],
   remote_free |-> remote, realloc_null |-> null, route |-> route]

Idle == Quota(0, 0, 0, 0, 0, 0, <<>>)

Phase(m1, m2, m3) == [t \in Threads |-> CASE t = t1 -> m1 [] t = t2 -> m2 [] t = t3 -> m3]
Profile(size, waves) == [capacity |-> [t \in Threads |-> size], waves |-> waves]

\* Two threads push on the stack inbound of a third, which may come too early.
Producers ==
  Profile(2, << << Phase(Quota(1, 0, 0, 0, 0, 0, <<t3>>), Quota(1, 0, 0, 0, 0, 0, <<t3>>),
                         Quota(0, 0, 1, 1, 2, 0, <<>>)) >> >>)

\* Two threads give descriptors back to a third, which goes on allocating, and
\* allocates alone in a second wave.
Consumers ==
  Profile(3, << << Phase(Quota(2, 0, 0, 0, 0, 0, <<t2, t3>>), Quota(0, 0, 1, 0, 1, 0, <<>>),
                         Quota(0, 0, 1, 0, 1, 0, <<>>)) >>,
                << Phase(Quota(1, 0, 1, 0, 0, 0, <<>>), Idle, Idle) >> >>)

\* Blocks that a later wave frees, in two phases, with frees of nothing.
Carried ==
  Profile(3, << << Phase(Quota(1, 0, 1, 0, 0, 0, <<t2>>), Quota(1, 0, 0, 0, 0, 0, <<>>), Idle) >>,
                << Phase(Idle, Quota(0, 0, 1, 1, 1, 0, <<>>), Idle),
                   Phase(Quota(1, 0, 1, 0, 0, 0, <<>>), Idle, Idle) >> >>)

\* Reallocations with and without a block, one of them published.
Resized ==
  Profile(3, << << Phase(Quota(1, 2, 1, 1, 0, 1, <<t2>>), Quota(0, 1, 1, 0, 1, 0, <<>>), Idle) >> >>)

\* Too few descriptors: the failure of one must not keep the other waiting.
Cramped ==
  Profile(1, << << Phase(Quota(2, 0, 0, 0, 0, 0, <<t2, t2>>), Quota(0, 0, 2, 0, 2, 0, <<>>), Idle) >> >>)

AllProfiles == {Producers, Consumers, Carried, Resized, Cramped}
PairProfiles == {Producers}
=============================================================================
