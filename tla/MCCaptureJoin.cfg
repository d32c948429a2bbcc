SPECIFICATION Spec
CONSTANTS
  t0 = t0
  t1 = t1
  t2 = t2
  t3 = t3
  h1 = h1
  h2 = h2
  a1 = a1
  a2 = a2
  Initial = t0
  Threads = {t0, t1, t2, t3}
  Handles = {h1, h2}
  Addresses = {a1, a2}
  Capacity = 10
  Home <- Colliding
  Budgets <- ManyThreads
  NULL = NULL
INVARIANT JoinsAreRecorded
SYMMETRY Symmetry
CHECK_DEADLOCK FALSE
