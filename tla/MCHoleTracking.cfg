SPECIFICATION Spec
CONSTANTS
  p1 = p1
  p2 = p2
  p3 = p3
  p4 = p4
  p5 = p5
  t1 = t1
  t2 = t2
  Pointers = {p1, p2, p3, p4, p5}
  Threads = {t1, t2}
  Sizes = {0, 9}
  Shards = {0, 1}
  SlotsPerShard = 2
  MaxProbes = 128
  ShardOf <- MCShardOf
  Home <- MCHome
  EMPTY = EMPTY
  TOMBSTONE = TOMBSTONE
  NONE = NONE
  Sampled = {p1, p2, p3, p4}
  Inherited = {p4}
  Buckets = {"8", "16"}
  BucketOf <- MCBucketOf
  HoleOf <- MCHoleOf
  MaxCalls = 4
SYMMETRY Symmetry
INVARIANTS TypeOK TableSound RecordsAreTrue CountersMatchTable LossesReported
PROPERTY LedgerSpec
CHECK_DEADLOCK FALSE
