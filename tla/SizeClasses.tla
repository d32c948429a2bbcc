----------------------------- MODULE SizeClasses -----------------------------
(***************************************************************************)
(* The sizes malloc_hole_hook.c computes with: the size class a request is *)
(* rounded to, the bucket it is counted in and its bucket in the live      *)
(* histogram, whose boundaries are chosen so that the holes of three other *)
(* allocators can be computed afterwards.                                  *)
(*                                                                         *)
(* The functions have no state; the specification walks through the sizes  *)
(* a call can request, one by one up to the largest small class and then   *)
(* by leaps.                                                               *)
(***************************************************************************)
EXTENDS Integers, FiniteSets

CONSTANTS
  SizeMax,        \* SIZE_MAX
  LargeRequests   \* sizes above the small classes to try

ASSUME SizeAssumption ==
  /\ SizeMax \in Nat /\ SizeMax > 270000
  /\ SizeMax % 4096 = 4095
  /\ LargeRequests \subseteq 16385 .. SizeMax

VARIABLE requested

SmallLimit == 16384
PageSize == 4096            \* LARGE_ALLOCATION_ALIGNMENT
LargeBucket == 160          \* SMALL_SIZE_CLASS_COUNT
LargeStart == 164           \* LIVE_HISTOGRAM_LARGE_START
ExplicitClasses == 176      \* LIVE_HISTOGRAM_EXPLICIT_CLASS_COUNT

AtLeastOne(n) == IF n = 0 THEN 1 ELSE n

\* A faulty rounding, (n | (a - 1)) + 1, which moves multiples of a.
RoundUpPast(n, a) == n - (n % a) + a

\* (n + a - 1) & ~(a - 1) of unsigned numbers, for a power of two a.
RoundUp(n, a) == LET sum == (n + a - 1) % (SizeMax + 1) IN sum - (sum % a)

------------------------------------------------------------------------------

\* A faulty table of classes: a step that is one class too long.
SmallClassShifted(index) ==
  IF index <= 32 THEN (index + 1) * 8
  ELSE IF index < 48 THEN 256 + (index - 31) * 16
  ELSE IF index < 64 THEN 512 + (index - 47) * 32
  ELSE IF index < 80 THEN 1024 + (index - 63) * 64
  ELSE IF index < 128 THEN 2048 + (index - 79) * 128
  ELSE 8192 + (index - 127) * 256

\* small_size_class_at
SmallClass(index) ==
  IF index < 32 THEN (index + 1) * 8
  ELSE IF index < 48 THEN 256 + (index - 31) * 16
  ELSE IF index < 64 THEN 512 + (index - 47) * 32
  ELSE IF index < 80 THEN 1024 + (index - 63) * 64
  ELSE IF index < 128 THEN 2048 + (index - 79) * 128
  ELSE 8192 + (index - 127) * 256

\* The ranges of rounded_allocation_size: sizes above "from" are rounded up to
\* a multiple of "step" above it, and counted in buckets after "base".
Ranges ==
  { [from |-> 0, upto |-> 256, step |-> 8, base |-> -1],
    [from |-> 256, upto |-> 512, step |-> 16, base |-> 31],
    [from |-> 512, upto |-> 1024, step |-> 32, base |-> 47],
    [from |-> 1024, upto |-> 2048, step |-> 64, base |-> 63],
    [from |-> 2048, upto |-> 4096, step |-> 128, base |-> 79],
    [from |-> 4096, upto |-> 8192, step |-> 128, base |-> 95],
    [from |-> 8192, upto |-> SmallLimit, step |-> 256, base |-> 127] }

Covers(r, n) == r.from < n /\ n <= r.upto

RangeOf(n) == CHOOSE r \in Ranges : Covers(r, n)

\* rounded_allocation_size fails only where rounding up would wrap around.
Measurable(n) == n <= SizeMax - (PageSize - 1)

Rounded(n) ==
  IF n > SmallLimit
    THEN RoundUp(n, PageSize)
    ELSE LET value == AtLeastOne(n)
             r == RangeOf(value)
         IN  r.from + RoundUp(value - r.from, r.step)

Bucket(n) ==
  IF n > SmallLimit
    THEN LargeBucket
    ELSE LET r == RangeOf(AtLeastOne(n))
         IN  r.base + (Rounded(n) - r.from) \div r.step

Hole(n) == Rounded(n) - n

------------------------------------------------------------------------------

\* Boundaries of the other allocators that are not classes of this one.
FurtherSmall == {560, 656, 784, 1312}
LargeClasses ==
  {40960, 49152, 57344, 65536, 81920, 98304, 114688, 131072, 163840, 196608, 229376, 262144}

\* live_histogram_size_classes
LiveBoundaries ==
  { SmallClass(i) : i \in 0 .. LargeBucket - 1 } \cup FurtherSmall \cup LargeClasses

LiveTable ==
  [i \in 0 .. ExplicitClasses - 1 |->
     CHOOSE c \in LiveBoundaries : Cardinality({ d \in LiveBoundaries : d < c }) = i]

LiveClass(i) == LiveTable[i]

\* The while loop of live_histogram_bucket_index.
Search(value) ==
  LET from[low \in 0 .. ExplicitClasses, high \in 0 .. ExplicitClasses] ==
        LET middle == low + (high - low) \div 2
        IN  IF low >= high THEN low
            ELSE IF LiveClass(middle) < value THEN from[middle + 1, high]
            ELSE from[low, middle]
  IN  from[LargeStart, ExplicitClasses]

\* A faulty bucket: the class that contains a further boundary is split below it.
LiveBucketBelow(n) ==
  LET value == AtLeastOne(n)
      mini == Bucket(n)
      after(boundary) == IF value >= boundary THEN 1 ELSE 0
  IN  IF value > SmallLimit THEN Search(value)
      ELSE mini + after(560) + after(656) + after(784) + after(1312)

\* live_histogram_bucket_index: the mini buckets, of which four are split in
\* two by a further boundary, and a binary search above them.
LiveBucket(n) ==
  LET value == AtLeastOne(n)
      mini == Bucket(n)
      after(boundary, index) ==
        IF mini > index \/ (mini = index /\ value > boundary) THEN 1 ELSE 0
  IN  IF value > SmallLimit THEN Search(value)
      ELSE mini + after(560, 49) + after(656, 52) + after(784, 56) + after(1312, 68)

------------------------------------------------------------------------------

\* The tables of the other allocators.
dfmalloc1_size_classes ==
  {8, 16, 24, 32, 40, 48, 56, 64, 80, 96, 112, 128, 144, 176, 208, 256, 304, 352, 384, 432,
   496, 560, 656, 784, 992, 1312, 1984, 3968, 4096, 5120, 6144, 7168, 8192, 10240, 12288,
   14336, 16384} \cup LargeClasses

dfmalloc2_size_classes ==
  {8, 16, 32, 48, 64, 80, 96, 112, 128, 160, 192, 224, 256, 304, 352, 384, 432, 496, 560,
   640, 784, 992, 1280, 1536, 2048, 2560, 3072, 3584, 4096, 5120, 6144, 7168, 8192, 10240,
   12288, 14336}

jemalloc_size_classes ==
  {8, 16, 32, 48, 64, 80, 96, 112, 128, 160, 192, 224, 256, 320, 384, 448, 512, 640, 768,
   896, 1024, 1280, 1536, 1792, 2048, 2560, 3072, 3584, 4096, 5120, 6144, 7168, 8192, 10240,
   12288, 14336, 16384} \cup LargeClasses

Rules ==
  { { SmallClass(i) : i \in 0 .. LargeBucket - 1 },
    dfmalloc1_size_classes, dfmalloc2_size_classes, jemalloc_size_classes }

------------------------------------------------------------------------------

FirstSize == requested = 0

Grow ==
  /\ requested <= SmallLimit
  /\ requested' = requested + 1

Leap ==
  /\ requested > SmallLimit
  /\ \E n \in LargeRequests : requested' = n

NextSize == Grow \/ Leap

SizeWalk == FirstSize /\ [][NextSize]_requested

------------------------------------------------------------------------------

\* A measured size is rounded to a size_t and counted in a bucket of the table.
SizeTypeOK ==
  /\ requested \in 0 .. SizeMax
  /\ Measurable(requested) =>
       /\ Rounded(requested) \in 0 .. SizeMax
       /\ Bucket(requested) \in
            IF requested > SmallLimit THEN {LargeBucket} ELSE 0 .. LargeBucket - 1

HoleIsSmall ==
  Measurable(requested) =>
    /\ Hole(requested) >= 0
    /\ requested > SmallLimit => Hole(requested) < PageSize
    /\ requested \in 1 .. SmallLimit => Hole(requested) < RangeOf(requested).step

BucketIsFirstClass ==
  requested <= SmallLimit =>
    LET b == Bucket(requested)
    IN  /\ Rounded(requested) = SmallClass(b)
        /\ b > 0 => SmallClass(b - 1) < requested

\* A measured size has room for its request and wastes less than one step:
\* neither the unsigned sums nor the subtraction of the hole wrap around.  And
\* the shifts of rounded_allocation_size agree with the table the CSV header is
\* written from: the bucket is the first class that holds the request, and the
\* rounded size is that class.
RoundsToFirstClass == HoleIsSmall /\ BucketIsFirstClass

\* The index arithmetic of live_histogram_bucket_index finds the interval
\* (previous boundary, boundary] of the table, or the last bucket.  That is
\* "sufficient to reconstruct all four allocator rules exactly offline": every
\* request of a bucket is rounded by each rule as the bucket's boundary is, or
\* falls back to whole pages, whose hole the large buckets record.
Reconstructible ==
  LET b == LiveBucket(requested)
      bound == LiveClass(b)
      Fitting(rule, n) == { class \in rule : class >= AtLeastOne(n) }
  IN  /\ b \in 0 .. ExplicitClasses
      /\ b > 0 => LiveClass(b - 1) < requested
      /\ b < ExplicitClasses =>
           /\ requested <= bound
           /\ \A rule \in Rules :
                /\ Fitting(rule, requested) = Fitting(rule, bound)
                /\ Fitting(rule, requested) = {} /\ b < LargeStart =>
                     RoundUp(requested, PageSize) = RoundUp(bound, PageSize)
==============================================================================
