------------------------- MODULE HoleTrackingProofs --------------------------
(***************************************************************************)
(* Proofs about what malloc_hole_hook.c records of a call: the size it is  *)
(* rounded to, for a size_t of any width; the table of live allocations,   *)
(* for every capacity, probe limit and hash; and the tracking of a call    *)
(* from its hook to the table and the counters, for every number of        *)
(* threads, pointers, sizes, shards, slots and calls.                      *)
(***************************************************************************)
EXTENDS HoleTracking, SizeClasses, FiniteSums

------------------------------------------------------------------------------
(* The size classes *)

\* The unsigned sum of RoundUp does not wrap below the last page.
LEMMA NoWrap ==
  ASSUME NEW n \in Nat, NEW a \in Nat, n + a - 1 <= SizeMax, a >= 1
  PROVE  RoundUp(n, a) = (n + a - 1) - ((n + a - 1) % a)
<1> DEFINE sum == n + a - 1
<1>1. sum \in 0 .. SizeMax /\ SizeMax \in Nat
  BY SizeAssumption
<1>2. sum % (SizeMax + 1) = sum
  <2> HIDE DEF sum
  <2> QED
    BY <1>1, SMT
<1> QED
  BY <1>2 DEF RoundUp

\* The ranges of the small sizes do not overlap, and cover all of them.
LEMMA RangeIsUnique ==
  ASSUME NEW n \in 1 .. SmallLimit
  PROVE  /\ \E r \in Ranges : Covers(r, n)
         /\ \A r \in Ranges : Covers(r, n) => RangeOf(n) = r
<1>1. \E r \in Ranges : Covers(r, n)
  BY DEF Ranges, Covers, SmallLimit
<1>2. RangeOf(n) \in Ranges /\ Covers(RangeOf(n), n)
  BY <1>1 DEF RangeOf
<1>3. ASSUME NEW r \in Ranges, Covers(r, n), NEW q \in Ranges, Covers(q, n)
      PROVE  q = r
  BY <1>3 DEF Ranges, Covers, SmallLimit
<1> QED
  BY <1>1, <1>2, <1>3

\* The rounding of a small size by the step of its range.
LEMMA RoundingInRange ==
  ASSUME NEW n \in 1 .. SmallLimit, NEW r \in Ranges, Covers(r, n)
  PROVE  /\ Rounded(n) = r.from + ((n - r.from + r.step - 1) - ((n - r.from + r.step - 1) % r.step))
         /\ Bucket(n) = r.base + (Rounded(n) - r.from) \div r.step
         /\ RangeOf(n) = r
<1>1. RangeOf(n) = r
  BY RangeIsUnique, Zenon
<1>0. AtLeastOne(n) = n /\ ~(n > SmallLimit)
  BY DEF AtLeastOne, SmallLimit
<1>2. Rounded(n) = r.from + RoundUp(n - r.from, r.step)
      /\ Bucket(n) = r.base + (Rounded(n) - r.from) \div r.step
  BY <1>0, <1>1 DEF Rounded, Bucket
<1>3. r.from \in Nat /\ r.step \in 1 .. 256
  BY DEF Ranges
<1>4. SizeMax \in Nat /\ SizeMax > SmallLimit + 256 /\ SmallLimit \in Nat
  BY SizeAssumption DEF SmallLimit
<1>5. n - r.from \in Nat /\ n - r.from + r.step - 1 <= SizeMax /\ r.step \in Nat /\ r.step >= 1
  <2> DEFINE f == r.from
             s == r.step
  <2>1. f \in Nat /\ s \in 1 .. 256 /\ f < n
    BY <1>3 DEF Covers
  <2> HIDE DEF f, s
  <2>2. n - f \in Nat /\ n - f + s - 1 <= SizeMax /\ s \in Nat /\ s >= 1
    BY <1>4, <2>1
  <2> QED
    BY <2>2 DEF f, s
<1>6. RoundUp(n - r.from, r.step) =
        (n - r.from + r.step - 1) - ((n - r.from + r.step - 1) % r.step)
  BY <1>5, NoWrap
<1> QED
  BY <1>1, <1>2, <1>6

\* What a small size is.
LEMMA SmallSize ==
  ASSUME NEW m \in Int, 0 < m, m <= 16384
  PROVE  m \in 1 .. SmallLimit
<1>1. \A k \in Int : m <= k => m \in 1 .. k
  OBVIOUS
<1>2. SmallLimit = 16384
  BY DEF SmallLimit
<1>3. SmallLimit \in Int /\ m <= SmallLimit
  BY <1>2
<1>4. QED
  BY <1>1, <1>3

\* A small size is rounded to the class of its bucket, the first that holds it.
LEMMA SmallRounding ==
  ASSUME NEW n \in 1 .. SmallLimit
  PROVE  /\ Bucket(n) \in 0 .. 159
         /\ n <= Rounded(n)
         /\ Rounded(n) < n + RangeOf(n).step
         /\ Rounded(n) \in 1 .. SmallLimit
         /\ Rounded(n) = SmallClass(Bucket(n))
         /\ Bucket(n) > 0 => SmallClass(Bucket(n) - 1) < n
<1>a. PICK r \in Ranges : Covers(r, n)
  BY RangeIsUnique, Zenon
<1> DEFINE R == Rounded(n)
           B == Bucket(n)
           st == r.step
<1>b. /\ R = r.from + ((n - r.from + r.step - 1) - ((n - r.from + r.step - 1) % r.step))
      /\ B = r.base + (R - r.from) \div r.step
      /\ RangeOf(n) = r
  BY <1>a, RoundingInRange, Zenon
<1>c. RangeOf(n).step = st
  BY <1>b
<1> SUFFICES /\ B \in 0 .. 159
             /\ n <= R
             /\ R < n + st
             /\ R \in 1 .. SmallLimit
             /\ R = SmallClass(B)
             /\ B > 0 => SmallClass(B - 1) < n
  BY <1>c, Zenon
<1> HIDE DEF R, B
<1>1. CASE r = [from |-> 0, upto |-> 256, step |-> 8, base |-> -1]
  <2>1. 0 < n /\ n <= 256 /\ st = 8
    BY <1>a, <1>1 DEF Covers
  <2>2. /\ R = 0 + ((n - 0 + 8 - 1) - ((n - 0 + 8 - 1) % 8))
        /\ B = -1 + (R - 0) \div 8
    BY <1>b, <1>1
  <2> HIDE DEF st
  <2>3. /\ n <= R /\ R < n + 8 /\ 0 < R
        /\ R = 0 + (B - (-1)) * 8
        /\ R \in Int /\ B \in Int
    BY <2>1, <2>2 DEF SmallLimit
  <2>4. B \in 0 .. 31 /\ R <= 256
    BY <2>1, <2>3 DEF SmallLimit
  <2>5. SmallClass(B) = 0 + (B - (-1)) * 8
    BY <2>4 DEF SmallClass
  <2>6. B > 0 => SmallClass(B - 1) = (B - 1 - (-1)) * 8
    <3> SUFFICES ASSUME B > 0 PROVE SmallClass(B - 1) = (B - 1 - (-1)) * 8
      OBVIOUS
    <3>1. B - 1 \in 0 .. 31
      BY <2>4
    <3>2. QED
      BY <3>1 DEF SmallClass
  <2>7. B > 0 => SmallClass(B - 1) < n
    BY <2>1, <2>3, <2>4, <2>6
  <2>8. B \in 0 .. 159 /\ R \in 1 .. SmallLimit
    <3>1. B \in 0 .. 159
      BY <2>4
    <3>2. R \in Int /\ 0 < R /\ R <= 16384
      BY <2>3, <2>4
    <3>3. R \in 1 .. SmallLimit
      BY <3>2, SmallSize
    <3>4. QED
      BY <3>1, <3>3
  <2>9. n <= R /\ R < n + st
    BY <2>1, <2>3
  <2>10. R = SmallClass(B)
    BY <2>3, <2>5
  <2> QED
    BY <2>7, <2>8, <2>9, <2>10
<1>2. CASE r = [from |-> 256, upto |-> 512, step |-> 16, base |-> 31]
  <2>1. 256 < n /\ n <= 512 /\ st = 16
    BY <1>a, <1>2 DEF Covers
  <2>2. /\ R = 256 + ((n - 256 + 16 - 1) - ((n - 256 + 16 - 1) % 16))
        /\ B = 31 + (R - 256) \div 16
    BY <1>b, <1>2
  <2> HIDE DEF st
  <2>3. /\ n <= R /\ R < n + 16 /\ 256 < R
        /\ R = 256 + (B - (31)) * 16
        /\ R \in Int /\ B \in Int
    BY <2>1, <2>2 DEF SmallLimit
  <2>4. B \in 32 .. 47 /\ R <= 512
    BY <2>1, <2>3 DEF SmallLimit
  <2>5. SmallClass(B) = 256 + (B - (31)) * 16
    BY <2>4 DEF SmallClass
  <2>6. SmallClass(B - 1) = 256 + (B - 1 - (31)) * 16
    <3>1. CASE B - 1 = 31
      <4>1. SmallClass(31) = 256
        BY DEF SmallClass
      <4>2. QED
        BY <3>1, <4>1
    <3>2. CASE B - 1 # 31
      <4>1. B - 1 \in 32 .. 47
        BY <2>4, <3>2
      <4>2. QED
        BY <4>1 DEF SmallClass
    <3>3. QED
      BY <3>1, <3>2
  <2>7. B > 0 => SmallClass(B - 1) < n
    BY <2>1, <2>3, <2>4, <2>6
  <2>8. B \in 0 .. 159 /\ R \in 1 .. SmallLimit
    <3>1. B \in 0 .. 159
      BY <2>4
    <3>2. R \in Int /\ 0 < R /\ R <= 16384
      BY <2>3, <2>4
    <3>3. R \in 1 .. SmallLimit
      BY <3>2, SmallSize
    <3>4. QED
      BY <3>1, <3>3
  <2>9. n <= R /\ R < n + st
    BY <2>1, <2>3
  <2>10. R = SmallClass(B)
    BY <2>3, <2>5
  <2> QED
    BY <2>7, <2>8, <2>9, <2>10
<1>3. CASE r = [from |-> 512, upto |-> 1024, step |-> 32, base |-> 47]
  <2>1. 512 < n /\ n <= 1024 /\ st = 32
    BY <1>a, <1>3 DEF Covers
  <2>2. /\ R = 512 + ((n - 512 + 32 - 1) - ((n - 512 + 32 - 1) % 32))
        /\ B = 47 + (R - 512) \div 32
    BY <1>b, <1>3
  <2> HIDE DEF st
  <2>3. /\ n <= R /\ R < n + 32 /\ 512 < R
        /\ R = 512 + (B - (47)) * 32
        /\ R \in Int /\ B \in Int
    BY <2>1, <2>2 DEF SmallLimit
  <2>4. B \in 48 .. 63 /\ R <= 1024
    BY <2>1, <2>3 DEF SmallLimit
  <2>5. SmallClass(B) = 512 + (B - (47)) * 32
    BY <2>4 DEF SmallClass
  <2>6. SmallClass(B - 1) = 512 + (B - 1 - (47)) * 32
    <3>1. CASE B - 1 = 47
      <4>1. SmallClass(47) = 512
        BY DEF SmallClass
      <4>2. QED
        BY <3>1, <4>1
    <3>2. CASE B - 1 # 47
      <4>1. B - 1 \in 48 .. 63
        BY <2>4, <3>2
      <4>2. QED
        BY <4>1 DEF SmallClass
    <3>3. QED
      BY <3>1, <3>2
  <2>7. B > 0 => SmallClass(B - 1) < n
    BY <2>1, <2>3, <2>4, <2>6
  <2>8. B \in 0 .. 159 /\ R \in 1 .. SmallLimit
    <3>1. B \in 0 .. 159
      BY <2>4
    <3>2. R \in Int /\ 0 < R /\ R <= 16384
      BY <2>3, <2>4
    <3>3. R \in 1 .. SmallLimit
      BY <3>2, SmallSize
    <3>4. QED
      BY <3>1, <3>3
  <2>9. n <= R /\ R < n + st
    BY <2>1, <2>3
  <2>10. R = SmallClass(B)
    BY <2>3, <2>5
  <2> QED
    BY <2>7, <2>8, <2>9, <2>10
<1>4. CASE r = [from |-> 1024, upto |-> 2048, step |-> 64, base |-> 63]
  <2>1. 1024 < n /\ n <= 2048 /\ st = 64
    BY <1>a, <1>4 DEF Covers
  <2>2. /\ R = 1024 + ((n - 1024 + 64 - 1) - ((n - 1024 + 64 - 1) % 64))
        /\ B = 63 + (R - 1024) \div 64
    BY <1>b, <1>4
  <2> HIDE DEF st
  <2>3. /\ n <= R /\ R < n + 64 /\ 1024 < R
        /\ R = 1024 + (B - (63)) * 64
        /\ R \in Int /\ B \in Int
    BY <2>1, <2>2 DEF SmallLimit
  <2>4. B \in 64 .. 79 /\ R <= 2048
    BY <2>1, <2>3 DEF SmallLimit
  <2>5. SmallClass(B) = 1024 + (B - (63)) * 64
    BY <2>4 DEF SmallClass
  <2>6. SmallClass(B - 1) = 1024 + (B - 1 - (63)) * 64
    <3>1. CASE B - 1 = 63
      <4>1. SmallClass(63) = 1024
        BY DEF SmallClass
      <4>2. QED
        BY <3>1, <4>1
    <3>2. CASE B - 1 # 63
      <4>1. B - 1 \in 64 .. 79
        BY <2>4, <3>2
      <4>2. QED
        BY <4>1 DEF SmallClass
    <3>3. QED
      BY <3>1, <3>2
  <2>7. B > 0 => SmallClass(B - 1) < n
    BY <2>1, <2>3, <2>4, <2>6
  <2>8. B \in 0 .. 159 /\ R \in 1 .. SmallLimit
    <3>1. B \in 0 .. 159
      BY <2>4
    <3>2. R \in Int /\ 0 < R /\ R <= 16384
      BY <2>3, <2>4
    <3>3. R \in 1 .. SmallLimit
      BY <3>2, SmallSize
    <3>4. QED
      BY <3>1, <3>3
  <2>9. n <= R /\ R < n + st
    BY <2>1, <2>3
  <2>10. R = SmallClass(B)
    BY <2>3, <2>5
  <2> QED
    BY <2>7, <2>8, <2>9, <2>10
<1>5. CASE r = [from |-> 2048, upto |-> 4096, step |-> 128, base |-> 79]
  <2>1. 2048 < n /\ n <= 4096 /\ st = 128
    BY <1>a, <1>5 DEF Covers
  <2>2. /\ R = 2048 + ((n - 2048 + 128 - 1) - ((n - 2048 + 128 - 1) % 128))
        /\ B = 79 + (R - 2048) \div 128
    BY <1>b, <1>5
  <2> HIDE DEF st
  <2>3. /\ n <= R /\ R < n + 128 /\ 2048 < R
        /\ R = 2048 + (B - (79)) * 128
        /\ R \in Int /\ B \in Int
    BY <2>1, <2>2 DEF SmallLimit
  <2>4. B \in 80 .. 95 /\ R <= 4096
    BY <2>1, <2>3 DEF SmallLimit
  <2>5. SmallClass(B) = 2048 + (B - (79)) * 128
    BY <2>4 DEF SmallClass
  <2>6. SmallClass(B - 1) = 2048 + (B - 1 - (79)) * 128
    <3>1. CASE B - 1 = 79
      <4>1. SmallClass(79) = 2048
        BY DEF SmallClass
      <4>2. QED
        BY <3>1, <4>1
    <3>2. CASE B - 1 # 79
      <4>1. B - 1 \in 80 .. 95
        BY <2>4, <3>2
      <4>2. QED
        BY <4>1 DEF SmallClass
    <3>3. QED
      BY <3>1, <3>2
  <2>7. B > 0 => SmallClass(B - 1) < n
    BY <2>1, <2>3, <2>4, <2>6
  <2>8. B \in 0 .. 159 /\ R \in 1 .. SmallLimit
    <3>1. B \in 0 .. 159
      BY <2>4
    <3>2. R \in Int /\ 0 < R /\ R <= 16384
      BY <2>3, <2>4
    <3>3. R \in 1 .. SmallLimit
      BY <3>2, SmallSize
    <3>4. QED
      BY <3>1, <3>3
  <2>9. n <= R /\ R < n + st
    BY <2>1, <2>3
  <2>10. R = SmallClass(B)
    BY <2>3, <2>5
  <2> QED
    BY <2>7, <2>8, <2>9, <2>10
<1>6. CASE r = [from |-> 4096, upto |-> 8192, step |-> 128, base |-> 95]
  <2>1. 4096 < n /\ n <= 8192 /\ st = 128
    BY <1>a, <1>6 DEF Covers
  <2>2. /\ R = 4096 + ((n - 4096 + 128 - 1) - ((n - 4096 + 128 - 1) % 128))
        /\ B = 95 + (R - 4096) \div 128
    BY <1>b, <1>6
  <2> HIDE DEF st
  <2>3. /\ n <= R /\ R < n + 128 /\ 4096 < R
        /\ R = 4096 + (B - (95)) * 128
        /\ R \in Int /\ B \in Int
    BY <2>1, <2>2 DEF SmallLimit
  <2>4. B \in 96 .. 127 /\ R <= 8192
    BY <2>1, <2>3 DEF SmallLimit
  <2>5. SmallClass(B) = 4096 + (B - (95)) * 128
    BY <2>4 DEF SmallClass
  <2>6. SmallClass(B - 1) = 4096 + (B - 1 - (95)) * 128
    <3>1. CASE B - 1 = 95
      <4>1. SmallClass(95) = 4096
        BY DEF SmallClass
      <4>2. QED
        BY <3>1, <4>1
    <3>2. CASE B - 1 # 95
      <4>1. B - 1 \in 96 .. 127
        BY <2>4, <3>2
      <4>2. QED
        BY <4>1 DEF SmallClass
    <3>3. QED
      BY <3>1, <3>2
  <2>7. B > 0 => SmallClass(B - 1) < n
    BY <2>1, <2>3, <2>4, <2>6
  <2>8. B \in 0 .. 159 /\ R \in 1 .. SmallLimit
    <3>1. B \in 0 .. 159
      BY <2>4
    <3>2. R \in Int /\ 0 < R /\ R <= 16384
      BY <2>3, <2>4
    <3>3. R \in 1 .. SmallLimit
      BY <3>2, SmallSize
    <3>4. QED
      BY <3>1, <3>3
  <2>9. n <= R /\ R < n + st
    BY <2>1, <2>3
  <2>10. R = SmallClass(B)
    BY <2>3, <2>5
  <2> QED
    BY <2>7, <2>8, <2>9, <2>10
<1>7. CASE r = [from |-> 8192, upto |-> SmallLimit, step |-> 256, base |-> 127]
  <2>1. 8192 < n /\ n <= SmallLimit /\ st = 256
    BY <1>a, <1>7 DEF Covers
  <2>2. /\ R = 8192 + ((n - 8192 + 256 - 1) - ((n - 8192 + 256 - 1) % 256))
        /\ B = 127 + (R - 8192) \div 256
    BY <1>b, <1>7
  <2> HIDE DEF st
  <2>3. /\ n <= R /\ R < n + 256 /\ 8192 < R
        /\ R = 8192 + (B - (127)) * 256
        /\ R \in Int /\ B \in Int
    BY <2>1, <2>2 DEF SmallLimit
  <2>4. B \in 128 .. 159 /\ R <= 16384
    BY <2>1, <2>3 DEF SmallLimit
  <2>5. SmallClass(B) = 8192 + (B - (127)) * 256
    BY <2>4 DEF SmallClass
  <2>6. SmallClass(B - 1) = 8192 + (B - 1 - (127)) * 256
    <3>1. CASE B - 1 = 127
      <4>1. SmallClass(127) = 8192
        BY DEF SmallClass
      <4>2. QED
        BY <3>1, <4>1
    <3>2. CASE B - 1 # 127
      <4>1. B - 1 \in 128 .. 159
        BY <2>4, <3>2
      <4>2. QED
        BY <4>1 DEF SmallClass
    <3>3. QED
      BY <3>1, <3>2
  <2>7. B > 0 => SmallClass(B - 1) < n
    BY <2>1, <2>3, <2>4, <2>6
  <2>8. B \in 0 .. 159 /\ R \in 1 .. SmallLimit
    <3>1. B \in 0 .. 159
      BY <2>4
    <3>2. R \in Int /\ 0 < R /\ R <= 16384
      BY <2>3, <2>4
    <3>3. R \in 1 .. SmallLimit
      BY <3>2, SmallSize
    <3>4. QED
      BY <3>1, <3>3
  <2>9. n <= R /\ R < n + st
    BY <2>1, <2>3
  <2>10. R = SmallClass(B)
    BY <2>3, <2>5
  <2> QED
    BY <2>7, <2>8, <2>9, <2>10
<1>8. \/ r = [from |-> 0, upto |-> 256, step |-> 8, base |-> -1]
      \/ r = [from |-> 256, upto |-> 512, step |-> 16, base |-> 31]
      \/ r = [from |-> 512, upto |-> 1024, step |-> 32, base |-> 47]
      \/ r = [from |-> 1024, upto |-> 2048, step |-> 64, base |-> 63]
      \/ r = [from |-> 2048, upto |-> 4096, step |-> 128, base |-> 79]
      \/ r = [from |-> 4096, upto |-> 8192, step |-> 128, base |-> 95]
      \/ r = [from |-> 8192, upto |-> SmallLimit, step |-> 256, base |-> 127]
  BY DEF Ranges
<1> QED
  BY <1>1, <1>2, <1>3, <1>4, <1>5, <1>6, <1>7, <1>8

\* A size of zero is treated as one, and is in the first class.
LEMMA ZeroRounded ==
  Rounded(0) = 8 /\ Bucket(0) = 0
<1>1. Rounded(0) = Rounded(1) /\ Bucket(0) = Bucket(1)
  BY DEF Rounded, Bucket, AtLeastOne, SmallLimit
<1>2. 1 \in 1 .. SmallLimit
  BY DEF SmallLimit
<1>3. /\ Bucket(1) \in 0 .. 159
      /\ Rounded(1) = SmallClass(Bucket(1))
      /\ Bucket(1) > 0 => SmallClass(Bucket(1) - 1) < 1
  BY <1>2, SmallRounding
<1>4. Bucket(1) = 0
  BY <1>3 DEF SmallClass
<1> QED
  BY <1>1, <1>3, <1>4 DEF SmallClass

\* A large size that is measured is rounded to the end of its page.
LEMMA LargeRounding ==
  ASSUME NEW n \in 0 .. SizeMax, n > SmallLimit, Measurable(n)
  PROVE  /\ Bucket(n) = LargeBucket
         /\ Rounded(n) \in Int
         /\ n <= Rounded(n)
         /\ Rounded(n) < n + PageSize
         /\ Rounded(n) <= SizeMax
<1>1. n \in Nat /\ PageSize \in Nat /\ PageSize >= 1 /\ n + PageSize - 1 <= SizeMax
      /\ SizeMax \in Nat
  BY SizeAssumption DEF Measurable, PageSize
<1>2. RoundUp(n, PageSize) = (n + PageSize - 1) - ((n + PageSize - 1) % PageSize)
  BY <1>1, NoWrap
<1>3. Rounded(n) = RoundUp(n, PageSize) /\ Bucket(n) = LargeBucket
  BY DEF Rounded, Bucket
<1>4. ((n + PageSize - 1) % PageSize) \in 0 .. PageSize - 1
  <2> DEFINE m == n + PageSize - 1
  <2>1. m \in Nat
    BY <1>1
  <2> HIDE DEF m
  <2>2. (m % PageSize) \in 0 .. PageSize - 1
    BY <2>1 DEF PageSize
  <2> QED
    BY <2>2 DEF m
<1> QED
  BY <1>1, <1>2, <1>3, <1>4

\* The walk stays within a size_t.
THEOREM SizesAreSizes == SizeWalk => [](requested \in 0 .. SizeMax)
<1>1. FirstSize => requested \in 0 .. SizeMax
  BY SizeAssumption DEF FirstSize
<1>2. requested \in 0 .. SizeMax /\ [NextSize]_requested => (requested \in 0 .. SizeMax)'
  BY SizeAssumption DEF NextSize, Grow, Leap, SmallLimit
<1> QED
  BY <1>1, <1>2, PTL DEF SizeWalk

\* A measured size is rounded to a size_t and counted in a bucket of the tables.
THEOREM SizesTyped == SizeWalk => []SizeTypeOK
<1>1. requested \in 0 .. SizeMax => SizeTypeOK
  <2> SUFFICES ASSUME requested \in 0 .. SizeMax
               PROVE  SizeTypeOK
    OBVIOUS
  <2>1. SizeMax \in Nat /\ SizeMax > SmallLimit /\ SmallLimit \in Nat
    BY SizeAssumption DEF SmallLimit
  <2>2. CASE requested > SmallLimit
    BY <2>1, <2>2, LargeRounding DEF SizeTypeOK, LargeBucket
  <2>3. CASE requested \in 1 .. SmallLimit
    BY <2>1, <2>3, SmallRounding DEF SizeTypeOK, LargeBucket
  <2>4. CASE requested = 0
    BY <2>1, <2>4, ZeroRounded DEF SizeTypeOK, LargeBucket, SmallLimit
  <2> QED
    BY <2>1, <2>2, <2>3, <2>4
<1> QED
  BY <1>1, SizesAreSizes, PTL

\* No size_t makes the sums of rounded_allocation_size or the subtraction of
\* the hole wrap around, and a hole is less than one step of the classes.
LEMMA HolesStaySmall == SizeWalk => []HoleIsSmall
<1>1. requested \in 0 .. SizeMax => HoleIsSmall
  <2> SUFFICES ASSUME requested \in 0 .. SizeMax
               PROVE  HoleIsSmall
    OBVIOUS
  <2>1. SizeMax \in Nat /\ SizeMax > SmallLimit /\ SmallLimit \in Nat
    BY SizeAssumption DEF SmallLimit
  <2>2. CASE requested > SmallLimit
    BY <2>1, <2>2, LargeRounding DEF HoleIsSmall, Hole, PageSize
  <2>3. CASE requested \in 1 .. SmallLimit
    <3>1. /\ requested <= Rounded(requested)
          /\ Rounded(requested) < requested + RangeOf(requested).step
          /\ Rounded(requested) \in Int
      BY <2>1, <2>3, SmallRounding
    <3>2. RangeOf(requested).step \in Int
      BY <2>3, RangeIsUnique DEF Ranges
    <3> QED
      BY <2>1, <2>3, <3>1, <3>2 DEF HoleIsSmall, Hole
  <2>4. CASE requested = 0
    BY <2>1, <2>4, ZeroRounded DEF HoleIsSmall, Hole
  <2> QED
    BY <2>1, <2>2, <2>3, <2>4
<1> QED
  BY <1>1, SizesAreSizes, PTL

\* The shifts of rounded_allocation_size agree with small_size_class_at.
LEMMA BucketsMatchClasses == SizeWalk => []BucketIsFirstClass
<1>1. requested \in 0 .. SizeMax => BucketIsFirstClass
  <2> SUFFICES ASSUME requested \in 0 .. SmallLimit
               PROVE  BucketIsFirstClass
    BY SizeAssumption DEF BucketIsFirstClass, SmallLimit
  <2>1. CASE requested \in 1 .. SmallLimit
    BY <2>1, SmallRounding DEF BucketIsFirstClass
  <2>2. CASE requested = 0
    BY <2>2, ZeroRounded DEF SmallClass, BucketIsFirstClass
  <2> QED
    BY <2>1, <2>2
<1> QED
  BY <1>1, SizesAreSizes, PTL

\* Rounding neither wraps around nor disagrees with the table of classes, for
\* a size_t of any width.
THEOREM SizesAreRounded == SizeWalk => []RoundsToFirstClass
<1>1. HoleIsSmall /\ BucketIsFirstClass => RoundsToFirstClass
  BY DEF RoundsToFirstClass
<1> QED
  BY <1>1, HolesStaySmall, BucketsMatchClasses, PTL

------------------------------------------------------------------------------
(* The table of live allocations *)

\* The probes of a pointer visit slots of its own shard.
LEMMA ProbeType ==
  ASSUME NEW p \in Pointers, NEW k \in Nat
  PROVE  ProbeSlot(p, k) \in Slots
  <1>1. (Home[p] + k) % SlotsPerShard \in 0 .. SlotsPerShard - 1
    BY TableAssumption
  <1>2. QED
    BY <1>1, TableAssumption DEF ProbeSlot, Slots

\* A lookup makes at most one probe per slot of the shard.
LEMMA ProbesType == Probes \in Nat /\ Probes <= SlotsPerShard
  BY TableAssumption DEF Probes

\* Wrapping around the end of a shard.
LEMMA WrapAround ==
  ASSUME NEW a \in Nat, a < 2 * SlotsPerShard
  PROVE  a % SlotsPerShard = IF a < SlotsPerShard THEN a ELSE a - SlotsPerShard
  BY TableAssumption

\* No two probes of a pointer visit the same slot.
LEMMA ProbesDistinct ==
  ASSUME NEW p \in Pointers, NEW j \in 0 .. Probes - 1, NEW k \in 0 .. Probes - 1,
         ProbeSlot(p, j) = ProbeSlot(p, k)
  PROVE  j = k
  <1>1. Home[p] \in Nat /\ Home[p] < SlotsPerShard
    BY TableAssumption
  <1>2. Home[p] + j \in Nat /\ Home[p] + j < 2 * SlotsPerShard
    BY <1>1, ProbesType, TableAssumption
  <1>3. Home[p] + k \in Nat /\ Home[p] + k < 2 * SlotsPerShard
    BY <1>1, ProbesType, TableAssumption
  <1>4. (Home[p] + j) % SlotsPerShard = (Home[p] + k) % SlotsPerShard
    BY DEF ProbeSlot
  <1>5. QED
    BY <1>1, <1>2, <1>3, <1>4, WrapAround, ProbesType, TableAssumption

------------------------------------------------------------------------------

TypedTable == [Slots -> SlotValues]

\* In a sound table the lookup finds exactly the pointers that are stored.
LEMMA FoundIffStored ==
  ASSUME NEW table \in TypedTable, NoDuplicates(table), Reachable(table),
         NEW p \in Pointers
  PROVE  FoundProbes(table, p) # {} <=> p \in Stored(table)
  <1>1. ASSUME FoundProbes(table, p) # {}
        PROVE  p \in Stored(table)
    <2>1. PICK k \in 0 .. Probes - 1 : table[ProbeSlot(p, k)].pointer = p
      BY <1>1 DEF FoundProbes
    <2>2. QED
      BY <2>1, ProbeType, ProbesType DEF Stored, Holds
  <1>2. ASSUME p \in Stored(table)
        PROVE  FoundProbes(table, p) # {}
    <2>1. PICK i \in Slots : table[i].pointer = p
      BY <1>2 DEF Stored, Holds
    <2>2. PICK k \in 0 .. Probes - 1 :
            /\ ProbeSlot(p, k) = i
            /\ \A j \in 0 .. k - 1 : table[ProbeSlot(p, j)].pointer # EMPTY
      BY <2>1 DEF Reachable
    <2>3. ASSUME NEW j \in 0 .. k - 1
          PROVE  table[ProbeSlot(p, j)].pointer # p
      <3>1. j \in 0 .. Probes - 1 /\ j # k
        BY ProbesType
      <3>2. ProbeSlot(p, j) \in Slots
        BY ProbeType
      <3>3. ProbeSlot(p, j) # i
        BY <2>2, <3>1, ProbesDistinct
      <3>4. QED
        BY <2>1, <3>2, <3>3 DEF NoDuplicates
    <2>4. QED
      BY <2>1, <2>2, <2>3 DEF FoundProbes, NotMetBefore
  <1>3. QED
    BY <1>1, <1>2

\* The one slot of a stored pointer.
LEMMA SlotOfStored ==
  ASSUME NEW table \in TypedTable, NoDuplicates(table),
         NEW i \in Slots, table[i].pointer \in Pointers
  PROVE  /\ SlotOf(table, table[i].pointer) = i
         /\ table[i].pointer \in Stored(table)
  BY DEF SlotOf, NoDuplicates, Stored, Holds

\* Inserting a pointer that is not stored at the first vacant slot of its probe
\* sequence keeps the table sound and disturbs no other record.
LEMMA InsertSound ==
  ASSUME NEW table \in TypedTable, NoDuplicates(table), Reachable(table),
         NEW p \in Pointers, p \notin Stored(table),
         NEW n \in Sizes, NEW k \in InsertProbes(table, p)
  PROVE  LET new == Inserted(table, p, k, n)
             i == ProbeSlot(p, k)
         IN  /\ new \in TypedTable
             /\ i \in Slots
             /\ table[i].pointer \notin Pointers
             /\ new[i] = [pointer |-> p, requested |-> n]
             /\ \A j \in Slots : j # i => new[j] = table[j]
             /\ NoDuplicates(new)
             /\ Reachable(new)
             /\ Stored(new) = Stored(table) \cup {p}
  <1> DEFINE new == Inserted(table, p, k, n)
             i == ProbeSlot(p, k)
  <1>1. /\ k \in 0 .. Probes - 1
        /\ IsVacant(table, i)
        /\ NoVacancyBefore(table, p, k)
    BY DEF InsertProbes
  <1>2. i \in Slots
    BY <1>1, ProbeType, ProbesType
  <1>3. table[i].pointer \notin Pointers
    BY <1>1, SentinelAssumption DEF IsVacant
  <1>4. new[i] = [pointer |-> p, requested |-> n]
    BY <1>2 DEF Inserted, TypedTable
  <1>5. \A j \in Slots : j # i => new[j] = table[j]
    BY <1>2 DEF Inserted, TypedTable
  <1>6. new \in TypedTable
    BY <1>2 DEF Inserted, TypedTable, SlotValues
  <1>7. NoDuplicates(new)
    <2> SUFFICES ASSUME NEW a \in Slots, NEW b \in Slots,
                        new[a].pointer \in Pointers, new[a].pointer = new[b].pointer
                 PROVE  a = b
      BY DEF NoDuplicates
    <2>1. ASSUME NEW c \in Slots, c # i
          PROVE  table[c].pointer # p
      BY DEF Stored, Holds
    <2>2. CASE a = i \/ b = i
      BY <2>1, <2>2, <1>4, <1>5
    <2>3. CASE a # i /\ b # i
      BY <2>3, <1>5 DEF NoDuplicates
    <2>4. QED
      BY <2>2, <2>3
  <1>8. Reachable(new)
    <2> SUFFICES ASSUME NEW a \in Slots, new[a].pointer \in Pointers
                 PROVE  \E m \in 0 .. Probes - 1 :
                          /\ ProbeSlot(new[a].pointer, m) = a
                          /\ \A j \in 0 .. m - 1 :
                               new[ProbeSlot(new[a].pointer, j)].pointer # EMPTY
      BY DEF Reachable
    <2>1. ASSUME NEW c \in Slots, table[c].pointer # EMPTY
          PROVE  new[c].pointer # EMPTY
      BY <2>1, <1>4, <1>5, SentinelAssumption
    <2>2. CASE a = i
      <3>1. ASSUME NEW j \in 0 .. k - 1
            PROVE  new[ProbeSlot(p, j)].pointer # EMPTY
        <4>1. ProbeSlot(p, j) \in Slots
          BY ProbeType
        <4>2. table[ProbeSlot(p, j)].pointer # EMPTY
          BY <1>1 DEF NoVacancyBefore, IsVacant
        <4>3. QED
          BY <4>1, <4>2, <2>1
      <3>2. QED
        BY <3>1, <2>2, <1>1, <1>4
    <2>3. CASE a # i
      <3>1. new[a] = table[a]
        BY <2>3, <1>5
      <3>2. PICK m \in 0 .. Probes - 1 :
              /\ ProbeSlot(table[a].pointer, m) = a
              /\ \A j \in 0 .. m - 1 : table[ProbeSlot(table[a].pointer, j)].pointer # EMPTY
        BY <3>1 DEF Reachable
      <3>3. ASSUME NEW j \in 0 .. m - 1
            PROVE  new[ProbeSlot(table[a].pointer, j)].pointer # EMPTY
        <4>1. ProbeSlot(table[a].pointer, j) \in Slots
          BY <3>1, ProbeType
        <4>2. QED
          BY <4>1, <3>2, <2>1
      <3>4. QED
        BY <3>1, <3>2, <3>3
    <2>4. QED
      BY <2>2, <2>3
  <1>9. Stored(new) = Stored(table) \cup {p}
    BY <1>2, <1>3, <1>4, <1>5 DEF Stored, Holds
  <1>10. QED
    BY <1>2, <1>3, <1>4, <1>5, <1>6, <1>7, <1>8, <1>9

\* Removing a pointer the lookup found leaves a tombstone, which keeps every
\* other record reachable.
LEMMA RemoveSound ==
  ASSUME NEW table \in TypedTable, NoDuplicates(table), Reachable(table),
         NEW p \in Pointers, NEW k \in FoundProbes(table, p)
  PROVE  LET new == Removed(table, p, k)
             i == ProbeSlot(p, k)
         IN  /\ new \in TypedTable
             /\ i \in Slots
             /\ table[i].pointer = p
             /\ new[i].pointer \notin Pointers
             /\ \A j \in Slots : j # i => new[j] = table[j]
             /\ NoDuplicates(new)
             /\ Reachable(new)
             /\ Stored(new) = Stored(table) \ {p}
  <1> DEFINE new == Removed(table, p, k)
             i == ProbeSlot(p, k)
  <1>1. k \in 0 .. Probes - 1 /\ table[i].pointer = p
    BY DEF FoundProbes
  <1>2. i \in Slots
    BY <1>1, ProbeType, ProbesType
  <1>3. new[i].pointer = TOMBSTONE
    BY <1>2 DEF Removed, TypedTable
  <1>4. \A j \in Slots : j # i => new[j] = table[j]
    BY <1>2 DEF Removed, TypedTable
  <1>5. new \in TypedTable
    BY <1>2 DEF Removed, TypedTable, SlotValues
  <1>6. NoDuplicates(new)
    BY <1>3, <1>4, SentinelAssumption DEF NoDuplicates
  <1>7. Reachable(new)
    <2> SUFFICES ASSUME NEW a \in Slots, new[a].pointer \in Pointers
                 PROVE  \E m \in 0 .. Probes - 1 :
                          /\ ProbeSlot(new[a].pointer, m) = a
                          /\ \A j \in 0 .. m - 1 :
                               new[ProbeSlot(new[a].pointer, j)].pointer # EMPTY
      BY DEF Reachable
    <2>1. new[a] = table[a]
      BY <1>3, <1>4, SentinelAssumption
    <2>2. PICK m \in 0 .. Probes - 1 :
            /\ ProbeSlot(table[a].pointer, m) = a
            /\ \A j \in 0 .. m - 1 : table[ProbeSlot(table[a].pointer, j)].pointer # EMPTY
      BY <2>1 DEF Reachable
    <2>3. ASSUME NEW j \in 0 .. m - 1
          PROVE  new[ProbeSlot(table[a].pointer, j)].pointer # EMPTY
      <3>1. ProbeSlot(table[a].pointer, j) \in Slots
        BY <2>1, ProbeType
      <3>2. QED
        BY <3>1, <2>2, <1>3, <1>4, SentinelAssumption
    <2>4. QED
      BY <2>1, <2>2, <2>3
  <1>8. Stored(new) = Stored(table) \ {p}
    <2>1. p \notin Stored(new)
      BY <1>1, <1>2, <1>3, <1>4, SentinelAssumption DEF Stored, Holds, NoDuplicates
    <2>2. ASSUME NEW q \in Pointers, q # p
          PROVE  q \in Stored(new) <=> q \in Stored(table)
      BY <2>2, <1>1, <1>2, <1>3, <1>4, SentinelAssumption DEF Stored, Holds
    <2>3. QED
      BY <2>1, <2>2 DEF Stored
  <1>9. QED
    BY <1>1, <1>2, <1>3, <1>4, <1>5, <1>6, <1>7, <1>8, SentinelAssumption

------------------------------------------------------------------------------
(* The tracking of a call *)

\* What a thread knows in each phase of its call.  A block in a thread's hands
\* is allocated and is neither with the application nor with another thread.
PhaseInv(t) ==
  /\ pc[t] = Idle => own[t] = NONE
  /\ pc[t] \notin {Idle, Releasing} => own[t] \in Pointers
  /\ own[t] # NONE => own[t] \notin avail /\ block[own[t]] # NONE
  /\ pc[t] \in {Resizing, Restoring} =>
       /\ old[t] = own[t]
       /\ detached[t].tracked => detached[t].requested = block[own[t]]
  /\ pc[t] \in {Resizing, Restoring, Releasing} =>
       /\ old[t] \in Pointers
       /\ asked[t] \in Sizes
       /\ detached[t].observed <=> old[t] \in Sampled
       /\ detached[t].tracked => detached[t].observed
  /\ pc[t] \notin {Resizing, Restoring, Releasing} => detached[t] = NotDetached

Ownership ==
  /\ \A t \in Threads : PhaseInv(t)
  /\ \A t, u \in Threads : own[t] # NONE /\ own[t] = own[u] => t = u

\* Without its mapping the table stays empty.
ReadyOrEmpty == ~live_table_ready => Tracked = {}

SampledOnly == Tracked \subseteq Sampled

IInv ==
  /\ TypeOK
  /\ Ownership
  /\ ReadyOrEmpty
  /\ SampledOnly
  /\ TableSound
  /\ TrackedInHands
  /\ SizesRecorded

------------------------------------------------------------------------------

\* NONE is neither a pointer nor a size.
LEMMA NoneIsNoSize == NONE \notin Pointers /\ NONE \notin Sizes
  BY NoneAssumption

\* The empty table holds nothing and is sound.
LEMMA EmptyTableSound ==
  /\ EmptyTable \in TypedTable
  /\ NoDuplicates(EmptyTable)
  /\ Reachable(EmptyTable)
  /\ Stored(EmptyTable) = {}
  <1>1. EmptyTable \in TypedTable
    BY DEF EmptyTable, TypedTable, SlotValues
  <1>2. \A i \in Slots : EmptyTable[i].pointer \notin Pointers
    BY SentinelAssumption DEF EmptyTable
  <1>3. QED
    BY <1>1, <1>2 DEF NoDuplicates, Reachable, Stored, Holds

\* The initial states, with any set of inherited blocks, satisfy the invariant.
LEMMA InitInv == Init => IInv
  <1> SUFFICES ASSUME Init PROVE IInv
    OBVIOUS
  <1>1. TypeOK
    BY EmptyTableSound, TrackingAssumption
      DEF Init, TypeOK, TypedTable, Phases, Idle, Detachments, NotDetached
  <1>2. TableSound /\ ReadyOrEmpty /\ SampledOnly /\ SizesRecorded
    BY EmptyTableSound
      DEF Init, TableSound, ReadyOrEmpty, SampledOnly, SizesRecorded, Tracked, Stored, Holds
  <1>3. TrackedInHands
    BY EmptyTableSound DEF Init, TrackedInHands, Tracked
  <1>4. Ownership
    BY DEF Init, Ownership, PhaseInv, Idle, Resizing, Restoring, Releasing
  <1>5. QED
    BY <1>1, <1>2, <1>3, <1>4 DEF IInv

------------------------------------------------------------------------------

\* What track_live_allocation does to the table.
LEMMA TrackLiveEffect ==
  ASSUME TypeOK, TableSound, NEW p \in Pointers, p \notin Tracked,
         NEW n \in Sizes, TrackLive(p, n)
  PROVE  /\ live_table' \in TypedTable
         /\ TableSound'
         /\ Tracked' \in {Tracked, Tracked \cup {p}}
         /\ ~live_table_ready => Tracked' = Tracked
         /\ \A i \in Slots : \/ live_table'[i] = live_table[i]
                             \/ live_table'[i] = [pointer |-> p, requested |-> n]
  <1>1. live_table \in TypedTable /\ NoDuplicates(live_table) /\ Reachable(live_table)
    BY DEF TypeOK, TypedTable, TableSound
  <1>2. CASE live_table' = live_table
    BY <1>1, <1>2 DEF TableSound, Tracked
  <1>3. CASE /\ live_table_ready
             /\ \E k \in InsertProbes(live_table, p) :
                  live_table' = Inserted(live_table, p, k, n)
    <2>1. PICK k \in InsertProbes(live_table, p) :
            live_table' = Inserted(live_table, p, k, n)
      BY <1>3
    <2>2. p \notin Stored(live_table)
      BY DEF Tracked
    <2>3. QED
      BY <1>1, <1>3, <2>1, <2>2, InsertSound DEF TableSound, Tracked
  <1>4. QED
    BY <1>2, <1>3 DEF TrackLive, gaugeVars

\* What the removal from the table does to it.
LEMMA UntrackEffect ==
  ASSUME TypeOK, TableSound, NEW p \in Pointers,
         NEW k \in FoundProbes(live_table, p), Untrack(p, k)
  PROVE  /\ live_table' \in TypedTable
         /\ TableSound'
         /\ p \in Tracked
         /\ Tracked' = Tracked \ {p}
         /\ ProbeSlot(p, k) \in Slots
         /\ live_table[ProbeSlot(p, k)].pointer = p
         /\ \A i \in Slots : \/ live_table'[i] = live_table[i]
                             \/ live_table'[i].pointer \notin Pointers
  <1>1. live_table \in TypedTable /\ NoDuplicates(live_table) /\ Reachable(live_table)
    BY DEF TypeOK, TypedTable, TableSound
  <1>2. live_table' = Removed(live_table, p, k)
    BY DEF Untrack
  <1>3. p \in Tracked
    BY <1>1, FoundIffStored DEF Tracked
  <1>4. QED
    BY <1>1, <1>2, <1>3, RemoveSound DEF TableSound, Tracked

CountersTyped ==
  /\ allocations \in [Shards -> Int]
  /\ histogram \in [Shards -> [Buckets -> Int]]
  /\ requested_bytes \in [Shards -> [Buckets -> Int]]
  /\ hole_bytes \in [Shards -> Int]

\* The counters keep their types when a record is added ...
LEMMA AddTyped ==
  ASSUME TypeOK, NEW s \in Shards, NEW n \in Sizes, AddLiveCounters(s, n)
  PROVE  CountersTyped'
  BY TrackingAssumption, TableAssumption DEF TypeOK, AddLiveCounters, CountersTyped

\* ... and when one is subtracted.
LEMMA SubtractTyped ==
  ASSUME TypeOK, NEW s \in Shards, NEW n \in Sizes, SubtractLiveCounters(s, n)
  PROVE  CountersTyped'
  BY TrackingAssumption, TableAssumption DEF TypeOK, SubtractLiveCounters, CountersTyped

\* The same for all of track_live_allocation ...
LEMMA TrackLiveTyped ==
  ASSUME TypeOK, NEW p \in Pointers, NEW n \in Sizes, TrackLive(p, n)
  PROVE  CountersTyped' /\ tracking_failures' \in [Shards -> Nat]
  <1>1. ShardOf[p] \in Shards
    BY TableAssumption
  <1>2. CASE AddLiveCounters(ShardOf[p], n) /\ UNCHANGED tracking_failures
    BY <1>1, <1>2, AddTyped DEF TypeOK
  <1>3. CASE Bump(tracking_failures, ShardOf[p]) /\ UNCHANGED gaugeVars
    BY <1>1, <1>3 DEF TypeOK, Bump, gaugeVars, CountersTyped
  <1>4. QED
    BY <1>2, <1>3 DEF TrackLive

\* ... and for the removal of a record.
LEMMA UntrackTyped ==
  ASSUME TypeOK, TableSound, NEW p \in Pointers,
         NEW k \in FoundProbes(live_table, p), Untrack(p, k)
  PROVE  CountersTyped' /\ live_table[ProbeSlot(p, k)].requested \in Sizes
  <1>1. ShardOf[p] \in Shards
    BY TableAssumption
  <1>2. ProbeSlot(p, k) \in Slots /\ live_table[ProbeSlot(p, k)].pointer = p
    BY UntrackEffect
  <1>3. live_table[ProbeSlot(p, k)].requested \in Sizes
    BY <1>2, SentinelAssumption DEF TypeOK, SlotValues
  <1>4. QED
    BY <1>1, <1>3, SubtractTyped DEF Untrack

------------------------------------------------------------------------------

\* Each step of a hooked call preserves the invariant.

\* The real allocation gives a free address to one thread only.
LEMMA AllocateInv ==
  ASSUME IInv, NEW t \in Threads, NEW p \in Pointers, NEW n \in Sizes,
         Allocate(t, p, n)
  PROVE  IInv'
  <1> USE DEF IInv, Allocate, BeginCall, FreeAddresses, GoTo, gaugeVars, eventVars, flowVars
  <1>1. TypeOK'
    BY DEF TypeOK, Phases, Measuring
  <1>2. block[p] = NONE /\ \A q \in Pointers : q # p => block'[q] = block[q]
    BY DEF TypeOK
  <1>3. p \notin avail /\ \A u \in Threads : own[u] # p
    BY <1>2, NoneIsNoSize DEF TrackedInHands, Ownership, PhaseInv
  <1>4. TableSound' /\ ReadyOrEmpty' /\ SampledOnly' /\ Tracked' = Tracked
    BY DEF TableSound, ReadyOrEmpty, SampledOnly, Tracked
  <1>5. TrackedInHands'
    BY <1>2, <1>3, <1>4 DEF TrackedInHands, TypeOK
  <1>6. SizesRecorded'
    <2>1. \A i \in Slots : live_table[i].pointer \in Pointers => live_table[i].pointer # p
      BY <1>3 DEF TrackedInHands, Tracked, Stored, Holds
    <2>2. QED
      BY <2>1, <1>2 DEF SizesRecorded
  <1>7. Ownership'
    <2>1. ASSUME NEW u \in Threads
          PROVE  PhaseInv(u)'
      <3>1. CASE u = t
        BY <3>1, <1>3, NoneIsNoSize
          DEF Ownership, PhaseInv, TypeOK, Idle, Measuring, Resizing, Restoring, Releasing
      <3>2. CASE u # t
        BY <3>2, <1>2, <1>3 DEF Ownership, PhaseInv, TypeOK
      <3>3. QED
        BY <3>1, <3>2
    <2>2. QED
      BY <2>1, <1>3 DEF Ownership, TypeOK
  <1>8. QED
    BY <1>1, <1>4, <1>5, <1>6, <1>7

\* Steps that only count: the real allocator failed, or the call is measured.
LEMMA CountingInv ==
  ASSUME IInv, NEW t \in Threads, AllocateFails(t) \/ Measure(t)
  PROVE  IInv'
  <1> USE DEF IInv, AllocateFails, Measure, BeginCall, GoTo, gaugeVars, eventVars, flowVars
  <1>1. TypeOK'
    BY DEF TypeOK, Phases, Tracking
  <1>2. TableSound' /\ ReadyOrEmpty' /\ SampledOnly' /\ TrackedInHands' /\ SizesRecorded'
    BY DEF TableSound, ReadyOrEmpty, SampledOnly, TrackedInHands, SizesRecorded, Tracked
  <1>3. Ownership'
    <2>1. ASSUME NEW u \in Threads
          PROVE  PhaseInv(u)'
      BY DEF Ownership, PhaseInv, TypeOK, Idle, Measuring, Tracking, Resizing, Restoring, Releasing
    <2>2. QED
      BY <2>1 DEF Ownership
  <1>4. QED
    BY <1>1, <1>2, <1>3

\* A block that is tracked passes from its thread to the application.
LEMMA TrackInv ==
  ASSUME IInv, NEW t \in Threads, Track(t)
  PROVE  IInv'
  <1> USE DEF IInv
  <1>a. own[t] \in Pointers /\ block[own[t]] \in Sizes
    BY NoneIsNoSize DEF Track, Ownership, PhaseInv, TypeOK, Idle, Tracking, Releasing
  <1>b. PICK p \in Pointers, n \in Sizes : p = own[t] /\ n = block[own[t]]
    BY <1>a
  <1>1. /\ p \notin avail
        /\ p \notin Tracked
        /\ \A u \in Threads : u # t => own[u] # p
    BY <1>b, NoneIsNoSize
      DEF Track, Ownership, PhaseInv, TypeOK, TrackedInHands, Idle, Tracking, Releasing
  <1>2. /\ live_table' \in TypedTable
        /\ TableSound'
        /\ Tracked' \in {Tracked, Tracked \cup {p}}
        /\ p \notin Sampled \/ ~live_table_ready => Tracked' = Tracked
        /\ \A i \in Slots : \/ live_table'[i] = live_table[i]
                            \/ live_table'[i] = [pointer |-> p, requested |-> n]
        /\ CountersTyped'
        /\ tracking_failures' \in [Shards -> Nat]
    <2>1. CASE p \in Sampled
      <3>1. TrackLive(p, n)
        BY <2>1, <1>b DEF Track, TrackLive, AddLiveCounters, Bump
      <3>2. CountersTyped' /\ tracking_failures' \in [Shards -> Nat]
        BY <3>1, <1>1, TrackLiveTyped
      <3>3. QED
        BY <2>1, <3>1, <3>2, <1>1, TrackLiveEffect
    <2>2. CASE p \notin Sampled
      BY <2>2, <1>b DEF Track, gaugeVars, TypeOK, TypedTable, TableSound, Tracked, CountersTyped
    <2>3. QED
      BY <2>1, <2>2
  <1>3. TypeOK'
    BY <1>b, <1>1, <1>2 DEF Track, GoTo, flowVars, TypeOK, TypedTable, CountersTyped, Phases, Idle
  <1>4. ReadyOrEmpty' /\ SampledOnly'
    BY <1>2 DEF Track, ReadyOrEmpty, SampledOnly
  <1>5. TrackedInHands'
    BY <1>b, <1>1, <1>2, NoneIsNoSize DEF Track, TrackedInHands
  <1>6. SizesRecorded'
    BY <1>b, <1>2 DEF Track, SizesRecorded
  <1>7. Ownership'
    <2>1. ASSUME NEW u \in Threads
          PROVE  PhaseInv(u)'
      <3>1. CASE u = t
        BY <3>1 DEF Track, GoTo, Ownership, PhaseInv, TypeOK,
                    Idle, Tracking, Resizing, Restoring, Releasing
      <3>2. CASE u # t
        BY <1>b, <3>2, <1>1 DEF Track, GoTo, Ownership, PhaseInv, TypeOK
      <3>3. QED
        BY <3>1, <3>2
    <2>2. QED
      BY <2>1 DEF Track, Ownership, TypeOK
  <1>8. QED
    BY <1>2, <1>3, <1>4, <1>5, <1>6, <1>7

\* The common part of free and realloc: a record is looked up and removed.
LEMMA RemovalEffect ==
  ASSUME IInv, NEW p \in Pointers,
         \/ (p \notin Sampled \/ FoundProbes(live_table, p) = {} \/ ~live_table_ready)
              /\ UNCHANGED gaugeVars
         \/ \E k \in FoundProbes(live_table, p) : Untrack(p, k)
  PROVE  /\ live_table' \in TypedTable
         /\ TableSound'
         /\ Tracked' \subseteq Tracked
         /\ p \notin Tracked'
         /\ \A q \in Tracked : q # p => q \in Tracked'
         /\ \A i \in Slots : \/ live_table'[i] = live_table[i]
                             \/ live_table'[i].pointer \notin Pointers
         /\ CountersTyped'
  <1>1. CASE UNCHANGED gaugeVars /\ (p \notin Sampled \/ FoundProbes(live_table, p) = {} \/ ~live_table_ready)
    <2>1. p \notin Tracked
      BY <1>1, FoundIffStored
        DEF IInv, TypeOK, TypedTable, TableSound, Tracked, ReadyOrEmpty, SampledOnly
    <2>2. QED
      BY <1>1, <2>1 DEF gaugeVars, IInv, TypeOK, TypedTable, TableSound, Tracked, CountersTyped
  <1>2. CASE \E k \in FoundProbes(live_table, p) : Untrack(p, k)
    BY <1>2, UntrackEffect, UntrackTyped DEF IInv
  <1>3. QED
    BY <1>1, <1>2

\* A block that leaves the application's hands for a thread's.
LEMMA TakeOwnership ==
  ASSUME IInv, NEW t \in Threads, NEW p \in avail, pc[t] = Idle,
         own' = [own EXCEPT ![t] = p], avail' = avail \ {p}, UNCHANGED block,
         live_table' \in TypedTable, Tracked' \subseteq Tracked, p \notin Tracked',
         \A i \in Slots : \/ live_table'[i] = live_table[i]
                         \/ live_table'[i].pointer \notin Pointers
  PROVE  /\ TrackedInHands'
         /\ SizesRecorded'
         /\ SampledOnly'
         /\ p \in Pointers /\ block[p] # NONE
         /\ \A u \in Threads : own[u] # p
         /\ \A u, v \in Threads : own'[u] # NONE /\ own'[u] = own'[v] => u = v
  <1> USE DEF IInv
  <1>1. p \in Pointers /\ block[p] # NONE /\ \A u \in Threads : own[u] # p
    BY NoneIsNoSize DEF TypeOK, Ownership, PhaseInv, TrackedInHands
  <1>2. TrackedInHands' /\ SampledOnly'
    BY DEF TrackedInHands, SampledOnly
  <1>3. SizesRecorded'
    BY DEF SizesRecorded
  <1>4. \A u, v \in Threads : own'[u] # NONE /\ own'[u] = own'[v] => u = v
    BY <1>1 DEF Ownership, TypeOK
  <1>5. QED
    BY <1>1, <1>2, <1>3, <1>4

\* free removes the record before its block is released.
LEMMA RecordFreeInv ==
  ASSUME IInv, NEW t \in Threads, NEW p \in Pointers, RecordFree(t, p)
  PROVE  IInv'
  <1> USE DEF IInv
  <1>0. p \in avail /\ pc[t] = Idle
    BY DEF RecordFree, BeginCall
  <1>1. \/ (p \notin Sampled \/ FoundProbes(live_table, p) = {} \/ ~live_table_ready)
             /\ UNCHANGED gaugeVars
        \/ \E k \in FoundProbes(live_table, p) : Untrack(p, k)
    BY DEF RecordFree
  <1>2. /\ live_table' \in TypedTable
        /\ TableSound'
        /\ Tracked' \subseteq Tracked
        /\ p \notin Tracked'
        /\ \A i \in Slots : \/ live_table'[i] = live_table[i]
                            \/ live_table'[i].pointer \notin Pointers
        /\ CountersTyped'
    BY <1>1, RemovalEffect
  <1>3. ShardOf[p] \in Shards
    BY TableAssumption
  <1>4. TypeOK'
    <2>a. free_events \in [Shards -> Nat] /\ untracked_frees \in [Shards -> Nat]
      BY DEF TypeOK
    <2>b. free_events' \in [Shards -> Nat]
      <3>1. UNCHANGED free_events \/ Bump(free_events, ShardOf[p])
        BY DEF RecordFree
      <3>2. QED
        BY <3>1, <2>a, <1>3 DEF Bump
    <2>1. free_events' \in [Shards -> Nat] /\ untracked_frees' \in [Shards -> Nat]
      <3>1. UNCHANGED untracked_frees \/ Bump(untracked_frees, ShardOf[p])
        BY DEF RecordFree
      <3>2. QED
        BY <3>1, <2>a, <2>b, <1>3 DEF Bump
    <2>2. QED
      BY <1>2, <2>1
        DEF RecordFree, BeginCall, GoTo, flowVars, TypeOK, TypedTable, CountersTyped,
            Phases, Freeing
  <1>5. ReadyOrEmpty'
    BY <1>2 DEF RecordFree, ReadyOrEmpty
  <1>6. /\ TrackedInHands' /\ SizesRecorded' /\ SampledOnly'
        /\ block[p] # NONE
        /\ \A u \in Threads : own[u] # p
        /\ \A u, v \in Threads : own'[u] # NONE /\ own'[u] = own'[v] => u = v
    BY <1>0, <1>2, TakeOwnership DEF RecordFree
  <1>7. ASSUME NEW u \in Threads
        PROVE  PhaseInv(u)'
    <2>1. CASE u = t
      BY <2>1, <1>6, NoneIsNoSize
        DEF RecordFree, GoTo, BeginCall, Ownership, PhaseInv, TypeOK,
            Idle, Freeing, Resizing, Restoring, Releasing
    <2>2. CASE u # t
      BY <2>2, <1>6 DEF RecordFree, GoTo, Ownership, PhaseInv, TypeOK
    <2>3. QED
      BY <2>1, <2>2
  <1>8. QED
    BY <1>2, <1>4, <1>5, <1>6, <1>7 DEF Ownership

\* realloc removes the old record before its block is resized.
LEMMA DetachInv ==
  ASSUME IInv, NEW t \in Threads, NEW p \in Pointers, NEW n \in Sizes, Detach(t, p, n)
  PROVE  IInv'
  <1> USE DEF IInv
  <1>0. p \in avail /\ pc[t] = Idle
    BY DEF Detach, BeginCall
  <1>1. \/ (p \notin Sampled \/ FoundProbes(live_table, p) = {} \/ ~live_table_ready)
             /\ UNCHANGED gaugeVars
        \/ \E k \in FoundProbes(live_table, p) : Untrack(p, k)
    BY DEF Detach
  <1>2. /\ live_table' \in TypedTable
        /\ TableSound'
        /\ Tracked' \subseteq Tracked
        /\ p \notin Tracked'
        /\ \A i \in Slots : \/ live_table'[i] = live_table[i]
                            \/ live_table'[i].pointer \notin Pointers
        /\ CountersTyped'
    BY <1>1, RemovalEffect
  <1>3. \/ p \notin Sampled /\ detached'[t] = NotDetached
        \/ /\ p \in Sampled
           /\ detached'[t] = [observed |-> TRUE, tracked |-> FALSE, requested |-> 0]
        \/ /\ p \in Sampled
           /\ block[p] \in Sizes
           /\ detached'[t] = [observed |-> TRUE, tracked |-> TRUE, requested |-> block[p]]
    <2>1. ASSUME NEW k \in FoundProbes(live_table, p), Untrack(p, k)
          PROVE  /\ block[p] \in Sizes
                 /\ live_table[ProbeSlot(p, k)].requested = block[p]
      BY <2>1, UntrackEffect, UntrackTyped DEF SizesRecorded
    <2>2. QED
      BY <2>1 DEF Detach, TypeOK
  <1>4. TypeOK'
    <2>a. ASSUME NEW m \in Sizes
          PROVE  [observed |-> TRUE, tracked |-> TRUE, requested |-> m] \in Detachments
      BY DEF Detachments
    <2>b. NotDetached \in Detachments
      BY DEF Detachments, NotDetached
    <2>c. [observed |-> TRUE, tracked |-> FALSE, requested |-> 0] \in Detachments
      BY DEF Detachments
    <2>1. detached'[t] \in Detachments
      BY <1>3, <2>a, <2>b, <2>c
    <2>2. detached' \in [Threads -> Detachments]
      BY <2>1 DEF Detach, TypeOK
    <2>3. QED
      BY <1>2, <2>2
        DEF Detach, BeginCall, GoTo, eventVars, flowVars, TypeOK, TypedTable,
            CountersTyped, Phases, Resizing
  <1>5. ReadyOrEmpty'
    BY <1>2 DEF Detach, ReadyOrEmpty
  <1>6. /\ TrackedInHands' /\ SizesRecorded' /\ SampledOnly'
        /\ block[p] # NONE
        /\ \A u \in Threads : own[u] # p
        /\ \A u, v \in Threads : own'[u] # NONE /\ own'[u] = own'[v] => u = v
    BY <1>0, <1>2, TakeOwnership DEF Detach
  <1>7. ASSUME NEW u \in Threads
        PROVE  PhaseInv(u)'
    <2>1. CASE u = t
      <3>1. /\ pc'[t] = Resizing /\ own'[t] = p /\ old'[t] = p /\ asked'[t] = n
            /\ p \notin avail' /\ block'[p] = block[p]
        BY DEF Detach, GoTo, TypeOK
      <3>2. QED
        BY <2>1, <3>1, <1>3, <1>6, NoneIsNoSize
          DEF PhaseInv, NotDetached, Idle, Resizing, Restoring, Releasing
    <2>2. CASE u # t
      <3>1. /\ pc'[u] = pc[u] /\ own'[u] = own[u] /\ old'[u] = old[u]
            /\ asked'[u] = asked[u] /\ detached'[u] = detached[u]
            /\ avail' = avail \ {p} /\ block' = block
        BY <2>2 DEF Detach, GoTo, TypeOK
      <3>2. QED
        BY <3>1, <1>6 DEF Ownership, PhaseInv
    <2>3. QED
      BY <2>1, <2>2
  <1>8. QED
    BY <1>2, <1>4, <1>5, <1>6, <1>7 DEF Ownership

\* The real allocator changes blocks no record and no other thread refers to.
LEMMA BlockChange ==
  ASSUME IInv, NEW t \in Threads, own[t] \in Pointers,
         UNCHANGED <<live_table, live_table_ready, avail>>,
         NEW q \in FreeAddresses \cup {own[t]},
         \A p \in Pointers : p \notin {own[t], q} => block'[p] = block[p]
  PROVE  /\ TableSound' /\ ReadyOrEmpty' /\ SampledOnly'
         /\ TrackedInHands' /\ SizesRecorded'
         /\ q \in Pointers /\ q \notin avail
         /\ \A u \in Threads : u # t /\ own[u] # NONE =>
               own[u] # q /\ own[u] # own[t] /\ block'[own[u]] = block[own[u]]
  <1> USE DEF IInv
  <1>1. q \in Pointers /\ q \notin avail /\ own[t] \notin avail
    BY NoneIsNoSize DEF FreeAddresses, TrackedInHands, Ownership, PhaseInv
  <1>2. Tracked' = Tracked
    BY DEF Tracked
  <1>3. TableSound' /\ ReadyOrEmpty' /\ SampledOnly'
    BY <1>2 DEF TableSound, ReadyOrEmpty, SampledOnly
  <1>4. TrackedInHands'
    BY <1>1, <1>2 DEF TrackedInHands, TypeOK
  <1>5. SizesRecorded'
    <2>1. \A i \in Slots : live_table[i].pointer \in Pointers => live_table[i].pointer \in avail
      BY DEF TrackedInHands, Tracked, Stored, Holds
    <2>2. QED
      BY <2>1, <1>1 DEF SizesRecorded
  <1>6. \A u \in Threads : u # t /\ own[u] # NONE =>
          own[u] # q /\ own[u] # own[t] /\ block'[own[u]] = block[own[u]]
    BY NoneIsNoSize DEF Ownership, PhaseInv, FreeAddresses, TypeOK
  <1>7. QED
    BY <1>1, <1>3, <1>4, <1>5, <1>6

\* The real free, and the realloc that releases or fails.
LEMMA RealCallInv ==
  ASSUME IInv, NEW t \in Threads,
         RealFree(t) \/ RealReallocReleases(t) \/ RealReallocFails(t)
  PROVE  IInv'
  <1> USE DEF IInv
  <1>1. own[t] \in Pointers
    BY DEF RealFree, RealReallocReleases, RealReallocFails, Ownership, PhaseInv,
           Idle, Freeing, Resizing, Releasing
  <1>2. UNCHANGED <<live_table, live_table_ready, avail>>
    BY DEF RealFree, RealReallocReleases, RealReallocFails, gaugeVars
  <1>3. \A p \in Pointers : p # own[t] => block'[p] = block[p]
    BY DEF RealFree, RealReallocReleases, RealReallocFails, TypeOK
  <1>4. /\ TableSound' /\ ReadyOrEmpty' /\ SampledOnly'
        /\ TrackedInHands' /\ SizesRecorded'
        /\ \A u \in Threads : u # t /\ own[u] # NONE =>
              own[u] # own[t] /\ block'[own[u]] = block[own[u]]
    <2>1. PICK q \in FreeAddresses \cup {own[t]} : q = own[t]
      OBVIOUS
    <2>2. QED
      BY <1>1, <1>2, <1>3, <2>1, BlockChange
  <1>5. TypeOK'
    BY DEF RealFree, RealReallocReleases, RealReallocFails, GoTo, gaugeVars, eventVars,
           flowVars, TypeOK, Phases, Idle, Releasing, Restoring
  <1>6. ASSUME NEW u \in Threads
        PROVE  PhaseInv(u)'
    <2>1. CASE u = t
      BY <2>1, NoneIsNoSize
        DEF RealFree, RealReallocReleases, RealReallocFails, GoTo, Ownership, PhaseInv,
            TypeOK, Idle, Freeing, Resizing, Restoring, Releasing
    <2>2. CASE u # t
      <3>1. /\ pc'[u] = pc[u] /\ own'[u] = own[u]
            /\ old'[u] = old[u] /\ asked'[u] = asked[u] /\ detached'[u] = detached[u]
            /\ avail' = avail
        BY <2>2 DEF RealFree, RealReallocReleases, RealReallocFails, GoTo, TypeOK
      <3>2. PhaseInv(u)
        BY DEF Ownership
      <3>3. own[u] # NONE => block'[own[u]] = block[own[u]]
        BY <2>2, <1>4
      <3>4. pc[u] \in {Resizing, Restoring} => own[u] # NONE
        BY <3>2, NoneIsNoSize DEF PhaseInv, Idle, Resizing, Restoring, Releasing
      <3>5. QED
        BY <3>1, <3>2, <3>3, <3>4 DEF PhaseInv
    <2>3. QED
      BY <2>1, <2>2
  <1>7. \A u, v \in Threads : own'[u] # NONE /\ own'[u] = own'[v] => u = v
    BY DEF RealFree, RealReallocReleases, RealReallocFails, Ownership, TypeOK
  <1>8. QED
    BY <1>4, <1>5, <1>6, <1>7 DEF Ownership

\* The realloc that moves its block or resizes it in place.
LEMMA RealReallocInv ==
  ASSUME IInv, NEW t \in Threads, NEW q \in Pointers, RealRealloc(t, q)
  PROVE  IInv'
  <1> USE DEF IInv
  <1>1. own[t] \in Pointers /\ asked[t] \in Sizes /\ q \in FreeAddresses \cup {own[t]}
    BY DEF RealRealloc, Ownership, PhaseInv, Idle, Resizing, Releasing
  <1>2. UNCHANGED <<live_table, live_table_ready, avail>>
    BY DEF RealRealloc, gaugeVars
  <1>3. /\ \A p \in Pointers : p \notin {own[t], q} => block'[p] = block[p]
        /\ block'[q] = asked[t]
    BY DEF RealRealloc, TypeOK
  <1>4. /\ TableSound' /\ ReadyOrEmpty' /\ SampledOnly'
        /\ TrackedInHands' /\ SizesRecorded'
        /\ q \notin avail
        /\ \A u \in Threads : u # t /\ own[u] # NONE =>
              own[u] # q /\ own[u] # own[t] /\ block'[own[u]] = block[own[u]]
    BY <1>1, <1>2, <1>3, BlockChange
  <1>5. TypeOK'
    BY <1>1 DEF RealRealloc, GoTo, gaugeVars, eventVars, flowVars, TypeOK, Phases, Releasing
  <1>6. ASSUME NEW u \in Threads
        PROVE  PhaseInv(u)'
    <2>1. CASE u = t
      BY <2>1, <1>1, <1>2, <1>3, <1>4, NoneIsNoSize
        DEF RealRealloc, GoTo, Ownership, PhaseInv, TypeOK,
            Idle, Resizing, Restoring, Releasing
    <2>2. CASE u # t
      <3>1. /\ pc'[u] = pc[u] /\ own'[u] = own[u]
            /\ old'[u] = old[u] /\ asked'[u] = asked[u] /\ detached'[u] = detached[u]
            /\ avail' = avail
        BY <2>2 DEF RealRealloc, GoTo, TypeOK
      <3>2. PhaseInv(u)
        BY DEF Ownership
      <3>3. own[u] # NONE => block'[own[u]] = block[own[u]]
        BY <2>2, <1>4
      <3>4. pc[u] \in {Resizing, Restoring} => own[u] # NONE
        BY <3>2, NoneIsNoSize DEF PhaseInv, Idle, Resizing, Restoring, Releasing
      <3>5. QED
        BY <3>1, <3>2, <3>3, <3>4 DEF PhaseInv
    <2>3. QED
      BY <2>1, <2>2
  <1>7. \A u, v \in Threads : own'[u] # NONE /\ own'[u] = own'[v] => u = v
    BY <1>4 DEF RealRealloc, Ownership, TypeOK
  <1>8. QED
    BY <1>4, <1>5, <1>6, <1>7 DEF Ownership

\* A thread that leaves its realloc refers to no old pointer.
LEMMA ForgetCallEffect ==
  ASSUME TypeOK, NEW t \in Threads, ForgetCall(t)
  PROVE  /\ old' \in [Threads -> Pointers \cup {NONE}]
         /\ asked' \in [Threads -> Sizes \cup {NONE}]
         /\ detached' \in [Threads -> Detachments]
         /\ detached'[t] = NotDetached
         /\ \A u \in Threads : u # t =>
               old'[u] = old[u] /\ asked'[u] = asked[u] /\ detached'[u] = detached[u]
  <1>1. NotDetached \in Detachments
    BY DEF Detachments, NotDetached
  <1>2. QED
    BY <1>1 DEF ForgetCall, TypeOK

\* The release event of a realloc only counts.
LEMMA RecordReleaseInv ==
  ASSUME IInv, NEW t \in Threads, RecordRelease(t)
  PROVE  IInv'
  <1> USE DEF IInv
  <1>1. pc[t] = Releasing /\ ShardOf[old[t]] \in Shards
    BY TableAssumption DEF RecordRelease, Ownership, PhaseInv, Releasing
  <1>2. /\ TableSound' /\ ReadyOrEmpty' /\ SampledOnly'
        /\ TrackedInHands' /\ SizesRecorded'
    BY DEF RecordRelease, gaugeVars, TableSound, ReadyOrEmpty, SampledOnly,
           TrackedInHands, SizesRecorded, Tracked
  <1>3. free_events' \in [Shards -> Nat]
    <2>1. free_events \in [Shards -> Nat]
      BY DEF TypeOK
    <2>2. UNCHANGED free_events \/ Bump(free_events, ShardOf[old[t]])
      BY DEF RecordRelease
    <2>3. QED
      BY <2>1, <2>2, <1>1 DEF Bump
  <1>4. untracked_frees' \in [Shards -> Nat]
    <2>1. untracked_frees \in [Shards -> Nat]
      BY DEF TypeOK
    <2>2. UNCHANGED untracked_frees \/ Bump(untracked_frees, ShardOf[old[t]])
      BY DEF RecordRelease
    <2>3. QED
      BY <2>1, <2>2, <1>1 DEF Bump
  <1>5. TypeOK'
    <2>1. ForgetCall(t)
      BY DEF RecordRelease
    <2>2. QED
      BY <2>1, <1>3, <1>4, ForgetCallEffect
        DEF RecordRelease, GoTo, gaugeVars, flowVars, TypeOK, Phases, Idle, Measuring
  <1>6. ASSUME NEW u \in Threads
        PROVE  PhaseInv(u)'
    <2>0. ForgetCall(t)
      BY DEF RecordRelease
    <2>1. CASE u = t
      BY <2>0, <2>1, <1>1, ForgetCallEffect
        DEF RecordRelease, GoTo, Ownership, PhaseInv, TypeOK,
            Idle, Measuring, Resizing, Restoring, Releasing
    <2>2. CASE u # t
      BY <2>0, <2>2, ForgetCallEffect
        DEF RecordRelease, GoTo, Ownership, PhaseInv, TypeOK
    <2>3. QED
      BY <2>1, <2>2
  <1>7. \A u, v \in Threads : own'[u] # NONE /\ own'[u] = own'[v] => u = v
    BY DEF RecordRelease, Ownership
  <1>8. QED
    BY <1>2, <1>5, <1>6, <1>7 DEF Ownership

\* A failed realloc restores the record with the size of the block.
LEMMA RestoreInv ==
  ASSUME IInv, NEW t \in Threads, Restore(t)
  PROVE  IInv'
  <1> USE DEF IInv
  <1>a. /\ own[t] \in Pointers /\ old[t] = own[t] /\ own[t] \notin avail
        /\ block[own[t]] # NONE
        /\ detached[t].tracked =>
             own[t] \in Sampled /\ detached[t].requested = block[own[t]]
    BY NoneIsNoSize DEF Restore, Ownership, PhaseInv, Idle, Resizing, Restoring, Releasing
  <1>b. block[own[t]] \in Sizes
    BY <1>a DEF TypeOK
  <1>c. PICK p \in Pointers, n \in Sizes : p = own[t] /\ n = block[own[t]]
    BY <1>a, <1>b
  <1>1. /\ p \notin avail
        /\ p \notin Tracked
        /\ \A u \in Threads : u # t => own[u] # p
    BY <1>a, <1>c, NoneIsNoSize DEF Ownership, TrackedInHands
  <1>2. /\ live_table' \in TypedTable
        /\ TableSound'
        /\ Tracked' \in {Tracked, Tracked \cup {p}}
        /\ p \notin Sampled \/ ~live_table_ready => Tracked' = Tracked
        /\ \A i \in Slots : \/ live_table'[i] = live_table[i]
                            \/ live_table'[i] = [pointer |-> p, requested |-> n]
        /\ CountersTyped'
        /\ tracking_failures' \in [Shards -> Nat]
    <2>1. CASE detached[t].tracked
      <3>1. TrackLive(p, n)
        BY <2>1, <1>a, <1>c DEF Restore, TrackLive, AddLiveCounters, Bump
      <3>2. CountersTyped' /\ tracking_failures' \in [Shards -> Nat]
        BY <3>1, TrackLiveTyped
      <3>3. p \in Sampled
        BY <2>1, <1>a, <1>c
      <3>4. QED
        BY <3>1, <3>2, <3>3, <1>1, TrackLiveEffect
    <2>2. CASE ~detached[t].tracked
      BY <2>2 DEF Restore, gaugeVars, TypeOK, TypedTable, TableSound, Tracked, CountersTyped
    <2>3. QED
      BY <2>1, <2>2
  <1>f. ForgetCall(t)
    BY DEF Restore
  <1>3. TypeOK'
    BY <1>c, <1>2, <1>f, ForgetCallEffect
      DEF Restore, GoTo, TypeOK, TypedTable, CountersTyped, Phases, Idle
  <1>4. ReadyOrEmpty' /\ SampledOnly'
    BY <1>2 DEF Restore, ReadyOrEmpty, SampledOnly
  <1>5. TrackedInHands'
    BY <1>a, <1>c, <1>1, <1>2 DEF Restore, TrackedInHands
  <1>6. SizesRecorded'
    BY <1>c, <1>2 DEF Restore, SizesRecorded
  <1>7. Ownership'
    <2>1. ASSUME NEW u \in Threads
          PROVE  PhaseInv(u)'
      <3>1. CASE u = t
        BY <3>1, <1>f, ForgetCallEffect
          DEF Restore, GoTo, Ownership, PhaseInv, TypeOK,
              Idle, Resizing, Restoring, Releasing
      <3>2. CASE u # t
        BY <3>2, <1>c, <1>1, <1>f, ForgetCallEffect
          DEF Restore, GoTo, Ownership, PhaseInv, TypeOK
      <3>3. QED
        BY <3>1, <3>2
    <2>2. QED
      BY <2>1 DEF Restore, Ownership, TypeOK
  <1>8. QED
    BY <1>2, <1>3, <1>4, <1>5, <1>6, <1>7

\* A stuttering step changes nothing.
LEMMA StutterInv == IInv /\ UNCHANGED vars => IInv'
  BY DEF IInv, vars, gaugeVars, eventVars, flowVars, callVars, TypeOK, Ownership, PhaseInv,
         ReadyOrEmpty, SampledOnly, TableSound, TrackedInHands, SizesRecorded, Tracked

\* Every step of every thread preserves the invariant.
LEMMA StepInv == IInv /\ [Next]_vars => IInv'
  <1>1. ASSUME IInv, NEW t \in Threads, Step(t)
        PROVE  IInv'
    <2>1. CASE AllocateFails(t) \/ Measure(t)
      BY <1>1, <2>1, CountingInv
    <2>2. CASE Track(t)
      BY <1>1, <2>2, TrackInv
    <2>3. CASE RealFree(t) \/ RealReallocReleases(t) \/ RealReallocFails(t)
      BY <1>1, <2>3, RealCallInv
    <2>4. CASE RecordRelease(t)
      BY <1>1, <2>4, RecordReleaseInv
    <2>5. CASE Restore(t)
      BY <1>1, <2>5, RestoreInv
    <2>6. CASE \E p \in Pointers : RecordFree(t, p) \/ RealRealloc(t, p)
      BY <1>1, <2>6, RecordFreeInv, RealReallocInv
    <2>7. CASE \E p \in Pointers, n \in Sizes : Allocate(t, p, n) \/ Detach(t, p, n)
      BY <1>1, <2>7, AllocateInv, DetachInv
    <2>8. QED
      BY <1>1, <2>1, <2>2, <2>3, <2>4, <2>5, <2>6, <2>7 DEF Step
  <1>2. QED
    BY <1>1, StutterInv DEF Next

\* The inductive invariant holds in every reachable state.
THEOREM Invariance == Spec => []IInv
  BY InitInv, StepInv, PTL DEF Spec

\* Every variable of the tracking has its type.
THEOREM TypeCorrect == Spec => []TypeOK
  <1>1. IInv => TypeOK
    BY DEF IInv
  <1>2. QED
    BY <1>1, Invariance, PTL

\* No pointer is ever in two slots, and the lookup reaches every stored pointer.
THEOREM TableStaysSound == Spec => []TableSound
  <1>1. IInv => TableSound
    BY DEF IInv
  <1>2. QED
    BY <1>1, Invariance, PTL

\* A record is removed before its block can be released or resized, and has the
\* size last requested for its block.
THEOREM NoStaleRecord == Spec => []RecordsAreTrue
  <1>1. IInv => RecordsAreTrue
    BY DEF IInv, RecordsAreTrue
  <1>2. QED
    BY <1>1, Invariance, PTL

------------------------------------------------------------------------------

\* The hook implements the ledger of live blocks.

LedgerNow ==
  [p \in Pointers |-> IF p \in Tracked THEN live_table[SlotOf(live_table, p)].requested
                                       ELSE NONE]

LedgerBlocks == [p \in Pointers |-> IF p \in Tracked THEN block[p] ELSE NONE]

\* A tracked block is in the ledger with its own size.
LEMMA LedgerValue == IInv => LedgerNow = LedgerBlocks
  <1> SUFFICES ASSUME IInv PROVE LedgerNow = LedgerBlocks
    OBVIOUS
  <1>1. ASSUME NEW p \in Pointers, p \in Tracked
        PROVE  live_table[SlotOf(live_table, p)].requested = block[p]
    <2>1. PICK i \in Slots : live_table[i].pointer = p
      BY <1>1 DEF Tracked, Stored, Holds
    <2>2. SlotOf(live_table, p) = i
      BY <2>1, SlotOfStored DEF IInv, TypeOK, TypedTable, TableSound
    <2>3. QED
      BY <2>1, <2>2 DEF IInv, SizesRecorded
  <1>2. QED
    BY <1>1 DEF LedgerNow, LedgerBlocks

\* The steps of the ledger, in terms of the blocks and the tracked pointers.
LedgerStep ==
  \/ UNCHANGED <<block, Tracked>>
  \/ \E p \in Pointers :
       /\ UNCHANGED block
       /\ \/ p \notin Tracked /\ block[p] # NONE /\ Tracked' = Tracked \cup {p}
          \/ p \in Tracked /\ Tracked' = Tracked \ {p}
  \/ \E p \in Pointers :
       /\ p \notin Tracked
       /\ UNCHANGED Tracked
       /\ \/ block' = [block EXCEPT ![p] = NONE]
          \/ \E n \in Sizes : block[p] = NONE /\ block' = [block EXCEPT ![p] = n]
          \/ \E q \in Pointers, n \in Sizes :
               /\ q = p \/ block[q] = NONE
               /\ block' = [block EXCEPT ![p] = NONE, ![q] = n]

\* Every step of a hooked call is a step of the ledger or a stutter.
LEMMA StepKinds ==
  ASSUME IInv, NEW t \in Threads, Step(t)
  PROVE  LedgerStep
  <1> USE DEF IInv
  <1>0. ASSUME UNCHANGED live_table
        PROVE  UNCHANGED Tracked
    BY <1>0 DEF Tracked
  <1>1. CASE AllocateFails(t) \/ Measure(t) \/ RealReallocFails(t) \/ RecordRelease(t)
    BY <1>0, <1>1
      DEF AllocateFails, Measure, RealReallocFails, RecordRelease, gaugeVars, LedgerStep
  <1>2. ASSUME Track(t) \/ Restore(t)
        PROVE  LedgerStep
    <2>1. own[t] \in Pointers /\ own[t] \notin Tracked /\ block[own[t]] \in Sizes
      BY <1>2, NoneIsNoSize
        DEF Track, Restore, Ownership, PhaseInv, TypeOK, TrackedInHands,
            Idle, Tracking, Restoring, Releasing
    <2>2. PICK p \in Pointers, n \in Sizes : p = own[t] /\ n = block[own[t]]
      BY <2>1
    <2>3. UNCHANGED live_table \/ TrackLive(p, n)
      <3>1. CASE Track(t)
        BY <3>1, <2>2 DEF Track, TrackLive, AddLiveCounters, Bump, gaugeVars
      <3>2. CASE Restore(t)
        <4>1. old[t] = p /\ (detached[t].tracked => detached[t].requested = n)
          BY <3>2, <2>2 DEF Restore, Ownership, PhaseInv, Restoring, Resizing
        <4>2. QED
          BY <3>2, <4>1 DEF Restore, TrackLive, AddLiveCounters, Bump, gaugeVars
      <3>3. QED
        BY <1>2, <3>1, <3>2
    <2>4. Tracked' \in {Tracked, Tracked \cup {p}}
      <3>1. CASE UNCHANGED live_table
        BY <3>1, <1>0
      <3>2. CASE TrackLive(p, n)
        BY <3>2, <2>1, <2>2, TrackLiveEffect
      <3>3. QED
        BY <2>3, <3>1, <3>2
    <2>5. UNCHANGED block
      BY <1>2 DEF Track, Restore
    <2>6. p \notin Tracked /\ block[p] # NONE
      BY <2>1, <2>2, NoneIsNoSize
    <2>7. QED
      BY <2>4, <2>5, <2>6 DEF LedgerStep
  <1>3. ASSUME NEW p \in Pointers, RecordFree(t, p) \/ \E n \in Sizes : Detach(t, p, n)
        PROVE  LedgerStep
    <2>1. UNCHANGED block
      BY <1>3 DEF RecordFree, Detach
    <2>2. UNCHANGED live_table \/ \E k \in FoundProbes(live_table, p) : Untrack(p, k)
      BY <1>3 DEF RecordFree, Detach, gaugeVars
    <2>3. UNCHANGED Tracked \/ (p \in Tracked /\ Tracked' = Tracked \ {p})
      BY <2>2, <1>0, UntrackEffect
    <2>4. QED
      BY <2>1, <2>3 DEF LedgerStep
  <1>4. CASE RealFree(t) \/ RealReallocReleases(t)
    <2>1. own[t] \in Pointers /\ own[t] \notin Tracked
      BY <1>4, NoneIsNoSize
        DEF RealFree, RealReallocReleases, Ownership, PhaseInv, TrackedInHands,
            Idle, Freeing, Resizing, Releasing
    <2>2. UNCHANGED Tracked
      BY <1>4, <1>0 DEF RealFree, RealReallocReleases, gaugeVars
    <2>3. QED
      BY <1>4, <2>1, <2>2 DEF RealFree, RealReallocReleases, LedgerStep
  <1>5. ASSUME NEW q \in Pointers, RealRealloc(t, q)
        PROVE  LedgerStep
    <2>1. own[t] \in Pointers /\ own[t] \notin Tracked /\ asked[t] \in Sizes
      BY <1>5, NoneIsNoSize
        DEF RealRealloc, Ownership, PhaseInv, TrackedInHands, Idle, Resizing, Releasing
    <2>2. UNCHANGED Tracked
      BY <1>5, <1>0 DEF RealRealloc, gaugeVars
    <2>3. q = own[t] \/ block[q] = NONE
      BY <1>5 DEF RealRealloc, FreeAddresses
    <2>4. block' = [block EXCEPT ![own[t]] = NONE, ![q] = asked[t]]
      BY <1>5 DEF RealRealloc
    <2>5. QED
      BY <2>1, <2>2, <2>3, <2>4 DEF LedgerStep
  <1>6. ASSUME NEW p \in Pointers, NEW n \in Sizes, Allocate(t, p, n)
        PROVE  LedgerStep
    <2>1. block[p] = NONE /\ p \notin Tracked
      BY <1>6 DEF Allocate, FreeAddresses, TrackedInHands
    <2>2. UNCHANGED Tracked
      BY <1>6, <1>0 DEF Allocate, gaugeVars
    <2>3. QED
      BY <1>6, <2>1, <2>2 DEF Allocate, LedgerStep
  <1>7. QED
    BY <1>1, <1>2, <1>3, <1>4, <1>5, <1>6 DEF Step

\* LedgerValue in the next state.
LEMMA NextLedgerValue == IInv' => (LedgerNow = LedgerBlocks)'
  BY LedgerValue, PTL

\* Such a step is one the ledger allows.
LEMMA LedgerStepRefines ==
  ASSUME IInv, IInv', LedgerStep
  PROVE  [Ledger!Next]_<<block, LedgerNow>>
  <1>1. /\ LedgerNow = [p \in Pointers |-> IF p \in Tracked THEN block[p] ELSE NONE]
        /\ LedgerNow' = [p \in Pointers |-> IF p \in Tracked' THEN block'[p] ELSE NONE]
    BY LedgerValue, NextLedgerValue DEF LedgerBlocks
  <1>2. /\ block \in [Pointers -> Sizes \cup {NONE}]
        /\ \A p \in Tracked : block[p] # NONE
    BY DEF IInv, TypeOK, TrackedInHands
  <1>3. CASE UNCHANGED <<block, Tracked>>
    BY <1>1, <1>3
  <1>4. ASSUME NEW p \in Pointers, UNCHANGED block, p \notin Tracked, block[p] # NONE,
               Tracked' = Tracked \cup {p}
        PROVE  Ledger!Enroll(p)
    BY <1>1, <1>4 DEF Ledger!Enroll, LedgerNow
  <1>5. ASSUME NEW p \in Pointers, UNCHANGED block, p \in Tracked, Tracked' = Tracked \ {p}
        PROVE  Ledger!Strike(p)
    <2>1. LedgerNow[p] # NONE
      BY <1>1, <1>2, <1>5
    <2>2. LedgerNow' = [LedgerNow EXCEPT ![p] = NONE]
      BY <1>1, <1>5
    <2>3. QED
      BY <2>1, <2>2, <1>5 DEF Ledger!Strike, LedgerNow
  <1>6. ASSUME NEW p \in Pointers, p \notin Tracked, UNCHANGED Tracked
        PROVE  LedgerNow[p] = NONE
    BY <1>1, <1>6
  <1>7. ASSUME NEW p \in Pointers, p \notin Tracked, UNCHANGED Tracked,
               block' = [block EXCEPT ![p] = NONE]
        PROVE  Ledger!Release(p)
    <2>1. UNCHANGED LedgerNow
      BY <1>1, <1>2, <1>7
    <2>2. QED
      BY <2>1, <1>6, <1>7 DEF Ledger!Release, LedgerNow
  <1>8. ASSUME NEW p \in Pointers, NEW n \in Sizes, p \notin Tracked, UNCHANGED Tracked,
               block[p] = NONE, block' = [block EXCEPT ![p] = n]
        PROVE  Ledger!Allocate(p, n)
    <2>1. UNCHANGED LedgerNow
      BY <1>1, <1>2, <1>8
    <2>2. QED
      BY <2>1, <1>8 DEF Ledger!Allocate, LedgerNow
  <1>9. ASSUME NEW p \in Pointers, NEW q \in Pointers, NEW n \in Sizes,
               p \notin Tracked, UNCHANGED Tracked, q = p \/ block[q] = NONE,
               block' = [block EXCEPT ![p] = NONE, ![q] = n]
        PROVE  Ledger!Resize(p, q, n)
    <2>1. \A r \in Tracked : r # p /\ r # q
      BY <1>2, <1>9
    <2>2. UNCHANGED LedgerNow
      BY <1>1, <1>2, <1>9, <2>1
    <2>3. QED
      BY <2>2, <1>6, <1>9 DEF Ledger!Resize, LedgerNow
  <1>10. QED
    BY <1>3, <1>4, <1>5, <1>7, <1>8, <1>9 DEF LedgerStep, Ledger!Next

\* The hook implements the ledger: a block is enrolled and struck off while it
\* is allocated, with its own size, in every interleaving.
THEOREM ImplementsLedger == Spec => LedgerSpec
  <1>1. Init => Ledger!Init
    BY EmptyTableSound DEF Init, Ledger!Init, Tracked
  <1>2. IInv /\ IInv' /\ [Next]_vars => [Ledger!Next]_<<block, LedgerNow>>
    <2> SUFFICES ASSUME IInv, IInv', [Next]_vars
                 PROVE  [Ledger!Next]_<<block, LedgerNow>>
      OBVIOUS
    <2>1. CASE UNCHANGED vars
      BY <2>1, LedgerStepRefines DEF vars, gaugeVars, LedgerStep, Tracked
    <2>2. CASE Next
      BY <2>2, StepKinds, LedgerStepRefines DEF Next
    <2>3. QED
      BY <2>1, <2>2
  <1>3. [Ledger!Next]_<<block, LedgerNow>> <=> [Ledger!Next]_(Ledger!vars)
    BY DEF LedgerNow, Ledger!vars
  <1>4. QED
    BY <1>1, <1>2, <1>3, Invariance, PTL DEF Spec, LedgerSpec, Ledger!Spec

------------------------------------------------------------------------------
(* The accounts of the hook balance: the counters of a shard count the slots of its table,
   its byte counters are the sums over them, and every sampled block missing from the table
   is reported. *)

\* The table is finite, and so is every set of its slots.
LEMMA SlotsFinite == IsFiniteSet(Slots)
  <1>1. IsFiniteSet(0 .. SlotsPerShard - 1)
    BY TableAssumption, FS_Interval
  <1>2. QED
    BY <1>1, FiniteTable, FS_Product DEF Slots

\* The slots the counters count are finitely many.
LEMMA HoldingFinite ==
  /\ \A s \in Shards : IsFiniteSet(SlotsHolding(s)) /\ Cardinality(SlotsHolding(s)) \in Nat
  /\ \A s \in Shards, b \in Buckets :
       IsFiniteSet(SlotsInBucket(s, b)) /\ Cardinality(SlotsInBucket(s, b)) \in Nat
  <1>1. ASSUME NEW s, NEW b
        PROVE  SlotsHolding(s) \subseteq Slots /\ SlotsInBucket(s, b) \subseteq Slots
    BY DEF SlotsHolding, SlotsInBucket
  <1>2. QED
    BY <1>1, SlotsFinite, FS_Subset, FS_CardinalityType

\* The slots of a shard and of a bucket when slot i comes to hold a pointer.
LEMMA HoldingInserted ==
  ASSUME NEW i \in Slots, NEW n \in Sizes,
         live_table[i].pointer \notin Pointers,
         live_table'[i].pointer \in Pointers, live_table'[i].requested = n,
         \A j \in Slots : j # i => live_table'[j] = live_table[j],
         NEW s \in Shards, NEW b \in Buckets
  PROVE  /\ i \notin SlotsHolding(s) /\ i \notin SlotsInBucket(s, b)
         /\ SlotsHolding(s)' =
              IF i[1] = s THEN SlotsHolding(s) \cup {i} ELSE SlotsHolding(s)
         /\ SlotsInBucket(s, b)' =
              IF i[1] = s /\ BucketOf[n] = b THEN SlotsInBucket(s, b) \cup {i}
                                             ELSE SlotsInBucket(s, b)
  <1>1. i \notin SlotsHolding(s) /\ i \notin SlotsInBucket(s, b)
    BY DEF SlotsHolding, SlotsInBucket
  <1>2. SlotsHolding(s)' = IF i[1] = s THEN SlotsHolding(s) \cup {i} ELSE SlotsHolding(s)
    BY DEF SlotsHolding
  <1>3. SlotsInBucket(s, b)' = { j \in SlotsHolding(s)' : BucketOf[live_table'[j].requested] = b }
    BY DEF SlotsInBucket
  <1>4. ASSUME NEW j \in SlotsHolding(s)
        PROVE  j \in Slots /\ j # i /\ live_table'[j] = live_table[j]
    BY <1>1 DEF SlotsHolding
  <1>5. QED
    BY <1>1, <1>2, <1>3, <1>4 DEF SlotsInBucket

\* ... and when slot i gives its pointer up.
LEMMA HoldingRemoved ==
  ASSUME NEW i \in Slots, NEW n \in Sizes,
         live_table[i].pointer \in Pointers, live_table[i].requested = n,
         live_table'[i].pointer \notin Pointers,
         \A j \in Slots : j # i => live_table'[j] = live_table[j],
         NEW s \in Shards, NEW b \in Buckets
  PROVE  /\ i \in SlotsHolding(s) <=> i[1] = s
         /\ i \in SlotsInBucket(s, b) <=> i[1] = s /\ BucketOf[n] = b
         /\ SlotsHolding(s)' = SlotsHolding(s) \ {i}
         /\ SlotsInBucket(s, b)' = SlotsInBucket(s, b) \ {i}
  <1>1. /\ i \in SlotsHolding(s) <=> i[1] = s
        /\ i \in SlotsInBucket(s, b) <=> i[1] = s /\ BucketOf[n] = b
    BY DEF SlotsHolding, SlotsInBucket
  <1>2. SlotsHolding(s)' = SlotsHolding(s) \ {i}
    BY DEF SlotsHolding
  <1>3. SlotsInBucket(s, b)' = { j \in SlotsHolding(s)' : BucketOf[live_table'[j].requested] = b }
    BY DEF SlotsInBucket
  <1>4. ASSUME NEW j \in SlotsHolding(s) \ {i}
        PROVE  live_table'[j] = live_table[j]
    BY DEF SlotsHolding
  <1>5. QED
    BY <1>2, <1>3, <1>1, <1>4 DEF SlotsInBucket

\* An insertion adds to the counters of the pointer's shard and bucket only.
LEMMA TrackLiveCounts ==
  ASSUME TypeOK, TableSound, CountsMatchTable, NEW p \in Pointers, p \notin Tracked,
         NEW n \in Sizes, TrackLive(p, n)
  PROVE  CountsMatchTable'
  <1>1. CASE UNCHANGED gaugeVars
    BY <1>1 DEF gaugeVars, CountsMatchTable, SlotsHolding, SlotsInBucket
  <1>2. ASSUME NEW k \in InsertProbes(live_table, p),
               live_table' = Inserted(live_table, p, k, n),
               AddLiveCounters(ShardOf[p], n)
        PROVE  CountsMatchTable'
    <2>1. PICK i \in Slots : i = ProbeSlot(p, k)
      BY <1>2, ProbeType, ProbesType DEF InsertProbes
    <2>2. /\ live_table[i].pointer \notin Pointers
          /\ live_table'[i] = [pointer |-> p, requested |-> n]
          /\ \A j \in Slots : j # i => live_table'[j] = live_table[j]
      BY <1>2, <2>1, InsertSound DEF TypeOK, TypedTable, TableSound, Tracked
    <2>3. i[1] = ShardOf[p] /\ ShardOf[p] \in Shards /\ BucketOf[n] \in Buckets
      BY <2>1, TableAssumption, TrackingAssumption DEF ProbeSlot
    <2>4. SUFFICES ASSUME NEW s \in Shards, NEW b \in Buckets
                   PROVE  /\ allocations'[s] = Cardinality(SlotsHolding(s)')
                          /\ histogram'[s][b] = Cardinality(SlotsInBucket(s, b)')
      BY <2>3 DEF CountsMatchTable
    <2>5. /\ i \notin SlotsHolding(s) /\ i \notin SlotsInBucket(s, b)
          /\ SlotsHolding(s)' =
               IF i[1] = s THEN SlotsHolding(s) \cup {i} ELSE SlotsHolding(s)
          /\ SlotsInBucket(s, b)' =
               IF i[1] = s /\ BucketOf[n] = b THEN SlotsInBucket(s, b) \cup {i}
                                              ELSE SlotsInBucket(s, b)
      BY <2>2, HoldingInserted
    <2>6. /\ Cardinality(SlotsHolding(s) \cup {i}) = Cardinality(SlotsHolding(s)) + 1
          /\ Cardinality(SlotsInBucket(s, b) \cup {i}) = Cardinality(SlotsInBucket(s, b)) + 1
      BY <2>5, HoldingFinite, FS_AddElement
    <2>7. /\ allocations'[s] = IF i[1] = s THEN allocations[s] + 1 ELSE allocations[s]
          /\ histogram'[s][b] = IF i[1] = s /\ BucketOf[n] = b THEN histogram[s][b] + 1
                                                              ELSE histogram[s][b]
      BY <1>2, <2>3 DEF AddLiveCounters, TypeOK
    <2>8. /\ allocations[s] = Cardinality(SlotsHolding(s))
          /\ histogram[s][b] = Cardinality(SlotsInBucket(s, b))
      BY DEF CountsMatchTable
    <2>9. QED
      BY <2>5, <2>6, <2>7, <2>8
  <1>3. QED
    BY <1>1, <1>2 DEF TrackLive

\* A removal changes one slot.
LEMMA UntrackOneSlot ==
  ASSUME TypeOK, TableSound, NEW p \in Pointers,
         NEW k \in FoundProbes(live_table, p), Untrack(p, k),
         NEW i \in Slots, i = ProbeSlot(p, k)
  PROVE  /\ live_table[i].pointer = p
         /\ live_table'[i].pointer \notin Pointers
         /\ \A j \in Slots : j # i => live_table'[j] = live_table[j]
  <1>1. live_table \in TypedTable /\ NoDuplicates(live_table) /\ Reachable(live_table)
    BY DEF TypeOK, TypedTable, TableSound
  <1>2. PICK new : new = Removed(live_table, p, k)
    OBVIOUS
  <1>3. live_table[i].pointer = p /\ new[i].pointer \notin Pointers
        /\ \A j \in Slots : j # i => new[j] = live_table[j]
    BY <1>1, <1>2, RemoveSound
  <1>4. live_table' = new
    BY <1>2 DEF Untrack
  <1>5. QED
    BY <1>3, <1>4

\* A removal subtracts what the insertion added.
LEMMA UntrackCounts ==
  ASSUME TypeOK, TableSound, CountsMatchTable, NEW p \in Pointers,
         NEW k \in FoundProbes(live_table, p), Untrack(p, k)
  PROVE  CountsMatchTable'
  <1>1. PICK i \in Slots : i = ProbeSlot(p, k)
    BY UntrackEffect
  <1>2. PICK n \in Sizes : n = live_table[i].requested
    BY <1>1, UntrackTyped
  <1>3. /\ live_table[i].pointer = p
        /\ live_table'[i].pointer \notin Pointers
        /\ \A j \in Slots : j # i => live_table'[j] = live_table[j]
    BY <1>1, UntrackOneSlot
  <1>4. i[1] = ShardOf[p] /\ ShardOf[p] \in Shards /\ BucketOf[n] \in Buckets
    BY <1>1, TableAssumption, TrackingAssumption DEF ProbeSlot
  <1>5. SUFFICES ASSUME NEW s \in Shards, NEW b \in Buckets
                 PROVE  /\ allocations'[s] = Cardinality(SlotsHolding(s)')
                        /\ histogram'[s][b] = Cardinality(SlotsInBucket(s, b)')
    BY <1>4 DEF CountsMatchTable
  <1>6. /\ i \in SlotsHolding(s) <=> i[1] = s
        /\ i \in SlotsInBucket(s, b) <=> i[1] = s /\ BucketOf[n] = b
        /\ SlotsHolding(s)' = SlotsHolding(s) \ {i}
        /\ SlotsInBucket(s, b)' = SlotsInBucket(s, b) \ {i}
    BY <1>2, <1>3, HoldingRemoved
  <1>7. /\ Cardinality(SlotsHolding(s) \ {i}) =
             IF i[1] = s THEN Cardinality(SlotsHolding(s)) - 1
                         ELSE Cardinality(SlotsHolding(s))
        /\ Cardinality(SlotsInBucket(s, b) \ {i}) =
             IF i[1] = s /\ BucketOf[n] = b THEN Cardinality(SlotsInBucket(s, b)) - 1
                                            ELSE Cardinality(SlotsInBucket(s, b))
    BY <1>6, HoldingFinite, FS_RemoveElement
  <1>8. SubtractLiveCounters(ShardOf[p], n)
    BY <1>1, <1>2 DEF Untrack, SubtractLiveCounters
  <1>9. /\ allocations'[s] = IF i[1] = s THEN allocations[s] - 1 ELSE allocations[s]
        /\ histogram'[s][b] = IF i[1] = s /\ BucketOf[n] = b THEN histogram[s][b] - 1
                                                            ELSE histogram[s][b]
    BY <1>8, <1>4 DEF SubtractLiveCounters, TypeOK
  <1>10. /\ allocations[s] = Cardinality(SlotsHolding(s))
         /\ histogram[s][b] = Cardinality(SlotsInBucket(s, b))
    BY DEF CountsMatchTable
  <1>11. QED
    BY <1>6, <1>7, <1>9, <1>10

------------------------------------------------------------------------------

\* Every step leaves the table and its counters alone, tracks a block that was
\* not tracked, or removes a record.
LEMMA GaugeSteps ==
  ASSUME IInv, NEW t \in Threads, Step(t)
  PROVE  \/ UNCHANGED gaugeVars
         \/ \E p \in Pointers, n \in Sizes : p \notin Tracked /\ TrackLive(p, n)
         \/ \E p \in Pointers : \E k \in FoundProbes(live_table, p) : Untrack(p, k)
  <1>1. CASE Track(t) \/ Restore(t)
    <2>1. /\ own[t] \in Pointers /\ own[t] \notin Tracked /\ block[own[t]] \in Sizes
          /\ Restore(t) => /\ old[t] = own[t]
                           /\ detached[t].tracked => detached[t].requested = block[own[t]]
      BY <1>1, NoneIsNoSize
        DEF Track, Restore, IInv, Ownership, PhaseInv, TypeOK, TrackedInHands,
            Idle, Tracking, Resizing, Restoring, Releasing
    <2>2. PICK p \in Pointers, n \in Sizes : p = own[t] /\ n = block[own[t]]
      BY <2>1
    <2>3. UNCHANGED gaugeVars \/ TrackLive(p, n)
      BY <1>1, <2>1, <2>2 DEF Track, Restore, TrackLive, AddLiveCounters, Bump, gaugeVars
    <2>4. QED
      BY <2>1, <2>2, <2>3
  <1>2. CASE \E p \in Pointers : RecordFree(t, p) \/ \E n \in Sizes : Detach(t, p, n)
    BY <1>2 DEF RecordFree, Detach
  <1>3. QED
    BY <1>1, <1>2
      DEF Step, Allocate, AllocateFails, Measure, RealFree, RealRealloc,
          RealReallocReleases, RealReallocFails, RecordRelease

\* In every reachable state the counters of a shard count its table.
LEMMA CountersCountTheTable == Spec => []CountsMatchTable
  <1>1. Init => CountsMatchTable
    <2> SUFFICES ASSUME Init PROVE CountsMatchTable
      OBVIOUS
    <2>1. \A s \in Shards : SlotsHolding(s) = {} /\ \A b \in Buckets : SlotsInBucket(s, b) = {}
      BY SentinelAssumption DEF Init, EmptyTable, SlotsHolding, SlotsInBucket
    <2>2. QED
      BY <2>1, FS_EmptySet DEF Init, CountsMatchTable
  <1>2. IInv /\ CountsMatchTable /\ [Next]_vars => CountsMatchTable'
    <2> SUFFICES ASSUME IInv, CountsMatchTable, [Next]_vars
                 PROVE  CountsMatchTable'
      OBVIOUS
    <2>1. ASSUME UNCHANGED gaugeVars
          PROVE  CountsMatchTable'
      BY <2>1 DEF gaugeVars, CountsMatchTable, SlotsHolding, SlotsInBucket
    <2>2. CASE UNCHANGED vars
      BY <2>1, <2>2 DEF vars
    <2>3. ASSUME NEW t \in Threads, Step(t)
          PROVE  CountsMatchTable'
      BY <2>1, <2>3, GaugeSteps, TrackLiveCounts, UntrackCounts DEF IInv
    <2>4. QED
      BY <2>2, <2>3 DEF Next
  <1>3. QED
    BY <1>1, <1>2, Invariance, PTL DEF Spec

------------------------------------------------------------------------------

\* The sizes and the holes the byte counters add up are integers.
LEMMA BytesTyped ==
  ASSUME TypeOK, NEW s \in Shards, NEW i \in SlotsHolding(s)
  PROVE  live_table[i].requested \in Int /\ HoleOf[live_table[i].requested] \in Int
  <1>1. live_table[i].requested \in Sizes
    BY SentinelAssumption DEF SlotsHolding, TypeOK, SlotValues
  <1>2. \A n \in Sizes : n \in Int /\ HoleOf[n] \in Int
    BY TableAssumption, TrackingAssumption
  <1>3. QED
    BY <1>1, <1>2

\* The sum over a set of slots when slot i joins it.
LEMMA SlotSumGrows ==
  ASSUME NEW f, NEW g, NEW i, IsFiniteSet(DOMAIN f), i \notin DOMAIN f,
         DOMAIN g = DOMAIN f \cup {i}, g[i] \in Int,
         \A j \in DOMAIN f : f[j] \in Int /\ g[j] = f[j]
  PROVE  SumFunction(g) = SumFunction(f) + g[i]
  <1> DEFINE S == DOMAIN f
  <1>1. /\ SumFunction(g) = SumFunctionOnSet(g, S \cup {i})
        /\ SumFunction(f) = SumFunctionOnSet(f, S)
    BY Zenon DEF SumFunction
  <1>2. SumFunctionOnSet(g, S \cup {i}) = g[i] + SumFunctionOnSet(g, S)
    BY SumInsert
  <1>3. SumFunctionOnSet(g, S) = SumFunctionOnSet(f, S)
    BY SumSame
  <1>4. SumFunctionOnSet(f, S) \in Int
    BY SumType
  <1>5. QED
    BY <1>1, <1>2, <1>3, <1>4

\* ... and when the slots it is over do not change.
LEMMA SlotSumStays ==
  ASSUME NEW S, IsFiniteSet(S), NEW f, NEW g, DOMAIN f = S, DOMAIN g = S,
         \A j \in S : f[j] \in Int /\ g[j] = f[j]
  PROVE  SumFunction(g) = SumFunction(f)
  <1>1. SumFunction(g) = SumFunctionOnSet(g, S) /\ SumFunction(f) = SumFunctionOnSet(f, S)
    BY Zenon DEF SumFunction
  <1>2. QED
    BY <1>1, SumSame

\* A sum of integers is one.
LEMMA WholeSum ==
  ASSUME NEW S, IsFiniteSet(S), NEW f, DOMAIN f = S, \A j \in S : f[j] \in Int
  PROVE  SumFunction(f) \in Int
  <1>1. SumFunction(f) = SumFunctionOnSet(f, S)
    BY Zenon DEF SumFunction
  <1>2. QED
    BY <1>1, SumType

\* A sum of nothing is zero.
LEMMA NothingToSum ==
  ASSUME NEW f, DOMAIN f = {}
  PROVE  SumFunction(f) = 0
  <1>1. SumFunction(f) = SumFunctionOnSet(f, {})
    BY Zenon DEF SumFunction
  <1>2. QED
    BY <1>1, SumEmpty

\* The byte counters match as long as neither they nor the table change.
LEMMA BytesUnchanged ==
  ASSUME BytesMatchTable, UNCHANGED gaugeVars
  PROVE  BytesMatchTable'
  <1>1. live_table' = live_table /\ requested_bytes' = requested_bytes
          /\ hole_bytes' = hole_bytes
    BY DEF gaugeVars
  <1>2. \A s \in Shards : SlotsHolding(s)' = SlotsHolding(s)
    BY <1>1 DEF SlotsHolding
  <1>3. \A s \in Shards, b \in Buckets : SlotsInBucket(s, b)' = SlotsInBucket(s, b)
    BY <1>1, <1>2 DEF SlotsInBucket
  <1>4. \A s \in Shards, b \in Buckets :
          RequestedIn(SlotsInBucket(s, b))' = RequestedIn(SlotsInBucket(s, b))
    BY <1>1, <1>3, Zenon DEF RequestedIn
  <1>5. \A s \in Shards : HolesIn(SlotsHolding(s))' = HolesIn(SlotsHolding(s))
    BY <1>1, <1>2, Zenon DEF HolesIn
  <1>6. QED
    BY <1>1, <1>4, <1>5 DEF BytesMatchTable

\* The byte sums of a shard and of a bucket when slot i comes to hold a pointer.
LEMMA BytesInserted ==
  ASSUME TypeOK, NEW i \in Slots, NEW n \in Sizes,
         live_table[i].pointer \notin Pointers,
         live_table'[i].pointer \in Pointers, live_table'[i].requested = n,
         \A j \in Slots : j # i => live_table'[j] = live_table[j],
         NEW s \in Shards, NEW b \in Buckets
  PROVE  /\ RequestedIn(SlotsInBucket(s, b))' = RequestedIn(SlotsInBucket(s, b))
              + (IF i[1] = s /\ BucketOf[n] = b THEN n ELSE 0)
         /\ HolesIn(SlotsHolding(s))' = HolesIn(SlotsHolding(s))
              + (IF i[1] = s THEN HoleOf[n] ELSE 0)
  <1> DEFINE S == SlotsInBucket(s, b)
             H == SlotsHolding(s)
             f == [j \in S |-> live_table[j].requested]
             g == [j \in S' |-> live_table'[j].requested]
             h == [j \in H |-> HoleOf[live_table[j].requested]]
             k == [j \in H' |-> HoleOf[live_table'[j].requested]]
  <1>1. /\ i \notin H /\ i \notin S
        /\ H' = IF i[1] = s THEN H \cup {i} ELSE H
        /\ S' = IF i[1] = s /\ BucketOf[n] = b THEN S \cup {i} ELSE S
    BY HoldingInserted
  <1>2. IsFiniteSet(S) /\ IsFiniteSet(H) /\ S \subseteq H /\ H \subseteq Slots
    BY HoldingFinite DEF SlotsInBucket, SlotsHolding
  <1>3. n \in Int /\ HoleOf[n] \in Int
    BY TableAssumption, TrackingAssumption
  <1>4. \A j \in H : /\ live_table[j].requested \in Int /\ HoleOf[live_table[j].requested] \in Int
                     /\ live_table'[j] = live_table[j]
    BY <1>1, <1>2, BytesTyped
  <1>5. /\ RequestedIn(S) = SumFunction(f) /\ RequestedIn(S)' = SumFunction(g)
        /\ HolesIn(H) = SumFunction(h) /\ HolesIn(H)' = SumFunction(k)
    BY Zenon DEF RequestedIn, HolesIn
  <1>6. /\ DOMAIN f = S /\ DOMAIN g = S' /\ \A j \in S : f[j] \in Int
        /\ \A j \in S' : g[j] = live_table'[j].requested
        /\ \A j \in S \cap S' : g[j] = f[j]
    BY <1>2, <1>4
  <1>7. /\ DOMAIN h = H /\ DOMAIN k = H' /\ \A j \in H : h[j] \in Int
        /\ \A j \in H' : k[j] = HoleOf[live_table'[j].requested]
        /\ \A j \in H \cap H' : k[j] = h[j]
    BY <1>4
  <1> HIDE DEF S, H, f, g, h, k
  <1>8. SumFunction(g) = SumFunction(f) + (IF i[1] = s /\ BucketOf[n] = b THEN n ELSE 0)
    <2>1. CASE i[1] = s /\ BucketOf[n] = b
      <3>1. S' = S \cup {i} /\ g[i] = n
        BY <1>1, <1>6, <2>1
      <3>2. /\ DOMAIN g = DOMAIN f \cup {i} /\ g[i] \in Int
            /\ \A j \in DOMAIN f : f[j] \in Int /\ g[j] = f[j]
            /\ IsFiniteSet(DOMAIN f) /\ i \notin DOMAIN f
        BY <1>1, <1>2, <1>3, <1>6, <3>1
      <3>3. SumFunction(g) = SumFunction(f) + g[i]
        BY <3>2, SlotSumGrows
      <3>4. QED
        BY <2>1, <3>1, <3>3
    <2>2. CASE ~(i[1] = s /\ BucketOf[n] = b)
      <3>1. S' = S
        BY <1>1, <2>2
      <3>2. SumFunction(g) = SumFunction(f)
        BY <1>2, <1>6, <3>1, SlotSumStays
      <3>3. SumFunction(f) \in Int
        BY <1>2, <1>6, WholeSum
      <3>4. QED
        BY <2>2, <3>2, <3>3
    <2>3. QED
      BY <2>1, <2>2
  <1>9. SumFunction(k) = SumFunction(h) + (IF i[1] = s THEN HoleOf[n] ELSE 0)
    <2>1. CASE i[1] = s
      <3>1. H' = H \cup {i} /\ k[i] = HoleOf[n]
        BY <1>1, <1>7, <2>1
      <3>2. /\ DOMAIN k = DOMAIN h \cup {i} /\ k[i] \in Int
            /\ \A j \in DOMAIN h : h[j] \in Int /\ k[j] = h[j]
            /\ IsFiniteSet(DOMAIN h) /\ i \notin DOMAIN h
        BY <1>1, <1>2, <1>3, <1>7, <3>1
      <3>3. SumFunction(k) = SumFunction(h) + k[i]
        BY <3>2, SlotSumGrows
      <3>4. QED
        BY <2>1, <3>1, <3>3
    <2>2. CASE i[1] # s
      <3>1. H' = H
        BY <1>1, <2>2
      <3>2. SumFunction(k) = SumFunction(h)
        BY <1>2, <1>7, <3>1, SlotSumStays
      <3>3. SumFunction(h) \in Int
        BY <1>2, <1>7, WholeSum
      <3>4. QED
        BY <2>2, <3>2, <3>3
    <2>3. QED
      BY <2>1, <2>2
  <1>10. QED
    BY <1>5, <1>8, <1>9 DEF S, H

\* ... and when slot i gives its pointer up.
LEMMA BytesRemoved ==
  ASSUME TypeOK, NEW i \in Slots, NEW n \in Sizes,
         live_table[i].pointer \in Pointers, live_table[i].requested = n,
         live_table'[i].pointer \notin Pointers,
         \A j \in Slots : j # i => live_table'[j] = live_table[j],
         NEW s \in Shards, NEW b \in Buckets
  PROVE  /\ RequestedIn(SlotsInBucket(s, b)) = RequestedIn(SlotsInBucket(s, b))'
              + (IF i[1] = s /\ BucketOf[n] = b THEN n ELSE 0)
         /\ HolesIn(SlotsHolding(s)) = HolesIn(SlotsHolding(s))'
              + (IF i[1] = s THEN HoleOf[n] ELSE 0)
         /\ RequestedIn(SlotsInBucket(s, b))' \in Int /\ HolesIn(SlotsHolding(s))' \in Int
  <1> DEFINE S == SlotsInBucket(s, b)
             H == SlotsHolding(s)
             f == [j \in S' |-> live_table'[j].requested]
             g == [j \in S |-> live_table[j].requested]
             h == [j \in H' |-> HoleOf[live_table'[j].requested]]
             k == [j \in H |-> HoleOf[live_table[j].requested]]
  <1>1. /\ i \in H <=> i[1] = s
        /\ i \in S <=> (i[1] = s /\ BucketOf[n] = b)
        /\ H' = H \ {i} /\ S' = S \ {i}
    BY HoldingRemoved
  <1>2. /\ IsFiniteSet(S') /\ IsFiniteSet(H') /\ S \subseteq H /\ H \subseteq Slots
        /\ i \notin S' /\ i \notin H'
    <2>1. IsFiniteSet(S) /\ IsFiniteSet(H)
      BY HoldingFinite
    <2>2. IsFiniteSet(S') /\ IsFiniteSet(H')
      BY <1>1, <2>1, FS_RemoveElement
    <2>3. S \subseteq H /\ H \subseteq Slots
      BY DEF SlotsInBucket, SlotsHolding
    <2>4. QED
      BY <1>1, <2>2, <2>3
  <1>3. n \in Int /\ HoleOf[n] \in Int
    BY TableAssumption, TrackingAssumption
  <1>4. /\ \A j \in H : /\ live_table[j].requested \in Int
                        /\ HoleOf[live_table[j].requested] \in Int
        /\ \A j \in H' : live_table'[j] = live_table[j]
    BY <1>1, <1>2, BytesTyped
  <1>5. /\ RequestedIn(S)' = SumFunction(f) /\ RequestedIn(S) = SumFunction(g)
        /\ HolesIn(H)' = SumFunction(h) /\ HolesIn(H) = SumFunction(k)
    BY Zenon DEF RequestedIn, HolesIn
  <1>6. /\ DOMAIN f = S' /\ DOMAIN g = S
        /\ \A j \in S : g[j] = live_table[j].requested
        /\ \A j \in S' : f[j] \in Int /\ g[j] = f[j]
    BY <1>1, <1>2, <1>4
  <1>7. /\ DOMAIN h = H' /\ DOMAIN k = H
        /\ \A j \in H : k[j] = HoleOf[live_table[j].requested]
        /\ \A j \in H' : h[j] \in Int /\ k[j] = h[j]
    BY <1>1, <1>4
  <1> HIDE DEF S, H, f, g, h, k
  <1>8. SumFunction(f) \in Int /\ SumFunction(h) \in Int
    BY <1>2, <1>6, <1>7, WholeSum
  <1>9. SumFunction(g) = SumFunction(f) + (IF i[1] = s /\ BucketOf[n] = b THEN n ELSE 0)
    <2>1. CASE i[1] = s /\ BucketOf[n] = b
      <3>1. S = S' \cup {i} /\ g[i] = n
        BY <1>1, <1>6, <2>1
      <3>2. /\ DOMAIN g = DOMAIN f \cup {i} /\ g[i] \in Int
            /\ \A j \in DOMAIN f : f[j] \in Int /\ g[j] = f[j]
            /\ IsFiniteSet(DOMAIN f) /\ i \notin DOMAIN f
        BY <1>2, <1>3, <1>6, <3>1
      <3>3. SumFunction(g) = SumFunction(f) + g[i]
        BY <3>2, SlotSumGrows
      <3>4. QED
        BY <2>1, <3>1, <3>3
    <2>2. CASE ~(i[1] = s /\ BucketOf[n] = b)
      <3>1. S = S'
        BY <1>1, <2>2
      <3>2. DOMAIN g = S'
        BY <1>6, <3>1
      <3>3. SumFunction(g) = SumFunction(f)
        BY <1>2, <1>6, <3>2, SlotSumStays
      <3>4. QED
        BY <1>8, <2>2, <3>3
    <2>3. QED
      BY <2>1, <2>2
  <1>10. SumFunction(k) = SumFunction(h) + (IF i[1] = s THEN HoleOf[n] ELSE 0)
    <2>1. CASE i[1] = s
      <3>1. H = H' \cup {i} /\ k[i] = HoleOf[n]
        BY <1>1, <1>7, <2>1
      <3>2. /\ DOMAIN k = DOMAIN h \cup {i} /\ k[i] \in Int
            /\ \A j \in DOMAIN h : h[j] \in Int /\ k[j] = h[j]
            /\ IsFiniteSet(DOMAIN h) /\ i \notin DOMAIN h
        BY <1>2, <1>3, <1>7, <3>1
      <3>3. SumFunction(k) = SumFunction(h) + k[i]
        BY <3>2, SlotSumGrows
      <3>4. QED
        BY <2>1, <3>1, <3>3
    <2>2. CASE i[1] # s
      <3>1. H = H'
        BY <1>1, <2>2
      <3>2. DOMAIN k = H'
        BY <1>7, <3>1
      <3>3. SumFunction(k) = SumFunction(h)
        BY <1>2, <1>7, <3>2, SlotSumStays
      <3>4. QED
        BY <1>8, <2>2, <3>3
    <2>3. QED
      BY <2>1, <2>2
  <1>11. QED
    BY <1>5, <1>8, <1>9, <1>10 DEF S, H

\* An insertion adds the size and the hole of the record to the byte counters.
LEMMA TrackLiveBytes ==
  ASSUME TypeOK, TableSound, BytesMatchTable, NEW p \in Pointers, p \notin Tracked,
         NEW n \in Sizes, TrackLive(p, n)
  PROVE  BytesMatchTable'
  <1>1. CASE UNCHANGED gaugeVars
    BY <1>1, BytesUnchanged
  <1>2. ASSUME NEW k \in InsertProbes(live_table, p),
               live_table' = Inserted(live_table, p, k, n),
               AddLiveCounters(ShardOf[p], n)
        PROVE  BytesMatchTable'
    <2>1. PICK i \in Slots : i = ProbeSlot(p, k)
      BY <1>2, ProbeType, ProbesType DEF InsertProbes
    <2>2. /\ live_table[i].pointer \notin Pointers
          /\ live_table'[i] = [pointer |-> p, requested |-> n]
          /\ \A j \in Slots : j # i => live_table'[j] = live_table[j]
      BY <1>2, <2>1, InsertSound DEF TypeOK, TypedTable, TableSound, Tracked
    <2>3. i[1] = ShardOf[p] /\ ShardOf[p] \in Shards /\ BucketOf[n] \in Buckets
      BY <2>1, TableAssumption, TrackingAssumption DEF ProbeSlot
    <2>4. SUFFICES ASSUME NEW s \in Shards, NEW b \in Buckets
                   PROVE  /\ requested_bytes'[s][b] = RequestedIn(SlotsInBucket(s, b))'
                          /\ hole_bytes'[s] = HolesIn(SlotsHolding(s))'
      BY <2>3 DEF BytesMatchTable
    <2>5. /\ RequestedIn(SlotsInBucket(s, b))' = RequestedIn(SlotsInBucket(s, b))
               + (IF i[1] = s /\ BucketOf[n] = b THEN n ELSE 0)
          /\ HolesIn(SlotsHolding(s))' = HolesIn(SlotsHolding(s))
               + (IF i[1] = s THEN HoleOf[n] ELSE 0)
      BY <2>2, BytesInserted
    <2>6. /\ requested_bytes'[s][b] = IF i[1] = s /\ BucketOf[n] = b
                                        THEN requested_bytes[s][b] + n
                                        ELSE requested_bytes[s][b]
          /\ hole_bytes'[s] = IF i[1] = s THEN hole_bytes[s] + HoleOf[n] ELSE hole_bytes[s]
          /\ requested_bytes[s][b] \in Int /\ hole_bytes[s] \in Int
      BY <1>2, <2>3 DEF AddLiveCounters, TypeOK
    <2>7. /\ requested_bytes[s][b] = RequestedIn(SlotsInBucket(s, b))
          /\ hole_bytes[s] = HolesIn(SlotsHolding(s))
      BY DEF BytesMatchTable
    <2>8. QED
      BY <2>5, <2>6, <2>7
  <1>3. QED
    BY <1>1, <1>2 DEF TrackLive

\* A removal subtracts the size and the hole the insertion added.
LEMMA UntrackBytes ==
  ASSUME TypeOK, TableSound, BytesMatchTable, NEW p \in Pointers,
         NEW k \in FoundProbes(live_table, p), Untrack(p, k)
  PROVE  BytesMatchTable'
  <1>1. PICK i \in Slots : i = ProbeSlot(p, k)
    BY UntrackEffect
  <1>2. PICK n \in Sizes : n = live_table[i].requested
    BY <1>1, UntrackTyped
  <1>3. /\ live_table[i].pointer = p
        /\ live_table'[i].pointer \notin Pointers
        /\ \A j \in Slots : j # i => live_table'[j] = live_table[j]
    BY <1>1, UntrackOneSlot
  <1>4. i[1] = ShardOf[p] /\ ShardOf[p] \in Shards /\ BucketOf[n] \in Buckets
    BY <1>1, TableAssumption, TrackingAssumption DEF ProbeSlot
  <1>5. SUFFICES ASSUME NEW s \in Shards, NEW b \in Buckets
                 PROVE  /\ requested_bytes'[s][b] = RequestedIn(SlotsInBucket(s, b))'
                        /\ hole_bytes'[s] = HolesIn(SlotsHolding(s))'
    BY <1>4 DEF BytesMatchTable
  <1>6. /\ RequestedIn(SlotsInBucket(s, b)) = RequestedIn(SlotsInBucket(s, b))'
             + (IF i[1] = s /\ BucketOf[n] = b THEN n ELSE 0)
        /\ HolesIn(SlotsHolding(s)) = HolesIn(SlotsHolding(s))'
             + (IF i[1] = s THEN HoleOf[n] ELSE 0)
        /\ RequestedIn(SlotsInBucket(s, b))' \in Int /\ HolesIn(SlotsHolding(s))' \in Int
    BY <1>2, <1>3, BytesRemoved
  <1>7. SubtractLiveCounters(ShardOf[p], n)
    BY <1>1, <1>2 DEF Untrack, SubtractLiveCounters
  <1>8. /\ requested_bytes'[s][b] = IF i[1] = s /\ BucketOf[n] = b
                                      THEN requested_bytes[s][b] - n
                                      ELSE requested_bytes[s][b]
        /\ hole_bytes'[s] = IF i[1] = s THEN hole_bytes[s] - HoleOf[n] ELSE hole_bytes[s]
    BY <1>7, <1>4 DEF SubtractLiveCounters, TypeOK
  <1>9. /\ requested_bytes[s][b] = RequestedIn(SlotsInBucket(s, b))
        /\ hole_bytes[s] = HolesIn(SlotsHolding(s))
    BY DEF BytesMatchTable
  <1>10. n \in Int /\ HoleOf[n] \in Int
    BY TableAssumption, TrackingAssumption
  <1>11. QED
    BY <1>6, <1>8, <1>9, <1>10

\* In every reachable state the byte counters are the sums over the table.
LEMMA BytesCountTheTable == Spec => []BytesMatchTable
  <1>1. Init => BytesMatchTable
    <2> SUFFICES ASSUME Init PROVE BytesMatchTable
      OBVIOUS
    <2>1. \A s \in Shards : SlotsHolding(s) = {} /\ \A b \in Buckets : SlotsInBucket(s, b) = {}
      BY SentinelAssumption DEF Init, EmptyTable, SlotsHolding, SlotsInBucket
    <2>2. RequestedIn({}) = 0 /\ HolesIn({}) = 0
      <3>1. /\ RequestedIn({}) = SumFunction([i \in {} |-> live_table[i].requested])
            /\ HolesIn({}) = SumFunction([i \in {} |-> HoleOf[live_table[i].requested]])
        BY Zenon DEF RequestedIn, HolesIn
      <3>2. QED
        BY <3>1, NothingToSum
    <2>3. QED
      BY <2>1, <2>2 DEF Init, BytesMatchTable
  <1>2. IInv /\ BytesMatchTable /\ [Next]_vars => BytesMatchTable'
    <2> SUFFICES ASSUME IInv, BytesMatchTable, [Next]_vars
                 PROVE  BytesMatchTable'
      OBVIOUS
    <2>1. CASE UNCHANGED vars
      BY <2>1, BytesUnchanged DEF vars
    <2>2. ASSUME NEW t \in Threads, Step(t)
          PROVE  BytesMatchTable'
      BY <2>2, GaugeSteps, BytesUnchanged, TrackLiveBytes, UntrackBytes DEF IInv
    <2>3. QED
      BY <2>1, <2>2 DEF Next
  <1>3. QED
    BY <1>1, <1>2, Invariance, PTL DEF Spec

\* add_live_counters_locked and subtract_live_counters_locked: what is counted
\* as live, blocks and bytes, is what the tables hold, in every reachable state.
THEOREM CountersMatch == Spec => []CountersMatchTable
  <1>1. CountsMatchTable /\ BytesMatchTable => CountersMatchTable
    BY DEF CountersMatchTable
  <1>2. QED
    BY <1>1, CountersCountTheTable, BytesCountTheTable, PTL

------------------------------------------------------------------------------

One(condition) == IF condition THEN 1 ELSE 0

\* The sampled blocks the application holds untracked, whatever their shard.
Lost == (avail \cap Sampled) \ Tracked

\* A thread's realloc found its old block untracked and has not yet said so.
OwesReport(t) == detached[t].observed /\ ~detached[t].tracked

InheritedIn(s) == Cardinality({ p \in Inherited \cap Sampled : ShardOf[p] = s })

Balanced(s) ==
  tracking_failures[s] + InheritedIn(s)
    = untracked_frees[s] + Cardinality(LostBlocks(s)) + Cardinality(UntrackedReallocs(s))

\* Everything the balance counts is finite.
LEMMA LossSetsFinite ==
  ASSUME TypeOK, NEW s \in Shards
  PROVE  /\ IsFiniteSet(LostBlocks(s)) /\ Cardinality(LostBlocks(s)) \in Nat
         /\ IsFiniteSet(UntrackedReallocs(s)) /\ Cardinality(UntrackedReallocs(s)) \in Nat
         /\ InheritedIn(s) \in Nat
         /\ tracking_failures[s] \in Nat /\ untracked_frees[s] \in Nat
  <1>1. /\ LostBlocks(s) \subseteq Pointers /\ UntrackedReallocs(s) \subseteq Threads
        /\ { p \in Inherited \cap Sampled : ShardOf[p] = s } \subseteq Pointers
    BY TrackingAssumption DEF LostBlocks, UntrackedReallocs
  <1>2. QED
    BY <1>1, FiniteTable, FiniteThreads, FS_Subset, FS_CardinalityType
      DEF TypeOK, InheritedIn

\* The lost blocks of a shard when p is lost ...
LEMMA LostAdds ==
  ASSUME TypeOK, NEW p \in Pointers, p \notin Lost, Lost' = Lost \cup {p}, NEW s \in Shards
  PROVE  Cardinality(LostBlocks(s)') = Cardinality(LostBlocks(s)) + One(ShardOf[p] = s)
  <1>1. /\ p \notin LostBlocks(s)
        /\ LostBlocks(s)' = IF ShardOf[p] = s THEN LostBlocks(s) \cup {p} ELSE LostBlocks(s)
    BY DEF LostBlocks, Lost
  <1>2. Cardinality(LostBlocks(s) \cup {p}) = Cardinality(LostBlocks(s)) + 1
    BY <1>1, LossSetsFinite, FS_AddElement
  <1>3. Cardinality(LostBlocks(s)) \in Nat
    BY LossSetsFinite
  <1>4. QED
    BY <1>1, <1>2, <1>3 DEF One

\* ... and when p stops being lost.
LEMMA LostDrops ==
  ASSUME TypeOK, NEW p \in Pointers, p \in Lost, Lost' = Lost \ {p}, NEW s \in Shards
  PROVE  Cardinality(LostBlocks(s)') = Cardinality(LostBlocks(s)) - One(ShardOf[p] = s)
  <1>1. /\ p \in LostBlocks(s) <=> ShardOf[p] = s
        /\ LostBlocks(s)' = IF ShardOf[p] = s THEN LostBlocks(s) \ {p} ELSE LostBlocks(s)
    BY DEF LostBlocks, Lost
  <1>2. ShardOf[p] = s => Cardinality(LostBlocks(s) \ {p}) = Cardinality(LostBlocks(s)) - 1
    BY <1>1, LossSetsFinite, FS_RemoveElement
  <1>3. Cardinality(LostBlocks(s)) \in Nat
    BY LossSetsFinite
  <1>4. QED
    BY <1>1, <1>2, <1>3 DEF One

\* The reallocs that owe a report when only thread t's detachment changes.
LEMMA OwingChanges ==
  ASSUME TypeOK, NEW t \in Threads, NEW s \in Shards,
         \A u \in Threads : u # t => detached'[u] = detached[u] /\ old'[u] = old[u]
  PROVE  Cardinality(UntrackedReallocs(s)') =
           Cardinality(UntrackedReallocs(s))
             + One(OwesReport(t)' /\ ShardOf[old'[t]] = s)
             - One(OwesReport(t) /\ ShardOf[old[t]] = s)
  <1>1. /\ t \in UntrackedReallocs(s) <=> OwesReport(t) /\ ShardOf[old[t]] = s
        /\ t \in UntrackedReallocs(s)' <=> OwesReport(t)' /\ ShardOf[old'[t]] = s
    BY DEF UntrackedReallocs, OwesReport
  <1>2. UntrackedReallocs(s)' \ {t} = UntrackedReallocs(s) \ {t}
    BY DEF UntrackedReallocs
  <1>3. DEFINE Others == UntrackedReallocs(s) \ {t}
  <1>4. IsFiniteSet(Others) /\ Cardinality(Others) \in Nat /\ t \notin Others
    BY LossSetsFinite, FS_Subset, FS_CardinalityType
  <1>5. Cardinality(Others \cup {t}) = Cardinality(Others) + 1
    BY <1>4, FS_AddElement
  <1>6. /\ UntrackedReallocs(s) =
             IF t \in UntrackedReallocs(s) THEN Others \cup {t} ELSE Others
        /\ UntrackedReallocs(s)' =
             IF t \in UntrackedReallocs(s)' THEN Others \cup {t} ELSE Others
    BY <1>2
  <1>7. /\ Cardinality(UntrackedReallocs(s)) =
             Cardinality(Others) + One(t \in UntrackedReallocs(s))
        /\ Cardinality(UntrackedReallocs(s)') =
             Cardinality(Others) + One(t \in UntrackedReallocs(s)')
    <2> HIDE DEF Others
    <2>1. QED
      BY <1>4, <1>5, <1>6 DEF One
  <1>8. QED
    BY <1>1, <1>4, <1>7 DEF One

\* Tracking records the block or reports a failure in the block's shard.
LEMMA TrackLiveOutcome ==
  ASSUME TypeOK, TableSound, NEW p \in Pointers, p \notin Tracked,
         NEW n \in Sizes, TrackLive(p, n)
  PROVE  \/ Tracked' = Tracked \cup {p} /\ UNCHANGED tracking_failures
         \/ Tracked' = Tracked /\ Bump(tracking_failures, ShardOf[p])
  <1>1. live_table \in TypedTable /\ NoDuplicates(live_table) /\ Reachable(live_table)
        /\ p \notin Stored(live_table)
    BY DEF TypeOK, TypedTable, TableSound, Tracked
  <1>2. CASE /\ UNCHANGED tracking_failures
             /\ \E k \in InsertProbes(live_table, p) :
                  live_table' = Inserted(live_table, p, k, n)
    <2>1. PICK k \in InsertProbes(live_table, p) :
            live_table' = Inserted(live_table, p, k, n)
      BY <1>2
    <2>2. Stored(Inserted(live_table, p, k, n)) = Stored(live_table) \cup {p}
      BY <1>1, <2>1, InsertSound
    <2>3. QED
      BY <1>2, <2>1, <2>2 DEF Tracked
  <1>3. CASE Bump(tracking_failures, ShardOf[p]) /\ UNCHANGED gaugeVars
    BY <1>3 DEF gaugeVars, Tracked
  <1>4. QED
    BY <1>2, <1>3 DEF TrackLive

\* A sampled block that reaches the application is tracked, or lost with a report.
LEMMA ReturnedBalance ==
  ASSUME TypeOK, TableSound, NEW p \in Pointers \ avail, p \notin Tracked,
         avail' = avail \cup {p}, NEW n \in Sizes,
         IF p \in Sampled THEN TrackLive(p, n) ELSE UNCHANGED <<gaugeVars, tracking_failures>>,
         NEW s \in Shards
  PROVE  tracking_failures'[s] - Cardinality(LostBlocks(s)')
           = tracking_failures[s] - Cardinality(LostBlocks(s))
  <1>1. p \notin Lost /\ ShardOf[p] \in Shards
    BY TableAssumption DEF Lost
  <1>2. CASE UNCHANGED <<Lost, tracking_failures>>
    BY <1>2 DEF LostBlocks, Lost
  <1>3. CASE Lost' = Lost \cup {p} /\ Bump(tracking_failures, ShardOf[p])
    <2>1. Cardinality(LostBlocks(s)') = Cardinality(LostBlocks(s)) + One(ShardOf[p] = s)
      BY <1>1, <1>3, LostAdds
    <2>2. tracking_failures'[s] = tracking_failures[s] + One(ShardOf[p] = s)
      BY <1>1, <1>3, LossSetsFinite DEF Bump, One, TypeOK
    <2>3. QED
      BY <2>1, <2>2, LossSetsFinite DEF One
  <1>4. QED
    <2>1. CASE p \notin Sampled
      BY <2>1, <1>2 DEF Lost, gaugeVars, Tracked
    <2>2. CASE p \in Sampled
      BY <2>2, <1>2, <1>3, TrackLiveOutcome DEF Lost
    <2>3. QED
      BY <2>1, <2>2

\* A block leaves the application: it was lost exactly when it is sampled and
\* its record is not found.
LEMMA TakenOutcome ==
  ASSUME IInv, NEW p \in avail, avail' = avail \ {p},
         \/ /\ p \notin Sampled \/ FoundProbes(live_table, p) = {} \/ ~live_table_ready
            /\ UNCHANGED gaugeVars
         \/ /\ live_table_ready
            /\ \E k \in FoundProbes(live_table, p) : Untrack(p, k)
  PROVE  Lost' = Lost \ {p}
  <1>1. p \in Pointers
    BY DEF IInv, TypeOK
  <1>2. CASE UNCHANGED gaugeVars
    BY <1>2 DEF gaugeVars, Lost, Tracked
  <1>3. CASE \E k \in FoundProbes(live_table, p) : Untrack(p, k)
    BY <1>1, <1>3, UntrackEffect DEF Lost, IInv
  <1>4. QED
    BY <1>2, <1>3

\* The lookup finds exactly the tracked pointers.
LEMMA FoundIffTracked ==
  ASSUME IInv, NEW p \in Pointers
  PROVE  p \in Tracked <=> live_table_ready /\ FoundProbes(live_table, p) # {}
  BY FoundIffStored DEF IInv, TypeOK, TypedTable, TableSound, Tracked, ReadyOrEmpty

\* The steps that leave the accounts and the application's blocks alone.
LEMMA QuietBalance ==
  ASSUME UNCHANGED <<avail, live_table, eventVars, old, detached>>,
         NEW s \in Shards, Balanced(s)
  PROVE  Balanced(s)'
  <1>1. UNCHANGED Lost
    BY DEF Lost, Tracked
  <1>2. UNCHANGED <<LostBlocks(s), UntrackedReallocs(s), tracking_failures, untracked_frees>>
    BY <1>1 DEF LostBlocks, Lost, UntrackedReallocs, eventVars
  <1>3. QED
    BY <1>2 DEF Balanced, InheritedIn

\* track_live_allocation records the block or reports the failure.
LEMMA TrackBalance ==
  ASSUME IInv, NEW t \in Threads, Track(t), NEW s \in Shards, Balanced(s)
  PROVE  Balanced(s)'
  <1>1. own[t] \in Pointers /\ own[t] \notin avail /\ block[own[t]] \in Sizes
    BY NoneIsNoSize DEF Track, IInv, Ownership, PhaseInv, TypeOK, Idle, Tracking, Releasing
  <1>2. PICK p \in Pointers, n \in Sizes : p = own[t] /\ n = block[own[t]]
    BY <1>1
  <1>3. p \notin Tracked
    BY <1>1, <1>2 DEF IInv, TrackedInHands
  <1>4. /\ IF p \in Sampled THEN TrackLive(p, n) ELSE UNCHANGED <<gaugeVars, tracking_failures>>
        /\ avail' = avail \cup {p}
        /\ UNCHANGED <<untracked_frees, old, detached>>
    BY <1>2 DEF Track, TrackLive, AddLiveCounters, Bump
  <1>5. tracking_failures'[s] - Cardinality(LostBlocks(s)')
          = tracking_failures[s] - Cardinality(LostBlocks(s))
    BY <1>1, <1>2, <1>3, <1>4, ReturnedBalance DEF IInv
  <1>6. UNCHANGED UntrackedReallocs(s)
    BY <1>4 DEF UntrackedReallocs
  <1>7. /\ tracking_failures'[s] \in Nat
        /\ Cardinality(LostBlocks(s)') \in Nat
    <2>1. TypeOK'
      BY TrackInv DEF IInv
    <2>2. IsFiniteSet(LostBlocks(s)') /\ tracking_failures'[s] \in Nat
      <3>1. LostBlocks(s)' \subseteq Pointers
        BY TrackingAssumption DEF LostBlocks
      <3>2. QED
        BY <2>1, <3>1, FiniteTable, FS_Subset DEF TypeOK
    <2>3. QED
      BY <2>2, FS_CardinalityType
  <1>8. untracked_frees'[s] + Cardinality(UntrackedReallocs(s)')
          = untracked_frees[s] + Cardinality(UntrackedReallocs(s))
    BY <1>4, <1>6
  <1>9. /\ tracking_failures[s] \in Nat /\ Cardinality(LostBlocks(s)) \in Nat
        /\ untracked_frees[s] \in Nat /\ untracked_frees'[s] \in Nat
        /\ Cardinality(UntrackedReallocs(s)) \in Nat /\ InheritedIn(s) \in Nat
        /\ Cardinality(UntrackedReallocs(s)') \in Nat
    BY <1>4, <1>6, LossSetsFinite DEF IInv
  <1>10. QED
    BY <1>5, <1>7, <1>8, <1>9 DEF Balanced, InheritedIn

\* free reports a lost block, and only a lost one.
LEMMA RecordFreeBalance ==
  ASSUME IInv, NEW t \in Threads, NEW p \in Pointers, RecordFree(t, p),
         NEW s \in Shards, Balanced(s)
  PROVE  Balanced(s)'
  <1>1. p \in avail /\ avail' = avail \ {p} /\ UNCHANGED <<tracking_failures, old, detached>>
    BY DEF RecordFree
  <1>2. Lost' = Lost \ {p}
    BY <1>1, TakenOutcome DEF RecordFree
  <1>3. IF p \in Lost THEN Bump(untracked_frees, ShardOf[p]) ELSE UNCHANGED untracked_frees
    BY <1>1, FoundIffTracked DEF RecordFree, Lost
  <1>4. UNCHANGED UntrackedReallocs(s)
    BY <1>1 DEF UntrackedReallocs
  <1>5. CASE p \in Lost
    <2>1. Cardinality(LostBlocks(s)') = Cardinality(LostBlocks(s)) - One(ShardOf[p] = s)
      BY <1>2, <1>5, LostDrops DEF IInv
    <2>2. untracked_frees'[s] = untracked_frees[s] + One(ShardOf[p] = s)
      BY <1>3, <1>5, LossSetsFinite, TableAssumption DEF Bump, One, IInv, TypeOK
    <2>3. QED
      BY <1>1, <1>4, <2>1, <2>2, LossSetsFinite DEF Balanced, InheritedIn, One, IInv
  <1>6. CASE p \notin Lost
    <2>1. Lost' = Lost
      BY <1>2, <1>6
    <2>2. UNCHANGED LostBlocks(s)
      BY <2>1 DEF LostBlocks, Lost
    <2>3. QED
      BY <1>1, <1>3, <1>4, <1>6, <2>2 DEF Balanced, InheritedIn
  <1>7. QED
    BY <1>5, <1>6

\* realloc takes a lost block: the thread owes its report.
LEMMA DetachBalance ==
  ASSUME IInv, NEW t \in Threads, NEW p \in Pointers, NEW n \in Sizes, Detach(t, p, n),
         NEW s \in Shards, Balanced(s)
  PROVE  Balanced(s)'
  <1>1. /\ p \in avail /\ avail' = avail \ {p}
        /\ UNCHANGED <<tracking_failures, untracked_frees>>
    BY DEF Detach, eventVars
  <1>2. Lost' = Lost \ {p}
    BY <1>1, TakenOutcome DEF Detach
  <1>3. /\ ~OwesReport(t)
        /\ OwesReport(t)' <=> p \in Lost
        /\ old'[t] = p
    <2>1. pc[t] = Idle
      BY DEF Detach, BeginCall
    <2>2. ~OwesReport(t)
      BY <2>1 DEF OwesReport, NotDetached, IInv, Ownership, PhaseInv,
                  Idle, Resizing, Restoring, Releasing
    <2>3. detached'[t].observed /\ ~detached'[t].tracked <=> p \in Lost
      BY <1>1, FoundIffTracked DEF Detach, NotDetached, Lost, IInv, TypeOK
    <2>4. old'[t] = p
      BY DEF Detach, IInv, TypeOK
    <2>5. QED
      BY <2>2, <2>3, <2>4 DEF OwesReport
  <1>4. \A u \in Threads : u # t => detached'[u] = detached[u] /\ old'[u] = old[u]
    BY DEF Detach, IInv, TypeOK
  <1>5. Cardinality(UntrackedReallocs(s)') =
          Cardinality(UntrackedReallocs(s)) + One(p \in Lost /\ ShardOf[p] = s)
    BY <1>3, <1>4, OwingChanges, LossSetsFinite DEF One, IInv
  <1>6. Cardinality(LostBlocks(s)') =
          Cardinality(LostBlocks(s)) - One(p \in Lost /\ ShardOf[p] = s)
    <2>1. CASE p \in Lost
      BY <1>2, <2>1, LostDrops DEF One, IInv
    <2>2. CASE p \notin Lost
      <3>1. LostBlocks(s)' = LostBlocks(s)
        BY <1>2, <2>2 DEF LostBlocks, Lost
      <3>2. QED
        BY <3>1, <2>2, LossSetsFinite DEF One, IInv
    <2>3. QED
      BY <2>1, <2>2
  <1>7. QED
    BY <1>1, <1>5, <1>6, LossSetsFinite DEF Balanced, InheritedIn, One, IInv

\* A release reports the lost block of a realloc that succeeded.
LEMMA RecordReleaseBalance ==
  ASSUME IInv, NEW t \in Threads, RecordRelease(t), NEW s \in Shards, Balanced(s)
  PROVE  Balanced(s)'
  <1>1. /\ UNCHANGED <<avail, live_table, tracking_failures>>
        /\ IF OwesReport(t) THEN Bump(untracked_frees, ShardOf[old[t]])
                            ELSE UNCHANGED untracked_frees
    BY DEF RecordRelease, OwesReport, gaugeVars
  <1>2. old[t] \in Pointers
    BY DEF RecordRelease, IInv, Ownership, PhaseInv, Resizing, Restoring, Releasing
  <1>3. /\ ~OwesReport(t)'
        /\ \A u \in Threads : u # t => detached'[u] = detached[u] /\ old'[u] = old[u]
    BY DEF RecordRelease, ForgetCall, OwesReport, NotDetached, IInv, TypeOK
  <1>4. Cardinality(UntrackedReallocs(s)') =
          Cardinality(UntrackedReallocs(s)) - One(OwesReport(t) /\ ShardOf[old[t]] = s)
    BY <1>3, OwingChanges, LossSetsFinite DEF One, IInv
  <1>5. untracked_frees'[s] = untracked_frees[s] + One(OwesReport(t) /\ ShardOf[old[t]] = s)
    <2>1. ShardOf[old[t]] \in Shards /\ untracked_frees \in [Shards -> Nat]
      BY <1>2, TableAssumption DEF IInv, TypeOK
    <2>2. QED
      BY <1>1, <2>1 DEF Bump, One
  <1>6. LostBlocks(s)' = LostBlocks(s)
    BY <1>1 DEF LostBlocks, Tracked
  <1>7. QED
    BY <1>1, <1>4, <1>5, <1>6, LossSetsFinite DEF Balanced, InheritedIn, One, IInv

\* A realloc that fails returns its block: tracked again, lost with a report,
\* or lost as it was before.
LEMMA RestoreBalance ==
  ASSUME IInv, NEW t \in Threads, Restore(t), NEW s \in Shards, Balanced(s)
  PROVE  Balanced(s)'
  <1>1. /\ own[t] \in Pointers /\ own[t] \notin avail /\ block[own[t]] \in Sizes
        /\ old[t] = own[t]
        /\ detached[t].tracked => detached[t].requested = block[own[t]]
        /\ detached[t].observed <=> own[t] \in Sampled
        /\ detached[t].tracked => detached[t].observed
    BY NoneIsNoSize
      DEF Restore, IInv, Ownership, PhaseInv, TypeOK, Idle, Resizing, Restoring, Releasing
  <1>2. PICK p \in Pointers, n \in Sizes : p = own[t] /\ n = block[own[t]]
    BY <1>1
  <1>3. p \notin Tracked /\ avail' = avail \cup {p} /\ UNCHANGED untracked_frees
    BY <1>1, <1>2 DEF Restore, IInv, TrackedInHands
  <1>4. /\ ~OwesReport(t)'
        /\ \A u \in Threads : u # t => detached'[u] = detached[u] /\ old'[u] = old[u]
    BY DEF Restore, ForgetCall, OwesReport, NotDetached, IInv, TypeOK
  <1>5. Cardinality(UntrackedReallocs(s)') =
          Cardinality(UntrackedReallocs(s)) - One(OwesReport(t) /\ ShardOf[old[t]] = s)
    BY <1>4, OwingChanges, LossSetsFinite DEF One, IInv
  <1>6. CASE OwesReport(t)
    <2>1. p \in Sampled /\ UNCHANGED <<live_table, tracking_failures>>
      BY <1>1, <1>2, <1>6 DEF OwesReport, Restore, gaugeVars
    <2>2. p \notin Lost /\ Lost' = Lost \cup {p}
      BY <1>1, <1>2, <1>3, <2>1 DEF Lost, Tracked
    <2>3. Cardinality(LostBlocks(s)') = Cardinality(LostBlocks(s)) + One(ShardOf[p] = s)
      BY <2>2, LostAdds DEF IInv
    <2>4. QED
      BY <1>1, <1>2, <1>3, <1>5, <1>6, <2>1, <2>3, LossSetsFinite
        DEF Balanced, InheritedIn, One, IInv
  <1>7. CASE ~OwesReport(t)
    <2>1. IF p \in Sampled THEN TrackLive(p, n) ELSE UNCHANGED <<gaugeVars, tracking_failures>>
      BY <1>1, <1>2, <1>7
        DEF OwesReport, Restore, TrackLive, AddLiveCounters, Bump
    <2>2. tracking_failures'[s] - Cardinality(LostBlocks(s)')
            = tracking_failures[s] - Cardinality(LostBlocks(s))
      BY <1>1, <1>2, <1>3, <2>1, ReturnedBalance DEF IInv
    <2>3. tracking_failures'[s] \in Nat /\ Cardinality(LostBlocks(s)') \in Nat
      <3>1. TypeOK'
        BY RestoreInv DEF IInv
      <3>2. LostBlocks(s)' \subseteq Pointers
        BY TrackingAssumption DEF LostBlocks
      <3>3. QED
        BY <3>1, <3>2, FiniteTable, FS_Subset, FS_CardinalityType DEF TypeOK
    <2>4. Cardinality(UntrackedReallocs(s)') = Cardinality(UntrackedReallocs(s))
      BY <1>5, <1>7, LossSetsFinite DEF One, IInv
    <2>5. QED
      BY <1>3, <2>2, <2>3, <2>4, LossSetsFinite DEF Balanced, InheritedIn, IInv
  <1>8. QED
    BY <1>6, <1>7

\* In every reachable state each sampled block missing from the table is
\* accounted for.
THEOREM EveryLossIsReported == Spec => []LossesReported
  <1>1. Init => LossesReported
    <2> SUFFICES ASSUME Init PROVE LossesReported
      OBVIOUS
    <2>1. Tracked = {}
      BY EmptyTableSound DEF Init, Tracked
    <2>2. ASSUME NEW s \in Shards
          PROVE  /\ LostBlocks(s) = { p \in Inherited \cap Sampled : ShardOf[p] = s }
                 /\ UntrackedReallocs(s) = {}
                 /\ tracking_failures[s] = 0 /\ untracked_frees[s] = 0
      BY <2>1 DEF Init, LostBlocks, UntrackedReallocs, NotDetached
    <2>3. ASSUME NEW s \in Shards
          PROVE  Cardinality(LostBlocks(s)) \in Nat
      BY InitInv, LossSetsFinite DEF IInv
    <2>4. ASSUME NEW s \in Shards
          PROVE  Balanced(s)
      <3>1. InheritedIn(s) = Cardinality(LostBlocks(s))
        BY <2>2 DEF InheritedIn
      <3>2. Cardinality(UntrackedReallocs(s)) = 0
        BY <2>2, FS_EmptySet
      <3>3. tracking_failures[s] = 0 /\ untracked_frees[s] = 0
        BY <2>2
      <3>4. QED
        BY <2>3, <3>1, <3>2, <3>3 DEF Balanced
    <2>5. QED
      BY <2>4 DEF LossesReported, Balanced, InheritedIn
  <1>2. IInv /\ LossesReported /\ [Next]_vars => LossesReported'
    <2> SUFFICES ASSUME IInv, LossesReported, [Next]_vars, NEW s \in Shards
                 PROVE  Balanced(s)'
      BY DEF LossesReported, Balanced, InheritedIn
    <2>1. Balanced(s)
      BY DEF LossesReported, Balanced, InheritedIn
    <2>2. CASE UNCHANGED vars
      BY <2>1, <2>2, QuietBalance DEF vars, gaugeVars, callVars
    <2>3. ASSUME NEW t \in Threads, Step(t)
          PROVE  Balanced(s)'
      <3>1. CASE AllocateFails(t) \/ Measure(t) \/ RealFree(t) \/ RealReallocReleases(t)
                  \/ RealReallocFails(t)
        BY <3>1, <2>1, QuietBalance
          DEF AllocateFails, Measure, RealFree, RealReallocReleases, RealReallocFails, gaugeVars
      <3>2. CASE Track(t) \/ RecordRelease(t) \/ Restore(t)
        BY <3>2, <2>1, TrackBalance, RecordReleaseBalance, RestoreBalance
      <3>3. ASSUME NEW p \in Pointers, RecordFree(t, p) \/ RealRealloc(t, p)
            PROVE  Balanced(s)'
        BY <3>3, <2>1, RecordFreeBalance, QuietBalance DEF RealRealloc, gaugeVars
      <3>4. ASSUME NEW p \in Pointers, NEW n \in Sizes, Allocate(t, p, n) \/ Detach(t, p, n)
            PROVE  Balanced(s)'
        BY <3>4, <2>1, DetachBalance, QuietBalance DEF Allocate, gaugeVars
      <3>5. QED
        BY <2>3, <3>1, <3>2, <3>3, <3>4 DEF Step
    <2>4. QED
      BY <2>2, <2>3 DEF Next
  <1>3. QED
    BY <1>1, <1>2, Invariance, PTL DEF Spec
==============================================================================
