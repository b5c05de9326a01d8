-------------------------- MODULE BucketRing_proofs --------------------------
(***************************************************************************)
(* Facts about the bucket ring, for any number of buckets and any bucket   *)
(* length: the arithmetic of its slots and what a rotation keeps.          *)
(***************************************************************************)
EXTENDS BucketRing, TLAPS

-------------------------------------------------------------------------------
(* Division.                                                               *)

\* Division with remainder.
LEMMA DivFacts ==
  ASSUME NEW a \in Nat, NEW d \in Nat \ {0}
  PROVE  /\ a \div d \in Nat
         /\ a % d \in 0 .. d - 1
         /\ a = d * (a \div d) + (a % d)
  OBVIOUS

\* Quotient and remainder are unique.
LEMMA DivUnique ==
  ASSUME NEW q \in Int, NEW r \in Int, NEW k \in Int, NEW s \in Int, NEW d \in Nat \ {0},
         r \in 0 .. d - 1, s \in 0 .. d - 1, d * q + r = d * k + s
  PROVE  q = k /\ r = s
<1>1. d * (q - k) = s - r
  OBVIOUS
<1>2. CASE q - k >= 1
  <2>1. d * (q - k) >= d
    BY <1>2
  <2> QED
    BY <1>1, <2>1
<1>3. CASE k - q >= 1
  <2>1. d * (k - q) >= d
    BY <1>3
  <2>2. d * (k - q) = r - s
    BY <1>1
  <2> QED
    BY <2>1, <2>2
<1>4. CASE q = k
  BY <1>1, <1>4
<1> QED
  BY <1>2, <1>3, <1>4

\* Numbers less than n apart have distinct remainders: the slots of a ring of n
\* buckets are distinct for any n successive epochs.
LEMMA ModDistinct ==
  ASSUME NEW a \in Nat, NEW b \in Nat, NEW n \in Nat \ {0}, b < a, a < b + n
  PROVE  a % n # b % n
<1> SUFFICES ASSUME a % n = (b % n) PROVE FALSE
  OBVIOUS
<1> DEFINE x == a \div n
           y == b \div n
<1>1. x \in Nat /\ y \in Nat /\ a = n * x + (a % n) /\ b = n * y + (b % n)
  BY DivFacts
<1>0. a % n \in Int /\ b % n \in Int
  BY DivFacts
<1> HIDE DEF x, y
<1>2. a - b = n * (x - y)
  BY <1>1, <1>0
<1>3. CASE x - y >= 1
  <2>1. n * (x - y) >= n
    BY <1>3, <1>1
  <2> QED
    BY <2>1, <1>2
<1>4. CASE x - y <= 0
  <2>1. n * (x - y) <= 0
    BY <1>4, <1>1
  <2> QED
    BY <2>1, <1>2
<1> QED
  BY <1>3, <1>4, <1>1

\* Stepping i slots from the slot of a is stepping to the slot of a + i.
LEMMA ModAdd ==
  ASSUME NEW a \in Nat, NEW i \in Nat, NEW n \in Nat \ {0}
  PROVE  ((a % n) + i) % n = (a + i) % n
<1> DEFINE x == a \div n
           r == (a % n)
           y == (r + i) \div n
           s == (r + i) % n
           z == (a + i) \div n
           t == (a + i) % n
<1>1. x \in Nat /\ r \in 0 .. n - 1 /\ a = n * x + r
  BY DivFacts
<1>2. r + i \in Nat /\ a + i \in Nat
  BY <1>1
<1>3. y \in Nat /\ s \in 0 .. n - 1 /\ r + i = n * y + s
  BY <1>2, DivFacts
<1>4. z \in Nat /\ t \in 0 .. n - 1 /\ a + i = n * z + t
  BY <1>2, DivFacts
<1> HIDE DEF x, r, y, s, z, t
<1>5. n * (x + y) + s = n * z + t
  BY <1>1, <1>3, <1>4
<1>6. s = t
  <2>1. x + y \in Int /\ z \in Int /\ s \in Int /\ t \in Int
    BY <1>1, <1>3, <1>4
  <2> QED
    BY <2>1, <1>3, <1>4, <1>5, DivUnique
<1> QED
  BY <1>6 DEF s, t, r

\* Later instants have later epochs.
LEMMA DivMonotone ==
  ASSUME NEW a \in Nat, NEW b \in Nat, NEW d \in Nat \ {0}, a <= b
  PROVE  a \div d <= b \div d
<1> DEFINE x == a \div d
           y == b \div d
<1>1. x \in Nat /\ a % d \in 0 .. d - 1 /\ a = d * x + (a % d)
  BY DivFacts
<1>2. y \in Nat /\ b % d \in 0 .. d - 1 /\ b = d * y + (b % d)
  BY DivFacts
<1> HIDE DEF x, y
<1>3. CASE x >= y + 1
  <2>1. d * x >= d * (y + 1)
    BY <1>1, <1>2, <1>3
  <2>2. d * (y + 1) = d * y + d
    BY <1>2
  <2> QED
    BY <1>1, <1>2, <2>1, <2>2
<1> QED
  BY <1>1, <1>2, <1>3 DEF x, y

\* An instant lies before the k-th boundary iff its epoch is below k.
LEMMA DivBelow ==
  ASSUME NEW a \in Nat, NEW k \in Nat, NEW d \in Nat \ {0}
  PROVE  a < k * d <=> a \div d < k
<1> DEFINE x == a \div d
<1>1. x \in Nat /\ a % d \in 0 .. d - 1 /\ a = d * x + (a % d)
  BY DivFacts
<1> HIDE DEF x
<1>2. ASSUME x < k PROVE a < k * d
  <2>1. d * (x + 1) <= d * k
    BY <1>1, <1>2
  <2>2. d * (x + 1) = d * x + d /\ d * k = k * d
    BY <1>1
  <2> QED
    BY <1>1, <2>1, <2>2
<1>3. ASSUME x >= k PROVE ~(a < k * d)
  <2>1. d * x >= d * k
    BY <1>1, <1>3
  <2>2. d * k = k * d /\ d * x \in Int /\ d * k \in Int
    BY <1>1
  <2>3. a >= d * x
    BY <1>1, <2>2
  <2>4. a >= k * d
    BY <2>1, <2>2, <2>3
  <2> QED
    BY <2>4, <2>2
<1> QED
  BY <1>1, <1>2, <1>3 DEF x

\* Whole buckets elapsed between two instants never exceed the boundaries crossed.
LEMMA DivDifference ==
  ASSUME NEW a \in Nat, NEW b \in Nat, NEW d \in Nat \ {0}, a <= b
  PROVE  a \div d + (b - a) \div d <= b \div d
<1> DEFINE x == a \div d
           y == (b - a) \div d
           z == b \div d
<1>1. x \in Nat /\ a % d \in 0 .. d - 1 /\ a = d * x + (a % d)
  BY DivFacts
<1>2. b - a \in Nat
  OBVIOUS
<1>3. y \in Nat /\ (b - a) % d \in 0 .. d - 1 /\ b - a = d * y + ((b - a) % d)
  BY <1>2, DivFacts
<1>4. z \in Nat /\ b % d \in 0 .. d - 1 /\ b = d * z + (b % d)
  BY DivFacts
<1> HIDE DEF x, y, z
<1>5. CASE x + y >= z + 1
  <2>1. d * (x + y) >= d * (z + 1)
    BY <1>1, <1>3, <1>4, <1>5
  <2>2. d * (z + 1) = d * z + d /\ d * (x + y) = d * x + d * y
    BY <1>1, <1>3, <1>4
  <2> QED
    BY <1>1, <1>3, <1>4, <2>1, <2>2
<1> QED
  BY <1>1, <1>3, <1>4, <1>5 DEF x, y, z

\* They lag behind the boundaries crossed by one at most.
LEMMA DivLag ==
  ASSUME NEW a \in Nat, NEW b \in Nat, NEW d \in Nat \ {0}, a <= b
  PROVE  b \div d <= a \div d + (b - a) \div d + 1
<1> DEFINE x == a \div d
           y == (b - a) \div d
           z == b \div d
<1>1. x \in Nat /\ a % d \in 0 .. d - 1 /\ a = d * x + (a % d)
  BY DivFacts
<1>2. b - a \in Nat
  OBVIOUS
<1>3. y \in Nat /\ (b - a) % d \in 0 .. d - 1 /\ b - a = d * y + ((b - a) % d)
  BY <1>2, DivFacts
<1>4. z \in Nat /\ b % d \in 0 .. d - 1 /\ b = d * z + (b % d)
  BY DivFacts
<1> HIDE DEF x, y, z
<1>5. CASE z >= x + y + 2
  <2>1. d * z >= d * (x + y + 2)
    BY <1>1, <1>3, <1>4, <1>5
  <2>2. d * (x + y + 2) = d * x + d * y + d + d
    BY <1>1, <1>3, <1>4
  <2> QED
    BY <1>1, <1>3, <1>4, <2>1, <2>2
<1> QED
  BY <1>1, <1>3, <1>4, <1>5 DEF x, y, z

-------------------------------------------------------------------------------
(* The ring.                                                               *)

\* Every instant has a slot of the ring (rolling_counter.go:38-39).
LEMMA IndexInRing ==
  ASSUME NEW t \in Nat
  PROVE  IndexAt(t) \in Slot
<1> DEFINE e == t \div BucketDur
<1>1. e \in Nat
  BY RingAssumption
<1>2. e % NumBuckets \in 0 .. NumBuckets - 1
  BY <1>1, RingAssumption
<1> QED
  BY <1>2 DEF IndexAt, Epoch, Slot

\* Rotating a ring of sets of marks gives a ring of sets of marks that holds
\* nothing new (rolling_counter.go:60-82).
LEMMA RotateKeepsType ==
  ASSUME NEW M, NEW b \in [Slot -> SUBSET M], NEW last \in Nat, NEW now \in Nat
  PROVE  Rotate(b, last, now, {}) \in [Slot -> SUBSET M]
BY DEF Rotate

\* A rotation never moves lastUpdate past the clock (rolling_counter.go:81).
LEMMA LastUpdateInPast ==
  ASSUME NEW last \in Nat, NEW now \in Nat, last <= now
  PROVE  NewLastUpdate(last, now) \in Nat /\ NewLastUpdate(last, now) <= now
BY DEF NewLastUpdate

\* A slot that holds epoch e survives every rotation that starts in e or later
\* and ends before the ring has come round to it again
\* (circuitbreaker/rolling_counter.go:69-79, ratelimiter/rolling_counter.go:107-118).
THEOREM YoungSlotKept ==
  ASSUME NEW e \in Nat, NEW last \in Nat, NEW now \in Nat,
         last <= now, e <= Epoch(last), now < (e + NumBuckets) * BucketDur
  PROVE  (e % NumBuckets) \notin Cleared(last, now)
<1> SUFFICES ASSUME NEW i \in 1 .. NumToClear(last, now),
                    e % NumBuckets = ((IndexAt(last) + i) % NumBuckets)
             PROVE  FALSE
  BY DEF Cleared
<1> DEFINE k == Epoch(last)
<1>1. k \in Nat /\ Epoch(now) \in Nat /\ Epoch(now - last) \in Nat
  <2>1. now - last \in Nat
    OBVIOUS
  <2> QED
    BY <2>1, RingAssumption, DivFacts DEF Epoch
<1>2. i \in Nat /\ 1 <= i /\ i <= Epoch(now - last)
  BY <1>1, RingAssumption DEF NumToClear
<1>3. k + Epoch(now - last) <= Epoch(now)
  BY RingAssumption, DivDifference DEF Epoch
<1>4. Epoch(now) < e + NumBuckets
  <2>1. e + NumBuckets \in Nat
    BY RingAssumption
  <2> QED
    BY <2>1, RingAssumption, DivBelow DEF Epoch
<1>5. (IndexAt(last) + i) % NumBuckets = ((k + i) % NumBuckets)
  BY <1>1, <1>2, RingAssumption, ModAdd DEF IndexAt
<1>6. k + i \in Nat /\ e < k + i /\ k + i < e + NumBuckets
  BY <1>1, <1>2, <1>3, <1>4, RingAssumption
<1>7. (k + i) % NumBuckets # (e % NumBuckets)
  BY <1>6, RingAssumption, ModDistinct
<1> QED
  BY <1>5, <1>7

\* After a silent window a rotation empties every slot
\* (ratelimiter/rolling_counter.go:104-108, circuitbreaker/rolling_counter.go:66-79).
LEMMA SilenceClearsAll ==
  ASSUME NEW last \in Nat, NEW now \in Nat, now - last >= Window
  PROVE  RotationDue(last, now) /\ Cleared(last, now) = Slot
<1>1. /\ NumBuckets \in Nat /\ NumBuckets >= 1
      /\ BucketDur \in Nat /\ BucketDur >= 1
      /\ Window \in Nat
  BY RingAssumption DEF Window
<1>2. Window >= BucketDur
  <2>1. (NumBuckets - 1) * BucketDur >= 0
    BY <1>1
  <2>2. NumBuckets * BucketDur = (NumBuckets - 1) * BucketDur + BucketDur
    BY <1>1
  <2> QED
    BY <1>1, <2>1, <2>2 DEF Window
<1>3. RotationDue(last, now)
  BY <1>1, <1>2 DEF RotationDue
<1>4. NumToClear(last, now) = NumBuckets
  <2>1. now - last \in Nat
    BY <1>1
  <2>2. ~((now - last) \div BucketDur < NumBuckets)
    BY <1>1, <2>1, RingAssumption, DivBelow DEF Window
  <2>3. (now - last) \div BucketDur \in Nat
    BY <2>1, RingAssumption, DivFacts
  <2> QED
    BY <1>1, <2>2, <2>3 DEF NumToClear, Epoch
<1>5. IndexAt(last) \in Slot
  BY IndexInRing
<1>6. ASSUME NEW s \in Slot
      PROVE  \E i \in 1 .. NumBuckets : s = (IndexAt(last) + i) % NumBuckets
  <2> DEFINE k == IndexAt(last)
  <2>1. k \in 0 .. NumBuckets - 1 /\ s \in 0 .. NumBuckets - 1
    BY <1>5 DEF Slot
  <2> HIDE DEF k
  <2>2. CASE s > k
    <3>1. s - k \in 1 .. NumBuckets /\ k + (s - k) = s
      BY <1>1, <2>1, <2>2
    <3>2. s % NumBuckets = s
      BY <1>1, <2>1
    <3> QED
      BY <3>1, <3>2 DEF k
  <2>3. CASE s <= k
    <3>1. s - k + NumBuckets \in 1 .. NumBuckets
      BY <1>1, <2>1, <2>3
    <3>2. k + (s - k + NumBuckets) = s + NumBuckets
      BY <1>1, <2>1
    <3>3. (s + NumBuckets) % NumBuckets = s
      BY <1>1, <2>1
    <3> QED
      BY <3>1, <3>2, <3>3 DEF k
  <2> QED
    BY <1>1, <2>1, <2>2, <2>3
<1>7. \A i \in 1 .. NumBuckets : (IndexAt(last) + i) % NumBuckets \in Slot
  BY <1>1, <1>5, RingAssumption DEF Slot
<1> QED
  BY <1>3, <1>4, <1>6, <1>7 DEF Cleared

\* How far a rotation reaches: it clears the slot of every epoch strictly between
\* that of the last rotation and that of this one, and no slot but of epochs
\* after the last and up to this one. So the slot a rotation can wrongly spare,
\* with the marks of an earlier round in it, is that of the epoch it ends in
\* (circuitbreaker/rolling_counter.go:63-81).
THEOREM RotationReach ==
  ASSUME NEW last \in Nat, NEW now \in Nat, last <= now
  PROVE  /\ \A e \in Epoch(last) + 1 .. Epoch(now) - 1 :
              e % NumBuckets \in Cleared(last, now)
         /\ \A s \in Cleared(last, now) :
              \E e \in Epoch(last) + 1 .. Epoch(now) : s = e % NumBuckets
<1> DEFINE k == Epoch(last)
           d == Epoch(now - last)
<1>1. k \in Nat /\ d \in Nat /\ Epoch(now) \in Nat
  <2>1. now - last \in Nat
    OBVIOUS
  <2> QED
    BY <2>1, RingAssumption, DivFacts DEF Epoch
<1>2. k + d <= Epoch(now) /\ Epoch(now) <= k + d + 1
  BY RingAssumption, DivDifference, DivLag DEF Epoch
<1>3. \A i \in Nat : (IndexAt(last) + i) % NumBuckets = ((k + i) % NumBuckets)
  BY <1>1, RingAssumption, ModAdd DEF IndexAt
<1>4. /\ NumBuckets \in Nat /\ NumBuckets >= 1
      /\ NumToClear(last, now) = IF d > NumBuckets THEN NumBuckets ELSE d
  BY RingAssumption DEF NumToClear
<1> HIDE DEF k, d
<1>5. ASSUME NEW e \in k + 1 .. Epoch(now) - 1
      PROVE  e % NumBuckets \in Cleared(last, now)
  <2>1. e \in Nat /\ e - k \in 1 .. d /\ k + (e - k) = e
    BY <1>1, <1>2
  <2>2. CASE d <= NumBuckets
    <3>1. e - k \in 1 .. NumToClear(last, now)
      BY <1>1, <1>4, <2>1, <2>2
    <3>2. (IndexAt(last) + (e - k)) % NumBuckets = (e % NumBuckets)
      BY <1>1, <1>3, <2>1
    <3> QED
      BY <3>1, <3>2 DEF Cleared
  <2>3. CASE d > NumBuckets
    <3>1. now - last \in Nat /\ (now - last) \div BucketDur = d
      BY DEF d, Epoch
    <3>2. ~(now - last < NumBuckets * BucketDur)
      <4>1. now - last < NumBuckets * BucketDur
              <=> (now - last) \div BucketDur < NumBuckets
        BY <3>1, <1>4, RingAssumption, DivBelow
      <4> QED
        BY <1>1, <1>4, <2>3, <3>1, <4>1
    <3>3. NumBuckets * BucketDur \in Nat
      BY RingAssumption
    <3>4. Cleared(last, now) = Slot
      <4>1. now - last >= Window
        BY <3>1, <3>2, <3>3 DEF Window
      <4> QED
        BY <4>1, SilenceClearsAll
    <3>5. e % NumBuckets \in 0 .. NumBuckets - 1
      BY <2>1, RingAssumption, DivFacts
    <3> QED
      BY <3>4, <3>5 DEF Slot
  <2> QED
    BY <1>1, <1>4, <2>2, <2>3
<1>6. ASSUME NEW s \in Cleared(last, now)
      PROVE  \E e \in k + 1 .. Epoch(now) : s = e % NumBuckets
  <2>1. PICK i \in 1 .. NumToClear(last, now) : s = (IndexAt(last) + i) % NumBuckets
    BY DEF Cleared
  <2>2. i \in Nat /\ 1 <= i /\ i <= d
    BY <1>1, <1>4, <2>1
  <2>3. k + i \in k + 1 .. Epoch(now)
    BY <1>1, <1>2, <2>2
  <2>4. s = (k + i) % NumBuckets
    BY <1>3, <2>1, <2>2
  <2> QED
    BY <2>3, <2>4
<1> QED
  BY <1>5, <1>6 DEF k
===============================================================================
