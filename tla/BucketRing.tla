------------------------------ MODULE BucketRing ------------------------------
(***************************************************************************)
(* The arithmetic of the bucket ring that both rolling counters use        *)
(* (circuitbreaker/rolling_counter.go, ratelimiter/rolling_counter.go).    *)
(* Time is a natural number of clock ticks.  A window is a ring of         *)
(* NumBuckets slots; the instant t belongs to slot IndexAt(t), and         *)
(* Epoch(t) numbers the bucket-long intervals since time 0.                *)
(***************************************************************************)
EXTENDS Integers

CONSTANTS
  NumBuckets,  \* buckets in the window (len(w.buckets))
  BucketDur    \* clock ticks per bucket (w.bucketSize, c.bucketDur)

ASSUME RingAssumption ==
  /\ NumBuckets \in Nat \ {0}
  /\ BucketDur \in Nat \ {0}

Slot == 0 .. NumBuckets - 1

Window == NumBuckets * BucketDur

Epoch(t) == t \div BucketDur

IndexAt(t) == Epoch(t) % NumBuckets

\* rotate does nothing before a whole bucket length has passed since `last`.
RotationDue(last, now) == now - last >= BucketDur

NumToClear(last, now) ==
  IF Epoch(now - last) > NumBuckets THEN NumBuckets ELSE Epoch(now - last)

\* Mutant: one slot too few is cleared (i < numToClear).
ClearedOneShort(last, now) ==
  {(IndexAt(last) + i) % NumBuckets : i \in 1 .. NumToClear(last, now) - 1}

\* Mutant: the loop starts at the slot of the last rotation (i := 0).
ClearedFromLast(last, now) ==
  {(IndexAt(last) + i) % NumBuckets : i \in 0 .. NumToClear(last, now)}

\* The slots that rotate empties, counted from the slot of the last rotation.
Cleared(last, now) ==
  {(IndexAt(last) + i) % NumBuckets : i \in 1 .. NumToClear(last, now)}

Rotate(buckets, last, now, empty) ==
  IF RotationDue(last, now)
  THEN [s \in Slot |-> IF s \in Cleared(last, now) THEN empty ELSE buckets[s]]
  ELSE buckets

\* Mutant: the rotation is rounded up to the next bucket boundary.
LastUpdateRoundedUp(last, now) ==
  IF RotationDue(last, now) THEN (Epoch(now) + 1) * BucketDur ELSE last

NewLastUpdate(last, now) == IF RotationDue(last, now) THEN now ELSE last
===============================================================================
