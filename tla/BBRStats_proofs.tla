---------------------------- MODULE BBRStats_proofs ----------------------------
(***************************************************************************)
(* Proofs about BBRStats, for any number of goroutines, any ring of        *)
(* buckets and any response times.                                         *)
(***************************************************************************)
EXTENDS BBRStats, BucketRing_proofs, FiniteSetTheorems, WellFoundedInduction, TLAPS

-------------------------------------------------------------------------------
(* Least and largest numbers.                                              *)

\* The intervals 0 .. x for x in T are ordered by inclusion as the x are.
LEMMA LeastExists ==
  ASSUME NEW T \in SUBSET Nat, T # {}
  PROVE  Min(T) \in T /\ \A y \in T : Min(T) <= y
<1> DEFINE F == {0 .. x : x \in T}
<1>1. F \subseteq FiniteSubsetsOf(Nat)
  <2>1. \A x \in T : IsFiniteSet(0 .. x) /\ 0 .. x \in SUBSET Nat
    BY FS_Interval
  <2> QED
    BY <2>1 DEF FiniteSubsetsOf
<1>2. PICK I \in F : \A J \in F : <<J, I>> \notin StrictSubsetOrdering(Nat)
  <2>1. F # {}
    OBVIOUS
  <2>2. IsWellFoundedOn(StrictSubsetOrdering(Nat), FiniteSubsetsOf(Nat))
    BY FS_StrictSubsetOrderingWellFounded
  <2> HIDE DEF F
  <2> QED
    BY <1>1, <2>1, <2>2, WFMin
<1>3. PICK x \in T : I = 0 .. x
  OBVIOUS
<1>4. ASSUME NEW y \in T, y < x PROVE FALSE
  <2>1. 0 .. y \subseteq 0 .. x /\ 0 .. y # 0 .. x
    <3>1. x \in 0 .. x /\ x \notin 0 .. y
      BY <1>4
    <3> QED
      BY <1>4, <3>1
  <2>2. <<0 .. y, 0 .. x>> \in StrictSubsetOrdering(Nat)
    BY <2>1 DEF StrictSubsetOrdering
  <2> QED
    BY <1>2, <1>3, <2>2
<1>5. \A y \in T : x <= y
  BY <1>4
<1> QED
  BY <1>5 DEF Min

LEMMA LargestExists ==
  ASSUME NEW T \in SUBSET Nat, T # {}, NEW n \in Nat, \A t \in T : t <= n
  PROVE  Max(T) \in T /\ \A y \in T : y <= Max(T)
<1> DEFINE U == {n - t : t \in T}
<1>1. U \in SUBSET Nat /\ U # {}
  <2>1. \A t \in T : n - t \in Nat
    OBVIOUS
  <2> QED
    BY <2>1
<1>2. Min(U) \in U /\ \A u \in U : Min(U) <= u
  <2> HIDE DEF U
  <2> QED
    BY <1>1, LeastExists
<1>3. PICK x \in T : Min(U) = n - x
  BY <1>2
<1>4. \A y \in T : y <= x
  <2> SUFFICES ASSUME NEW y \in T PROVE y <= x
    OBVIOUS
  <2>1. n - y \in U
    OBVIOUS
  <2>2. n - x <= n - y
    BY <1>2, <1>3, <2>1
  <2> QED
    BY <2>2
<1> QED
  BY <1>4 DEF Max

-------------------------------------------------------------------------------
(* Types.                                                                  *)

Finite == IsFiniteSet(passStat.made) /\ IsFiniteSet(rtStat.made)

Typed == TypeOK /\ Finite

\* The busiest bucket has a size, and the least response time is a number.
LEMMA MaxIsNat ==
  ASSUME NEW c, CounterOK(c), IsFiniteSet(c.made)
  PROVE  Max_(c) \in Nat
<1> DEFINE T == {Cardinality(c.buckets[s]) : s \in Slot}
<1>1. Cardinality(c.made) \in Nat
  BY FS_CardinalityType
<1>2. \A s \in Slot : Cardinality(c.buckets[s]) \in Nat
                      /\ Cardinality(c.buckets[s]) <= Cardinality(c.made)
  BY FS_Subset, FS_CardinalityType DEF CounterOK
<1>3. 0 \in Slot
  BY RingAssumption DEF Slot
<1>4. T \in SUBSET Nat /\ T # {} /\ \A t \in T : t <= Cardinality(c.made)
  BY <1>2, <1>3
<1>5. Max(T) \in Nat
  <2> HIDE DEF T
  <2> QED
    BY <1>1, <1>4, LargestExists
<1> QED
  BY <1>5 DEF Max_

LEMMA MinIsNat ==
  ASSUME NEW c, CounterOK(c)
  PROVE  Min_(c) \in Nat
<1>1. \A b \in {c.buckets[s] : s \in Slot} \ {{}} :
        Min({m.rt : m \in b}) \in Nat
  <2> SUFFICES ASSUME NEW b \in {c.buckets[s] : s \in Slot} \ {{}}
               PROVE  Min({m.rt : m \in b}) \in Nat
    OBVIOUS
  <2> DEFINE T == {m.rt : m \in b}
  <2>1. b \in SUBSET Sample /\ b # {}
    BY DEF CounterOK
  <2>2. T \in SUBSET Nat /\ T # {}
    BY <2>1 DEF Sample
  <2>3. Min(T) \in Nat
    <3> HIDE DEF T
    <3> QED
      BY <2>2, LeastExists
  <2> QED
    BY <2>3
<1>2. Minima(c) \in SUBSET Nat
  BY <1>1 DEF Minima
<1>3. CASE Minima(c) \ {0} = {}
  BY <1>3 DEF Min_
<1>4. CASE Minima(c) \ {0} # {}
  BY <1>2, <1>4, LeastExists DEF Min_
<1> QED
  BY <1>3, <1>4

LEMMA MaxInflightIsNat ==
  ASSUME NEW pass \in Nat, NEW minRT \in Nat
  PROVE  MaxInflight(pass, minRT) \in Nat
<1>1. pass * minRT \in Nat
  OBVIOUS
<1> DEFINE n == (pass * minRT) \div BucketDur
<1>2. n \in Nat
  BY <1>1, RingAssumption, DivFacts
<1>3. MaxInflight(pass, minRT) \in {Fallback, n}
  BY DEF MaxInflight
<1> HIDE DEF n
<1> QED
  BY <1>2, <1>3, RingAssumption DEF Fallback

\* A rotation and an Add keep a counter well formed.
LEMMA RotateAtOK ==
  ASSUME clock \in Nat, NEW c, CounterOK(c), NEW t \in 0 .. clock
  PROVE  CounterOK(RotateAt(c, t)) /\ RotateAt(c, t).made = c.made
<1> DEFINE b == Rotate(c.buckets, c.lastUpdate, t, {})
           l == NewLastUpdate(c.lastUpdate, t)
<1>1. /\ c.lastUpdate \in Nat /\ c.lastUpdate <= clock /\ t \in Nat
      /\ c.buckets \in [Slot -> SUBSET c.made]
      /\ c.made \in SUBSET Sample
  BY DEF CounterOK
<1>2. b \in [Slot -> SUBSET c.made]
  BY <1>1, RotateKeepsType
<1>3. l \in 0 .. clock
  BY <1>1 DEF NewLastUpdate
<1>4. c \in [buckets : [Slot -> SUBSET Sample], lastUpdate : 0 .. clock,
             made : SUBSET Sample]
  BY DEF CounterOK
<1>5. RotateAt(c, t) = [c EXCEPT !.buckets = b, !.lastUpdate = l]
  BY DEF RotateAt
<1> HIDE DEF b, l
<1>6. RotateAt(c, t) = [buckets |-> b, lastUpdate |-> l, made |-> c.made]
  BY <1>4, <1>5
<1> QED
  BY <1>1, <1>2, <1>3, <1>6 DEF CounterOK

LEMMA AddOK ==
  ASSUME clock \in Nat, NEW c, CounterOK(c),
         NEW m \in [id : Nat, at : 0 .. clock, rt : Nat]
  PROVE  /\ CounterOK(Add(c, m))
         /\ IsFiniteSet(c.made) => IsFiniteSet(Add(c, m).made)
<1> DEFINE d == RotateAt(c, m.at)
           n == Recorded(m, d)
           i == IndexAt(m.at)
<1>1. CounterOK(d) /\ d.made = c.made
  BY RotateAtOK
<1>2. n \in Sample
  BY <1>1 DEF CounterOK, Recorded, Sample
<1>3. i \in Slot
  BY IndexInRing
<1>4. Add(c, m) = [d EXCEPT !.buckets[i] = @ \cup {n}, !.made = @ \cup {n}]
  BY DEF Add, Record
<1> HIDE DEF d, n, i
<1>5. Add(c, m) = [buckets |-> [d.buckets EXCEPT ![i] = @ \cup {n}],
                   lastUpdate |-> d.lastUpdate, made |-> d.made \cup {n}]
  BY <1>1, <1>4 DEF CounterOK
<1>6. CounterOK(Add(c, m))
  BY <1>1, <1>2, <1>3, <1>5 DEF CounterOK
<1>7. IsFiniteSet(c.made) => IsFiniteSet(d.made \cup {n})
  BY <1>1, FS_AddElement
<1> QED
  BY <1>5, <1>6, <1>7

LEMMA TypedInit == Init => Typed
<1> SUFFICES ASSUME Init PROVE Typed
  OBVIOUS
<1>1. clock \in Nat
  BY RingAssumption DEF Init
<1>2. CounterOK(Counter(clock)) /\ Counter(clock).made = {}
  BY <1>1 DEF CounterOK, Counter
<1>3. CounterOK(passStat) /\ CounterOK(rtStat)
  BY <1>2 DEF Init
<1>4. work \in [Workers -> [id : Nat, at : 0 .. clock, rt : Nat]]
  BY <1>1 DEF Init, NoWork
<1>5. limit \in [Workers -> Nat]
  BY RingAssumption DEF Init, Fallback
<1>6. TypeOK
  BY <1>1, <1>3, <1>4, <1>5 DEF Init, TypeOK
<1> QED
  BY <1>2, <1>6, FS_EmptySet DEF Init, Typed, Finite

LEMMA TypedStep == Typed /\ [Next]_vars => Typed'
<1> SUFFICES ASSUME Typed, [Next]_vars PROVE Typed'
  OBVIOUS
<1> USE DEF Typed, TypeOK, Finite
<1>0. /\ clock \in Nat
      /\ CounterOK(passStat) /\ CounterOK(rtStat)
      /\ IsFiniteSet(passStat.made) /\ IsFiniteSet(rtStat.made)
  OBVIOUS
<1>1. ASSUME clock' = clock, passStat' = passStat, rtStat' = rtStat
      PROVE  CounterOK(passStat)' /\ CounterOK(rtStat)' /\ Finite'
  BY <1>1 DEF CounterOK
<1>2. CASE UNCHANGED vars
  BY <1>1, <1>2 DEF vars
<1>3. CASE Tick
  <2>1. clock' = clock + 1 /\ UNCHANGED <<passStat, rtStat, pc, work, maxPass, limit, finished, overlap>>
    BY <1>3 DEF Tick
  <2>2. CounterOK(passStat)' /\ CounterOK(rtStat)'
    BY <1>0, <2>1 DEF CounterOK
  <2>3. work' \in [Workers -> [id : Nat, at : 0 .. clock', rt : Nat]]
    BY <1>0, <2>1
  <2> QED
    BY <1>0, <2>1, <2>2, <2>3
<1>4. ASSUME NEW w \in Workers, NEW v \in RTs, Finish(w, v) PROVE Typed'
  <2>1. [id |-> finished + 1, at |-> clock, rt |-> v]
          \in [id : Nat, at : 0 .. clock, rt : Nat]
    BY StatsAssumption
  <2> QED
    BY <1>1, <1>4, <2>1 DEF Finish, Begin
<1>5. ASSUME NEW w \in Workers, Ask(w) PROVE Typed'
  <2>1. [NoWork EXCEPT !.at = clock] \in [id : Nat, at : 0 .. clock, rt : Nat]
    BY DEF NoWork
  <2> QED
    BY <1>1, <1>5, <2>1 DEF Ask, Begin
<1>6. ASSUME NEW w \in Workers, PassAdd(w) PROVE Typed'
  <2>1. /\ passStat' = Add(passStat, work[w])
        /\ UNCHANGED <<clock, rtStat, work, maxPass, limit, finished, overlap>>
        /\ pc' = [pc EXCEPT ![w] = "rtAdd"]
    BY <1>6 DEF PassAdd
  <2>2. CounterOK(passStat') /\ IsFiniteSet(passStat'.made)
    BY <1>0, <2>1, AddOK
  <2>3. CounterOK(passStat)' /\ CounterOK(rtStat)'
    BY <1>0, <2>1, <2>2 DEF CounterOK
  <2> QED
    BY <2>1, <2>2, <2>3
<1>7. ASSUME NEW w \in Workers, RtAdd(w) PROVE Typed'
  <2>1. /\ rtStat' = Add(rtStat, work[w])
        /\ UNCHANGED <<clock, passStat, maxPass, limit, finished, overlap>>
        /\ pc' = [pc EXCEPT ![w] = "idle"]
        /\ work' = [work EXCEPT ![w] = NoWork]
    BY <1>7 DEF RtAdd
  <2>2. CounterOK(rtStat') /\ IsFiniteSet(rtStat'.made)
    BY <1>0, <2>1, AddOK
  <2>3. CounterOK(passStat)' /\ CounterOK(rtStat)'
    BY <1>0, <2>1, <2>2 DEF CounterOK
  <2>4. NoWork \in [id : Nat, at : 0 .. clock, rt : Nat]
    BY DEF NoWork
  <2> QED
    BY <2>1, <2>2, <2>3, <2>4
<1>8. ASSUME NEW w \in Workers, ReadMax(w) PROVE Typed'
  <2>1. /\ passStat' = RotateAt(passStat, work[w].at)
        /\ maxPass' = [maxPass EXCEPT ![w] = Max_(passStat')]
        /\ pc' = [pc EXCEPT ![w] = "readMin"]
        /\ UNCHANGED <<clock, rtStat, work, limit, finished, overlap>>
    BY <1>8 DEF ReadMax
  <2>2. CounterOK(passStat') /\ passStat'.made = passStat.made
    BY <1>0, <2>1, RotateAtOK
  <2>3. CounterOK(passStat)' /\ CounterOK(rtStat)'
    BY <1>0, <2>1, <2>2 DEF CounterOK
  <2>4. Max_(passStat') \in Nat
    BY <1>0, <2>2, MaxIsNat
  <2> QED
    BY <2>1, <2>2, <2>3, <2>4
<1>9. ASSUME NEW w \in Workers, ReadMin(w) PROVE Typed'
  <2>1. /\ rtStat' = RotateAt(rtStat, work[w].at)
        /\ limit' = [limit EXCEPT ![w] = MaxInflight(maxPass[w], Min_(rtStat'))]
        /\ maxPass' = [maxPass EXCEPT ![w] = 0]
        /\ work' = [work EXCEPT ![w] = NoWork]
        /\ pc' = [pc EXCEPT ![w] = "idle"]
        /\ UNCHANGED <<clock, passStat, finished, overlap>>
    BY <1>9 DEF ReadMin
  <2>2. CounterOK(rtStat') /\ rtStat'.made = rtStat.made
    BY <1>0, <2>1, RotateAtOK
  <2>3. CounterOK(passStat)' /\ CounterOK(rtStat)'
    BY <1>0, <2>1, <2>2 DEF CounterOK
  <2>4. MaxInflight(maxPass[w], Min_(rtStat')) \in Nat
    BY <2>2, MinIsNat, MaxInflightIsNat
  <2>5. NoWork \in [id : Nat, at : 0 .. clock, rt : Nat]
    BY DEF NoWork
  <2> QED
    BY <2>1, <2>2, <2>3, <2>4, <2>5
<1> QED
  BY <1>2, <1>3, <1>4, <1>5, <1>6, <1>7, <1>8, <1>9 DEF Next

LEMMA TypedAlways == Spec => []Typed
BY TypedInit, TypedStep, PTL DEF Spec

\* Every variable has its type, and no counter was updated in the future.
THEOREM TypeCorrect == Spec => []TypeOK
<1>1. Typed => TypeOK
  BY DEF Typed
<1> QED
  BY <1>1, TypedAlways, PTL

-------------------------------------------------------------------------------
(* What the counters keep.                                                  *)

\* No sample was recorded under a rotation later than the last one.
RotsPast(c) == \A m \in c.made : m.rot <= c.lastUpdate

Kept(c) == RotsPast(c) /\ RetainedIn(c)

Retained == Kept(passStat) /\ Kept(rtStat)

\* A rotation at an instant that may already be behind lastUpdate keeps every
\* sample that RetainedIn promises to keep (rolling_counter.go:98-121).
LEMMA RotateKeeps ==
  ASSUME clock \in Nat, NEW c, CounterOK(c), Kept(c), NEW t \in 0 .. clock
  PROVE  Kept(RotateAt(c, t))
<1> DEFINE d == RotateAt(c, t)
<1>1. /\ c.lastUpdate \in Nat /\ t \in Nat
      /\ c.buckets \in [Slot -> SUBSET Sample] /\ c.made \in SUBSET Sample
  BY DEF CounterOK
<1>2. /\ d.buckets = Rotate(c.buckets, c.lastUpdate, t, {})
      /\ d.lastUpdate = NewLastUpdate(c.lastUpdate, t)
      /\ d.made = c.made
  BY DEF RotateAt, CounterOK
<1> HIDE DEF d
<1>3. c.lastUpdate <= d.lastUpdate /\ d.lastUpdate \in Nat
  BY <1>1, <1>2, RingAssumption DEF NewLastUpdate, RotationDue
<1>4. RotsPast(d)
  BY <1>1, <1>2, <1>3 DEF Kept, RotsPast, Sample
<1>5. ASSUME NEW m \in d.made, Epoch(m.at) <= Epoch(m.rot),
             d.lastUpdate < (Epoch(m.at) + NumBuckets) * BucketDur
      PROVE  m \in d.buckets[IndexAt(m.at)]
  <2>1. m.at \in Nat /\ m.rot \in Nat /\ m.rot <= c.lastUpdate
    BY <1>1, <1>2 DEF Sample, Kept, RotsPast
  <2>2. Epoch(m.at) \in Nat /\ Epoch(m.rot) \in Nat /\ Epoch(c.lastUpdate) \in Nat
    BY <1>1, <2>1, RingAssumption, DivFacts DEF Epoch
  <2>3. Epoch(m.at) <= Epoch(c.lastUpdate)
    <3>1. Epoch(m.rot) <= Epoch(c.lastUpdate)
      BY <1>1, <2>1, RingAssumption, DivMonotone DEF Epoch
    <3> QED
      BY <1>5, <2>2, <3>1
  <2>4. c.lastUpdate < (Epoch(m.at) + NumBuckets) * BucketDur
    <3>1. (Epoch(m.at) + NumBuckets) * BucketDur \in Int
      BY <2>2, RingAssumption
    <3> QED
      BY <1>1, <1>3, <1>5, <3>1
  <2>5. m \in c.buckets[IndexAt(m.at)]
    BY <1>2, <1>5, <2>4 DEF Kept, RetainedIn
  <2>6. IndexAt(m.at) \in Slot
    BY <2>1, IndexInRing
  <2>7. CASE RotationDue(c.lastUpdate, t)
    <3>1. d.lastUpdate = t /\ c.lastUpdate <= t
      BY <1>1, <1>2, <2>7, RingAssumption DEF NewLastUpdate, RotationDue
    <3>2. IndexAt(m.at) \notin Cleared(c.lastUpdate, t)
      BY <1>1, <1>5, <2>2, <2>3, <3>1, YoungSlotKept DEF IndexAt
    <3> QED
      BY <1>2, <2>5, <2>6, <2>7, <3>2 DEF Rotate
  <2>8. CASE ~RotationDue(c.lastUpdate, t)
    BY <1>2, <2>5, <2>8 DEF Rotate
  <2> QED
    BY <2>7, <2>8
<1>6. RetainedIn(d)
  BY <1>5 DEF RetainedIn
<1> QED
  BY <1>4, <1>6 DEF Kept, d

LEMMA AddKeeps ==
  ASSUME clock \in Nat, NEW c, CounterOK(c), Kept(c),
         NEW m \in [id : Nat, at : 0 .. clock, rt : Nat]
  PROVE  Kept(Add(c, m))
<1> DEFINE d == RotateAt(c, m.at)
           n == Recorded(m, d)
           e == Add(c, m)
<1>1. CounterOK(d) /\ Kept(d)
  BY RotateAtOK, RotateKeeps
<1>2. n \in Sample /\ n.at = m.at /\ n.rot = d.lastUpdate /\ d.lastUpdate \in Nat
  BY <1>1 DEF CounterOK, Recorded, Sample
<1>3. IndexAt(m.at) \in Slot /\ \A s \in d.made : IndexAt(s.at) \in Slot
  BY <1>1, IndexInRing DEF CounterOK, Sample
<1>4. e = [d EXCEPT !.buckets[IndexAt(m.at)] = @ \cup {n}, !.made = @ \cup {n}]
  BY DEF Add, Record
<1> HIDE DEF d, n, e
<1>5. /\ e.buckets = [d.buckets EXCEPT ![IndexAt(m.at)] = @ \cup {n}]
      /\ e.lastUpdate = d.lastUpdate
      /\ e.made = d.made \cup {n}
  BY <1>1, <1>4 DEF CounterOK
<1>6. RotsPast(e)
  BY <1>1, <1>2, <1>5 DEF Kept, RotsPast
<1>7. d.buckets \in [Slot -> SUBSET Sample]
  BY <1>1 DEF CounterOK
<1>8. n \in e.buckets[IndexAt(n.at)]
  BY <1>2, <1>3, <1>5, <1>7
<1>9. \A s \in Slot : d.buckets[s] \subseteq e.buckets[s]
  BY <1>3, <1>5, <1>7
<1>10. RetainedIn(e)
  <2> SUFFICES ASSUME NEW s \in e.made, Epoch(s.at) <= Epoch(s.rot),
                      e.lastUpdate < (Epoch(s.at) + NumBuckets) * BucketDur
               PROVE  s \in e.buckets[IndexAt(s.at)]
    BY DEF RetainedIn
  <2>1. CASE s \in d.made
    BY <1>1, <1>3, <1>5, <1>9, <2>1 DEF Kept, RetainedIn
  <2>2. CASE s = n
    BY <1>8, <2>2
  <2> QED
    BY <1>5, <2>1, <2>2
<1> QED
  BY <1>6, <1>10 DEF Kept, e

LEMMA RetainedStep == Typed /\ Retained /\ [Next]_vars => Retained'
<1> SUFFICES ASSUME Typed, Retained, [Next]_vars PROVE Retained'
  OBVIOUS
<1>0. /\ clock \in Nat
      /\ CounterOK(passStat) /\ CounterOK(rtStat)
      /\ work \in [Workers -> [id : Nat, at : 0 .. clock, rt : Nat]]
      /\ Kept(passStat) /\ Kept(rtStat)
  BY DEF Typed, TypeOK, Retained
<1>1. passStat' = passStat => Kept(passStat)'
  BY <1>0 DEF Kept, RotsPast, RetainedIn
<1>2. rtStat' = rtStat => Kept(rtStat)'
  BY <1>0 DEF Kept, RotsPast, RetainedIn
<1>3. Kept(passStat') <=> Kept(passStat)'
  BY DEF Kept, RotsPast, RetainedIn
<1>4. Kept(rtStat') <=> Kept(rtStat)'
  BY DEF Kept, RotsPast, RetainedIn
<1>5. CASE UNCHANGED vars \/ Tick
  BY <1>1, <1>2, <1>5 DEF vars, Tick, Retained
<1>6. ASSUME NEW w \in Workers, (\E v \in RTs : Finish(w, v)) \/ Ask(w)
      PROVE  Retained'
  BY <1>1, <1>2, <1>6 DEF Finish, Ask, Begin, Retained
<1>7. ASSUME NEW w \in Workers, PassAdd(w) PROVE Retained'
  <2>1. passStat' = Add(passStat, work[w]) /\ rtStat' = rtStat
    BY <1>7 DEF PassAdd
  <2> QED
    BY <1>0, <1>2, <1>3, <2>1, AddKeeps DEF Retained
<1>8. ASSUME NEW w \in Workers, RtAdd(w) PROVE Retained'
  <2>1. rtStat' = Add(rtStat, work[w]) /\ passStat' = passStat
    BY <1>8 DEF RtAdd
  <2> QED
    BY <1>0, <1>1, <1>4, <2>1, AddKeeps DEF Retained
<1>9. ASSUME NEW w \in Workers, ReadMax(w) PROVE Retained'
  <2>1. passStat' = RotateAt(passStat, work[w].at) /\ rtStat' = rtStat
    BY <1>9 DEF ReadMax
  <2> QED
    BY <1>0, <1>2, <1>3, <2>1, RotateKeeps DEF Retained
<1>10. ASSUME NEW w \in Workers, ReadMin(w) PROVE Retained'
  <2>1. rtStat' = RotateAt(rtStat, work[w].at) /\ passStat' = passStat
    BY <1>10 DEF ReadMin
  <2> QED
    BY <1>0, <1>1, <1>4, <2>1, RotateKeeps DEF Retained
<1> QED
  BY <1>5, <1>6, <1>7, <1>8, <1>9, <1>10 DEF Next

\* A sample whose slot the ring had reached stays until the ring comes round to
\* it, whatever the number of goroutines and however late they get the lock.
THEOREM RetainedCorrect == Spec => []SamplesRetained
<1>1. Init => Retained
  BY DEF Init, Counter, Retained, Kept, RotsPast, RetainedIn
<1>2. Retained => SamplesRetained
  BY DEF Retained, Kept, SamplesRetained
<1> QED
  BY <1>1, <1>2, RetainedStep, TypedAlways, PTL DEF Spec

-------------------------------------------------------------------------------
(* Both counters together.                                                  *)

\* As long as no two calls overlapped, the counters are equal, or one goroutine
\* has still to do to rtStat what it has done to passStat.
InStep ==
  ~overlap =>
    /\ \A v, w \in Workers : pc[v] # "idle" /\ pc[w] # "idle" => v = w
    /\ (\A w \in Workers : pc[w] \in {"idle", "passAdd", "readMax"}) => passStat = rtStat
    /\ \A w \in Workers :
         /\ pc[w] = "rtAdd" => passStat = Add(rtStat, work[w])
         /\ pc[w] = "readMin" => passStat = RotateAt(rtStat, work[w].at)

LEMMA InStepStep == Typed /\ InStep /\ [Next]_vars => InStep'
<1> SUFFICES ASSUME Typed, InStep, [Next]_vars PROVE InStep'
  OBVIOUS
<1> USE DEF Typed, TypeOK, InStep
<1>1. CASE UNCHANGED vars \/ Tick
  BY <1>1 DEF vars, Tick
<1>2. ASSUME NEW w \in Workers, (\E v \in RTs : Finish(w, v)) \/ Ask(w)
      PROVE  InStep'
  BY <1>2 DEF Finish, Ask, Begin
<1>3. ASSUME NEW w \in Workers, PassAdd(w) PROVE InStep'
  BY <1>3 DEF PassAdd
<1>4. ASSUME NEW w \in Workers, RtAdd(w) PROVE InStep'
  BY <1>4 DEF RtAdd
<1>5. ASSUME NEW w \in Workers, ReadMax(w) PROVE InStep'
  BY <1>5 DEF ReadMax
<1>6. ASSUME NEW w \in Workers, ReadMin(w) PROVE InStep'
  BY <1>6 DEF ReadMin
<1> QED
  BY <1>1, <1>2, <1>3, <1>4, <1>5, <1>6 DEF Next

\* Calls that never overlapped leave the same samples in both counters.
THEOREM SerialCorrect == Spec => []SerialAgreement
<1>1. Init => InStep
  BY DEF Init, InStep
<1>2. InStep => SerialAgreement
  BY DEF InStep, SerialAgreement
<1> QED
  BY <1>1, <1>2, InStepStep, TypedAlways, PTL DEF Spec

-------------------------------------------------------------------------------
(* A silent window.                                                        *)

LEMMA EmptyIsZero ==
  ASSUME NEW c, \A s \in Slot : c.buckets[s] = {}
  PROVE  Max_(c) = 0 /\ Min_(c) = 0
<1>1. 0 \in Slot
  BY RingAssumption DEF Slot
<1>2. {Cardinality(c.buckets[s]) : s \in Slot} = {0}
  BY <1>1, FS_EmptySet
<1>3. Max({0}) = 0
  BY DEF Max
<1>4. {c.buckets[s] : s \in Slot} \ {{}} = {}
  OBVIOUS
<1>5. Minima(c) = {}
  BY <1>4 DEF Minima
<1> QED
  BY <1>2, <1>3, <1>5 DEF Max_, Min_

LEMMA SilenceEmpties ==
  ASSUME clock \in Nat, NEW c, CounterOK(c), NEW t \in 0 .. clock,
         t - c.lastUpdate >= Window
  PROVE  \A s \in Slot : RotateAt(c, t).buckets[s] = {}
<1>1. c.lastUpdate \in Nat /\ t \in Nat
  BY DEF CounterOK
<1>2. RotationDue(c.lastUpdate, t) /\ Cleared(c.lastUpdate, t) = Slot
  BY <1>1, SilenceClearsAll
<1>3. RotateAt(c, t).buckets = Rotate(c.buckets, c.lastUpdate, t, {})
  BY DEF RotateAt, CounterOK
<1> QED
  BY <1>2, <1>3 DEF Rotate

\* After a silent window the first read of each counter finds nothing of the
\* past, for any number of buckets and any bucket length.
THEOREM SilenceCorrect == Spec => SilenceForgets
<1> DEFINE A == \A w \in Workers :
                  /\ ReadMax(w) /\ work[w].at - passStat.lastUpdate >= Window
                     => maxPass'[w] = 0
                  /\ ReadMin(w) /\ work[w].at - rtStat.lastUpdate >= Window
                     => limit'[w] = Fallback
<1>1. Typed => A
  <2> SUFFICES ASSUME Typed, NEW w \in Workers
               PROVE  /\ ReadMax(w) /\ work[w].at - passStat.lastUpdate >= Window
                         => maxPass'[w] = 0
                      /\ ReadMin(w) /\ work[w].at - rtStat.lastUpdate >= Window
                         => limit'[w] = Fallback
    OBVIOUS
  <2>1. /\ clock \in Nat /\ CounterOK(passStat) /\ CounterOK(rtStat)
        /\ work[w].at \in 0 .. clock
        /\ maxPass \in [Workers -> Nat] /\ limit \in [Workers -> Nat]
    BY DEF Typed, TypeOK
  <2>2. ASSUME ReadMax(w), work[w].at - passStat.lastUpdate >= Window
        PROVE  maxPass'[w] = 0
    <3>1. passStat' = RotateAt(passStat, work[w].at)
          /\ maxPass' = [maxPass EXCEPT ![w] = Max_(passStat')]
      BY <2>2 DEF ReadMax
    <3>2. \A s \in Slot : passStat'.buckets[s] = {}
      BY <2>1, <2>2, <3>1, SilenceEmpties
    <3> QED
      BY <2>1, <3>1, <3>2, EmptyIsZero
  <2>3. ASSUME ReadMin(w), work[w].at - rtStat.lastUpdate >= Window
        PROVE  limit'[w] = Fallback
    <3>1. rtStat' = RotateAt(rtStat, work[w].at)
          /\ limit' = [limit EXCEPT ![w] = MaxInflight(maxPass[w], Min_(rtStat'))]
      BY <2>3 DEF ReadMin
    <3>2. \A s \in Slot : rtStat'.buckets[s] = {}
      BY <2>1, <2>3, <3>1, SilenceEmpties
    <3>3. Min_(rtStat') = 0
      BY <3>2, EmptyIsZero
    <3> QED
      BY <2>1, <3>1, <3>3 DEF MaxInflight
  <2> QED
    BY <2>2, <2>3
<1>2. Typed /\ [Next]_vars => [A]_vars
  BY <1>1
<1>3. Spec => [][A]_vars
  BY <1>2, TypedAlways, PTL DEF Spec
<1> QED
  BY <1>3 DEF SilenceForgets

-------------------------------------------------------------------------------
(* The fallback.                                                           *)

\* No response time below a millisecond was recorded, or is about to be.
NoZero ==
  /\ \A m \in rtStat.made : m.rt > 0
  /\ \A w \in Workers : pc[w] \in {"passAdd", "rtAdd"} => work[w].rt > 0

FallbackKept ==
  \A w \in Workers :
    ReadMin(w) /\ maxPass[w] > 0 /\ Minima(rtStat') # {} => Min_(rtStat') > 0

\* If every response time in a counter is positive, so is the least one.
LEMMA MinIsPositive ==
  ASSUME NEW c, CounterOK(c), \A m \in c.made : m.rt > 0, Minima(c) # {}
  PROVE  Min_(c) > 0
<1>1. \A b \in {c.buckets[s] : s \in Slot} \ {{}} :
        Min({m.rt : m \in b}) \in Nat /\ Min({m.rt : m \in b}) > 0
  <2> SUFFICES ASSUME NEW b \in {c.buckets[s] : s \in Slot} \ {{}}
               PROVE  Min({m.rt : m \in b}) \in Nat /\ Min({m.rt : m \in b}) > 0
    OBVIOUS
  <2> DEFINE T == {m.rt : m \in b}
  <2>1. b \subseteq c.made /\ b \in SUBSET Sample /\ b # {}
    BY DEF CounterOK
  <2>2. T \in SUBSET Nat /\ T # {} /\ \A x \in T : x > 0
    BY <2>1 DEF Sample
  <2>3. Min(T) \in T
    <3> HIDE DEF T
    <3> QED
      BY <2>2, LeastExists
  <2> HIDE DEF T
  <2>4. Min(T) \in Nat /\ Min(T) > 0
    BY <2>2, <2>3
  <2> QED
    BY <2>4 DEF T
<1> DEFINE M == Minima(c)
<1>2. \A x \in M : x \in Nat /\ x > 0
  BY <1>1 DEF Minima
<1>3. Min_(c) = IF M \ {0} = {} THEN 0 ELSE Min(M \ {0})
  BY DEF Min_
<1>4. M # {}
  OBVIOUS
<1> HIDE DEF M
<1>5. 0 \notin M
  BY <1>2
<1>6. M \ {0} = M
  BY <1>5
<1>7. Min(M) \in M
  BY <1>2, <1>4, LeastExists
<1> QED
  BY <1>2, <1>3, <1>4, <1>6, <1>7

LEMMA AddMade ==
  ASSUME clock \in Nat, NEW c, CounterOK(c),
         NEW m \in [id : Nat, at : 0 .. clock, rt : Nat]
  PROVE  \A x \in Add(c, m).made : x \in c.made \/ x.rt = m.rt
<1> DEFINE d == RotateAt(c, m.at)
           n == Recorded(m, d)
           i == IndexAt(m.at)
<1>1. CounterOK(d) /\ d.made = c.made
  BY RotateAtOK
<1>2. n.rt = m.rt
  BY DEF Recorded
<1>3. Add(c, m) = [d EXCEPT !.buckets[i] = @ \cup {n}, !.made = @ \cup {n}]
  BY DEF Add, Record
<1> HIDE DEF d, n, i
<1>4. Add(c, m).made = d.made \cup {n}
  BY <1>1, <1>3 DEF CounterOK
<1> QED
  BY <1>1, <1>2, <1>4

LEMMA NoZeroStep ==
  ASSUME Typed, NoZero, [Next]_vars, \A v \in RTs : v > 0
  PROVE  NoZero' /\ FallbackKept
<1> USE DEF Typed, TypeOK
<1>1. CASE UNCHANGED vars \/ Tick
  BY <1>1 DEF vars, Tick, NoZero, FallbackKept, ReadMin
<1>2. ASSUME NEW w \in Workers, NEW v \in RTs, Finish(w, v)
      PROVE  NoZero' /\ FallbackKept
  BY <1>2, StatsAssumption DEF Finish, Begin, NoZero, FallbackKept, ReadMin
<1>3. ASSUME NEW w \in Workers, PassAdd(w) PROVE NoZero' /\ FallbackKept
  BY <1>3 DEF PassAdd, NoZero, FallbackKept, ReadMin
<1>4. ASSUME NEW w \in Workers, RtAdd(w) PROVE NoZero' /\ FallbackKept
  <2>1. \A x \in rtStat'.made : x \in rtStat.made \/ x.rt = work[w].rt
    BY <1>4, AddMade DEF RtAdd
  <2> QED
    BY <1>4, <2>1 DEF RtAdd, NoZero, FallbackKept, ReadMin
<1>5. ASSUME NEW w \in Workers, Ask(w) \/ ReadMax(w) PROVE NoZero' /\ FallbackKept
  BY <1>5 DEF Ask, Begin, ReadMax, NoZero, FallbackKept, ReadMin
<1>6. ASSUME NEW w \in Workers, ReadMin(w) PROVE NoZero' /\ FallbackKept
  <2>1. rtStat' = RotateAt(rtStat, work[w].at)
    BY <1>6 DEF ReadMin
  <2>2. CounterOK(rtStat') /\ rtStat'.made = rtStat.made
    BY <2>1, RotateAtOK
  <2>3. Minima(rtStat') # {} => Min_(rtStat') > 0
    BY <2>2, MinIsPositive DEF NoZero
  <2> QED
    BY <1>6, <2>2, <2>3 DEF ReadMin, NoZero, FallbackKept
<1> QED
  BY <1>1, <1>2, <1>3, <1>4, <1>5, <1>6 DEF Next

\* Requests faster than a millisecond are the only cause: where none is recorded
\* maxInflight takes its fallback only without data, however calls interleave
\* (rolling_counter.go:84-91, bbr_ratelimiter.go:104-113).
THEOREM FallbackCorrect ==
  ASSUME \A v \in RTs : v > 0 PROVE Spec => FallbackOnlyWithoutData
<1>1. Init => NoZero
  BY DEF Init, NoZero, Counter
<1>2. Typed /\ NoZero /\ [Next]_vars => NoZero' /\ [FallbackKept]_vars
  BY NoZeroStep
<1> QED
  BY <1>1, <1>2, TypedAlways, PTL DEF Spec, FallbackOnlyWithoutData, FallbackKept
===============================================================================
