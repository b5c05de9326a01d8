------------------------ MODULE CircuitBreaker_proofs ------------------------
(***************************************************************************)
(* Proofs about CircuitBreaker, for any number of calls, any ring of       *)
(* buckets and any K.                                                      *)
(***************************************************************************)
EXTENDS CircuitBreaker, BucketRing_proofs, FiniteSetTheorems, TLAPS

-------------------------------------------------------------------------------
(* Types.                                                                  *)

\* The marks are finitely many and numbered from 1 in the order they are made,
\* so that a new one is never equal to an old one.
MarksNumbered ==
  /\ IsFiniteSet(made)
  /\ \A m \in made : m.id <= Cardinality(made)

Typed == TypeOK /\ MarksNumbered

LEMMA TypedInit == Init => Typed
<1> SUFFICES ASSUME Init PROVE Typed
  OBVIOUS
<1>1. clock \in Nat
  BY RingAssumption DEF Init
<1>2. TypeOK
  BY <1>1 DEF Init, TypeOK, PCs
<1> QED
  BY <1>2, FS_EmptySet DEF Init, Typed, MarksNumbered

\* The mark that AddStore adds is a new one (rolling_counter.go:40-42).
LEMMA NewMarkIsNew ==
  ASSUME Typed, NEW c \in Calls
  PROVE  /\ NewMark(c) \in Mark
         /\ NewMark(c) \notin made
         /\ IsFiniteSet(made \cup {NewMark(c)})
         /\ Cardinality(made \cup {NewMark(c)}) = Cardinality(made) + 1
         /\ NewMark(c).id = Cardinality(made) + 1
<1>1. IsFiniteSet(made) /\ Cardinality(made) \in Nat
  BY FS_CardinalityType DEF Typed, MarksNumbered
<1>2. NewMark(c).id = Cardinality(made) + 1
  BY DEF NewMark
<1>3. NewMark(c) \in Mark
  BY <1>1 DEF NewMark, Mark, Typed, TypeOK
<1>4. NewMark(c) \notin made
  BY <1>1, <1>2 DEF Typed, MarksNumbered
<1> QED
  BY <1>1, <1>2, <1>3, <1>4, FS_AddElement

LEMMA TypedStep == Typed /\ [Next]_vars => Typed'
<1> SUFFICES ASSUME Typed, [Next]_vars PROVE Typed'
  OBVIOUS
<1>0. made' = made => MarksNumbered'
  BY DEF Typed, MarksNumbered
<1> USE <1>0 DEF Typed, TypeOK, PCs
<1>1. CASE UNCHANGED vars \/ Rest
  BY <1>1 DEF vars, Rest
<1>2. CASE Tick
  BY <1>2 DEF Tick
<1>3. ASSUME NEW c \in Calls, Summary(c) PROVE Typed'
  <2>1. buckets' \in [Slot -> SUBSET made]
    BY <1>3, RotateKeepsType DEF Summary
  <2>2. lastUpdate' \in Nat /\ lastUpdate' <= clock
    BY <1>3, LastUpdateInPast DEF Summary
  <2>3. UNION {buckets'[s] : s \in Slot} \in SUBSET made
    BY <2>1
  <2> QED
    BY <1>3, <2>1, <2>2, <2>3 DEF Summary
<1>4. ASSUME NEW c \in Calls, Admit(c) \/ Reject(c) PROVE Typed'
  BY <1>4 DEF Admit, Reject, window
<1>5. ASSUME NEW c \in Calls, NEW err \in Errors \cup {"nil", "EOF"},
             UnaryReturn(c, err) \/ StreamFail(c, err) \/ RecvError(c, err)
      PROVE  Typed'
  <2>1. CountsAsSuccess(err) \in BOOLEAN
    BY DEF CountsAsSuccess
  <2> QED
    BY <1>5, <2>1 DEF UnaryReturn, StreamFail, RecvError, BeginMark, window
<1>6. ASSUME NEW c \in Calls, StreamOpen(c) PROVE Typed'
  BY <1>6 DEF StreamOpen, window
<1>9. ASSUME NEW c \in Calls, Abandon(c) PROVE Typed'
  <2>1. unmarked' \in Nat /\ marked' \in [Calls -> BOOLEAN]
    BY <1>9 DEF Abandon
  <2>2. pc' \in [Calls -> PCs] /\ \A d \in Calls : pc'[d] = "storing" <=> mu = {d}
    BY <1>9 DEF Abandon, window
  <2> QED
    BY <1>9, <2>1, <2>2 DEF Abandon, window
<1>7. ASSUME NEW c \in Calls, AddRotate(c) PROVE Typed'
  <2>1. buckets' \in [Slot -> SUBSET made]
    BY <1>7, RotateKeepsType DEF AddRotate
  <2>2. lastUpdate' \in Nat /\ lastUpdate' <= clock
    BY <1>7, LastUpdateInPast DEF AddRotate
  <2> QED
    BY <1>7, <2>1, <2>2 DEF AddRotate
<1>8. ASSUME NEW c \in Calls, AddStore(c) PROVE Typed'
  <2>1. IndexAt(clock) \in Slot
    BY IndexInRing
  <2>2. buckets' \in [Slot -> SUBSET made']
    BY <1>8, <2>1 DEF AddStore, StoreMark
  <2>3. TypeOK'
    BY <1>8, <2>2, NewMarkIsNew DEF AddStore
  <2>4. MarksNumbered'
    <3>1. IsFiniteSet(made') /\ Cardinality(made') = Cardinality(made) + 1
      BY <1>8, NewMarkIsNew DEF AddStore
    <3>2. ASSUME NEW m \in made' PROVE m.id <= Cardinality(made')
      <4>1. Cardinality(made) \in Nat
        BY FS_CardinalityType DEF MarksNumbered
      <4>2. CASE m \in made
        BY <4>1, <4>2, <3>1 DEF MarksNumbered, Mark
      <4>3. CASE m = NewMark(c)
        <5>1. NewMark(c).id = Cardinality(made) + 1
          BY NewMarkIsNew
        <5> QED
          BY <4>3, <3>1, <5>1, <4>1
      <4> QED
        BY <1>8, <4>2, <4>3 DEF AddStore
    <3> QED
      BY <3>1, <3>2 DEF MarksNumbered
  <2> QED
    BY <2>3, <2>4
<1> QED
  BY <1>1, <1>2, <1>3, <1>4, <1>5, <1>6, <1>7, <1>8, <1>9 DEF Next

LEMMA TypedAlways == Spec => []Typed
  BY TypedInit, TypedStep, PTL DEF Spec

\* Every variable keeps its type, and the lock is held exactly by the goroutine
\* between the two halves of Add (rolling_counter.go:35-36).
THEOREM TypeCorrect == Spec => []TypeOK
<1>1. Typed => TypeOK
  BY DEF Typed
<1> QED
  BY <1>1, TypedAlways, PTL

-------------------------------------------------------------------------------
(* The decision of Allow.                                                  *)

\* With K >= 1, a window whose marks are all successes drops nothing
\* (sre_circuitbreaker.go:31-43).
LEMMA AllAcceptedPasses ==
  ASSUME NEW S, IsFiniteSet(S), \A m \in S : m.ok, KNum >= KDen
  PROVE  ~MayDrop(S)
<1>1. Accepts(S) = Requests(S)
  <2>1. {m \in S : m.ok} = S
    OBVIOUS
  <2> QED
    BY <2>1 DEF Accepts, Requests
<1>2. Requests(S) \in Nat
  BY FS_CardinalityType DEF Requests
<1>3. DropWeight(S) = (KDen - KNum) * Requests(S)
  BY <1>1, <1>2, BreakerAssumption DEF DropWeight
<1>4. DropWeight(S) <= 0
  BY <1>2, <1>3, BreakerAssumption
<1> QED
  BY <1>2, <1>3, <1>4, BreakerAssumption DEF MayDrop

\* Whatever a finite window holds, some draw lets the call through
\* (sre_circuitbreaker.go:34).
LEMMA FiniteWindowPasses ==
  ASSUME NEW S, IsFiniteSet(S)
  PROVE  MayPass(S)
<1>1. Requests(S) \in Nat
  BY FS_CardinalityType DEF Requests
<1>2. Accepts(S) \in Nat
  BY FS_Subset, FS_CardinalityType DEF Accepts
<1>3. KNum * Accepts(S) >= 0
  BY <1>2, BreakerAssumption
<1>4. KDen * (Requests(S) + 1) = KDen * Requests(S) + KDen
  BY <1>1, BreakerAssumption
<1>5. KDen * Requests(S) \in Int /\ KNum * Accepts(S) \in Int
  BY <1>1, <1>2, BreakerAssumption
<1> QED
  BY <1>3, <1>4, <1>5, BreakerAssumption DEF MayPass, DropWeight

LEMMA SeenIsFinite ==
  ASSUME Typed, NEW c \in Calls
  PROVE  IsFiniteSet(seen[c]) /\ seen[c] \subseteq made
BY FS_Subset DEF Typed, TypeOK, MarksNumbered

\* A silent window empties the ring (rolling_counter.go:60-82).
LEMMA SilenceEmpties ==
  ASSUME Typed, clock - lastUpdate >= Window
  PROVE  UNION {Rotate(buckets, lastUpdate, clock, {})[s] : s \in Slot} = {}
<1>1. RotationDue(lastUpdate, clock) /\ Cleared(lastUpdate, clock) = Slot
  BY SilenceClearsAll DEF Typed, TypeOK
<1>2. \A s \in Slot : Rotate(buckets, lastUpdate, clock, {})[s] = {}
  BY <1>1 DEF Rotate
<1> QED
  BY <1>2

\* An empty window drops nothing (sre_circuitbreaker.go:34-38).
LEMMA EmptyWindowPasses == ~MayDrop({})
<1>1. {m \in {} : m.ok} = {}
  OBVIOUS
<1>2. Requests({}) = 0 /\ Accepts({}) = 0
  BY <1>1, FS_EmptySet DEF Requests, Accepts
<1> QED
  BY <1>2, BreakerAssumption DEF MayDrop, DropWeight

\* A probe can always get through, whatever was marked, and after a silent
\* window nothing is dropped, for any K and any ring.
THEOREM RecoverCorrect == Spec => CanRecover
<1>1. Typed /\ Typed' => \A c \in Calls :
        Summary(c) =>
          /\ MayPass(seen'[c])
          /\ clock - lastUpdate >= Window => ~MayDrop(seen'[c])
  <2> SUFFICES ASSUME Typed, Typed', NEW c \in Calls, Summary(c)
               PROVE  /\ MayPass(seen'[c])
                      /\ clock - lastUpdate >= Window => ~MayDrop(seen'[c])
    OBVIOUS
  <2>1. IsFiniteSet(seen'[c])
    BY FS_Subset DEF Typed, TypeOK, MarksNumbered
  <2>2. MayPass(seen'[c])
    BY <2>1, FiniteWindowPasses
  <2>3. ASSUME clock - lastUpdate >= Window PROVE ~MayDrop(seen'[c])
    <3>1. seen'[c] = UNION {Rotate(buckets, lastUpdate, clock, {})[s] : s \in Slot}
      BY DEF Summary, Typed, TypeOK
    <3>2. seen'[c] = {}
      BY <2>3, <3>1, SilenceEmpties
    <3> QED
      BY <3>2, EmptyWindowPasses
  <2> QED
    BY <2>2, <2>3
<1> QED
  BY <1>1, TypedAlways, PTL DEF CanRecover

LEMMA DropStep ==
  Typed /\ DropNeedsFailure /\ [Next]_vars => DropNeedsFailure'
<1> SUFFICES ASSUME Typed, DropNeedsFailure, [Next]_vars,
                    KNum >= KDen, NEW d \in Calls, pc'[d] = "rejected"
             PROVE  \E m \in made' : ~m.ok
  BY DEF DropNeedsFailure
<1>0. made \subseteq made' /\ pc[d] = "rejected" => \E m \in made' : ~m.ok
  BY DEF DropNeedsFailure
<1> USE <1>0 DEF Typed, TypeOK
<1>1. CASE UNCHANGED vars \/ Rest \/ Tick
  BY <1>1 DEF vars, Rest, Tick
<1>2. ASSUME NEW c \in Calls, Summary(c) \/ Admit(c) \/ StreamOpen(c)
                              \/ Abandon(c) \/ AddRotate(c) \/ AddStore(c)
      PROVE  \E m \in made' : ~m.ok
  BY <1>2 DEF Summary, Admit, StreamOpen, Abandon, AddRotate, AddStore, window
<1>3. ASSUME NEW c \in Calls, NEW err,
             UnaryReturn(c, err) \/ StreamFail(c, err) \/ RecvError(c, err)
      PROVE  \E m \in made' : ~m.ok
  BY <1>3 DEF UnaryReturn, StreamFail, RecvError, BeginMark, window
<1>4. ASSUME NEW c \in Calls, Reject(c) PROVE \E m \in made' : ~m.ok
  <2>1. CASE d = c
    <3>1. MayDrop(seen[c])
      BY <1>4 DEF Reject
    <3>2. \E m \in seen[c] : ~m.ok
      BY <3>1, SeenIsFinite, AllAcceptedPasses
    <3> QED
      BY <1>4, <3>2, SeenIsFinite DEF Reject, window
  <2>2. CASE d # c
    BY <1>4, <2>2 DEF Reject, window
  <2> QED
    BY <2>1, <2>2
<1> QED
  BY <1>1, <1>2, <1>3, <1>4 DEF Next

\* With K >= 1 the breaker drops a call only once some call was marked as
\* failed (sre_circuitbreaker.go:31-43).
THEOREM DropCorrect == Spec => []DropNeedsFailure
<1>1. Init => DropNeedsFailure
  BY DEF Init, DropNeedsFailure
<1> QED
  BY <1>1, DropStep, TypedAlways, PTL DEF Spec

-------------------------------------------------------------------------------
(* Every admitted call is counted at most once.                            *)

PendingSet == {c \in Calls : Pending(c)}

\* markOnce has fired only for a stream that was opened.
MarkedIsOpen ==
  \A c \in Calls :
    pc[c] \in {"idle", "deciding", "rejected", "invoking"} => ~marked[c]

Balanced == MarkedIsOpen /\ CountedOnce

LEMMA PendingFinite ==
  IsFiniteSet(PendingSet) /\ Cardinality(PendingSet) \in Nat
<1>1. IsFiniteSet(PendingSet)
  BY BreakerAssumption, FS_Subset DEF PendingSet
<1> QED
  BY <1>1, FS_CardinalityType

\* A call that starts to be pending adds one to the pending calls, one that
\* stops takes one away.
LEMMA PendingGrows ==
  ASSUME NEW c \in Calls, ~Pending(c), PendingSet' = PendingSet \cup {c}
  PROVE  Cardinality(PendingSet') = Cardinality(PendingSet) + 1
<1>1. c \notin PendingSet
  BY DEF PendingSet
<1> QED
  BY <1>1, PendingFinite, FS_AddElement

LEMMA PendingShrinks ==
  ASSUME NEW c \in Calls, Pending(c), PendingSet' = PendingSet \ {c}
  PROVE  Cardinality(PendingSet') = Cardinality(PendingSet) - 1
<1>1. c \in PendingSet
  BY DEF PendingSet
<1> QED
  BY <1>1, PendingFinite, FS_RemoveElement

LEMMA BalancedStep == Typed /\ Balanced /\ [Next]_vars => Balanced'
<1> SUFFICES ASSUME Typed, Balanced, [Next]_vars PROVE Balanced'
  OBVIOUS
<1>m. Cardinality(made) \in Nat
  BY FS_CardinalityType DEF Typed, MarksNumbered
<1>e. /\ MarkedIsOpen' /\ PendingSet' = PendingSet
      /\ UNCHANGED <<admitted, made, unmarked>>
      => Balanced'
  BY DEF Balanced, CountedOnce, PendingSet
<1>c. CountedOnce <=> admitted = Cardinality(made) + unmarked + Cardinality(PendingSet)
  BY DEF CountedOnce, PendingSet
<1>d. CountedOnce' <=> admitted' = Cardinality(made') + unmarked' + Cardinality(PendingSet')
  BY DEF CountedOnce, PendingSet
<1> USE DEF Typed, TypeOK, Balanced, MarkedIsOpen
<1>1. CASE UNCHANGED vars \/ Rest \/ Tick
  BY <1>1, <1>e DEF vars, Rest, Tick, PendingSet, Pending
<1>2. ASSUME NEW c \in Calls, Summary(c) \/ Reject(c) PROVE Balanced'
  BY <1>2, <1>e DEF Summary, Reject, window, PendingSet, Pending
<1>3. ASSUME NEW c \in Calls, Admit(c) PROVE Balanced'
  <2>1. ~Pending(c)
    BY <1>3 DEF Admit, Pending
  <2>2. PendingSet' = PendingSet \cup {c}
    BY <1>3 DEF Admit, PendingSet, Pending
  <2>3. Cardinality(PendingSet') = Cardinality(PendingSet) + 1
    BY <2>1, <2>2, PendingGrows
  <2>4. MarkedIsOpen' /\ made' = made /\ admitted' = admitted + 1
        /\ unmarked' = unmarked
    BY <1>3 DEF Admit, window
  <2> QED
    BY <2>3, <2>4, <1>m, <1>c, <1>d, PendingFinite
<1>4. ASSUME NEW c \in Calls, NEW err,
             UnaryReturn(c, err) \/ StreamFail(c, err) \/ RecvError(c, err)
      PROVE  Balanced'
  BY <1>4, <1>e
     DEF UnaryReturn, StreamFail, RecvError, BeginMark, window, PendingSet, Pending
<1>5. ASSUME NEW c \in Calls, StreamOpen(c) \/ AddRotate(c) PROVE Balanced'
  BY <1>5, <1>e DEF StreamOpen, AddRotate, window, PendingSet, Pending
<1>6. ASSUME NEW c \in Calls, Abandon(c) PROVE Balanced'
  <2>1. MarkedIsOpen' /\ made' = made /\ admitted' = admitted
    BY <1>6 DEF Abandon, window
  <2>2. CASE marked[c]
    <3>1. PendingSet' = PendingSet /\ unmarked' = unmarked
      BY <1>6, <2>2 DEF Abandon, PendingSet, Pending
    <3> QED
      BY <2>1, <3>1, <1>e
  <2>3. CASE ~marked[c]
    <3>1. Pending(c) /\ unmarked' = unmarked + 1
      BY <1>6, <2>3 DEF Abandon, Pending
    <3>2. PendingSet' = PendingSet \ {c}
      BY <1>6 DEF Abandon, PendingSet, Pending
    <3>3. Cardinality(PendingSet') = Cardinality(PendingSet) - 1
      BY <3>1, <3>2, PendingShrinks
    <3> QED
      BY <2>1, <3>1, <3>3, <1>m, <1>c, <1>d, PendingFinite
  <2> QED
    BY <2>2, <2>3
<1>7. ASSUME NEW c \in Calls, AddStore(c) PROVE Balanced'
  <2>1. Pending(c)
    BY <1>7 DEF AddStore, Pending
  <2>2. PendingSet' = PendingSet \ {c}
    BY <1>7 DEF AddStore, PendingSet, Pending
  <2>3. Cardinality(PendingSet') = Cardinality(PendingSet) - 1
    BY <2>1, <2>2, PendingShrinks
  <2>4. Cardinality(made') = Cardinality(made) + 1
    BY <1>7, NewMarkIsNew DEF AddStore
  <2>5. MarkedIsOpen' /\ admitted' = admitted /\ unmarked' = unmarked
    BY <1>7 DEF AddStore
  <2> QED
    BY <2>3, <2>4, <2>5, <1>m, <1>c, <1>d, PendingFinite
<1> QED
  BY <1>1, <1>2, <1>3, <1>4, <1>5, <1>6, <1>7 DEF Next

\* Every admitted call is counted at most once, whichever way it ends
\* (interceptors.go).
THEOREM CountedCorrect == Spec => []CountedOnce
<1>1. Init => Balanced
  <2> SUFFICES ASSUME Init PROVE Balanced
    OBVIOUS
  <2>1. {c \in Calls : Pending(c)} = {}
    BY DEF Init, Pending
  <2> QED
    BY <2>1, FS_EmptySet DEF Init, Balanced, MarkedIsOpen, CountedOnce
<1>2. Balanced => CountedOnce
  BY DEF Balanced
<1> QED
  BY <1>1, <1>2, BalancedStep, TypedAlways, PTL DEF Spec

-------------------------------------------------------------------------------
(* What the ring keeps.                                                    *)

\* No mark was stored under a rotation later than the last one.
RotsPast == \A m \in made : m.rot <= lastUpdate

Retained == RotsPast /\ RotatedMarkRetained

\* A rotation keeps every mark that RotatedMarkRetained promises to keep.
LEMMA RotationRetains ==
  ASSUME Typed, Retained,
         buckets' = Rotate(buckets, lastUpdate, clock, {}),
         lastUpdate' = NewLastUpdate(lastUpdate, clock),
         made' = made
  PROVE  Retained'
<1>1. /\ lastUpdate \in Nat /\ clock \in Nat /\ lastUpdate <= clock
      /\ buckets \in [Slot -> SUBSET made]
  BY DEF Typed, TypeOK
<1>2. lastUpdate <= lastUpdate' /\ lastUpdate' \in Nat
  BY <1>1 DEF NewLastUpdate
<1>3. RotsPast'
  BY <1>1, <1>2 DEF Retained, RotsPast, Typed, TypeOK, Mark
<1>4. ASSUME NEW m \in made, Epoch(m.at) <= Epoch(m.rot),
             lastUpdate' < (Epoch(m.at) + NumBuckets) * BucketDur
      PROVE  m \in buckets'[IndexAt(m.at)]
  <2>1. m.at \in Nat /\ m.rot \in Nat /\ m.rot <= lastUpdate
    BY DEF Typed, TypeOK, Mark, Retained, RotsPast
  <2>2. Epoch(m.at) \in Nat /\ Epoch(m.rot) \in Nat /\ Epoch(lastUpdate) \in Nat
    BY <1>1, <2>1, RingAssumption, DivFacts DEF Epoch
  <2>3. Epoch(m.at) <= Epoch(lastUpdate)
    <3>1. Epoch(m.rot) <= Epoch(lastUpdate)
      BY <1>1, <2>1, RingAssumption, DivMonotone DEF Epoch
    <3> QED
      BY <1>4, <2>2, <3>1
  <2>4. lastUpdate < (Epoch(m.at) + NumBuckets) * BucketDur
    <3>1. (Epoch(m.at) + NumBuckets) * BucketDur \in Int
      BY <2>2, RingAssumption
    <3> QED
      BY <1>1, <1>2, <1>4, <3>1
  <2>5. m \in buckets[IndexAt(m.at)]
    BY <1>4, <2>4 DEF Retained, RotatedMarkRetained
  <2>6. IndexAt(m.at) \in Slot
    BY <2>1, IndexInRing
  <2>7. CASE RotationDue(lastUpdate, clock)
    <3>1. lastUpdate' = clock
      BY <2>7 DEF NewLastUpdate
    <3>2. IndexAt(m.at) \notin Cleared(lastUpdate, clock)
      BY <1>1, <1>4, <2>2, <2>3, <3>1, YoungSlotKept DEF IndexAt
    <3> QED
      BY <2>5, <2>6, <2>7, <3>2 DEF Rotate
  <2>8. CASE ~RotationDue(lastUpdate, clock)
    BY <2>5, <2>8 DEF Rotate
  <2> QED
    BY <2>7, <2>8
<1> QED
  BY <1>3, <1>4 DEF Retained, RotatedMarkRetained

LEMMA RetainedStep == Typed /\ Retained /\ [Next]_vars => Retained'
<1> SUFFICES ASSUME Typed, Retained, [Next]_vars PROVE Retained'
  OBVIOUS
<1>1. ASSUME UNCHANGED <<buckets, lastUpdate, made>> PROVE Retained'
  BY <1>1 DEF Retained, RotsPast, RotatedMarkRetained
<1>2. CASE UNCHANGED vars \/ Rest \/ Tick
  BY <1>1, <1>2 DEF vars, Rest, Tick
<1>3. ASSUME NEW c \in Calls, Summary(c) \/ AddRotate(c) PROVE Retained'
  BY <1>3, RotationRetains DEF Summary, AddRotate
<1>4. ASSUME NEW c \in Calls,
             Admit(c) \/ Reject(c) \/ StreamOpen(c) \/ Abandon(c)
      PROVE  Retained'
  BY <1>1, <1>4 DEF Admit, Reject, StreamOpen, Abandon, window
<1>5. ASSUME NEW c \in Calls, NEW err,
             UnaryReturn(c, err) \/ StreamFail(c, err) \/ RecvError(c, err)
      PROVE  Retained'
  BY <1>1, <1>5 DEF UnaryReturn, StreamFail, RecvError, BeginMark, window
<1>6. ASSUME NEW c \in Calls, AddStore(c) PROVE Retained'
  <2>1. /\ lastUpdate' = lastUpdate /\ made' = made \cup {NewMark(c)}
        /\ buckets' = [buckets EXCEPT ![IndexAt(clock)] = @ \cup {NewMark(c)}]
        /\ clock \in Nat /\ lastUpdate \in Nat
        /\ buckets \in [Slot -> SUBSET made]
    BY <1>6 DEF AddStore, StoreMark, Typed, TypeOK
  <2>2. NewMark(c).at = clock /\ NewMark(c).rot = lastUpdate
    BY DEF NewMark
  <2>3. IndexAt(clock) \in Slot
    BY <2>1, IndexInRing
  <2>4. RotsPast'
    BY <2>1, <2>2 DEF Retained, RotsPast
  <2>5. NewMark(c) \in buckets'[IndexAt(NewMark(c).at)]
    BY <2>1, <2>2, <2>3
  <2>6. \A s \in Slot : buckets[s] \subseteq buckets'[s]
    BY <2>1
  <2>7. ASSUME NEW m \in made, Epoch(m.at) <= Epoch(m.rot),
               lastUpdate < (Epoch(m.at) + NumBuckets) * BucketDur
        PROVE  m \in buckets'[IndexAt(m.at)]
    <3>1. m \in buckets[IndexAt(m.at)]
      BY <2>7 DEF Retained, RotatedMarkRetained
    <3>2. IndexAt(m.at) \in Slot
      BY IndexInRing DEF Typed, TypeOK, Mark
    <3> QED
      BY <2>6, <3>1, <3>2
  <2> QED
    BY <2>1, <2>4, <2>5, <2>7 DEF Retained, RotatedMarkRetained
<1> QED
  BY <1>2, <1>3, <1>4, <1>5, <1>6 DEF Next

\* A mark stored in a slot the ring had already rotated into is counted until
\* the ring comes round to that slot again, for any window and any number of
\* buckets (rolling_counter.go:34-43 and 60-82).
THEOREM RetainedCorrect == Spec => []RotatedMarkRetained
<1>1. Init => Retained
  BY DEF Init, Retained, RotsPast, RotatedMarkRetained
<1>2. Retained => RotatedMarkRetained
  BY DEF Retained
<1> QED
  BY <1>1, <1>2, RetainedStep, TypedAlways, PTL DEF Spec
===============================================================================
