------------------------------- MODULE BBRStats -------------------------------
(***************************************************************************)
(* The statistics of the server-side limiter: requests that finish add to  *)
(* passStat and then to rtStat, and maxInflight reads both.  Each of these *)
(* calls locks one counter, so they interleave; the `now` they rotate and  *)
(* index with was read before the lock was taken.                          *)
(*                                                                         *)
(* A bucket is the set of samples recorded in it: passStat counts them,    *)
(* rtStat keeps the least of their response times.  A clock tick is one    *)
(* millisecond, the unit of a response time.                               *)
(***************************************************************************)
EXTENDS BucketRing, FiniteSetsExt

CONSTANTS
  Workers,     \* goroutines that finish requests and ask for maxInflight
  RTs,         \* response times in milliseconds, rounded down; 0 is possible
  MaxTime,     \* bound: the clock stops there
  MaxFinishes  \* bound: requests that finish

ASSUME StatsAssumption ==
  /\ IsFiniteSet(Workers)
  /\ RTs \subseteq Nat
  /\ MaxTime \in Nat /\ MaxFinishes \in Nat

VARIABLES
  clock,       \* time.Now()
  passStat,    \* the counter of successes
  rtStat,      \* the counter of least response times
  pc,          \* where each goroutine is
  work,        \* the sample it is recording; at is the `now` it has read
  maxPass,     \* what passStat.Max returned to it
  limit,       \* the last answer of maxInflight, rounded down
  finished,    \* history: requests that finished without an error
  overlap      \* history: two goroutines were in the counters' calls at once

vars == <<clock, passStat, rtStat, pc, work, maxPass, limit, finished, overlap>>

NoWork == [id |-> 0, at |-> 0, rt |-> 0]

Fallback == NumBuckets    \* conf.Buckets, the answer without data

\* A counter: its buckets, its lastUpdate and, as history, all it was given.
Counter(last) ==
  [buckets |-> [s \in Slot |-> {}], lastUpdate |-> last, made |-> {}]

Init ==
  /\ clock \in 0 .. BucketDur - 1
  /\ passStat = Counter(clock)
  /\ rtStat = Counter(clock)
  /\ pc = [w \in Workers |-> "idle"]
  /\ work = [w \in Workers |-> NoWork]
  /\ maxPass = [w \in Workers |-> 0]
  /\ limit = [w \in Workers |-> Fallback]
  /\ finished = 0
  /\ overlap = FALSE

-------------------------------------------------------------------------------
(* The counter.                                                            *)

RotateAt(c, t) ==
  [c EXCEPT !.buckets = Rotate(@, c.lastUpdate, t, {}),
            !.lastUpdate = NewLastUpdate(@, t)]

Recorded(m, c) == [id |-> m.id, at |-> m.at, rt |-> m.rt, rot |-> c.lastUpdate]

Record(c, slot, m) ==
  [c EXCEPT !.buckets[slot] = @ \cup {Recorded(m, c)},
            !.made = @ \cup {Recorded(m, c)}]

\* Mutant: the slot of the last rotation, not of the sample's instant.
AddAtLast(c, m) ==
  LET d == RotateAt(c, m.at) IN Record(d, IndexAt(d.lastUpdate), m)

Add(c, m) == Record(RotateAt(c, m.at), IndexAt(m.at), m)

Max_(c) == Max({Cardinality(c.buckets[s]) : s \in Slot})

\* What the occupied buckets of a minimum counter hold.
Minima(c) == {Min({m.rt : m \in b}) : b \in {c.buckets[s] : s \in Slot} \ {{}}}

\* Min passes over the buckets that hold 0, and returns 0 if none is left.
Min_(c) == LET ms == Minima(c) \ {0} IN IF ms = {} THEN 0 ELSE Min(ms)

MaxInflight(pass, minRT) ==
  IF pass = 0 \/ minRT = 0 THEN Fallback ELSE (pass * minRT) \div BucketDur

-------------------------------------------------------------------------------
Tick ==
  /\ clock < MaxTime
  /\ clock' = clock + 1
  /\ UNCHANGED <<passStat, rtStat, pc, work, maxPass, limit, finished, overlap>>

Begin(w, m, l) ==
  /\ pc[w] = "idle"
  /\ pc' = [pc EXCEPT ![w] = l]
  /\ work' = [work EXCEPT ![w] = m]
  /\ overlap' = (overlap \/ \E v \in Workers : pc[v] # "idle")
  /\ UNCHANGED <<clock, passStat, rtStat, maxPass, limit>>

\* done without an error reads the clock once for both counters.
Finish(w, v) ==
  /\ finished < MaxFinishes
  /\ finished' = finished + 1
  /\ Begin(w, [id |-> finished + 1, at |-> clock, rt |-> v], "passAdd")

PassAdd(w) ==
  /\ pc[w] = "passAdd"
  /\ passStat' = Add(passStat, work[w])
  /\ pc' = [pc EXCEPT ![w] = "rtAdd"]
  /\ UNCHANGED <<clock, rtStat, work, maxPass, limit, finished, overlap>>

\* Mutant: rtStat takes a later reading of the clock than passStat.
RtAddReadsClock(w) ==
  /\ pc[w] = "rtAdd"
  /\ rtStat' = Add(rtStat, [work[w] EXCEPT !.at = clock])
  /\ pc' = [pc EXCEPT ![w] = "idle"]
  /\ work' = [work EXCEPT ![w] = NoWork]
  /\ UNCHANGED <<clock, passStat, maxPass, limit, finished, overlap>>

RtAdd(w) ==
  /\ pc[w] = "rtAdd"
  /\ rtStat' = Add(rtStat, work[w])
  /\ pc' = [pc EXCEPT ![w] = "idle"]
  /\ work' = [work EXCEPT ![w] = NoWork]
  /\ UNCHANGED <<clock, passStat, maxPass, limit, finished, overlap>>

\* maxInflight reads the clock once for both counters.
Ask(w) ==
  /\ Begin(w, [NoWork EXCEPT !.at = clock], "readMax")
  /\ UNCHANGED finished

ReadMax(w) ==
  /\ pc[w] = "readMax"
  /\ passStat' = RotateAt(passStat, work[w].at)
  /\ maxPass' = [maxPass EXCEPT ![w] = Max_(passStat')]
  /\ pc' = [pc EXCEPT ![w] = "readMin"]
  /\ UNCHANGED <<clock, rtStat, work, limit, finished, overlap>>

ReadMin(w) ==
  /\ pc[w] = "readMin"
  /\ rtStat' = RotateAt(rtStat, work[w].at)
  /\ limit' = [limit EXCEPT ![w] = MaxInflight(maxPass[w], Min_(rtStat'))]
  /\ maxPass' = [maxPass EXCEPT ![w] = 0]
  /\ work' = [work EXCEPT ![w] = NoWork]
  /\ pc' = [pc EXCEPT ![w] = "idle"]
  /\ UNCHANGED <<clock, passStat, finished, overlap>>

Next ==
  \/ Tick
  \/ \E w \in Workers :
       \/ \E v \in RTs : Finish(w, v)
       \/ PassAdd(w)
       \/ RtAdd(w)
       \/ Ask(w)
       \/ ReadMax(w)
       \/ ReadMin(w)

Spec == Init /\ [][Next]_vars

-------------------------------------------------------------------------------
Sample == [id : Nat, at : Nat, rt : Nat, rot : Nat]

CounterOK(c) ==
  /\ c \in [buckets : [Slot -> SUBSET Sample], lastUpdate : 0 .. clock,
            made : SUBSET Sample]
  /\ \A s \in Slot : c.buckets[s] \subseteq c.made

\* Every variable has its type, and no counter was updated in the future.
TypeOK ==
  /\ clock \in Nat
  /\ CounterOK(passStat) /\ CounterOK(rtStat)
  /\ pc \in [Workers -> {"idle", "passAdd", "rtAdd", "readMax", "readMin"}]
  /\ work \in [Workers -> [id : Nat, at : 0 .. clock, rt : Nat]]
  /\ maxPass \in [Workers -> Nat]
  /\ limit \in [Workers -> Nat]
  /\ finished \in Nat
  /\ overlap \in BOOLEAN

\* A sample whose slot the ring had reached stays in it until the ring comes
\* round to that slot, though `now` may lag behind lastUpdate by the time the
\* lock is held (rolling_counter.go:38-53 and 98-121).
RetainedIn(c) ==
  \A m \in c.made :
    /\ Epoch(m.at) <= Epoch(m.rot)
    /\ c.lastUpdate < (Epoch(m.at) + NumBuckets) * BucketDur
    => m \in c.buckets[IndexAt(m.at)]

SamplesRetained == RetainedIn(passStat) /\ RetainedIn(rtStat)

\* Calls that do not overlap leave the same samples in both counters, so the
\* busiest bucket and the least response time speak of the same requests:
\* both get the one `now` of done (bbr_ratelimiter.go:49-51).
SerialAgreement ==
  ~overlap /\ (\A w \in Workers : pc[w] = "idle") =>
    /\ passStat.buckets = rtStat.buckets
    /\ passStat.lastUpdate = rtStat.lastUpdate

\* After a silent window nothing of the past is left: the first read finds no
\* pass and no response time, and answers the fallback
\* (rolling_counter.go:104-108).
SilenceForgets ==
  [][\A w \in Workers :
       /\ ReadMax(w) /\ work[w].at - passStat.lastUpdate >= Window
          => maxPass'[w] = 0
       /\ ReadMin(w) /\ work[w].at - rtStat.lastUpdate >= Window
          => limit'[w] = Fallback]_vars

\* Claim of bbr_ratelimiter.go:110 ("the fallback when there is no data"): with
\* a pass counted and a response time recorded the fallback is not taken.
FallbackOnlyWithoutData ==
  [][\A w \in Workers :
       ReadMin(w) /\ maxPass[w] > 0 /\ Minima(rtStat') # {}
       => Min_(rtStat') > 0]_vars
===============================================================================
