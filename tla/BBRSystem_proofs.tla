--------------------------- MODULE BBRSystem_proofs ---------------------------
(***************************************************************************)
(* Proofs about BBRSystem: the whole limiter keeps what is proved of its   *)
(* components, and keeps them in step, for any number of requests and any  *)
(* ring of buckets.                                                        *)
(***************************************************************************)
EXTENDS BBRSystem, FiniteSetTheorems, TLAPS

\* BBRStats with its theorems, instantiated as in BBRSystem.
Proved == INSTANCE BBRStats_proofs WITH Workers <- Requests, RTs <- 0 .. MaxTime,
                                        pc <- call, overlap <- statOverlap

\* BBRLimiter with its theorems.
Counted == INSTANCE BBRLimiter_proofs WITH Limits <- Answers

-------------------------------------------------------------------------------
(* The two instances of BBRStats are the same.                             *)

LEMMA SameRotateAt == \A c, t : Stats!RotateAt(c, t) = Proved!RotateAt(c, t)
BY DEF Stats!RotateAt, Stats!Rotate, Stats!NewLastUpdate, Stats!RotationDue,
       Stats!Cleared, Stats!NumToClear, Stats!IndexAt, Stats!Epoch, Stats!Slot,
       Proved!RotateAt, Proved!Rotate, Proved!NewLastUpdate, Proved!RotationDue,
       Proved!Cleared, Proved!NumToClear, Proved!IndexAt, Proved!Epoch, Proved!Slot

LEMMA SameAdd == \A c, m : Stats!Add(c, m) = Proved!Add(c, m)
BY SameRotateAt
   DEF Stats!Add, Stats!Record, Stats!Recorded, Stats!IndexAt, Stats!Epoch,
       Proved!Add, Proved!Record, Proved!Recorded, Proved!IndexAt, Proved!Epoch

LEMMA SameLargest == \A S : Stats!Max(S) = Proved!Max(S)
BY DEF Stats!Max, Proved!Max

LEMMA SameCardinality == \A S : Stats!Cardinality(S) = Proved!Cardinality(S)
BY DEF Stats!Cardinality, Proved!Cardinality

LEMMA SameMax == \A c : Stats!Max_(c) = Proved!Max_(c)
BY SameLargest, SameCardinality DEF Stats!Max_, Stats!Slot, Proved!Max_, Proved!Slot

LEMMA SameLeast == \A S : Stats!Min(S) = Proved!Min(S)
BY DEF Stats!Min, Proved!Min

LEMMA SameMinima == \A c : Stats!Minima(c) = Proved!Minima(c)
<1> SUFFICES ASSUME NEW c PROVE Stats!Minima(c) = Proved!Minima(c)
  OBVIOUS
<1>1. \A b : Stats!Min({m.rt : m \in b}) = Proved!Min({m.rt : m \in b})
  BY SameLeast
<1> QED
  BY <1>1 DEF Stats!Minima, Proved!Minima, Stats!Slot, Proved!Slot

LEMMA SameMin == \A c : Stats!Min_(c) = Proved!Min_(c)
BY SameLeast, SameMinima DEF Stats!Min_, Proved!Min_

LEMMA SameLimit == \A p, m : Stats!MaxInflight(p, m) = Proved!MaxInflight(p, m)
BY DEF Stats!MaxInflight, Stats!Fallback, Proved!MaxInflight, Proved!Fallback

-------------------------------------------------------------------------------
(* Every step is a step of each component, or leaves it alone.             *)

\* A request cannot have started in the future.
Started ==
  /\ clock \in 0 .. MaxTime
  /\ start \in [Requests -> 0 .. clock]

LEMMA StartedInit == Init => Started
BY SystemAssumption DEF Init, Started, Limiter!Init

LEMMA StartedStep == Started /\ [Next]_vars => Started'
<1> SUFFICES ASSUME Started, [Next]_vars PROVE Started'
  OBVIOUS
<1> USE SystemAssumption DEF Started
<1>1. CASE UNCHANGED vars
  BY <1>1 DEF vars
<1>2. CASE Tick
  BY <1>2 DEF Tick, Stats!Tick
<1>3. CASE Sample
  BY <1>3 DEF Sample, Limiter!Sample
<1>4. ASSUME NEW r \in Requests, Check(r) PROVE Started'
  BY <1>4 DEF Check, Limiter!ReadCPU, Limiter!LoadDrop, Limiter!ClearDrop,
              Limiter!StillCooling, Limiter!LoadInflight, Limiter!StoreDrop,
              Limiter!env
<1>5. ASSUME NEW r \in Requests, Ask(r) PROVE Started'
  BY <1>5 DEF Ask, Stats!Ask, Stats!Begin
<1>6. ASSUME NEW r \in Requests,
             ReadMax(r) \/ ReadMin(r) \/ PassAdd(r) \/ RtAdd(r)
      PROVE  Started'
  BY <1>6 DEF ReadMax, ReadMin, PassAdd, RtAdd, StatsOnly, Stats!ReadMax,
              Stats!ReadMin, Stats!PassAdd, Stats!RtAdd
<1>7. ASSUME NEW r \in Requests, Compare(r) \/ Release(r) PROVE Started'
  BY <1>7 DEF Compare, Release, Limiter!Within, Limiter!Beyond, Limiter!Release,
              Limiter!env
<1>8. ASSUME NEW r \in Requests, Enter(r) PROVE Started'
  BY <1>8 DEF Enter, Limiter!Enter, Limiter!env
<1>9. ASSUME NEW r \in Requests, NEW o \in Limiter!Outcomes, HandlerEnds(r, o)
      PROVE  Started'
  BY <1>9 DEF HandlerEnds, Limiter!HandlerEnds, Limiter!env
<1> QED
    BY <1>1, <1>2, <1>3, <1>4, <1>5, <1>6, <1>7, <1>8, <1>9 DEF Next, Decide,
     Finish

LEMMA StatsStep == Started /\ [Next]_vars => [Proved!Next]_Proved!vars
<1> SUFFICES ASSUME Started, [Next]_vars PROVE [Proved!Next]_Proved!vars
  OBVIOUS
<1>1. UNCHANGED <<clock, statsVars>> => [Proved!Next]_Proved!vars
  BY DEF statsVars, Proved!vars
<1>2. CASE UNCHANGED vars
  BY <1>1, <1>2 DEF vars
<1>3. CASE Tick
  BY <1>3 DEF Tick, Stats!Tick, Proved!Next, Proved!Tick
<1>4. CASE Sample
  BY <1>1, <1>4 DEF Sample, Limiter!Sample, LimiterOnly
<1>5. ASSUME NEW r \in Requests, Check(r) PROVE [Proved!Next]_Proved!vars
  BY <1>1, <1>5
     DEF Check, LimiterOnly, Limiter!ReadCPU, Limiter!LoadDrop, Limiter!ClearDrop,
         Limiter!StillCooling, Limiter!LoadInflight, Limiter!StoreDrop, Limiter!env
<1>6. ASSUME NEW r \in Requests, Ask(r) PROVE [Proved!Next]_Proved!vars
  <2>1. Proved!Ask(r)
    BY <1>6 DEF Ask, Stats!Ask, Stats!Begin, Stats!NoWork,
                Proved!Ask, Proved!Begin, Proved!NoWork
  <2> QED
    BY <2>1 DEF Proved!Next
<1>7. ASSUME NEW r \in Requests, ReadMax(r) PROVE [Proved!Next]_Proved!vars
  <2>1. Proved!ReadMax(r)
    BY <1>7, SameRotateAt, SameMax DEF ReadMax, Stats!ReadMax, Proved!ReadMax
  <2> QED
    BY <2>1 DEF Proved!Next
<1>8. ASSUME NEW r \in Requests, ReadMin(r) PROVE [Proved!Next]_Proved!vars
  <2>1. Proved!ReadMin(r)
    BY <1>8, SameRotateAt, SameMin, SameLimit
       DEF ReadMin, Stats!ReadMin, Proved!ReadMin, Stats!NoWork, Proved!NoWork
  <2> QED
    BY <2>1 DEF Proved!Next
<1>9. ASSUME NEW r \in Requests, PassAdd(r) PROVE [Proved!Next]_Proved!vars
  <2>1. Proved!PassAdd(r)
    BY <1>9, SameAdd DEF PassAdd, Stats!PassAdd, Proved!PassAdd
  <2> QED
    BY <2>1 DEF Proved!Next
<1>10. ASSUME NEW r \in Requests, RtAdd(r) PROVE [Proved!Next]_Proved!vars
  <2>1. Proved!RtAdd(r)
    BY <1>10, SameAdd
       DEF RtAdd, Stats!RtAdd, Proved!RtAdd, Stats!NoWork, Proved!NoWork
  <2> QED
    BY <2>1 DEF Proved!Next
<1>11. ASSUME NEW r \in Requests, Compare(r) \/ Release(r)
       PROVE  [Proved!Next]_Proved!vars
    BY <1>1, <1>11 DEF Compare, Release, LimiterOnly, Limiter!Within,
     Limiter!Beyond,
                     Limiter!Release, Limiter!env
<1>12. ASSUME NEW r \in Requests, Enter(r) PROVE [Proved!Next]_Proved!vars
  BY <1>1, <1>12 DEF Enter, LimiterOnly, Limiter!Enter, Limiter!env
<1>13. ASSUME NEW r \in Requests, NEW o \in Limiter!Outcomes, HandlerEnds(r, o)
       PROVE  [Proved!Next]_Proved!vars
  <2>1. CASE o # "ok"
        BY <1>1, <1>13, <2>1 DEF HandlerEnds, LimiterOnly, Limiter!HandlerEnds,
       Limiter!env
  <2>2. CASE o = "ok"
    <3>1. Stats!Finish(r, clock - start[r])
      BY <1>13, <2>2 DEF HandlerEnds
    <3>2. clock - start[r] \in 0 .. MaxTime
      BY SystemAssumption DEF Started
    <3>3. Proved!Finish(r, clock - start[r])
      BY <3>1 DEF Stats!Finish, Stats!Begin, Proved!Finish, Proved!Begin
    <3> QED
      BY <3>2, <3>3 DEF Proved!Next
  <2> QED
    BY <2>1, <2>2
<1> QED
  BY <1>2, <1>3, <1>4, <1>5, <1>6, <1>7, <1>8, <1>9, <1>10, <1>11, <1>12, <1>13
     DEF Next, Decide, Finish

LEMMA StatsInit == Init => Proved!Init
BY DEF Init, Stats!Init, Stats!Counter, Stats!Slot, Stats!NoWork, Stats!Fallback,
       Proved!Init, Proved!Counter, Proved!Slot, Proved!NoWork, Proved!Fallback

\* The counters of the whole limiter go through the steps of BBRStats only: the
\* response times it is given are differences of two readings of the clock
\* (bbr_ratelimiter.go:38-52).
LEMMA StatsImplemented == Spec => Proved!Spec
BY StartedInit, StartedStep, StatsInit, StatsStep, PTL DEF Spec, Proved!Spec

LEMMA StatsAssumed == Proved!RingAssumption /\ Proved!StatsAssumption
BY RingAssumption, SystemAssumption
   DEF Proved!RingAssumption, Proved!StatsAssumption, Proved!IsFiniteSet, IsFiniteSet

LEMMA StatsTyped == Spec => []Proved!TypeOK
<1>1. Proved!Spec => []Proved!TypeOK
  BY StatsAssumed, Proved!TypeCorrect, PTL
<1> QED
  BY <1>1, StatsImplemented, PTL

\* What is proved of the counters holds of the whole limiter, where the samples
\* come from admitted requests and the reads from requests that decide: samples
\* stay while they are due, the counters agree when calls do not overlap, and a
\* silent window is forgotten (bbr_ratelimiter.go:40-53, 100-117).
THEOREM CountersKeepPromises ==
  Spec => /\ []Stats!SamplesRetained
          /\ []Stats!SerialAgreement
          /\ Stats!SilenceForgets
<1>1. Proved!SamplesRetained => Stats!SamplesRetained
  BY DEF Proved!SamplesRetained, Proved!RetainedIn, Proved!Epoch, Proved!IndexAt,
         Stats!SamplesRetained, Stats!RetainedIn, Stats!Epoch, Stats!IndexAt
<1>2. Proved!SerialAgreement => Stats!SerialAgreement
  BY DEF Proved!SerialAgreement, Stats!SerialAgreement
<1>3. Proved!Spec =>
        []Proved!SamplesRetained /\ []Proved!SerialAgreement /\ Proved!SilenceForgets
  BY StatsAssumed, Proved!RetainedCorrect, Proved!SerialCorrect,
     Proved!SilenceCorrect, PTL
<1> DEFINE PA == \A w \in Requests :
                   /\ Proved!ReadMax(w) /\ work[w].at - passStat.lastUpdate >= Proved!Window
                      => maxPass'[w] = 0
                   /\ Proved!ReadMin(w) /\ work[w].at - rtStat.lastUpdate >= Proved!Window
                      => limit'[w] = Proved!Fallback
           SA == \A w \in Requests :
                   /\ Stats!ReadMax(w) /\ work[w].at - passStat.lastUpdate >= Stats!Window
                      => maxPass'[w] = 0
                   /\ Stats!ReadMin(w) /\ work[w].at - rtStat.lastUpdate >= Stats!Window
                      => limit'[w] = Stats!Fallback
<1>4. [PA]_Proved!vars => [SA]_Stats!vars
  <2> SUFFICES ASSUME [PA]_Proved!vars PROVE [SA]_Stats!vars
    OBVIOUS
  <2>1. CASE UNCHANGED Proved!vars
    BY <2>1 DEF Proved!vars, Stats!vars
  <2>2. CASE PA
    <3>1. \A w : Stats!ReadMax(w) => Proved!ReadMax(w)
      BY SameRotateAt, SameMax DEF Stats!ReadMax, Proved!ReadMax
    <3>2. \A w : Stats!ReadMin(w) => Proved!ReadMin(w)
      BY SameRotateAt, SameMin, SameLimit
         DEF Stats!ReadMin, Proved!ReadMin, Stats!NoWork, Proved!NoWork
    <3>3. Stats!Window = Proved!Window /\ Stats!Fallback = Proved!Fallback
      BY DEF Stats!Window, Proved!Window, Stats!Fallback, Proved!Fallback
    <3> QED
      BY <2>2, <3>1, <3>2, <3>3
  <2> QED
    BY <2>1, <2>2
<1>5. [][PA]_Proved!vars => [][SA]_Stats!vars
  BY <1>4, PTL
<1>6. (Proved!SilenceForgets <=> [][PA]_Proved!vars)
      /\ (Stats!SilenceForgets <=> [][SA]_Stats!vars)
  BY DEF Proved!SilenceForgets, Stats!SilenceForgets
<1> HIDE DEF PA, SA
<1> QED
  BY <1>1, <1>2, <1>3, <1>5, <1>6, StatsImplemented, PTL

-------------------------------------------------------------------------------
(* The limiter's part.                                                     *)

LEMMA LimiterStep == Answers = Nat /\ Proved!TypeOK /\ [Next]_vars => [Limiter!Next]_Limiter!vars
<1> SUFFICES ASSUME Answers = Nat, Proved!TypeOK, [Next]_vars PROVE [Limiter!Next]_Limiter!vars
  OBVIOUS
<1>1. UNCHANGED <<clock, limiterVars>> => [Limiter!Next]_Limiter!vars
  BY DEF limiterVars, Limiter!vars, Limiter!env, Limiter!regs, Limiter!races
<1>2. CASE UNCHANGED vars
  BY <1>1, <1>2 DEF vars
<1>3. CASE Tick \/ Sample
  BY <1>3 DEF Tick, Sample, Limiter!Next
<1>4. ASSUME NEW r \in Requests, Check(r) PROVE Limiter!Next
  BY <1>4 DEF Check, Limiter!Next, Limiter!Decide
<1>5. ASSUME NEW r \in Requests, Enter(r) PROVE Limiter!Next
  BY <1>5 DEF Enter, Limiter!Next, Limiter!Decide
<1>6. ASSUME NEW r \in Requests,
             Ask(r) \/ ReadMax(r) \/ ReadMin(r) \/ PassAdd(r) \/ RtAdd(r)
      PROVE  [Limiter!Next]_Limiter!vars
  BY <1>1, <1>6 DEF Ask, ReadMax, ReadMin, PassAdd, RtAdd, StatsOnly, Stats!Ask,
                    Stats!Begin, Stats!ReadMax, Stats!ReadMin, Stats!PassAdd,
                    Stats!RtAdd
<1>7. ASSUME NEW r \in Requests, Compare(r) PROVE Limiter!Next
  <2>1. limit[r] \in Answers
    BY <1>7 DEF Proved!TypeOK
  <2> QED
    BY <1>7, <2>1 DEF Compare, Limiter!Next, Limiter!Decide
<1>8. ASSUME NEW r \in Requests, Finish(r) PROVE [Limiter!Next]_Limiter!vars
  BY <1>6, <1>8 DEF Finish, HandlerEnds, Release, Limiter!Next, Limiter!Finish
<1> QED
  BY <1>2, <1>3, <1>4, <1>5, <1>6, <1>7, <1>8 DEF Next, Decide

LEMMA SameLimiter == [Limiter!Next]_Limiter!vars => [Counted!Next]_Counted!vars
BY DEF Limiter!Tick, Counted!Tick, Limiter!Sample, Counted!Sample,
       Limiter!ReadCPU, Counted!ReadCPU, Limiter!Decide, Counted!Decide,
       Limiter!LoadDrop, Counted!LoadDrop, Limiter!ClearDrop,
       Counted!ClearDrop, Limiter!StillCooling, Counted!StillCooling,
       Limiter!LoadInflight, Counted!LoadInflight, Limiter!Within,
       Counted!Within, Limiter!Beyond, Counted!Beyond,
       Limiter!StoreDrop, Counted!StoreDrop, Limiter!Enter,
       Counted!Enter, Limiter!Finish, Counted!Finish,
       Limiter!HandlerEnds, Counted!HandlerEnds, Limiter!Release,
       Counted!Release, Limiter!Goto, Counted!Goto, Limiter!Deciding,
       Counted!Deciding, Limiter!Outcomes, Counted!Outcomes,
       Limiter!None, Counted!None, Limiter!env, Counted!env,
       Limiter!regs, Counted!regs, Limiter!races, Counted!races,
       Limiter!Others, Counted!Others, Limiter!vars, Counted!vars,
       Limiter!Next, Counted!Next

LEMMA SameLimiterInit == Limiter!Init => Counted!Init
BY DEF Limiter!Init, Counted!Init, Limiter!None, Counted!None

\* The requests of the whole limiter go through the steps of BBRLimiter, if all
\* that is said of the answers of maxInflight is that they are natural numbers
\* (bbr_ratelimiter.go:30-98).
LEMMA LimiterImplemented ==
  ASSUME Answers = Nat
  PROVE  Spec => Counted!Spec
<1>1. Init => Counted!Init
  BY SameLimiterInit DEF Init
<1>2. Proved!TypeOK /\ [Next]_vars => [Counted!Next]_Counted!vars
  BY LimiterStep, SameLimiter
<1> QED
  BY <1>1, <1>2, StatsTyped, PTL DEF Spec, Counted!Spec

LEMMA LimiterAssumed == Counted!LimiterAssumption
BY SystemAssumption
   DEF Counted!LimiterAssumption, Counted!IsFiniteSet, IsFiniteSet

LEMMA LimiterCounted ==
  ASSUME Answers = Nat
  PROVE  Spec => [](Counted!TypeOK /\ Counted!InflightExact)
<1>2. Counted!Spec => []Counted!TypeOK
  BY LimiterAssumed, Counted!TypeCorrect, PTL
<1>3. Counted!Spec => []Counted!InflightExact
  BY LimiterAssumed, Counted!InflightCorrect, PTL
<1> QED
  BY <1>2, <1>3, LimiterImplemented, PTL

\* What is proved of the limiter's requests holds of the whole limiter: the count
\* in flight is exact but for the slots that Goexit leaks, a CPU below the
\* threshold refuses nothing, a race gains no more than the requests met in it, and
\* without one the cooldown is kept, with every limit computed from the counters
\* (bbr_ratelimiter.go:30-98).
THEOREM LimiterKeepsPromises ==
  ASSUME Answers = Nat
  PROVE  Spec => /\ []Limiter!InflightExact
                 /\ []Limiter!HealthyNeverDrops
                 /\ Limiter!RaceBound
                 /\ Limiter!SerialCooldown
<1>2. Counted!Spec => /\ []Counted!InflightExact
                      /\ []Counted!HealthyNeverDrops
                      /\ Counted!RaceBound
                      /\ Counted!SerialCooldown
  BY LimiterAssumed, Counted!InflightCorrect, Counted!HealthyCorrect,
     Counted!RaceBoundCorrect, Counted!SerialCooldownCorrect, PTL
<1>3. \A S : Limiter!Cardinality(S) = Counted!Cardinality(S)
  BY DEF Limiter!Cardinality, Counted!Cardinality
<1>4. Counted!InflightExact => Limiter!InflightExact
  BY <1>3 DEF Counted!InflightExact, Counted!Holding, Counted!Exited,
              Limiter!InflightExact, Limiter!Holding, Limiter!Exited
<1>5. Counted!HealthyNeverDrops => Limiter!HealthyNeverDrops
  BY DEF Counted!HealthyNeverDrops, Counted!None,
         Limiter!HealthyNeverDrops, Limiter!None
<1>6. UNCHANGED Counted!vars <=> UNCHANGED Limiter!vars
  BY DEF Counted!vars, Counted!env, Counted!regs, Counted!races,
         Limiter!vars, Limiter!env, Limiter!regs, Limiter!races
<1>7. ASSUME NEW r \in Requests, NEW n \in Answers
      PROVE  Limiter!Within(r, n) <=> Counted!Within(r, n)
  BY DEF Limiter!Within, Limiter!Goto, Limiter!env,
         Counted!Within, Counted!Goto, Counted!env
<1>8. Counted!CooldownKept => Limiter!CooldownKept
  BY DEF Limiter!CooldownKept, Limiter!LoadDrop, Limiter!Goto, Limiter!env,
         Limiter!races, Limiter!None, Counted!CooldownKept, Counted!LoadDrop,
         Counted!Goto, Counted!env, Counted!races, Counted!None
<1>9. Counted!RaceGain => Limiter!RaceGain
  BY <1>3, <1>7 DEF Counted!RaceGain, Limiter!RaceGain
<1>10. Counted!SerialCooldown => Limiter!SerialCooldown
  BY <1>6, <1>8, PTL DEF Counted!SerialCooldown, Limiter!SerialCooldown
<1>11. Counted!RaceBound => Limiter!RaceBound
  BY <1>6, <1>9, PTL DEF Counted!RaceBound, Limiter!RaceBound
<1> QED
  BY <1>2, <1>4, <1>5, <1>10, <1>11, LimiterImplemented, PTL

-------------------------------------------------------------------------------
(* Both components together.                                               *)

Adding(phases) == {r \in Requests : call[r] \in phases}

\* A sample is in both counters, or its request is still adding it, and so holds
\* its slot.
InStep ==
  /\ \A r \in Requests :
       /\ call[r] \in {"readMax", "readMin"} => r \in asked
       /\ call[r] \in {"passAdd", "rtAdd"} => pc[r] = "releasing"
       /\ r \in asked => pc[r] = "comparing"
       /\ call[r] = "rtAdd" => work[r].id \in Recorded(passStat)
  /\ asked \subseteq Requests
  /\ Recorded(rtStat) \subseteq Recorded(passStat)
  /\ Recorded(passStat) \cup {work[r].id : r \in Adding({"passAdd"})} = 1 .. finished
  /\ Recorded(rtStat) \cup {work[r].id : r \in Adding({"passAdd", "rtAdd"})}
       = 1 .. finished

Typed == Started /\ Proved!TypeOK /\ Counted!TypeOK

\* A rotation changes no history, and an Add adds its sample to it.
LEMMA RotateRecords ==
  ASSUME NEW c, Proved!CounterOK(c), NEW i
  PROVE  Recorded(Stats!RotateAt(c, i)) = Recorded(c)
<1>1. Stats!RotateAt(c, i).made = c.made
  BY DEF Stats!RotateAt, Proved!CounterOK
<1> QED
  BY <1>1 DEF Recorded

LEMMA AddRecords ==
  ASSUME NEW c, Proved!CounterOK(c), NEW m
  PROVE  Recorded(Stats!Add(c, m)) = Recorded(c) \cup {m.id}
<1> DEFINE d == Stats!RotateAt(c, m.at)
           n == Stats!Recorded(m, d)
<1>1. d.made = c.made
  BY DEF Stats!RotateAt, Proved!CounterOK
<1>2. n.id = m.id
  BY DEF Stats!Recorded
<1>3. Stats!Add(c, m).made = c.made \cup {n}
  <2>1. Stats!Add(c, m) = Stats!Record(d, Stats!IndexAt(m.at), m)
    BY DEF Stats!Add
  <2>2. "made" \in DOMAIN d
    BY DEF Stats!RotateAt, Proved!CounterOK
  <2> HIDE DEF d
  <2> QED
    BY <1>1, <2>1, <2>2 DEF Stats!Record
<1> HIDE DEF d, n
<1> QED
  BY <1>2, <1>3 DEF Recorded

LEMMA InStepInit == Init => InStep
BY DEF Init, InStep, Stats!Init, Stats!Counter, Recorded, Adding

LEMMA InStepStep == Typed /\ InStep /\ [Next]_vars => InStep'
<1> SUFFICES ASSUME Typed, InStep, [Next]_vars PROVE InStep'
  OBVIOUS
<1>0. /\ clock \in Nat /\ finished \in Nat
      /\ call \in [Requests -> {"idle", "passAdd", "rtAdd", "readMax", "readMin"}]
      /\ pc \in [Requests -> Counted!PCs]
      /\ work \in [Requests -> [id : Nat, at : 0 .. clock, rt : Nat]]
      /\ Proved!CounterOK(passStat) /\ Proved!CounterOK(rtStat)
  BY DEF Typed, Proved!TypeOK, Counted!TypeOK
<1>a. ASSUME UNCHANGED <<passStat, rtStat, call, work, finished>>,
             asked' \subseteq Requests,
             \A r \in Requests :
               /\ call[r] = "idle" \/ (pc'[r] = pc[r] /\ (r \in asked' <=> r \in asked))
               /\ r \in asked' => pc'[r] = "comparing"
      PROVE  InStep'
  BY <1>a DEF InStep, Recorded, Adding
<1>1. CASE UNCHANGED vars
  BY <1>1, <1>a DEF vars, limiterVars, statsVars, InStep
<1>2. CASE Tick \/ Sample
  BY <1>2, <1>a DEF Tick, Sample, Stats!Tick, Limiter!Tick, Limiter!Sample,
                    LimiterOnly, statsVars, InStep
<1>3. ASSUME NEW r \in Requests, Check(r) PROVE InStep'
  <2>1. /\ pc[r] \notin {"comparing", "releasing"}
        /\ \A q \in Requests \ {r} : pc'[q] = pc[q]
        /\ asked' = asked
    BY <1>0, <1>3 DEF Check, Limiter!ReadCPU, Limiter!LoadDrop,
       Limiter!ClearDrop, Limiter!StillCooling, Limiter!LoadInflight,
       Limiter!StoreDrop, Limiter!Goto
  <2>2. call[r] = "idle" /\ r \notin asked
    BY <1>0, <2>1 DEF InStep
  <2> QED
    BY <1>3, <1>a, <2>1, <2>2 DEF Check, LimiterOnly, statsVars, InStep
<1>4. ASSUME NEW r \in Requests, Enter(r) \/ Compare(r) \/ Release(r)
      PROVE  InStep'
  <2>1. \A q \in Requests \ {r} : pc'[q] = pc[q] /\ (q \in asked' <=> q \in asked)
    BY <1>0, <1>4 DEF Enter, Compare, Release, Limiter!Enter, Limiter!Within,
                      Limiter!Beyond, Limiter!Release, Limiter!Goto
  <2>2. call[r] = "idle"
    BY <1>0, <1>4 DEF Enter, Compare, Release, Limiter!Enter, InStep
  <2>3. r \notin asked' /\ asked' \subseteq Requests
    BY <1>0, <1>4 DEF Enter, Compare, Release, Limiter!Enter, Limiter!Release, InStep
  <2>4. UNCHANGED <<passStat, rtStat, call, work, finished>>
    BY <1>4 DEF Enter, Compare, Release, LimiterOnly, statsVars
  <2>5. \A q \in Requests : q \in asked' => pc'[q] = "comparing"
    BY <2>1, <2>3 DEF InStep
  <2>6. \A q \in Requests :
          /\ call[q] = "idle" \/ (pc'[q] = pc[q] /\ (q \in asked' <=> q \in asked))
          /\ q \in asked' => pc'[q] = "comparing"
    BY <2>1, <2>2, <2>5
  <2>7. asked' \subseteq Requests
    BY <2>3
  <2> QED
    BY ONLY <1>a, <2>4, <2>6, <2>7
<1>5. ASSUME NEW r \in Requests, Ask(r) PROVE InStep'
  <2>1. /\ pc[r] = "comparing" /\ call[r] = "idle"
        /\ call' = [call EXCEPT ![r] = "readMax"]
        /\ asked' = asked \cup {r}
        /\ UNCHANGED <<passStat, rtStat, finished, pc>>
    BY <1>0, <1>5 DEF Ask, limiterVars, Stats!Ask, Stats!Begin
  <2>2. \A q \in Requests \ {r} : work'[q] = work[q]
    BY <1>0, <1>5 DEF Ask, Stats!Ask, Stats!Begin
  <2>3. Recorded(passStat)' = Recorded(passStat) /\ Recorded(rtStat)' = Recorded(rtStat)
    BY <2>1 DEF Recorded
  <2>4. Adding({"passAdd"})' = Adding({"passAdd"})
        /\ Adding({"passAdd", "rtAdd"})' = Adding({"passAdd", "rtAdd"})
        /\ r \notin Adding({"passAdd", "rtAdd"}) /\ r \notin Adding({"passAdd"})
    BY <1>0, <2>1 DEF Adding
  <2>5. {work'[q].id : q \in Adding({"passAdd"})} = {work[q].id : q \in Adding({"passAdd"})}
        /\ {work'[q].id : q \in Adding({"passAdd", "rtAdd"})}
             = {work[q].id : q \in Adding({"passAdd", "rtAdd"})}
    BY <2>2, <2>4 DEF Adding
  <2>6. \A q \in Requests :
          /\ call'[q] \in {"readMax", "readMin"} => q \in asked'
          /\ call'[q] \in {"passAdd", "rtAdd"} => pc'[q] = "releasing"
          /\ q \in asked' => pc'[q] = "comparing"
          /\ call'[q] = "rtAdd" => work'[q].id \in Recorded(passStat)
    BY <1>0, <2>1, <2>2 DEF InStep
  <2> QED
    BY <2>1, <2>3, <2>4, <2>5, <2>6 DEF InStep
<1>6. ASSUME NEW r \in Requests, ReadMax(r) PROVE InStep'
  <2>1. /\ call[r] = "readMax" /\ call' = [call EXCEPT ![r] = "readMin"]
        /\ passStat' = Stats!RotateAt(passStat, work[r].at)
        /\ UNCHANGED <<rtStat, work, finished, pc, asked>>
    BY <1>6 DEF ReadMax, Stats!ReadMax, StatsOnly, limiterVars
  <2>2. Recorded(passStat)' = Recorded(passStat) /\ Recorded(rtStat)' = Recorded(rtStat)
    <3>1. Recorded(passStat') = Recorded(passStat)
      BY <1>0, <2>1, RotateRecords
    <3> QED
      BY <2>1, <3>1 DEF Recorded
  <2>3. Adding({"passAdd"})' = Adding({"passAdd"})
        /\ Adding({"passAdd", "rtAdd"})' = Adding({"passAdd", "rtAdd"})
    BY <1>0, <2>1 DEF Adding
  <2>4. \A q \in Requests :
          /\ call'[q] \in {"readMax", "readMin"} => q \in asked'
          /\ call'[q] \in {"passAdd", "rtAdd"} => pc'[q] = "releasing"
          /\ q \in asked' => pc'[q] = "comparing"
          /\ call'[q] = "rtAdd" => work'[q].id \in Recorded(passStat)
    BY <1>0, <2>1 DEF InStep
  <2>5. work' = work /\ finished' = finished /\ asked' = asked
    BY <2>1
  <2> QED
    BY <2>2, <2>3, <2>4, <2>5 DEF InStep
<1>7. ASSUME NEW r \in Requests, ReadMin(r) PROVE InStep'
  <2>1. /\ call[r] = "readMin" /\ call' = [call EXCEPT ![r] = "idle"]
        /\ rtStat' = Stats!RotateAt(rtStat, work[r].at)
        /\ \A q \in Requests \ {r} : work'[q] = work[q]
        /\ UNCHANGED <<passStat, finished, pc, asked>>
    BY <1>0, <1>7 DEF ReadMin, Stats!ReadMin, StatsOnly, limiterVars
  <2>2. Recorded(passStat)' = Recorded(passStat) /\ Recorded(rtStat)' = Recorded(rtStat)
    <3>1. Recorded(rtStat') = Recorded(rtStat)
      BY <1>0, <2>1, RotateRecords
    <3> QED
      BY <2>1, <3>1 DEF Recorded
  <2>3. Adding({"passAdd"})' = Adding({"passAdd"})
        /\ Adding({"passAdd", "rtAdd"})' = Adding({"passAdd", "rtAdd"})
        /\ r \notin Adding({"passAdd", "rtAdd"}) /\ r \notin Adding({"passAdd"})
    BY <1>0, <2>1 DEF Adding
  <2>4. {work'[q].id : q \in Adding({"passAdd"})} = {work[q].id : q \in Adding({"passAdd"})}
        /\ {work'[q].id : q \in Adding({"passAdd", "rtAdd"})}
             = {work[q].id : q \in Adding({"passAdd", "rtAdd"})}
    BY <2>1, <2>3 DEF Adding
  <2>5. \A q \in Requests :
          /\ call'[q] \in {"readMax", "readMin"} => q \in asked'
          /\ call'[q] \in {"passAdd", "rtAdd"} => pc'[q] = "releasing"
          /\ q \in asked' => pc'[q] = "comparing"
          /\ call'[q] = "rtAdd" => work'[q].id \in Recorded(passStat)
    BY <1>0, <2>1 DEF InStep
  <2> QED
    BY <2>1, <2>2, <2>3, <2>4, <2>5 DEF InStep
<1>8. ASSUME NEW r \in Requests, PassAdd(r) PROVE InStep'
  <2>1. /\ call[r] = "passAdd" /\ call' = [call EXCEPT ![r] = "rtAdd"]
        /\ passStat' = Stats!Add(passStat, work[r])
        /\ UNCHANGED <<rtStat, work, finished, pc, asked>>
    BY <1>8 DEF PassAdd, Stats!PassAdd, StatsOnly, limiterVars
  <2>2. Recorded(passStat)' = Recorded(passStat) \cup {work[r].id}
        /\ Recorded(rtStat)' = Recorded(rtStat)
    <3>1. Recorded(passStat') = Recorded(passStat) \cup {work[r].id}
      BY <1>0, <2>1, AddRecords
    <3> QED
      BY <2>1, <3>1 DEF Recorded
  <2>3. Adding({"passAdd"}) = Adding({"passAdd"})' \cup {r}
        /\ Adding({"passAdd", "rtAdd"})' = Adding({"passAdd", "rtAdd"})
    BY <1>0, <2>1 DEF Adding
  <2>4. {work[q].id : q \in Adding({"passAdd"})}
          = {work[q].id : q \in Adding({"passAdd"})'} \cup {work[r].id}
    BY <2>3
  <2>5. \A q \in Requests :
          /\ call'[q] \in {"readMax", "readMin"} => q \in asked'
          /\ call'[q] \in {"passAdd", "rtAdd"} => pc'[q] = "releasing"
          /\ q \in asked' => pc'[q] = "comparing"
          /\ call'[q] = "rtAdd" => work'[q].id \in Recorded(passStat)'
    BY <1>0, <2>1, <2>2 DEF InStep
  <2>6. work' = work /\ finished' = finished /\ asked' = asked
    BY <2>1
  <2>7. Recorded(rtStat)' \subseteq Recorded(passStat)'
    BY <2>2 DEF InStep
  <2> QED
    BY <2>2, <2>3, <2>4, <2>5, <2>6, <2>7 DEF InStep
<1>9. ASSUME NEW r \in Requests, RtAdd(r) PROVE InStep'
  <2>1. /\ call[r] = "rtAdd" /\ call' = [call EXCEPT ![r] = "idle"]
        /\ rtStat' = Stats!Add(rtStat, work[r])
        /\ \A q \in Requests \ {r} : work'[q] = work[q]
        /\ UNCHANGED <<passStat, finished, pc, asked>>
    BY <1>0, <1>9 DEF RtAdd, Stats!RtAdd, StatsOnly, limiterVars
  <2>2. Recorded(rtStat)' = Recorded(rtStat) \cup {work[r].id}
        /\ Recorded(passStat)' = Recorded(passStat)
    <3>1. Recorded(rtStat') = Recorded(rtStat) \cup {work[r].id}
      BY <1>0, <2>1, AddRecords
    <3> QED
      BY <2>1, <3>1 DEF Recorded
  <2>3. Adding({"passAdd"})' = Adding({"passAdd"})
        /\ Adding({"passAdd", "rtAdd"}) = Adding({"passAdd", "rtAdd"})' \cup {r}
        /\ r \notin Adding({"passAdd"}) /\ r \notin Adding({"passAdd", "rtAdd"})'
    BY <1>0, <2>1 DEF Adding
  <2>4. {work'[q].id : q \in Adding({"passAdd"})} = {work[q].id : q \in Adding({"passAdd"})}
        /\ {work'[q].id : q \in Adding({"passAdd", "rtAdd"})'} \cup {work[r].id}
             = {work[q].id : q \in Adding({"passAdd", "rtAdd"})}
    BY <2>1, <2>3 DEF Adding
  <2>5. \A q \in Requests :
          /\ call'[q] \in {"readMax", "readMin"} => q \in asked'
          /\ call'[q] \in {"passAdd", "rtAdd"} => pc'[q] = "releasing"
          /\ q \in asked' => pc'[q] = "comparing"
          /\ call'[q] = "rtAdd" => work'[q].id \in Recorded(passStat)
    BY <1>0, <2>1 DEF InStep
  <2>6. Recorded(rtStat)' \subseteq Recorded(passStat)'
    BY <2>1, <2>2 DEF InStep
  <2> QED
    BY <2>1, <2>2, <2>3, <2>4, <2>5, <2>6 DEF InStep
<1>10. ASSUME NEW r \in Requests, NEW o \in Limiter!Outcomes, HandlerEnds(r, o)
       PROVE  InStep'
  <2>1. /\ pc[r] = "running" /\ call[r] = "idle" /\ r \notin asked
        /\ pc' = [pc EXCEPT ![r] = IF o = "exit" THEN "exited" ELSE "releasing"]
        /\ asked' = asked
    BY <1>0, <1>10 DEF HandlerEnds, Limiter!HandlerEnds, Limiter!Goto, InStep
  <2>2. CASE o # "ok"
    <3>1. UNCHANGED <<passStat, rtStat, call, work, finished>>
      BY <1>10, <2>2 DEF HandlerEnds, LimiterOnly, statsVars
    <3> QED
      BY <1>0, <1>a, <2>1, <3>1 DEF InStep
  <2>3. CASE o = "ok"
    <3>1. /\ finished' = finished + 1
          /\ call' = [call EXCEPT ![r] = "passAdd"]
          /\ work'[r].id = finished + 1
          /\ \A q \in Requests \ {r} : work'[q] = work[q]
          /\ UNCHANGED <<passStat, rtStat>>
      BY <1>0, <1>10, <2>3 DEF HandlerEnds, Stats!Finish, Stats!Begin
    <3>2. Recorded(passStat)' = Recorded(passStat) /\ Recorded(rtStat)' = Recorded(rtStat)
      BY <3>1 DEF Recorded
    <3>3. /\ Adding({"passAdd"})' = Adding({"passAdd"}) \cup {r}
          /\ Adding({"passAdd", "rtAdd"})' = Adding({"passAdd", "rtAdd"}) \cup {r}
          /\ r \notin Adding({"passAdd"}) /\ r \notin Adding({"passAdd", "rtAdd"})
      BY <1>0, <2>1, <3>1 DEF Adding
    <3>4. {work'[q].id : q \in Adding({"passAdd"})'}
            = {work[q].id : q \in Adding({"passAdd"})} \cup {finished + 1}
          /\ {work'[q].id : q \in Adding({"passAdd", "rtAdd"})'}
               = {work[q].id : q \in Adding({"passAdd", "rtAdd"})} \cup {finished + 1}
      BY <3>1, <3>3 DEF Adding
    <3>5. 1 .. finished + 1 = (1 .. finished) \cup {finished + 1}
      BY <1>0
    <3>6. \A q \in Requests :
            /\ call'[q] \in {"readMax", "readMin"} => q \in asked'
            /\ call'[q] \in {"passAdd", "rtAdd"} => pc'[q] = "releasing"
            /\ q \in asked' => pc'[q] = "comparing"
            /\ call'[q] = "rtAdd" => work'[q].id \in Recorded(passStat)
      BY <1>0, <2>1, <2>3, <3>1 DEF InStep
    <3> QED
      BY <2>1, <3>1, <3>2, <3>3, <3>4, <3>5, <3>6 DEF InStep
  <2> QED
    BY <2>2, <2>3
<1> QED
  BY <1>1, <1>2, <1>3, <1>4, <1>5, <1>6, <1>7, <1>8, <1>9, <1>10
     DEF Next, Decide, Finish

LEMMA Always ==
  ASSUME Answers = Nat
  PROVE  Spec => [](Typed /\ Counted!InflightExact /\ InStep)
<1>1. Spec => []Started
  BY StartedInit, StartedStep, PTL DEF Spec
<1>2. Started /\ Proved!TypeOK /\ Counted!TypeOK => Typed
  BY DEF Typed
<1> QED
    BY <1>1, <1>2, StatsTyped, LimiterCounted, InStepInit, InStepStep, PTL DEF
     Spec

LEMMA SameTypes ==
  /\ Proved!TypeOK => Stats!TypeOK
  /\ Counted!TypeOK => Limiter!TypeOK
<1>1. Proved!TypeOK => Stats!TypeOK
  BY DEF Proved!TypeOK, Proved!CounterOK, Proved!Sample, Proved!Slot,
         Stats!TypeOK, Stats!CounterOK, Stats!Sample, Stats!Slot
<1>2. Counted!TypeOK => Limiter!TypeOK
  BY DEF Counted!TypeOK, Counted!PCs, Counted!Deciding, Counted!None,
         Counted!RegistersFit, Limiter!TypeOK, Limiter!PCs, Limiter!Deciding,
         Limiter!None, Limiter!RegistersFit
<1> QED
  BY <1>1, <1>2

\* Both components keep their types, and they are in step.
THEOREM TypeCorrect ==
  ASSUME Answers = Nat
  PROVE  Spec => []TypeOK
<1>1. Typed /\ InStep => TypeOK
  BY SameTypes DEF Typed, Started, InStep, TypeOK
<1> QED
  BY <1>1, Always, PTL

\* The two definitions of the number of elements are the same.
LEMMA SameSize ==
  /\ \A S : Limiter!Cardinality(S) = Counted!Cardinality(S)
  /\ \A S : Cardinality(S) = Counted!Cardinality(S)
BY DEF Limiter!Cardinality, Counted!Cardinality, Cardinality

\* The requests that are still adding their sample, and the exited ones, hold
\* different slots.
LEMMA AddingHold ==
  ASSUME Typed, InStep, Counted!InflightExact
  PROVE  /\ IsFiniteSet(Adding({"passAdd", "rtAdd"}))
         /\ Cardinality(Adding({"passAdd", "rtAdd"})) + Cardinality(Limiter!Exited)
              <= inflight
<1> DEFINE A == Adding({"passAdd", "rtAdd"})
           E == Limiter!Exited
<1>1. IsFiniteSet(A) /\ IsFiniteSet(E) /\ IsFiniteSet(Counted!Holding)
  BY SystemAssumption, FS_Subset
     DEF Adding, Limiter!Exited, Counted!Holding, Counted!Exited
<1>2. A \cap E = {}
  BY DEF InStep, Adding, Limiter!Exited
<1>3. A \cup E \subseteq Counted!Holding
  BY DEF InStep, Adding, Limiter!Exited, Counted!Holding, Counted!Exited
<1>4. Cardinality(A \cup E) = Cardinality(A) + Cardinality(E)
  <2>1. Cardinality(A \cup E) = Cardinality(A) + Cardinality(E) - Cardinality(A \cap E)
    BY <1>1, FS_Union
  <2>2. Cardinality(A \cap E) = 0
    BY <1>2, FS_EmptySet
  <2>3. Cardinality(A) \in Nat /\ Cardinality(E) \in Nat
    BY <1>1, FS_CardinalityType
  <2> HIDE DEF A, E
  <2> QED
    BY <2>1, <2>2, <2>3
<1>5. Cardinality(A \cup E) <= Cardinality(Counted!Holding)
  BY <1>1, <1>3, FS_Subset
<1>6. Cardinality(Counted!Holding) = inflight
  BY SameSize DEF Counted!InflightExact
<1> QED
  BY <1>1, <1>4, <1>5, <1>6

\* The counters are never further behind than the slots that are taken and not
\* leaked, for any number of requests, and rtStat holds no request that passStat
\* lacks.
THEOREM LagCorrect ==
  ASSUME Answers = Nat
  PROVE  Spec => []CountersLag
<1>1. Typed /\ Counted!InflightExact /\ InStep => CountersLag
  <2> SUFFICES ASSUME Typed, Counted!InflightExact, InStep PROVE CountersLag
    OBVIOUS
  <2> DEFINE A == Adding({"passAdd", "rtAdd"})
             Ids == {work[r].id : r \in A}
  <2>1. /\ IsFiniteSet(A)
        /\ Cardinality(A) + Cardinality(Limiter!Exited) <= inflight
    BY AddingHold
  <2>2. IsFiniteSet(Ids) /\ Cardinality(Ids) <= Cardinality(A)
    <3> DEFINE idOf == [r \in A |-> work[r].id]
    <3>1. idOf \in Surjection(A, Ids)
      BY DEF Surjection
    <3> HIDE DEF A, Ids, idOf
    <3> QED
      BY <2>1, <3>1, FS_Surjection
  <2>3. Lagging \subseteq Ids
    BY DEF InStep, Lagging
  <2>4. IsFiniteSet(Lagging) /\ Cardinality(Lagging) <= Cardinality(Ids)
    BY <2>2, <2>3, FS_Subset
  <2>5. IsFiniteSet(Limiter!Exited)
    BY SystemAssumption, FS_Subset DEF Limiter!Exited
  <2>6. /\ Cardinality(Lagging) \in Nat /\ Cardinality(Ids) \in Nat
        /\ Cardinality(A) \in Nat /\ Cardinality(Limiter!Exited) \in Nat
    BY <2>1, <2>2, <2>4, <2>5, FS_CardinalityType
  <2>7. inflight \in Nat
    BY DEF Typed, Counted!TypeOK
  <2>8. Cardinality(Lagging) + Cardinality(Limiter!Exited) <= inflight
    BY <2>1, <2>2, <2>4, <2>6, <2>7
  <2> QED
    BY <2>8 DEF InStep, CountersLag
<1> QED
  BY <1>1, Always, PTL
===============================================================================
