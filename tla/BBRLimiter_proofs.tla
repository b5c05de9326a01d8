-------------------------- MODULE BBRLimiter_proofs --------------------------
(***************************************************************************)
(* Proofs about BBRLimiter, for any number of requests, any limits and any *)
(* length of the cooldown.                                                 *)
(***************************************************************************)
EXTENDS BBRLimiter, FiniteSetTheorems, TLAPS

-------------------------------------------------------------------------------
(* Types and the count of requests in flight.                              *)

Counted == TypeOK /\ InflightExact

\* A request that moves to `running` adds one to the requests that hold a slot
\* (bbr_ratelimiter.go:36).
LEMMA HoldingGrows ==
  ASSUME TypeOK, NEW r \in Requests, r \notin Holding,
         pc' = [pc EXCEPT ![r] = "running"]
  PROVE  Cardinality(Holding') = Cardinality(Holding) + 1
<1>1. IsFiniteSet(Holding)
  BY LimiterAssumption, FS_Subset DEF Holding, Exited
<1>2. Holding' = Holding \cup {r}
  BY DEF TypeOK, Holding, Exited
<1> QED
  BY <1>1, <1>2, FS_AddElement

\* A request that leaves `releasing` for `idle` takes one away, and there was
\* one to take (bbr_ratelimiter.go:42).
LEMMA HoldingShrinks ==
  ASSUME TypeOK, NEW r \in Requests, pc[r] = "releasing",
         pc' = [pc EXCEPT ![r] = "idle"]
  PROVE  /\ Cardinality(Holding') = Cardinality(Holding) - 1
         /\ Cardinality(Holding) \in Nat \ {0}
<1>1. IsFiniteSet(Holding)
  BY LimiterAssumption, FS_Subset DEF Holding, Exited
<1>2. r \in Holding
  BY DEF Holding, Exited
<1>3. Holding' = Holding \ {r}
  BY DEF TypeOK, Holding, Exited
<1>4. Cardinality(Holding) \in Nat /\ Cardinality(Holding) # 0
  BY <1>1, <1>2, FS_CardinalityType, FS_EmptySet
<1> QED
  BY <1>1, <1>2, <1>3, <1>4, FS_RemoveElement

LEMMA CountedInit == Init => Counted
<1> SUFFICES ASSUME Init PROVE Counted
  OBVIOUS
<1>1. TypeOK
  <2>1. \A r \in Requests : RegistersFit(r)
    BY DEF Init, RegistersFit, None
  <2> QED
    BY <2>1 DEF Init, TypeOK, PCs, Deciding, None
<1>2. Holding = {}
  BY DEF Init, Holding, Exited
<1> QED
  BY <1>1, <1>2, FS_EmptySet DEF Counted, InflightExact, Init

LEMMA CountedStep == Counted /\ [Next]_vars => Counted'
<1> SUFFICES ASSUME Counted, [Next]_vars PROVE Counted'
  OBVIOUS
<1> USE DEF Counted, InflightExact, None, races
<1>1. CASE UNCHANGED vars
  BY <1>1 DEF vars, env, regs, TypeOK, RegistersFit, Holding, Exited
<1>2. CASE Tick
  BY <1>2, LimiterAssumption
     DEF Tick, regs, TypeOK, RegistersFit, Holding, Exited
<1>3. CASE Sample
  BY <1>3 DEF Sample, regs, TypeOK, RegistersFit, Holding, Exited
<1>4. ASSUME NEW r \in Requests, ReadCPU(r)
      PROVE  Counted'
  <2>1. \A q \in Requests : RegistersFit(q)'
    BY <1>4 DEF ReadCPU, Goto, regs, TypeOK, RegistersFit, Deciding
  <2> QED
    BY <1>4, <2>1 DEF ReadCPU, Goto, env, regs, TypeOK, Holding, Exited,
                    PCs, Deciding, Others
<1>5. ASSUME NEW r \in Requests, LoadDrop(r)
      PROVE  Counted'
  <2>1. \A q \in Requests : RegistersFit(q)'
    BY <1>5 DEF LoadDrop, Goto, regs, TypeOK, RegistersFit, Deciding
  <2> QED
    BY <1>5, <2>1 DEF LoadDrop, Goto, env, regs, TypeOK, Holding, Exited,
                    PCs, Deciding
<1>6. ASSUME NEW r \in Requests, ClearDrop(r)
      PROVE  Counted'
  <2>1. \A q \in Requests : RegistersFit(q)'
    BY <1>6 DEF ClearDrop, Goto, regs, TypeOK, RegistersFit, Deciding
  <2> QED
    BY <1>6, <2>1 DEF ClearDrop, Goto, env, regs, TypeOK, Holding, Exited,
                    PCs, Deciding
<1>7. ASSUME NEW r \in Requests, StillCooling(r)
      PROVE  Counted'
  <2>1. \A q \in Requests : RegistersFit(q)'
    BY <1>7 DEF StillCooling, Goto, regs, TypeOK, RegistersFit, Deciding
  <2> QED
    BY <1>7, <2>1 DEF StillCooling, Goto, env, regs, TypeOK, Holding, Exited,
                    PCs, Deciding
<1>8. ASSUME NEW r \in Requests, LoadInflight(r)
      PROVE  Counted'
  <2>1. \A q \in Requests : RegistersFit(q)'
    BY <1>8 DEF LoadInflight, Goto, regs, TypeOK, RegistersFit, Deciding
  <2> QED
    BY <1>8, <2>1 DEF LoadInflight, Goto, env, regs, TypeOK, Holding, Exited,
                    PCs, Deciding, Others
<1>9. ASSUME NEW r \in Requests, NEW limit \in Limits, Within(r, limit)
      PROVE  Counted'
  <2>1. \A q \in Requests : RegistersFit(q)'
    BY <1>9 DEF Within, Goto, regs, TypeOK, RegistersFit, Deciding
  <2> QED
    BY <1>9, <2>1 DEF Within, Goto, env, regs, TypeOK, Holding, Exited,
                    PCs, Deciding
<1>10. ASSUME NEW r \in Requests, NEW limit \in Limits, Beyond(r, limit)
      PROVE  Counted'
  <2>1. \A q \in Requests : RegistersFit(q)'
    BY <1>10 DEF Beyond, Goto, regs, TypeOK, RegistersFit, Deciding
  <2> QED
    BY <1>10, <2>1 DEF Beyond, Goto, env, regs, TypeOK, Holding, Exited,
                    PCs, Deciding
<1>11. ASSUME NEW r \in Requests, StoreDrop(r)
      PROVE  Counted'
  <2>1. \A q \in Requests : RegistersFit(q)'
    BY <1>11 DEF StoreDrop, Goto, regs, TypeOK, RegistersFit, Deciding
  <2> QED
    BY <1>11, <2>1 DEF StoreDrop, Goto, env, regs, TypeOK, Holding, Exited,
                    PCs, Deciding
<1>12. ASSUME NEW r \in Requests, Enter(r) PROVE Counted'
  <2>1. r \notin Holding
    BY <1>12 DEF Enter, Holding, Exited
  <2>2. TypeOK'
    BY <1>12 DEF Enter, Goto, env, regs, races, TypeOK, RegistersFit, PCs
  <2> QED
    BY <1>12, <2>1, <2>2, HoldingGrows DEF Enter, Goto
<1>13. ASSUME NEW r \in Requests, NEW o \in Outcomes, HandlerEnds(r, o)
       PROVE Counted'
  BY <1>13 DEF HandlerEnds, Goto, env, regs, races, TypeOK, RegistersFit, Holding,
               Exited, PCs
<1>14. ASSUME NEW r \in Requests, Release(r) PROVE Counted'
  <2>1. /\ Cardinality(Holding') = Cardinality(Holding) - 1
        /\ Cardinality(Holding) \in Nat \ {0}
    BY <1>14, HoldingShrinks DEF Release, Goto
  <2>2. TypeOK'
    BY <1>14, <2>1 DEF Release, Goto, env, regs, races, TypeOK, RegistersFit, PCs
  <2> QED
    BY <1>14, <2>1, <2>2 DEF Release
<1> QED
  BY <1>1, <1>2, <1>3, <1>4, <1>5, <1>6, <1>7, <1>8, <1>9, <1>10,
     <1>11, <1>12, <1>13, <1>14 DEF Next, Decide, Finish

LEMMA CountedAlways == Spec => []Counted
  BY CountedInit, CountedStep, PTL DEF Spec

\* Every variable keeps its type; in particular inflight never goes below zero
\* (bbr_ratelimiter.go:13).
THEOREM TypeCorrect == Spec => []TypeOK
<1>1. Counted => TypeOK
  BY DEF Counted
<1> QED
  BY <1>1, CountedAlways, PTL

\* inflight counts the requests between Allow and the end of done and the
\* handlers that ended by Goexit exactly, for any number of requests
\* (bbr_ratelimiter.go:36, 42; interceptors.go:30-37).
THEOREM InflightCorrect == Spec => []InflightExact
<1>1. Counted => InflightExact
  BY DEF Counted
<1> QED
  BY <1>1, CountedAlways, PTL

-------------------------------------------------------------------------------
(* A CPU below the threshold.                                              *)

\* What a request may have seen while the CPU was never hot.
HealthyInv ==
  ~everHot =>
    /\ ~hot
    /\ lastDrop = None
    /\ \A r \in Requests :
         pc[r] \in {"idle", "loadDrop", "entering", "running",
                   "releasing", "exited"}

LEMMA HealthyStep ==
  TypeOK /\ HealthyInv /\ [Next]_vars => HealthyInv'
<1> SUFFICES ASSUME TypeOK, HealthyInv, [Next]_vars, ~everHot'
             PROVE  /\ ~hot'
                    /\ lastDrop' = None
                    /\ \A r \in Requests :
                         pc'[r] \in {"idle", "loadDrop", "entering",
                                    "running", "releasing", "exited"}
  BY DEF HealthyInv
<1> USE DEF HealthyInv, Goto, env, regs, races
<1>1. CASE UNCHANGED vars
  BY <1>1 DEF vars
<1>2. CASE Tick
  BY <1>2 DEF Tick
<1>3. CASE Sample
  BY <1>3 DEF Sample, TypeOK
<1>4. ASSUME NEW r \in Requests, ReadCPU(r) PROVE HealthyInv'
  BY <1>4 DEF ReadCPU, TypeOK
<1>5. ASSUME NEW r \in Requests, LoadDrop(r) PROVE HealthyInv'
  BY <1>5 DEF LoadDrop, TypeOK
<1>6. ASSUME NEW r \in Requests, NEW limit \in Limits,
             \/ ClearDrop(r) \/ StillCooling(r) \/ LoadInflight(r)
             \/ Within(r, limit) \/ Beyond(r, limit) \/ StoreDrop(r)
      PROVE  HealthyInv'
  BY <1>6 DEF ClearDrop, StillCooling, LoadInflight, Within, Beyond, StoreDrop
<1>7. ASSUME NEW r \in Requests, Enter(r) \/ Release(r) PROVE HealthyInv'
  BY <1>7 DEF Enter, Release, TypeOK
<1>8. ASSUME NEW r \in Requests, NEW o \in Outcomes, HandlerEnds(r, o)
      PROVE  HealthyInv'
  BY <1>8 DEF HandlerEnds, TypeOK
<1> QED
  BY <1>1, <1>2, <1>3, <1>4, <1>5, <1>6, <1>7, <1>8, LimiterAssumption
     DEF Next, Decide, Finish

\* Nothing is refused before the CPU first reaches the threshold, whatever the
\* concurrency and whatever maxInflight would have answered
\* (bbr_ratelimiter.go:60-66).
THEOREM HealthyCorrect == Spec => []HealthyNeverDrops
<1>1. Init => HealthyInv
  BY DEF Init, HealthyInv
<1>2. HealthyInv => HealthyNeverDrops
  BY DEF HealthyInv, HealthyNeverDrops
<1> QED
  BY <1>1, <1>2, HealthyStep, TypeCorrect, PTL DEF Spec

-------------------------------------------------------------------------------
(* Requests that decide one at a time.                                     *)

\* No two requests are inside Allow together.
AloneInv ==
  ~overlap => \A q, r \in Requests :
                pc[q] \in Deciding /\ pc[r] \in Deciding => q = r

LEMMA AloneStep == TypeOK /\ AloneInv /\ [Next]_vars => AloneInv'
<1> SUFFICES ASSUME TypeOK, AloneInv, [Next]_vars PROVE AloneInv'
  OBVIOUS
<1> USE DEF AloneInv, Goto, env, regs, races, TypeOK, Deciding
<1>1. CASE UNCHANGED vars \/ Tick \/ Sample
  BY <1>1 DEF vars, Tick, Sample
<1>2. ASSUME NEW r \in Requests, ReadCPU(r) PROVE AloneInv'
  BY <1>2 DEF ReadCPU, Others
<1>3. ASSUME NEW r \in Requests, LoadDrop(r) PROVE AloneInv'
  BY <1>3 DEF LoadDrop
<1>4. ASSUME NEW r \in Requests, ClearDrop(r) \/ StillCooling(r) PROVE AloneInv'
  BY <1>4 DEF ClearDrop, StillCooling
<1>5. ASSUME NEW r \in Requests, LoadInflight(r) PROVE AloneInv'
  BY <1>5 DEF LoadInflight
<1>6. ASSUME NEW r \in Requests, NEW limit \in Limits,
             Within(r, limit) \/ Beyond(r, limit)
      PROVE  AloneInv'
  BY <1>6 DEF Within, Beyond
<1>7. ASSUME NEW r \in Requests, StoreDrop(r) \/ Enter(r) \/ Release(r)
      PROVE  AloneInv'
  BY <1>7 DEF StoreDrop, Enter, Release
<1>8. ASSUME NEW r \in Requests, NEW o \in Outcomes, HandlerEnds(r, o)
      PROVE  AloneInv'
  BY <1>8 DEF HandlerEnds
<1> QED
  BY <1>1, <1>2, <1>3, <1>4, <1>5, <1>6, <1>7, <1>8 DEF Next, Decide, Finish

LEMMA AloneAlways == Spec => [](TypeOK /\ AloneInv)
<1>1. Init => AloneInv
  BY DEF Init, AloneInv, Deciding
<1> QED
  BY <1>1, AloneStep, TypeCorrect, PTL DEF Spec

-------------------------------------------------------------------------------
(* Requests that race.                                                     *)

\* What a request that compares knows: whoever is inside Allow with it is among
\* those it met, and not counting these, no more requests hold a slot than the
\* inflight it loaded.
RaceInv ==
  \A r \in Requests :
    pc[r] = "comparing" =>
      /\ Others(r) \subseteq met[r]
      /\ Cardinality(Holding \ met[r]) <= seen[r]

\* Fewer unmet holders are fewer (used for every step but LoadInflight).
LEMMA FewerUnmet ==
  ASSUME NEW r \in Requests, Holding' \ met'[r] \subseteq Holding \ met[r]
  PROVE  Cardinality(Holding' \ met'[r]) <= Cardinality(Holding \ met[r])
<1>1. IsFiniteSet(Holding \ met[r])
  BY LimiterAssumption, FS_Subset DEF Holding, Exited
<1> QED
  BY <1>1, FS_Subset

\* A request that stays at its comparison, while all that it can see of the
\* others only shrinks or is met, keeps what it knows.
LEMMA RaceKept ==
  ASSUME TypeOK, TypeOK', RaceInv,
         \A r \in Requests : pc'[r] = "comparing" =>
           /\ pc[r] = "comparing" /\ seen'[r] = seen[r]
           /\ Others(r)' \subseteq met'[r]
           /\ Holding' \ met'[r] \subseteq Holding \ met[r]
  PROVE  RaceInv'
<1> SUFFICES ASSUME NEW r \in Requests, pc'[r] = "comparing"
             PROVE  Cardinality(Holding' \ met'[r]) <= seen'[r]
  BY DEF RaceInv
<1>1. Cardinality(Holding \ met[r]) <= seen[r]
  BY DEF RaceInv
<1>2. Cardinality(Holding' \ met'[r]) <= Cardinality(Holding \ met[r])
  BY FewerUnmet
<1>3. IsFiniteSet(Holding \ met[r]) /\ IsFiniteSet(Holding' \ met'[r])
  BY LimiterAssumption, FS_Subset DEF Holding, Exited
<1>4. Cardinality(Holding \ met[r]) \in Nat /\ Cardinality(Holding' \ met'[r]) \in Nat
  BY <1>3, FS_CardinalityType
<1> QED
  BY <1>1, <1>2, <1>4 DEF TypeOK

LEMMA RaceStep ==
  /\ Counted /\ Counted' /\ RaceInv
  /\ [Next]_vars
  => RaceInv'
<1> SUFFICES ASSUME Counted, Counted', RaceInv, [Next]_vars PROVE RaceInv'
  OBVIOUS
<1>0. TypeOK /\ TypeOK' /\ InflightExact
  BY DEF Counted
<1> USE <1>0 DEF Goto, env, regs, races
<1>1. CASE UNCHANGED vars \/ Tick \/ Sample
  BY <1>1 DEF vars, Tick, Sample, RaceInv, Others, Holding, Exited
<1>2. ASSUME NEW q \in Requests, ReadCPU(q) PROVE RaceInv'
  <2>1. \A r \in Requests : pc'[r] = "comparing" =>
          /\ pc[r] = "comparing" /\ seen'[r] = seen[r]
          /\ Others(r)' \subseteq met'[r]
          /\ Holding' \ met'[r] \subseteq Holding \ met[r]
    BY <1>2 DEF ReadCPU, TypeOK, RaceInv, Others, Deciding, Holding, Exited
  <2> QED
    BY <2>1, RaceKept
<1>3. ASSUME NEW q \in Requests, NEW limit \in Limits,
             \/ LoadDrop(q) \/ ClearDrop(q) \/ StillCooling(q)
             \/ Within(q, limit) \/ Beyond(q, limit) \/ StoreDrop(q)
      PROVE  RaceInv'
  <2>1. /\ \A r \in Requests \ {q} : pc'[r] = pc[r] /\ met'[r] = met[r]
        /\ pc[q] \in Deciding /\ pc'[q] # "comparing"
        /\ pc'[q] \notin {"running", "releasing", "exited"}
        /\ \A r \in Requests \ {q} : seen'[r] = seen[r]
    BY <1>3 DEF LoadDrop, ClearDrop, StillCooling, Within, Beyond, StoreDrop,
                TypeOK, Deciding
  <2>2. \A r \in Requests : pc'[r] = "comparing" =>
          /\ pc[r] = "comparing" /\ seen'[r] = seen[r]
          /\ Others(r)' \subseteq met'[r]
          /\ Holding' \ met'[r] \subseteq Holding \ met[r]
    BY <2>1 DEF RaceInv, Others, Holding, Exited
  <2> QED
    BY <2>2, RaceKept
<1>4. ASSUME NEW q \in Requests, LoadInflight(q) PROVE RaceInv'
  <2>1. /\ \A r \in Requests \ {q} : /\ pc'[r] = pc[r] /\ met'[r] = met[r]
                                     /\ seen'[r] = seen[r]
        /\ pc[q] = "loadInflight" /\ pc'[q] \in {"entering", "comparing"}
    BY <1>4 DEF LoadInflight, TypeOK
  <2>2. Holding' = Holding /\ \A r \in Requests : Others(r)' = Others(r)
    BY <2>1 DEF Holding, Exited, Others, Deciding
  <2>3. ASSUME NEW r \in Requests \ {q}, pc'[r] = "comparing"
        PROVE  /\ Others(r)' \subseteq met'[r]
               /\ Cardinality(Holding' \ met'[r]) <= seen'[r]
    BY <2>1, <2>2, <2>3 DEF RaceInv
  <2>4. ASSUME pc'[q] = "comparing"
        PROVE  /\ Others(q)' \subseteq met'[q]
               /\ Cardinality(Holding' \ met'[q]) <= seen'[q]
    <3>1. seen'[q] = inflight /\ met'[q] = Others(q)
      BY <1>4, <2>1, <2>4 DEF LoadInflight, TypeOK
    <3>2. IsFiniteSet(Holding)
      BY LimiterAssumption, FS_Subset DEF Holding, Exited
    <3>3. Cardinality(Holding \ Others(q)) <= Cardinality(Holding)
      BY <3>2, FS_Subset
    <3> QED
      BY <2>2, <3>1, <3>3 DEF InflightExact
  <2> QED
    BY <2>3, <2>4 DEF RaceInv
<1>5. ASSUME NEW q \in Requests, Enter(q) PROVE RaceInv'
  <2>1. \A r \in Requests : pc'[r] = "comparing" =>
          /\ pc[r] = "comparing" /\ seen'[r] = seen[r]
          /\ q \in Others(r)
          /\ Others(r)' \subseteq Others(r)
          /\ Holding' \subseteq Holding \cup {q}
          /\ met' = met
    BY <1>5 DEF Enter, TypeOK, Others, Deciding, Holding, Exited
  <2>2. \A r \in Requests : pc'[r] = "comparing" =>
          /\ Others(r)' \subseteq met'[r]
          /\ Holding' \ met'[r] \subseteq Holding \ met[r]
    BY <2>1 DEF RaceInv
  <2> QED
    BY <2>1, <2>2, RaceKept
<1>6. ASSUME NEW q \in Requests, NEW o \in Outcomes,
             HandlerEnds(q, o) \/ Release(q)
      PROVE  RaceInv'
  <2>1. \A r \in Requests : pc'[r] = "comparing" =>
          /\ pc[r] = "comparing" /\ seen'[r] = seen[r]
          /\ Others(r)' \subseteq Others(r)
          /\ Holding' \subseteq Holding
          /\ met' = met
    BY <1>6 DEF HandlerEnds, Release, TypeOK, Others, Deciding, Holding, Exited
  <2>2. \A r \in Requests : pc'[r] = "comparing" =>
          /\ Others(r)' \subseteq met'[r]
          /\ Holding' \ met'[r] \subseteq Holding \ met[r]
    BY <2>1 DEF RaceInv
  <2> QED
    BY <2>1, <2>2, RaceKept
<1> QED
  BY <1>1, <1>2, <1>3, <1>4, <1>5, <1>6, LimiterAssumption
     DEF Next, Decide, Finish, Outcomes

\* What RaceInv says of inflight when the comparison succeeds.
LEMMA RaceCount ==
  ASSUME Counted, RaceInv, NEW r \in Requests, pc[r] = "comparing"
  PROVE  inflight <= seen[r] + Cardinality(met[r])
<1>1. IsFiniteSet(Holding) /\ IsFiniteSet(met[r])
  BY LimiterAssumption, FS_Subset DEF Holding, Exited, Counted, TypeOK
<1>2. Cardinality(Holding) =
        Cardinality(Holding \ met[r]) + Cardinality(Holding \cap met[r])
  <2>1. /\ Cardinality(Holding \ met[r]) =
             Cardinality(Holding) - Cardinality(Holding \cap met[r])
    BY <1>1, FS_Difference
  <2>2. IsFiniteSet(Holding \cap met[r]) /\ IsFiniteSet(Holding \ met[r])
    BY <1>1, FS_Subset
  <2> QED
    BY <1>1, <2>1, <2>2, FS_CardinalityType
<1>3. Cardinality(Holding \cap met[r]) <= Cardinality(met[r])
  BY <1>1, FS_Subset
<1>4. IsFiniteSet(Holding \cap met[r]) /\ IsFiniteSet(Holding \ met[r])
  BY <1>1, FS_Subset
<1>5. /\ Cardinality(Holding \cap met[r]) \in Nat /\ Cardinality(met[r]) \in Nat
      /\ Cardinality(Holding \ met[r]) \in Nat
  BY <1>1, <1>4, FS_CardinalityType
<1>6. Cardinality(Holding \ met[r]) <= seen[r] /\ seen[r] \in Nat
  BY DEF RaceInv, Counted, TypeOK
<1> QED
  BY <1>2, <1>3, <1>5, <1>6 DEF Counted, InflightExact

LEMMA RaceAlways == Spec => [](Counted /\ RaceInv)
<1>1. Init => RaceInv
  BY DEF Init, RaceInv
<1> QED
  BY <1>1, RaceStep, CountedAlways, PTL DEF Spec

\* For any number of requests and any interleaving of their loads, comparisons,
\* increments and releases, the comparison lets a request through only while
\* inflight exceeds the limit by at most the requests it raced with.
THEOREM RaceBoundCorrect == Spec => RaceBound
<1>1. Counted /\ RaceInv => RaceGain
  <2> SUFFICES ASSUME Counted, RaceInv, NEW r \in Requests,
                      NEW limit \in Limits, Within(r, limit)
               PROVE  inflight <= limit + Cardinality(met[r])
    BY DEF RaceGain
  <2>1. inflight <= seen[r] + Cardinality(met[r]) /\ seen[r] <= limit
    BY RaceCount DEF Within
  <2>2. IsFiniteSet(met[r])
    BY LimiterAssumption, FS_Subset DEF Counted, TypeOK
  <2>3. Cardinality(met[r]) \in Nat
    BY <2>2, FS_CardinalityType
  <2> QED
    BY <2>1, <2>3, LimiterAssumption DEF Counted, TypeOK
<1> QED
  BY <1>1, RaceAlways, PTL DEF RaceBound

\* Without a race nobody is met.
MetInv == ~overlap => \A r \in Requests : met[r] = {}

LEMMA MetStep ==
  TypeOK /\ AloneInv /\ MetInv /\ [Next]_vars => MetInv'
<1> SUFFICES ASSUME TypeOK, AloneInv, MetInv, [Next]_vars PROVE MetInv'
  OBVIOUS
<1> USE DEF MetInv, Goto, env, regs, races
<1>1. CASE UNCHANGED vars \/ Tick \/ Sample
  BY <1>1 DEF vars, Tick, Sample
<1>2. ASSUME NEW r \in Requests, ReadCPU(r) PROVE MetInv'
  BY <1>2 DEF ReadCPU, TypeOK, Others, Deciding
<1>3. ASSUME NEW r \in Requests, LoadInflight(r) PROVE MetInv'
  BY <1>3 DEF LoadInflight, TypeOK, AloneInv, Others, Deciding
<1>4. ASSUME NEW r \in Requests, NEW limit \in Limits,
             Within(r, limit) \/ Beyond(r, limit)
      PROVE  MetInv'
  BY <1>4 DEF Within, Beyond, TypeOK
<1>5. ASSUME NEW r \in Requests, NEW o \in Outcomes,
             \/ LoadDrop(r) \/ ClearDrop(r) \/ StillCooling(r) \/ StoreDrop(r)
             \/ Enter(r) \/ HandlerEnds(r, o) \/ Release(r)
      PROVE  MetInv'
  BY <1>5 DEF LoadDrop, ClearDrop, StillCooling, StoreDrop, Enter, HandlerEnds,
              Release
<1> QED
  BY <1>1, <1>2, <1>3, <1>4, <1>5 DEF Next, Decide, Finish, Outcomes

\* Requests that decide one at a time are let through by the comparison only
\* while the concurrency is really within the limit (bbr_ratelimiter.go:36,
\* 77-95).
THEOREM SerialBoundCorrect == Spec => SerialBound
<1>1. Init => MetInv
  BY DEF Init, MetInv
<1>2. Counted /\ RaceInv /\ MetInv =>
        [\A r \in Requests, limit \in Limits :
           Within(r, limit) /\ ~overlap => inflight <= limit]_vars
  <2> SUFFICES ASSUME Counted, RaceInv, MetInv, NEW r \in Requests,
                      NEW limit \in Limits, Within(r, limit), ~overlap
               PROVE  inflight <= limit
    OBVIOUS
  <2>1. inflight <= seen[r] + Cardinality(met[r]) /\ seen[r] <= limit
    BY RaceCount DEF Within
  <2>2. Cardinality(met[r]) = 0
    BY FS_EmptySet DEF MetInv
  <2> QED
    BY <2>1, <2>2, LimiterAssumption DEF Counted, TypeOK
<1> QED
  BY <1>1, <1>2, MetStep, AloneAlways, RaceAlways, PTL DEF Spec, SerialBound

-------------------------------------------------------------------------------
(* The cooldown.                                                           *)

\* While requests decide one at a time lastDrop is the latest refusal or empty,
\* empty only once that refusal is out of its cooldown, and the deciding
\* request holds no older value of it.
CooldownInv ==
  ~overlap =>
    /\ dropAt <= clock
    /\ lastDrop \in {None, dropAt}
    /\ dropAt # None /\ clock - dropAt <= Cooldown => lastDrop = dropAt
    /\ \A r \in Requests :
         /\ pc[r] = "cooling" => seenDrop[r] = lastDrop /\ lastDrop # None
         /\ pc[r] = "storeDrop" => dropAt <= stamp[r] /\ stamp[r] <= clock
                                  /\ stamp[r] # None

LEMMA CooldownStep ==
  /\ TypeOK /\ AloneInv /\ CooldownInv
  /\ [Next]_vars
  => CooldownInv'
<1> SUFFICES ASSUME TypeOK, AloneInv, CooldownInv, [Next]_vars PROVE CooldownInv'
  OBVIOUS
<1>0. Cooldown \in Nat
  BY LimiterAssumption
<1> USE <1>0 DEF CooldownInv, Goto, env, regs, races, TypeOK, None
<1>1. CASE UNCHANGED vars \/ Sample
  BY <1>1 DEF vars, Sample
<1>2. CASE Tick
  BY <1>2 DEF Tick
<1>3. ASSUME NEW r \in Requests, ReadCPU(r) PROVE CooldownInv'
  BY <1>3 DEF ReadCPU
<1>4. ASSUME NEW r \in Requests, LoadDrop(r) PROVE CooldownInv'
  BY <1>4 DEF LoadDrop
<1>5. ASSUME NEW r \in Requests, ClearDrop(r) PROVE CooldownInv'
  <2> SUFFICES ASSUME ~overlap' PROVE CooldownInv'
    OBVIOUS
  <2>1. \A q \in Requests \ {r} : pc[q] \notin Deciding
    BY <1>5 DEF ClearDrop, AloneInv, Deciding
  <2>2. \A q \in Requests : pc'[q] \notin {"cooling", "storeDrop"}
    BY <1>5, <2>1 DEF ClearDrop, Deciding
  <2>3. clock - dropAt > Cooldown
    BY <1>5 DEF ClearDrop
  <2> QED
    BY <1>5, <2>2, <2>3 DEF ClearDrop
<1>6. ASSUME NEW r \in Requests, StillCooling(r) PROVE CooldownInv'
  BY <1>6 DEF StillCooling
<1>7. ASSUME NEW r \in Requests, LoadInflight(r) PROVE CooldownInv'
  BY <1>7 DEF LoadInflight
<1>8. ASSUME NEW r \in Requests, NEW limit \in Limits,
             Within(r, limit) \/ Beyond(r, limit)
      PROVE  CooldownInv'
  BY <1>8 DEF Within, Beyond
<1>9. ASSUME NEW r \in Requests, StoreDrop(r) PROVE CooldownInv'
  <2> SUFFICES ASSUME ~overlap' PROVE CooldownInv'
    OBVIOUS
  <2>1. \A q \in Requests \ {r} : pc[q] \notin Deciding
    BY <1>9 DEF StoreDrop, AloneInv, Deciding
  <2>2. \A q \in Requests : pc'[q] \notin {"cooling", "storeDrop"}
    BY <1>9, <2>1 DEF StoreDrop, Deciding
  <2>3. lastDrop' = stamp[r] /\ dropAt' = stamp[r] /\ stamp[r] <= clock
    BY <1>9 DEF StoreDrop
  <2> QED
    BY <1>9, <2>2, <2>3 DEF StoreDrop
<1>10. ASSUME NEW r \in Requests, Enter(r) \/ Release(r) PROVE CooldownInv'
  BY <1>10 DEF Enter, Release
<1>11. ASSUME NEW r \in Requests, NEW o \in Outcomes, HandlerEnds(r, o)
       PROVE  CooldownInv'
  BY <1>11 DEF HandlerEnds
<1> QED
  BY <1>1, <1>2, <1>3, <1>4, <1>5, <1>6, <1>7, <1>8, <1>9, <1>10, <1>11
     DEF Next, Decide, Finish

\* Requests that decide one at a time keep the check on for a whole cooldown
\* after every refusal; only a race can cut it short
\* (bbr_ratelimiter.go:62-73, 90-91).
THEOREM SerialCooldownCorrect == Spec => SerialCooldown
<1>1. Init => CooldownInv
  BY DEF Init, CooldownInv, None
<1>2. TypeOK /\ CooldownInv /\ [Next]_vars => [~overlap => CooldownKept]_vars
  <2> SUFFICES ASSUME TypeOK, CooldownInv, ~overlap, NEW r \in Requests,
                      LoadDrop(r), dropAt # None, clock - dropAt <= Cooldown
               PROVE  pc'[r] # "entering"
    BY DEF CooldownKept
  <2>1. lastDrop # None
    BY DEF CooldownInv
  <2> QED
    BY <2>1 DEF LoadDrop, Goto, TypeOK
<1> QED
  BY <1>1, <1>2, CooldownStep, AloneAlways, PTL DEF Spec, SerialCooldown
===============================================================================
