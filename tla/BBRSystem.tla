------------------------------- MODULE BBRSystem -------------------------------
(***************************************************************************)
(* The limiter as a whole: the requests of BBRLimiter decide by what       *)
(* maxInflight computes from the counters of BBRStats, and feed these      *)
(* counters when they are done.  Every step is a step of one of the two    *)
(* components, or of both at once; the components share the clock.         *)
(***************************************************************************)
EXTENDS BucketRing, FiniteSets

CONSTANTS
  Requests,    \* goroutines that serve requests, one request after another
  Cooldown,    \* clock ticks in time.Second
  Answers,     \* what maxInflight can answer; in a run a finite set
  MaxTime,     \* bound: the clock stops there
  MaxFinishes  \* bound: requests that finish without an error

ASSUME SystemAssumption ==
  /\ IsFiniteSet(Requests)
  /\ Answers \subseteq Nat /\ Answers # {}
  /\ Cooldown \in Nat /\ MaxTime \in Nat /\ MaxFinishes \in Nat

VARIABLES
  clock,
  hot, everHot, inflight, lastDrop, pc, seenDrop, seen, stamp,
  overlap, met, dropAt,                       \* of BBRLimiter
  passStat, rtStat, call, work, maxPass, limit, finished, statOverlap,
                                              \* of BBRStats
  start,       \* startTime of each admitted request
  asked        \* requests whose comparison has called maxInflight

Limiter == INSTANCE BBRLimiter WITH Limits <- Answers

Stats == INSTANCE BBRStats WITH Workers <- Requests, RTs <- 0 .. MaxTime,
                                pc <- call, overlap <- statOverlap

limiterVars == <<hot, everHot, inflight, lastDrop, pc, seenDrop, seen,
                 stamp, overlap, met, dropAt>>
statsVars == <<passStat, rtStat, call, work, maxPass, limit, finished,
               statOverlap>>
vars == <<clock, limiterVars, statsVars, start, asked>>

\* What a step of only one component leaves alone.
LimiterOnly == UNCHANGED statsVars
StatsOnly == UNCHANGED <<limiterVars, start, asked>>

Init ==
  /\ Limiter!Init /\ Stats!Init
  /\ start = [r \in Requests |-> 0]
  /\ asked = {}

-------------------------------------------------------------------------------
Tick == Limiter!Tick /\ Stats!Tick /\ UNCHANGED <<start, asked>>

Sample == Limiter!Sample /\ LimiterOnly /\ UNCHANGED <<start, asked>>

\* The steps of shouldDrop that do not involve the counters.
Check(r) ==
  /\ \/ Limiter!ReadCPU(r)
     \/ Limiter!LoadDrop(r)
     \/ Limiter!ClearDrop(r)
     \/ Limiter!StillCooling(r)
     \/ Limiter!LoadInflight(r)
     \/ Limiter!StoreDrop(r)
  /\ LimiterOnly
  /\ UNCHANGED <<start, asked>>

\* With more than one request in flight maxInflight is called, which reads the
\* clock.
Ask(r) ==
  /\ pc[r] = "comparing" /\ r \notin asked
  /\ asked' = asked \cup {r}
  /\ Stats!Ask(r)
  /\ UNCHANGED <<limiterVars, start>>

ReadMax(r) == Stats!ReadMax(r) /\ StatsOnly

ReadMin(r) == Stats!ReadMin(r) /\ StatsOnly

\* Mutant: the comparison does not wait for maxInflight, but uses its last answer.
CompareCached(r) ==
  /\ r \in asked
  /\ Limiter!Within(r, limit[r]) \/ Limiter!Beyond(r, limit[r])
  /\ asked' = asked \ {r}
  /\ LimiterOnly
  /\ UNCHANGED start

\* maxInflight has returned.
Compare(r) ==
  /\ r \in asked /\ call[r] = "idle"
  /\ Limiter!Within(r, limit[r]) \/ Limiter!Beyond(r, limit[r])
  /\ asked' = asked \ {r}
  /\ LimiterOnly
  /\ UNCHANGED start

Enter(r) ==
  /\ Limiter!Enter(r)
  /\ start' = [start EXCEPT ![r] = clock]
  /\ LimiterOnly
  /\ UNCHANGED asked

\* done: only a request without an error is recorded. A handler that ends by
\* Goexit never gets there.
HandlerEnds(r, outcome) ==
  /\ Limiter!HandlerEnds(r, outcome)
  /\ IF outcome = "ok" THEN Stats!Finish(r, clock - start[r]) ELSE LimiterOnly
  /\ start' = [start EXCEPT ![r] = 0]
  /\ UNCHANGED asked

PassAdd(r) == Stats!PassAdd(r) /\ StatsOnly

RtAdd(r) == Stats!RtAdd(r) /\ StatsOnly

\* Mutant: inflight is decremented before the counters are updated.
ReleaseFirst(r) ==
  /\ Limiter!Release(r)
  /\ LimiterOnly
  /\ UNCHANGED <<start, asked>>

\* The deferred decrement follows the updates of both counters.
Release(r) ==
  /\ call[r] = "idle"
  /\ Limiter!Release(r)
  /\ LimiterOnly
  /\ UNCHANGED <<start, asked>>

Decide(r) ==
  \/ Check(r)
  \/ Ask(r) \/ ReadMax(r) \/ ReadMin(r) \/ Compare(r)
  \/ Enter(r)

Finish(r) ==
  \/ \E outcome \in Limiter!Outcomes : HandlerEnds(r, outcome)
  \/ PassAdd(r) \/ RtAdd(r)
  \/ Release(r)

Next == Tick \/ Sample \/ \E r \in Requests : Decide(r) \/ Finish(r)

Spec == Init /\ [][Next]_vars

-------------------------------------------------------------------------------
Recorded(counter) == {m.id : m \in counter.made}

\* Every variable has its type, and the components are in step: the counters are
\* read only for a request that compares, and written only by one that still
\* holds its slot (bbr_ratelimiter.go:40-53, 85-97).
TypeOK ==
  /\ Limiter!TypeOK
  /\ Stats!TypeOK
  /\ start \in [Requests -> 0 .. clock]
  /\ asked \subseteq {r \in Requests : pc[r] = "comparing"}
  /\ \A r \in Requests :
       /\ call[r] \in {"readMax", "readMin"} => r \in asked
       /\ call[r] \in {"passAdd", "rtAdd"} => pc[r] = "releasing"

\* Requests that ended without an error and are not in rtStat.
Lagging == (1 .. finished) \ Recorded(rtStat)

\* How far the counters can be behind and apart, and so what maxInflight, which
\* reads one after the other, can mix: a response time is recorded only for a
\* request that is counted already, and those that are not in both counters are
\* never more than the slots taken and not leaked. In particular, once only
\* leaked slots are left, both counters have every request that ended without
\* an error (bbr_ratelimiter.go:41-52: the decrement is deferred to after both
\* Adds, and the pass is added first).
CountersLag ==
  /\ Recorded(rtStat) \subseteq Recorded(passStat)
  /\ Recorded(passStat) \subseteq 1 .. finished
  /\ Cardinality(Lagging) + Cardinality(Limiter!Exited) <= inflight
===============================================================================
