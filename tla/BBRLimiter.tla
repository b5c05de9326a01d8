------------------------------ MODULE BBRLimiter ------------------------------
(***************************************************************************)
(* The server-side limiter: concurrent requests that go through one        *)
(* bbrRateLimiter, from the interceptor's call of Allow to the return of   *)
(* done.  inflight and lastDrop are atomics that every request reads and   *)
(* writes without a lock, one step for each access.                        *)
(*                                                                         *)
(* What maxInflight computes from its counters is module BBRStats; here it *)
(* answers any member of Limits, each time it is asked.                    *)
(***************************************************************************)
EXTENDS Integers, FiniteSets

CONSTANTS
  Requests,    \* goroutines that serve requests, one request after another
  Limits,      \* what maxInflight can answer, rounded down
  Cooldown,    \* clock ticks in time.Second
  MaxTime      \* bound: the clock stops there

ASSUME LimiterAssumption ==
  /\ IsFiniteSet(Requests)
  /\ Limits \subseteq Nat /\ Limits # {}
  /\ Cooldown \in Nat /\ MaxTime \in Nat

None == -1     \* the nil pointer of lastDrop

VARIABLES
  clock,       \* time.Now()
  hot,         \* cpu() >= CPUThreshold
  inflight,    \* l.inflight
  lastDrop,    \* l.lastDrop: an instant, or None
  pc,          \* where each request is
  seenDrop,    \* the lastDrop the request loaded
  seen,        \* the inflight the request loaded
  stamp,       \* the `now` the request is about to store in lastDrop
  everHot,     \* history: the CPU was at the threshold at some time
  overlap,     \* history: two requests were in Allow at the same time
  met,         \* history: for a request that compares, those that were in Allow
               \* at some time since it loaded inflight
  dropAt       \* history: the latest instant ever stored in lastDrop

regs == <<seenDrop, seen, stamp>>
env == <<clock, hot, everHot>>
races == <<overlap, met>>
vars == <<env, inflight, lastDrop, pc, regs, races, dropAt>>

\* The request is inside Allow.
Deciding == {"loadDrop", "cooling", "loadInflight", "comparing", "storeDrop",
             "entering"}

\* "exited": the goroutine is gone, and its request never reached done.
PCs == Deciding \cup {"idle", "running", "releasing", "dropped", "exited"}

Init ==
  /\ clock = 0
  /\ hot \in BOOLEAN
  /\ everHot = hot
  /\ inflight = 0
  /\ lastDrop = None /\ dropAt = None
  /\ pc = [r \in Requests |-> "idle"]
  /\ seenDrop = [r \in Requests |-> None]
  /\ seen = [r \in Requests |-> 0]
  /\ stamp = [r \in Requests |-> None]
  /\ overlap = FALSE
  /\ met = [r \in Requests |-> {}]

\* The other requests that are inside Allow.
Others(r) == {q \in Requests \ {r} : pc[q] \in Deciding}

Goto(r, l) == pc' = [pc EXCEPT ![r] = l]

-------------------------------------------------------------------------------
(* The environment.                                                        *)

Tick ==
  /\ clock < MaxTime
  /\ clock' = clock + 1
  /\ UNCHANGED <<hot, everHot, inflight, lastDrop, pc, regs, races,
                 dropAt>>

\* collectCPU stores a new sample, or the user's CPU function changes its mind.
Sample ==
  /\ hot' = ~hot
  /\ everHot' = (everHot \/ hot')
  /\ UNCHANGED <<clock, inflight, lastDrop, pc, regs, races, dropAt>>

-------------------------------------------------------------------------------
(* shouldDrop, one step for each shared access.                            *)

\* A request that the Skip option exempts never gets here: the interceptor calls
\* its handler and touches nothing of the limiter.
ReadCPU(r) ==
  /\ pc[r] \in {"idle", "dropped"}
  /\ Goto(r, IF hot THEN "loadInflight" ELSE "loadDrop")
  /\ overlap' = (overlap \/ Others(r) # {})
  /\ met' = [q \in Requests |->
               IF pc[q] = "comparing" THEN met[q] \cup {r} ELSE met[q]]
  /\ UNCHANGED <<env, inflight, lastDrop, regs, dropAt>>

\* Mutant: a nil record does not let the request through.
LoadDropNilChecks(r) ==
  /\ pc[r] = "loadDrop"
  /\ seenDrop' = [seenDrop EXCEPT ![r] = lastDrop]
  /\ Goto(r, IF lastDrop = None THEN "loadInflight" ELSE "cooling")
  /\ UNCHANGED <<env, inflight, lastDrop, seen, stamp, races, dropAt>>

LoadDrop(r) ==
  /\ pc[r] = "loadDrop"
  /\ seenDrop' = [seenDrop EXCEPT ![r] = lastDrop]
  /\ Goto(r, IF lastDrop = None THEN "entering" ELSE "cooling")
  /\ UNCHANGED <<env, inflight, lastDrop, seen, stamp, races, dropAt>>

\* Mutant: `<` for `>`, the record is cleared while it is fresh.
ClearDropEarly(r) ==
  /\ pc[r] = "cooling" /\ clock - seenDrop[r] <= Cooldown
  /\ lastDrop' = None
  /\ seenDrop' = [seenDrop EXCEPT ![r] = None]
  /\ Goto(r, "entering")
  /\ UNCHANGED <<env, inflight, seen, stamp, races, dropAt>>

\* The record the request loaded is older than a second: whatever record is
\* there now is erased.
ClearDrop(r) ==
  /\ pc[r] = "cooling" /\ clock - seenDrop[r] > Cooldown
  /\ lastDrop' = None
  /\ seenDrop' = [seenDrop EXCEPT ![r] = None]
  /\ Goto(r, "entering")
  /\ UNCHANGED <<env, inflight, seen, stamp, races, dropAt>>

\* Mutant: a request within the cooldown is refused, and renews the record.
StillCoolingDrops(r) ==
  /\ pc[r] = "cooling" /\ clock - seenDrop[r] <= Cooldown
  /\ seenDrop' = [seenDrop EXCEPT ![r] = None]
  /\ stamp' = [stamp EXCEPT ![r] = clock]
  /\ Goto(r, "storeDrop")
  /\ UNCHANGED <<env, inflight, lastDrop, seen, races, dropAt>>

StillCooling(r) ==
  /\ pc[r] = "cooling" /\ clock - seenDrop[r] <= Cooldown
  /\ seenDrop' = [seenDrop EXCEPT ![r] = None]
  /\ Goto(r, "loadInflight")
  /\ UNCHANGED <<env, inflight, lastDrop, seen, stamp, races, dropAt>>

LoadInflight(r) ==
  /\ pc[r] = "loadInflight"
  /\ IF inflight <= 1
     THEN Goto(r, "entering") /\ UNCHANGED <<seen, met>>
     ELSE /\ Goto(r, "comparing")
          /\ seen' = [seen EXCEPT ![r] = inflight]
          /\ met' = [met EXCEPT ![r] = Others(r)]
  /\ UNCHANGED <<env, inflight, lastDrop, seenDrop, stamp, overlap, dropAt>>

\* Mutant: one request too many passes.
WithinOffByOne(r, limit) ==
  /\ pc[r] = "comparing" /\ seen[r] <= limit + 1
  /\ seen' = [seen EXCEPT ![r] = 0]
  /\ met' = [met EXCEPT ![r] = {}]
  /\ Goto(r, "entering")
  /\ UNCHANGED <<env, inflight, lastDrop, seenDrop, stamp, overlap, dropAt>>

Within(r, limit) ==
  /\ pc[r] = "comparing" /\ seen[r] <= limit
  /\ seen' = [seen EXCEPT ![r] = 0]
  /\ met' = [met EXCEPT ![r] = {}]
  /\ Goto(r, "entering")
  /\ UNCHANGED <<env, inflight, lastDrop, seenDrop, stamp, overlap, dropAt>>

Beyond(r, limit) ==
  /\ pc[r] = "comparing" /\ seen[r] > limit
  /\ seen' = [seen EXCEPT ![r] = 0]
  /\ met' = [met EXCEPT ![r] = {}]
  /\ stamp' = [stamp EXCEPT ![r] = clock]
  /\ Goto(r, "storeDrop")
  /\ UNCHANGED <<env, inflight, lastDrop, seenDrop, overlap, dropAt>>

\* The request is refused with ErrLimitExceeded.
StoreDrop(r) ==
  /\ pc[r] = "storeDrop"
  /\ lastDrop' = stamp[r]
  /\ dropAt' = IF stamp[r] > dropAt THEN stamp[r] ELSE dropAt
  /\ stamp' = [stamp EXCEPT ![r] = None]
  /\ Goto(r, "dropped")
  /\ UNCHANGED <<env, inflight, seenDrop, seen, races>>

-------------------------------------------------------------------------------
(* The admitted request.                                                   *)

Enter(r) ==
  /\ pc[r] = "entering"
  /\ inflight' = inflight + 1
  /\ Goto(r, "running")
  /\ UNCHANGED <<env, lastDrop, regs, races, dropAt>>

\* How a handler ends; "exit" is runtime.Goexit.
Outcomes == {"ok", "err", "panic", "exit"}

\* Mutant: no recover in the interceptor, a panic leaves without done.
HandlerEndsNoRecover(r, outcome) ==
  /\ pc[r] = "running"
  /\ Goto(r, CASE outcome = "panic" -> "idle"
                [] outcome = "exit" -> "exited"
                [] OTHER -> "releasing")
  /\ UNCHANGED <<env, inflight, lastDrop, regs, races, dropAt>>

\* The interceptor calls done after a return, and after a panic in its deferred
\* function. There recover() answers nil to a Goexit: the goroutine ends and
\* its slot is never released.
HandlerEnds(r, outcome) ==
  /\ pc[r] = "running"
  /\ Goto(r, IF outcome = "exit" THEN "exited" ELSE "releasing")
  /\ UNCHANGED <<env, inflight, lastDrop, regs, races, dropAt>>

\* Mutant: done can run again for the same request.
ReleaseTwice(r) ==
  /\ pc[r] = "releasing"
  /\ inflight' = inflight - 1
  /\ UNCHANGED <<env, lastDrop, pc, regs, races, dropAt>>

\* The deferred decrement of done.
Release(r) ==
  /\ pc[r] = "releasing"
  /\ inflight' = inflight - 1
  /\ Goto(r, "idle")
  /\ UNCHANGED <<env, lastDrop, regs, races, dropAt>>

-------------------------------------------------------------------------------
Decide(r) ==
  \/ LoadDrop(r)
  \/ ClearDrop(r)
  \/ StillCooling(r)
  \/ LoadInflight(r)
  \/ \E limit \in Limits : Within(r, limit) \/ Beyond(r, limit)
  \/ StoreDrop(r)
  \/ Enter(r)

Finish(r) ==
  \/ \E outcome \in Outcomes : HandlerEnds(r, outcome)
  \/ Release(r)

Next ==
  \/ Tick
  \/ Sample
  \/ \E r \in Requests : ReadCPU(r) \/ Decide(r) \/ Finish(r)

Spec == Init /\ [][Next]_vars

\* Goroutines are scheduled, handlers return in the end, and clients keep
\* sending requests.
Fairness ==
  \A r \in Requests :
    WF_vars(ReadCPU(r)) /\ WF_vars(Decide(r)) /\ WF_vars(Finish(r))

FairSpec == Spec /\ Fairness

-------------------------------------------------------------------------------
\* Goroutines that a handler's Goexit ended.
Exited == {r \in Requests : pc[r] = "exited"}

\* Requests whose slot is taken: those between Allow and the end of done, and the
\* exited ones.
Holding == {r \in Requests : pc[r] \in {"running", "releasing"}} \cup Exited

\* The old record while its age is tested, the loaded inflight and the requests
\* met while it compares, the instant of the refusal until it is stored.
RegistersFit(r) ==
  /\ seenDrop[r] # None <=> pc[r] = "cooling"
  /\ seen[r] > 1 <=> pc[r] = "comparing"
  /\ pc[r] # "comparing" => seen[r] = 0 /\ met[r] = {}
  /\ stamp[r] # None <=> pc[r] = "storeDrop"

\* Every variable has its type, and a request's registers are set exactly
\* while it needs them (bbr_ratelimiter.go:57-98).
TypeOK ==
  /\ clock \in Nat
  /\ hot \in BOOLEAN /\ everHot \in BOOLEAN /\ overlap \in BOOLEAN
  /\ inflight \in Nat
  /\ lastDrop \in Nat \cup {None} /\ dropAt \in Nat \cup {None}
  /\ pc \in [Requests -> PCs]
  /\ seenDrop \in [Requests -> Nat \cup {None}]
  /\ seen \in [Requests -> Nat]
  /\ met \in [Requests -> SUBSET Requests]
  /\ stamp \in [Requests -> Nat \cup {None}]
  /\ \A r \in Requests : RegistersFit(r)

\* inflight is the number of requests between Allow and the end of done, after
\* returns, errors and panics alike, and of the handlers that ended by Goexit,
\* each of which keeps one slot for ever: no other path leaks a slot, and none
\* frees one twice (bbr_ratelimiter.go:13, 36, 42; interceptors.go:30-37).
InflightExact == inflight = Cardinality(Holding)

\* While the CPU has never reached the threshold no request is refused,
\* however many run (bbr_ratelimiter.go:60-66).
HealthyNeverDrops ==
  (\E r \in Requests : pc[r] = "dropped") \/ lastDrop # None => everHot

\* A request that passes the comparison finds no more in flight than the limit
\* and the requests it met.
RaceGain ==
  \A r \in Requests, limit \in Limits :
    Within(r, limit) => inflight <= limit + Cardinality(met[r])

\* What the comparison allows: a request that passes it finds the concurrency
\* above the limit by no more than the requests it met inside Allow since it
\* loaded inflight, however those and the releases were interleaved. The
\* read of inflight, the computed limit and the increment are not one atomic
\* step, and this is all that a race can gain (bbr_ratelimiter.go:36 and 77-95).
RaceBound == [][RaceGain]_vars

\* In particular, as long as requests decide one at a time, one that the
\* comparison lets through finds the concurrency really within the limit, so it
\* becomes at most one more than that (bbr_ratelimiter.go:36 and 77-95).
SerialBound ==
  [][\A r \in Requests, limit \in Limits :
       Within(r, limit) /\ ~overlap => inflight <= limit]_vars

\* A request that decides without the limit check does so after the cooldown.
CooldownKept ==
  \A r \in Requests :
    LoadDrop(r) /\ dropAt # None /\ clock - dropAt <= Cooldown
    => pc'[r] # "entering"

\* As long as requests decide one at a time, a refusal keeps the check on for
\* the whole second that follows it (bbr_ratelimiter.go:62-73 and 90-91).
SerialCooldown == [][~overlap => CooldownKept]_vars

\* As long as at most one handler has ended by Goexit, the limiter never wedges:
\* requests are admitted again and again, even if the CPU stays hot, the limit is
\* 0, or a cooldown never ends, because every other end releases its slot and a
\* request that finds at most one slot taken passes any limit. A second leak is
\* what a limit of 0 or 1 does not survive
\* (bbr_ratelimiter.go:36-42, 67-95; interceptors.go:30-37).
NeverWedges ==
  []<>(Cardinality(Exited) > 1 \/ \E r \in Requests : pc[r] = "running")

\* Claim of bbr_ratelimiter.go:73: once a request was dropped the check goes on
\* for at least a second, so no request finds lastDrop empty within it.
CooldownHolds == [][CooldownKept]_vars
===============================================================================
