---------------------------- MODULE CircuitBreaker ----------------------------
(***************************************************************************)
(* The client-side SRE breaker: concurrent calls that share the            *)
(* sreCircuitBreaker of one interceptor, and its rolling counter.  Every   *)
(* interceptor makes a breaker of its own, so its calls are all unary or   *)
(* all streams.                                                            *)
(*                                                                         *)
(* A bucket is the set of marks it counts: its `requests` field is the     *)
(* number of those marks and its `accepts` field the number of the         *)
(* successful ones.  Add reads the clock twice under the mutex (once in    *)
(* rotate, once for the index), so it is two steps that hold `mu`;         *)
(* Summary reads it once and is one step.                                  *)
(***************************************************************************)
EXTENDS BucketRing, FiniteSets, RpcOutcome

CONSTANTS
  Calls,       \* goroutines that make calls through the interceptor
  KNum, KDen,  \* the throttling factor K = KNum / KDen (option.go)
  MaxTime,     \* bound: the clock stops there
  MaxCalls     \* bound: no new call once this many were admitted

ASSUME BreakerAssumption ==
  /\ KNum \in Nat \ {0} /\ KDen \in Nat \ {0}
  /\ MaxTime \in Nat /\ MaxCalls \in Nat
  /\ IsFiniteSet(Calls)

VARIABLES
  kind,        \* "unary" or "stream": which of the two interceptors this is
  clock,       \* time.Now()
  mu,          \* window.mu: {} when free, {c} when goroutine c holds it
  buckets,     \* window.buckets: the marks counted in each slot
  lastUpdate,  \* window.lastUpdate
  pc,          \* where each goroutine is
  seen,        \* the marks summed by the goroutine's last Summary
  verdict,     \* TRUE: MarkSuccess is being called, FALSE: MarkFailure
  marked,      \* wrappedClientStream.markOnce has fired
  made,        \* history: every mark ever stored
  admitted,    \* history: calls that Allow let through
  unmarked     \* history: admitted calls that ended without a mark

vars == <<kind, clock, mu, buckets, lastUpdate, pc, seen, verdict, marked,
          made, admitted, unmarked>>

window == <<mu, buckets, lastUpdate, made>>

Mark == [id : Nat, at : Nat, rot : Nat, ok : BOOLEAN]

PCs == {"idle", "deciding", "rejected", "invoking", "streaming", "marking",
        "storing"}

-------------------------------------------------------------------------------
(* The drop probability of a Summary S is                                  *)
(* (requests - K * accepts) / (requests + 1).                              *)

Requests(S) == Cardinality(S)
Accepts(S) == Cardinality({m \in S : m.ok})

DropWeight(S) == KDen * Requests(S) - KNum * Accepts(S)

\* Mutant: the divisor is `requests`, so the probability reaches 1.
MayPassNoPlusOne(S) ==
  DropWeight(S) <= 0 \/ DropWeight(S) < KDen * Requests(S)

\* p <= 0, or the draw Float64() in [0, 1) can be at least p.
MayPass(S) == DropWeight(S) <= 0 \/ DropWeight(S) < KDen * (Requests(S) + 1)

\* Mutant: a call may be dropped when p = 0.
MayDropAtZero(S) == DropWeight(S) >= 0 /\ S # {}

\* p > 0, and the draw can be below p.
MayDrop(S) == DropWeight(S) > 0

-------------------------------------------------------------------------------
Init ==
  /\ kind \in {"unary", "stream"}
  /\ clock \in 0 .. BucketDur - 1
  /\ mu = {}
  /\ buckets = [s \in Slot |-> {}]
  /\ lastUpdate = clock
  /\ pc = [c \in Calls |-> "idle"]
  /\ seen = [c \in Calls |-> {}]
  /\ verdict = [c \in Calls |-> FALSE]
  /\ marked = [c \in Calls |-> FALSE]
  /\ made = {}
  /\ admitted = 0
  /\ unmarked = 0

Tick ==
  /\ clock < MaxTime
  /\ clock' = clock + 1
  /\ UNCHANGED <<kind, mu, buckets, lastUpdate, pc, seen, verdict, marked,
                 made, admitted, unmarked>>

\* Allow, first half: Summary rotates under the lock and adds up the buckets.
Summary(c) ==
  /\ pc[c] \in {"idle", "rejected"}
  /\ admitted < MaxCalls
  /\ mu = {}
  /\ buckets' = Rotate(buckets, lastUpdate, clock, {})
  /\ lastUpdate' = NewLastUpdate(lastUpdate, clock)
  /\ seen' = [seen EXCEPT ![c] = UNION {buckets'[s] : s \in Slot}]
  /\ pc' = [pc EXCEPT ![c] = "deciding"]
  /\ UNCHANGED <<kind, clock, mu, verdict, marked, made, admitted, unmarked>>

\* Allow, second half, on the sums read before: the lock is free by now.
Admit(c) ==
  /\ pc[c] = "deciding"
  /\ MayPass(seen[c])
  /\ pc' = [pc EXCEPT ![c] = "invoking"]
  /\ seen' = [seen EXCEPT ![c] = {}]
  /\ admitted' = admitted + 1
  /\ UNCHANGED <<kind, clock, window, verdict, marked, unmarked>>

\* The call returns ErrCircuitBreakerOpen; nothing is recorded.
Reject(c) ==
  /\ pc[c] = "deciding"
  /\ MayDrop(seen[c])
  /\ pc' = [pc EXCEPT ![c] = "rejected"]
  /\ seen' = [seen EXCEPT ![c] = {}]
  /\ UNCHANGED <<kind, clock, window, verdict, marked, admitted, unmarked>>

BeginMark(c, ok) ==
  /\ pc' = [pc EXCEPT ![c] = "marking"]
  /\ verdict' = [verdict EXCEPT ![c] = ok]

\* The invoker of a unary call, or the streamer of a stream, has answered.
UnaryReturn(c, err) ==
  /\ kind = "unary" /\ pc[c] = "invoking"
  /\ BeginMark(c, CountsAsSuccess(err))
  /\ UNCHANGED <<kind, clock, window, seen, marked, admitted, unmarked>>

StreamFail(c, err) ==
  /\ kind = "stream" /\ pc[c] = "invoking"
  /\ BeginMark(c, CountsAsSuccess(err))
  /\ UNCHANGED <<kind, clock, window, seen, marked, admitted, unmarked>>

StreamOpen(c) ==
  /\ kind = "stream" /\ pc[c] = "invoking"
  /\ pc' = [pc EXCEPT ![c] = "streaming"]
  /\ marked' = [marked EXCEPT ![c] = FALSE]
  /\ UNCHANGED <<kind, clock, window, seen, verdict, admitted, unmarked>>

\* Mutant: markOnce is missing, every error of RecvMsg is marked.
RecvErrorEveryTime(c, err) ==
  /\ pc[c] = "streaming"
  /\ BeginMark(c, CountsAsSuccess(err))
  /\ marked' = [marked EXCEPT ![c] = TRUE]
  /\ UNCHANGED <<kind, clock, window, seen, admitted, unmarked>>

\* RecvMsg returned an error, io.EOF included: the first one of a stream is
\* marked, later ones are not.  A nil error changes nothing.
RecvError(c, err) ==
  /\ pc[c] = "streaming" /\ ~marked[c]
  /\ BeginMark(c, CountsAsSuccess(err))
  /\ marked' = [marked EXCEPT ![c] = TRUE]
  /\ UNCHANGED <<kind, clock, window, seen, admitted, unmarked>>

\* The application stops reading a stream, or the invoker panics through the
\* interceptor, which has no defer: the call ends and is not marked.
Abandon(c) ==
  /\ \/ pc[c] = "streaming"
     \/ pc[c] = "invoking"
  /\ pc' = [pc EXCEPT ![c] = "idle"]
  /\ unmarked' = IF marked[c] THEN unmarked ELSE unmarked + 1
  /\ marked' = [marked EXCEPT ![c] = FALSE]
  /\ UNCHANGED <<kind, clock, window, seen, verdict, admitted>>

\* Add, first half: the lock is taken and the expired buckets are cleared.
AddRotate(c) ==
  /\ pc[c] = "marking"
  /\ mu = {}
  /\ mu' = {c}
  /\ buckets' = Rotate(buckets, lastUpdate, clock, {})
  /\ lastUpdate' = NewLastUpdate(lastUpdate, clock)
  /\ pc' = [pc EXCEPT ![c] = "storing"]
  /\ UNCHANGED <<kind, clock, seen, verdict, marked, made, admitted, unmarked>>

NewMark(c) == [id |-> Cardinality(made) + 1, at |-> clock, rot |-> lastUpdate,
               ok |-> verdict[c]]

StoreMark(c) ==
  buckets' = [buckets EXCEPT ![IndexAt(clock)] = @ \cup {NewMark(c)}]

\* Mutant: Add returns without releasing the lock.
AddStoreKeepsLock(c) ==
  /\ pc[c] = "storing"
  /\ StoreMark(c)
  /\ made' = made \cup {NewMark(c)}
  /\ pc' = [pc EXCEPT ![c] = IF marked[c] THEN "streaming" ELSE "idle"]
  /\ verdict' = [verdict EXCEPT ![c] = FALSE]
  /\ UNCHANGED <<kind, clock, mu, lastUpdate, seen, marked, admitted, unmarked>>

\* Add, second half: the index is taken from a later reading of the clock.
\* A stream whose RecvMsg was marked is still open to its application.
AddStore(c) ==
  /\ pc[c] = "storing"
  /\ StoreMark(c)
  /\ made' = made \cup {NewMark(c)}
  /\ mu' = {}
  /\ pc' = [pc EXCEPT ![c] = IF marked[c] THEN "streaming" ELSE "idle"]
  /\ verdict' = [verdict EXCEPT ![c] = FALSE]
  /\ UNCHANGED <<kind, clock, lastUpdate, seen, marked, admitted, unmarked>>

\* The bounded run is over: the last call has ended.
Rest ==
  /\ admitted >= MaxCalls
  /\ \A c \in Calls : pc[c] \in {"idle", "rejected"}
  /\ UNCHANGED vars

Next ==
  \/ Tick
  \/ \E c \in Calls :
       \/ Summary(c)
       \/ Admit(c)
       \/ Reject(c)
       \/ \E err \in Errors \cup {"nil"} : UnaryReturn(c, err)
       \/ \E err \in Errors : StreamFail(c, err)
       \/ StreamOpen(c)
       \/ \E err \in Errors \cup {"EOF"} : RecvError(c, err)
       \/ Abandon(c)
       \/ AddRotate(c)
       \/ AddStore(c)
  \/ Rest

Spec == Init /\ [][Next]_vars

\* A runnable goroutine runs, and Go's mutex hands the lock to a waiter that
\* has starved: strong fairness of taking it, weak fairness of what follows.
Fairness == \A c \in Calls : SF_vars(AddRotate(c)) /\ WF_vars(AddStore(c))

FairSpec == Spec /\ Fairness

-------------------------------------------------------------------------------
\* Every variable has its type, and the lock is held exactly by the goroutine
\* between the two halves of Add (rolling_counter.go:35-36).
TypeOK ==
  /\ kind \in {"unary", "stream"}
  /\ clock \in Nat
  /\ buckets \in [Slot -> SUBSET made]
  /\ lastUpdate \in Nat /\ lastUpdate <= clock
  /\ pc \in [Calls -> PCs]
  /\ seen \in [Calls -> SUBSET made]
  /\ verdict \in [Calls -> BOOLEAN]
  /\ marked \in [Calls -> BOOLEAN]
  /\ made \in SUBSET Mark
  /\ admitted \in Nat
  /\ unmarked \in Nat
  /\ \A c \in Calls : pc[c] = "storing" <=> mu = {c}
  /\ mu = {} \/ \E c \in Calls : mu = {c}

\* A call that was admitted and has not yet been counted.
Pending(c) ==
  \/ pc[c] \in {"invoking", "marking", "storing"}
  \/ pc[c] = "streaming" /\ ~marked[c]

\* Every admitted call is counted at most once, whichever way it ends: a mark,
\* a panic or an abandoned stream, or still on its way (interceptors.go).
CountedOnce ==
  admitted = Cardinality(made) + unmarked
             + Cardinality({c \in Calls : Pending(c)})

\* The breaker drops a call only when some call was marked as failed: with
\* K >= 1 a backend that has never failed is never throttled
\* (sre_circuitbreaker.go:31-43).
DropNeedsFailure ==
  KNum >= KDen =>
    \A c \in Calls : pc[c] = "rejected" => \E m \in made : ~m.ok

\* The breaker can always recover. However bad the window looks a probe can get
\* through: it reads its recovery only from admitted calls, so p = 1 would keep
\* it open. And once a window has gone by without a rotation, the next call is
\* let through whatever was marked before (sre_circuitbreaker.go:31-43,
\* rolling_counter.go:60-82).
CanRecover ==
  [][\A c \in Calls :
       Summary(c) =>
         /\ MayPass(seen'[c])
         /\ clock - lastUpdate >= Window => ~MayDrop(seen'[c])]_vars

\* A mark stored in a slot that the ring has already rotated into is counted
\* until the ring comes round to that slot again (rolling_counter.go:34-43
\* and 60-82).  Marks stored ahead of the rotation are exempt:
\* the next rotation can clear the slot it has not reached yet.
RotatedMarkRetained ==
  \A m \in made :
    /\ Epoch(m.at) <= Epoch(m.rot)
    /\ lastUpdate < (Epoch(m.at) + NumBuckets) * BucketDur
    => m \in buckets[IndexAt(m.at)]

\* Once a verdict is reached the call is counted, whatever other goroutines
\* do with the lock (rolling_counter.go:34-43).
MarkLands ==
  \A c \in Calls : pc[c] = "marking" ~> pc[c] \in {"idle", "streaming"}

\* Claim of option.go:26 ("the statistics time window"): a Summary adds up no
\* mark older than the window.
NoStaleEvidence ==
  [][\A c \in Calls :
       Summary(c) => \A m \in seen'[c] : clock - m.at <= Window]_vars
===============================================================================
