# TLA+ models of grpc-middleware

The repository is a library of gRPC interceptors in Go. This directory models
the parts of it that keep state or whose order of steps matters, checks them
with TLC on small instances, and proves what matters most with TLAPS for every
value of the constants. `PROJECT.json` lists components, runs, mutants, the map
from definitions to source lines, findings, hazards and theorems.

## 1. Inventory

### Client side

| component | state | operations | hard behaviours | correct when |
|---|---|---|---|---|
| `circuitbreaker` | per interceptor one `sreCircuitBreaker`: K, a random source behind a mutex, and a rolling counter (`buckets` of requests / accepts, `lastUpdate`, a mutex) | `Allow` (Summary, then a draw), `MarkSuccess`, `MarkFailure` (Add), stream wrapper's `RecvMsg` with `markOnce` | calls of many goroutines interleave; `Allow` decides on sums already released; `Add` reads the clock twice; rotation from an unaligned instant; streams that are abandoned, invokers that panic | each admitted call counts at most once; no drop without a failure; a probe can always pass, and silence is forgotten; marks stay for the window and no longer |
| `retry` | per call: loop counter, last error, back-off timer, per-call context; per stream the cancel function in the wrapper | unary and stream loop, `sleepWithContext`, stream wrapper's `CloseSend`, `RecvMsg` | the context ends at any moment, also together with the back-off timer; a stream outlives the loop with its context; the invoker may panic | attempts bounded; an answer is never hidden; stops when the context is done; every per-call context is released, none while the stream is in use |
| `timeout` | per call: a derived context | derive, invoke, cancel | races a late answer | every call returns |
| `context`, `accesslog`, `errorlog`, `slowlog` (client half) | none that is shared, except pools of slices | pass a new context down; call on, then log | the order is the user's: inside retry they run once for each attempt, of a stream they see the opening only | the context reaches every attempt; a log outside retry tells what the application gets |

### Server side

| component | state | operations | hard behaviours | correct when |
|---|---|---|---|---|
| `ratelimiter` | per interceptor one `bbrRateLimiter` (unless the user supplies one): atomics `inflight` and `lastDrop`, two rolling counters `passStat` (sums) and `rtStat` (minima), each with its mutex; package-wide: the CPU sample | `Allow` (shouldDrop), `done`, `maxInflight`; `Add`, `Max`, `Min`; `collectCPU` | check-then-act on atomics without a lock; `now` read before a lock is waited for; two counters updated one after the other; handlers that panic or end their goroutine | inflight is exact but for the slots Goexit leaks; a cool CPU refuses nothing; the limit and the cooldown hold; no request starves |
| `recovery` | none | turns an unwinding panic into what `HandlerFunc` returns | any position in the chain; a `HandlerFunc` that returns any error or nil, or panics | a panic inside it never leaves it, unless `HandlerFunc` panics |
| `accesslog`, `errorlog`, `slowlog` | pools of slices | log after the handler | panics pass accesslog and errorlog by, slowlog has a `defer` | every request logged, with the status the client gets |
| `unifiederror` | none | turns any error into a gRPC status | errors of package context, bare or wrapped, panic errors, errors whose `GRPCStatus` is nil | no failure is swallowed |
| `auth` | a wrapped stream | authenticates, passes a new context down | refusal or panic inside the chain; a wrapped stream is changed in place, for all who hold it | the context reaches the handler |
| `context` | none | passes a new context down | streams need a wrapper | the context reaches the handler |

### How the components interact

Interceptors are nested calls: each calls the next one and sees its return value
or its panic. On the server that is a stack that a request goes down and a
return, a panic or the exit of the goroutine goes up (`ServerChain`). On the
client the same stack is climbed down again for every attempt of retry
(`ClientChain`); the README nests breaker around timeout around retry
(`src/README.md:85-95`), but any order can be built. Within it, the context that
timeout derives is what the retry loop waits on, and what the loop returns is what
the breaker marks (`RetryStack` looks at these three step by step).

Concurrent calls meet in shared state at two places only: the breaker's rolling
counter (`CircuitBreaker`), and the limiter's atomics and counters (`BBRLimiter`,
`BBRStats`, and both together in `BBRSystem`). Every call of a constructor makes
a breaker or a limiter of its own, so unary and streaming calls share neither
(unless the user hands both the same limiter, which is then not this one).

## 2. Modules and how they correspond to the code

| module | models |
|---|---|
| `BucketRing` | the arithmetic of both rolling counters: slot of an instant, when a rotation is due, which slots it clears. Time is a number of clock ticks, a bucket is `BucketDur` of them. |
| `RpcOutcome` | the outcomes of an RPC and the verdicts `CountsAsSuccess` (breaker) and `Retryable` (retry). |
| `CircuitBreaker` | the breaker and the two client interceptors under concurrent calls. `kind` says which of the two interceptors owns this breaker. Actions: `Summary`, `Admit`/`Reject` (the two halves of `Allow`), `UnaryReturn`, `StreamFail`, `StreamOpen`, `RecvError`, `Abandon`, `AddRotate`/`AddStore` (the two clock readings of `Add`, under the lock `mu`), `Tick`. |
| `BBRLimiter` | `Allow`, `shouldDrop` and `done`, one action for each access of `inflight` or `lastDrop`. `maxInflight` is a choice from `Limits`, the CPU is the Boolean `hot`. A request that `Skip` exempts touches none of this state and has no action. A handler returns, fails, panics or ends by `runtime.Goexit` (`Outcomes`); the last leaves its request in `exited` for good, with its slot. |
| `BBRStats` | the two counters of the limiter and `maxInflight`: `Finish`, `PassAdd`, `RtAdd` for `done`; `Ask`, `ReadMax`, `ReadMin` for `maxInflight`. A tick is one millisecond. |
| `BBRSystem` | the limiter as a whole: instances of the two modules above over one clock. A request that compares calls its own `maxInflight`: `Ask` (its reading of the clock), `ReadMax`, `ReadMin`, then `Compare` with the answer; a handler that ends well records the time since its `Enter`; `Release` follows both `Add`s. |
| `RetryPromise` | the abstract specification of both retry interceptors: attempts one after the other, each after an answer worth repeating, `1 + MaxRetries` at most, then the last answer or `Canceled`. |
| `RetryStack` | one unary call or one stream through breaker, timeout and retry, over a transport that answers anything or nothing: the loop, the back-off timer, the per-call context, and for streams retry's wrapper (`CloseSendCancels`, `HalfClose`, `RecvError`). The invoker may also panic (`InvokerPanics`), past the `cancel()` that is not deferred. It implements `RetryPromise`. |
| `ClientChain` | one call through any order of the seven client interceptors, down to the transport, up again, and down again from retry; each interceptor has an action for the way down and one for the way up. Wherever retry stands, it implements `RetryPromise`. |
| `ServerChain` | one request through any order of server interceptors; `pos` is the stack depth and `mode` says whether the request goes down, a return goes up, a panic unwinds or the goroutine exits. `auth` may be there more than once. The handler, `authFunc` and recovery's `HandlerFunc` return any of the kinds of error in `UserErrors`, panic, or end the goroutine; `cause` and `causeAt` remember who answered and what. |
| `*_proofs` | theorems, see section 5. |
| `MC*` | symmetry sets and sets of chains for the runs. |

Choices that hold everywhere:

- A bucket is the *set of marks* (or samples) it counts, each with the instant it
  was made at (`at`) and the value of `lastUpdate` it was stored under (`rot`).
  `requests`, `accepts`, the pass count and the least response time are computed
  from the set, so nothing is lost, and the properties can speak of single marks.
- `Summary`, `Max`, `Min` and the limiter's `Add` hold the lock from their only
  use of the clock to their end, so each is one step. The breaker's `Add` reads
  the clock a second time for the index, so it is two.
- Floating point is left out: `K` is `KNum / KDen`, the drop probability is
  compared by cross-multiplication, `maxInflight` is rounded down (it is only
  compared with an integer).
- A random draw `Float64() >= p` is a choice whose outcomes are those with a
  draw in [0, 1).
- A context is its state: live, expired or cancelled. The end of a context
  reaches those derived from it in the same step. Deadlines and delays have no
  length: a timer fires at any moment.
- In the two chains an interceptor is a name, and the code between its call of
  the next one and its return is one step, since a call has only one goroutine.
- Operators whose comment starts with "Mutant" are the code with a plausible
  bug; no specification uses them. They show that the properties can fail.

## 3. Runs

| run | shows | bounds and why they are enough |
|---|---|---|
| `breaker_calls` | `CountedOnce`, `DropNeedsFailure`, `CanRecover`, `RotatedMarkRetained`, and under fairness `MarkLands` | two goroutines (all races for one lock are pairwise), 3 buckets of 2 ticks and 6 ticks of time: every phase of the clock within a bucket, rotations by one, two and three buckets, and the ring coming round once; 2 admitted calls, so that one can be marked while the other decides; K = 1, where one failure is enough to drop. For more calls there are the proofs |
| `breaker_stale` | finding on the rotation | one goroutine, 12 ticks |
| `limiter_requests` | `InflightExact`, `HealthyNeverDrops`, `RaceBound`, `SerialCooldown`, and under fairness `NeverWedges` | 4 requests: one that compares meets up to three others, and only with four can a race get above a limit (the floor of one lets two in anyway). A limit of 0 refuses whatever gets to the comparison, one of 2 is what two requests in flight are at and three beyond; a cooldown that ends with the tick after the refusal, and one tick, so a record is fresh or old. Any request may end by Goexit at any time, so up to all four slots are leaked |
| `limiter_cooldown` | finding on `lastDrop` | 4 requests: two in flight, one refused, one that erases |
| `limiter_whole` | `TypeOK` (the two halves are in step) and `CountersLag` | 3 requests, so that one decides while two are in flight, one of which may have leaked its slot; 2 requests that end well, so that one can read the counters between the other's two `Add`s; 2 buckets of a tick and one tick of time, so a counter rotates once; then `maxInflight` is 0, 1 or 2 (`Answers`) |
| `stats_safety` | `SamplesRetained`, `SerialAgreement`, `SilenceForgets` | 2 goroutines, so a `now` can become stale while the other rotates; 2 buckets of 2 ticks, 6 ticks: more than a window of silence |
| `stats_fallback` | finding on `Min` | one goroutine is enough |
| `retry_calls` | `PromiseKept` (refinement), `OneLateAttempt`, `HonestResult`, `ContextsReleased`, `HeldStreamLives`, and under fairness `CallReturns`, `StreamBounded` | the default of 3 retries; unary and stream, with and without a per-call timeout, a context that is done at the start or ends at any step. The state space is complete, there is no other bound |
| `retry_deadline` | finding on the status of an expired deadline | as above |
| `client_chain` | `MarkedOnce`, `BreakerShields`, `LogsTellApplication`, `PromiseKept` (refinement), and under fairness `EveryCallReturns` | every order of at most 4 of the 7 interceptors, unary and stream: each property relates at most three interceptors and a fourth may stand between them; one retry, so that an attempt follows another; an answer of each kind (success, worth repeating, not, without a status) |
| `chain_safety` | `DoneExactlyOnce`, `PanicContained`, `AccessLogged`, `AccessLogMatchesReply`, `NoFailureSwallowed`, `AuthContextReaches` | every order of at most 4 of the 8 interceptors, auth once or twice, unary and stream: each property relates at most three interceptors and a fourth may stand between them |
| `chain_context` | finding | orders of at most 3 |

The bounds that are not in the code are named: `MaxTime`, `MaxCalls`,
`MaxFinishes`, and the sets `Chains`, `Replies`, `Limits` and `Answers`.
`CircuitBreaker!Rest` lets a bounded run end without a deadlock; the other models
do not stop by themselves, or stutter once a call or request is over (`Finished`,
`Stop`, `Ended`). In `BBRSystem` a handler cannot end well any more after
`MaxFinishes` requests, but it can still fail, so nothing blocks. Symmetry of
goroutines or requests is used only where no fairness is assumed and nothing
tells them apart (`limiter_cooldown`, `limiter_whole`, `stats_safety`).

### What the properties say about the less obvious behaviours

- `RaceBound`: `Allow` reads `inflight`, computes a limit, compares and increments
  in separate steps, so requests that race pass together. `met[r]` is the set of
  requests that were inside `Allow` at some moment since r loaded `inflight`, and
  r finds at most the limit plus that many in flight when it passes: a race gains
  what it meets and no more, however long it takes and whoever returns meanwhile.
  With nobody met that is `SerialBound`, the limit itself. Neither speaks of
  requests admitted on another path (cool CPU, floor of one).
- `CanRecover`: `Summary` never leaves a drop probability of 1, and after a window
  without a rotation it leaves none at all. The condition is needed: as long as
  some goroutine rotates the ring, at unaligned instants, old marks can stay
  (`breaker_stale`), and rotations timed badly enough keep them for ever.
- `InflightExact`: `inflight` is the number of requests between `Allow` and the end
  of `done`, and of the handlers that ended by `runtime.Goexit`. For those the
  deferred function runs with `recover() = nil` and `done` is never called: each of
  them leaks one slot for ever, and no other path does. `NeverWedges` says what is
  left then. With one slot leaked the floor of one (`inflight <= 1`) still lets a
  request in under any limit; with two leaked and a limit below 2, hot CPU and all,
  the limiter refuses for ever, so the property stops at one.
- `TypeOK` of `BBRLimiter` ties each request's registers to where it is
  (`RegistersFit`): it compares an age only with a record it has loaded, compares a
  limit only with an `inflight` above the floor, and keeps nothing it does not need.
- `CountersLag`: `done` adds the pass before the response time and its deferred
  decrement comes after both `Add`s. So whenever `maxInflight` reads, the response
  times are of requests whose passes are counted already, and those that are not in
  both counters are no more than the slots taken and not leaked. Once nothing else
  is in flight both counters have every request that ended well.
- `ContextsReleased`, `HeldStreamLives`: the two ways in which the per-call
  context of a stream can go wrong. It is released by the first error of
  `RecvMsg` or by `CloseSend`, and before that ends only by its own timeout or the
  caller's context. With a per-call timeout `CloseSend` does cut a stream that the
  application has half-closed and still reads; `HeldStreamLives` has that as its one
  exception, and without a per-call timeout a half-closed stream lives on. An
  invoker that panics skips `cancel()`: `ContextsReleased` names it as the one path
  that releases nothing, and `StreamBounded` says that its timeout ends that
  context too.
- `MarkedOnce`: inside retry every attempt is marked, outside it the call; a
  rejected attempt is not. A stream is marked by its first `RecvMsg` error.
- `PromiseKept` of `ClientChain`: the loop alone implements `RetryPromise` in
  `RetryStack`; here it does so wherever it stands. The promise's context is the
  one retry was given, so a timeout inside retry gives every attempt a deadline of
  its own, and one that passes is an answer worth repeating (`OwnDeadline`, which
  is proved); outside retry the same deadline ends the loop with `Canceled`. A
  breaker inside answers like a transport, one outside may begin no attempt. The
  promise's attempts and last answer are the history variables `begun` and `heard`.
- `AccessLogMatchesReply`: the log takes its status from `status.Code`, which knows
  statuses, also wrapped ones; the server also knows the errors of package context,
  also wrapped ones; unifiederror compares and asserts, so it sees neither inside
  another error, and takes a nil `GRPCStatus` for a success. On the errors these
  three disagree about (`Disputed`) the log is right only if a unifiederror stands
  between it and the code that returned the error. So unifiederror just inside the
  access log makes all that comes through it agree; with accesslog, auth,
  unifiederror in this order an `authFunc` that returns `context.DeadlineExceeded`
  is logged as Unknown, and the client gets DeadlineExceeded. On all other errors
  log and reply agree in every order.
- `AuthContextReaches`: on a stream that is already wrapped, auth changes the
  wrapper in place, so `HandlerFunc` of a recovery between two auth interceptors
  finds the inner one's context too; on unary calls it does not.

### What the violation runs show

- `breaker_stale`: rotations a little less than two bucket lengths apart clear one
  slot each although the clock went through two; marks survive the window.
- `limiter_cooldown`: r loads an old `lastDrop`; q is refused and stores a new
  one; r stores nil; the next request finds nil and passes unchecked.
- `stats_fallback`: response times below 1 ms are recorded as 0 and read as none.
- `retry_deadline`: an expired deadline is returned as `Canceled`, and the breaker
  counts `Canceled` as a success, so a backend that only times out never trips
  the breaker of the README's chain through this path.
- `chain_context`: the stream interceptor of package context has no effect.

### Consequences of the same code that have no run of their own

- The rotation of `breaker_stale` errs in the other direction too. With 3 buckets
  of 2 ticks and `lastUpdate` = 1, a mark at tick 2 goes to slot 1; the rotation
  at tick 3 has one whole bucket length behind it and clears the slot after that
  of tick 1, which is slot 1: the mark is gone within a bucket length.
  `RotatedMarkRetained` therefore speaks of marks whose slot the rotation had
  reached. The limiter's counters rotate alike, so a bucket of `passStat` can
  also count requests of two intervals a window apart.
- With `PerCallTimeout` a half-close ends the stream: retry's wrapper cancels the
  per-call context in `CloseSend`, before it half-closes. Generated code calls
  `CloseSend` right after it sent the request of a server-streaming call, whose
  replies are then lost. The repository's own test asserts the cancel
  (`src/retry/interceptors_test.go`), so this is no disagreement.
- A client-streaming call that succeeds ends with a nil error of `RecvMsg`, and
  generated code does not call it again, so the breaker never marks it
  (`Abandon` in `CircuitBreaker`).
- accesslog and errorlog have no `defer`: with recovery outside them a panic leaves
  no entry, which is why `AccessLogged` speaks only of panics recovered inside.
- A handler that ends with `runtime.Goexit` leaks its slot of the limiter
  (`InflightExact`, and `DoneExactlyOnce` in any chain). Enough of them, and a
  limiter under load refuses everything. Nothing in the repository speaks of such
  handlers, so this is no disagreement.
- unifiederror makes a success of an error whose `GRPCStatus` is nil, whether the
  handler, `authFunc` or `HandlerFunc` returned it; `NoFailureSwallowed` says that
  this and a forgiving `HandlerFunc` are the only ways to an OK that the handler did
  not give. It makes Unknown of an error that wraps a status, which grpc itself
  would send as that status.

## 4. Fairness

- `CircuitBreaker`: strong fairness of taking the lock (`AddRotate`) because Go's
  mutex hands itself to a waiter that has waited for a millisecond; weak fairness
  of the step that follows, because a runnable goroutine runs. Nothing is assumed
  of backends or applications.
- `BBRLimiter`: weak fairness for each request's own steps: goroutines run,
  handlers end in one way or another, and clients keep sending. `Sample` and `Tick`
  are unfair.
- `RetryStack`: weak fairness of the timers of the timeout interceptor and of the
  per-call context, of the loop's own steps, and of the transport giving up *once
  its context is done*, which gRPC promises; it may panic at any time before. The timeout interceptor is there for
  unary calls only, so a stream's own context need never end. Neither an answer
  nor the end of a back-off is assumed.
- `ClientChain`: the same, with weak fairness of `WakeByTimer` as well: back-offs
  end (`RetryStack` has them without that assumption), so a call also returns
  when the timeout is inside retry.
- `ServerChain`, `BBRStats`, `BBRSystem` and the violation runs assume none.

## 5. Proofs

All theorems hold for every value of the constants that meets the named
assumptions (`RingAssumption`, `BreakerAssumption`, `LimiterAssumption`,
`StatsAssumption`, `SystemAssumption`, `RetryAssumption`, `ClientAssumption`,
`ChainsAssumption`); these say that numbers are naturals, that a ring has a bucket
and a bucket has a length, that the set of goroutines is finite, and that the
chains are sequences of interceptors without repetition (auth on the server
excepted). So the chains may be of any length and the loops of any number of
retries. Every invariant, action property and refinement of a passing run is
proved.

**`BucketRing_proofs`** builds on division with remainder (`DivFacts`): successive
epochs less than a ring apart have distinct slots (`ModDistinct`, `ModAdd`), and
whole buckets elapsed never exceed the boundaries crossed (`DivDifference`).
Together they give `YoungSlotKept`: a rotation that starts in or after an epoch
and ends before the ring has come round does not clear that epoch's slot.
`SilenceClearsAll`: a rotation over a window or more clears every slot.
`RotationReach` is the other direction: between the epoch of the last rotation and
its own a rotation clears every slot, and none besides but perhaps its own; so the
one slot it can wrongly spare, as in `breaker_stale`, is that of the epoch it ends
in. That bounds what a single rotation leaves behind, not for how long: the next
ones may spare the same slot.

**`CircuitBreaker_proofs`**

- `TypeCorrect`, from the inductive invariant `Typed`: types, and the marks are
  finitely many and numbered in order (`MarksNumbered`). The numbering makes a
  new mark differ from every old one, which `Cardinality` needs.
- `CountedCorrect`: `CountedOnce` with `MarkedIsOpen` (markOnce has fired only
  for an opened stream), without which an admitted call could already be marked.
- `DropCorrect`: from the arithmetic of `Allow` over finite
  windows (`AllAcceptedPasses`) and `seen` being a set of stored marks.
- `RecoverCorrect`: a finite window leaves a probe a chance (`FiniteWindowPasses`),
  and after a silent window `SilenceClearsAll` leaves `Summary` nothing to add up
  (`SilenceEmpties`, `EmptyWindowPasses`).
- `RetainedCorrect`: `RotatedMarkRetained` with `RotsPast` (no mark was stored
  under a rotation later than the last): every rotation since a mark was stored
  starts in its epoch or later, so `YoungSlotKept` applies to each.

**`BBRLimiter_proofs`**

- `TypeCorrect` and `InflightCorrect` together (`Counted`): that `inflight` is a
  natural number *is* a consequence of its being a cardinality. The set counted is
  that of the requests that hold a slot, in or past their handler, and of those
  that Goexit took away with theirs (`Holding`).
- `HealthyCorrect`: with a CPU that was never hot no request is past `loadDrop`
  except on its way in.
- `RaceBoundCorrect`, from `RaceInv`: while r stands before its comparison, whoever
  is inside `Allow` is in `met[r]`, and the holders of a slot that are not in
  `met[r]` are no more than the `inflight` it loaded. A request that enters
  `Allow` is met, one that takes a slot was met before, and one that releases its
  slot only makes the set smaller. With `InflightExact` the bound follows.
  `SerialBoundCorrect` is its corollary: without overlap nobody is met (`MetInv`).
- `SerialCooldownCorrect`, from `AloneInv`: without overlap at most one request is
  inside `Allow`, and `lastDrop` is the latest refusal, or empty only after its
  cooldown.

**`BBRStats_proofs`**

- `TypeCorrect`, from `Typed`: the samples are finitely many, so that the busiest
  bucket and the least response time exist (`LeastExists`, `LargestExists`) and
  `maxInflight` answers a natural number (`MaxInflightIsNat`).
- `RetainedCorrect`: the argument of the breaker, for both counters (`Kept`), also
  when an `Add` comes with a `now` that lies before `lastUpdate`.
- `SerialCorrect`, from `InStep`: without overlap one goroutine at most is at
  work, and between its two `Add`s (or reads) the counters differ by its sample
  (or rotation) only.
- `SilenceCorrect`: `SilenceClearsAll` empties the ring before the read.
- `FallbackCorrect`: if no response time is 0 (`\A v \in RTs : v > 0`), the claim
  that `stats_fallback` refutes does hold; so times below a millisecond are the
  only cause of that finding, and no interleaving is another.

**`BBRSystem_proofs`** carries over to the whole limiter what is proved of its parts:
`CountersKeepPromises` (`SamplesRetained`, `SerialAgreement`, `SilenceForgets`) and
`LimiterKeepsPromises` (`InflightExact`, `HealthyNeverDrops`, `RaceBound`,
`SerialCooldown`) are theorems about the composition, by two lemmas that map each of
its steps to a step or a stutter of a part (`StatsImplemented`,
`LimiterImplemented`). As every action of `BBRSystem` is built from actions of its
parts, the lemmas say little by themselves; the one thing to show is that the
answers `BBRStats` computes are among those `BBRLimiter` is proved for, and that is
why `LimiterKeepsPromises` assumes `Answers = Nat` (in the run a finite set
stands for it). What the composition adds has an invariant of its own. `TypeCorrect`
shows the halves in step, and `LagCorrect`, from it and `InflightExact`, that
`CountersLag` holds: a sample that is not yet in both counters belongs to a request
that still holds its slot. The parts are instances of `BBRStats_proofs` and
`BBRLimiter_proofs`; lemmas named `Same...` say that their operators are those of
the instances in `BBRSystem`.

**`RetryStack_proofs`** has one inductive invariant, `Inv`: the properties
themselves, with `LoopCounts` (where the loop is says how many attempts it made,
and the last answer was worth repeating), `LateIsLast` and `AttemptLives`. The
refinement of `RetryPromise` (`PromiseCorrect`) follows step by step; back-offs,
timers and streams are stutters of the promise. `CallIsFinite` is the half of
termination that needs no fairness: the pair (attempts left, `Ahead`) falls
lexicographically with each step of the call.

**`ClientChain_proofs`**

- `TypeCorrect`, from `Typed`: with `Carries`, what the context carries at each
  position on the way down and up.
- `MarkedCorrect`: `MarkInv`, admissions are marks plus one if an attempt is
  pending (`Pending`: inside the breaker, or an opened stream).
- `ShieldCorrect`: `ShieldInv`, the tries are bounded by retry's counter, and by
  the admissions if no retry is inside the breaker.
- `OwnDeadlineCorrect`: `CanceledInv`, the causes of a `Canceled` on its way up.
- `PromiseCorrect`: `LoopInv`, which ties the attempts begun to the loop counter at
  each position of the call, and knows that a timeout outside retry has no deadline
  before the call reaches it; so the context of retry ends by steps that end a
  context and by no other (`ContextSteps`). `StepAtRetry` then maps each step to
  one of `RetryPromise` or to a stutter, for the one position of retry;
  `StepWithoutRetry` does the rest.
- `CallIsFinite`: as in `RetryStack`, with the way down and up the chain in `Ahead`.
- `LogsCorrect`: `LogInv`, a position outside retry is passed upwards only once,
  and no interceptor further out changes the error.

**`ServerChain_proofs`** has one invariant for each property, which says what holds
while the request is still in the chain: `DoneInv` (no call of `done` until it
passed the limiter), `PanicInv` (a panic unwinds past no recovery that is outside
its origin), `SuccessInv`, `ContextInv`, `LoggedInv` and `MatchInv` (only the answer
as it was given is disputed, never what a unifiederror has returned, so the status
that was logged stays that of the reply). All of them hold for any error of
`UserErrors` from any of the three kinds of user code. Two more theorems need no
run. `OwnContextCorrect` draws the line around the finding of `chain_context`: on
unary calls, in any chain, the handler finds the context of every context
interceptor, on streams that of none. `RequestIsFinite`: every step brings a request
nearer to its end, at most `2 * Len(chain) + 2` of them.

Only model-checked: liveness (`MarkLands`, `NeverWedges`, `CallReturns`,
`StreamBounded`, `EveryCallReturns`), which is out of the prover's reach, as it
needs `ENABLED`. Of the calls' termination the measures above are proved; that a
step is always taken is what fairness adds and TLC checks.

## 6. Not modelled

- Two clocks: rotation subtracts monotonic readings, the index uses wall time.
- A bucket length that truncates to zero (`src/circuitbreaker/option.go:52`,
  `src/ratelimiter/option.go:96`). `RingAssumption` excludes it: every use of such
  a counter divides by zero and panics. The rest of the options is configuration
  without state; that `WithCPUInterval` has an effect only together with
  `WithCPU(nil)` (`src/ratelimiter/option.go:108`) concerns the sampling below.
- CPU sampling: what the goroutine stores is `hot`, which changes at any time.
- A limiter or an `errorFunc` of the user's own; the length of back-offs.
- An error whose own status is OK: grpc itself takes it for a success.
- Panics of other user code than handlers, `authFunc`, `contextFunc` and
  `HandlerFunc` on the server and invokers under retry or the breaker on the client
  (the skip functions, say). `ClientChain` has no panics at all: its properties are
  about calls that return.
- `AuthFromMD`, a pure string function: its callers see a context or an error,
  which is what `AuthDown` chooses from.
- Log fields other than the status, formatting, and the pools of slices.

## 7. Plan

1. *A second clock* in `BucketRing`: an index that is a wall time apart from the
   monotonic reading, with steps in both directions, and what remains of
   `RotatedMarkRetained`.
2. *Two limiters or breakers in one chain*, and retry around the breaker of a
   shared connection: `ClientChain` for concurrent calls over `CircuitBreaker`.
3. *How old a stale mark can be* under an assumption on the rotations' rhythm
   (`RotationReach` is the step towards it), and the refusals that `lastDrop` can
   forget when requests race, as `RaceBound` does for the limit.
