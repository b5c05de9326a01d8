------------------------------ MODULE RetryStack ------------------------------
(***************************************************************************)
(* One call through the breaker's verdict around the retry loop around the *)
(* transport.  A unary call has the timeout interceptor between the two    *)
(* (the chain of the README); a stream, once opened, lives on in the hands *)
(* of the application, behind the wrappers of retry and breaker.           *)
(*                                                                         *)
(* A context is "live", or done with the error ctx.Err() reports: "Expired"*)
(* (context.DeadlineExceeded) or "Canceled".  The loop reads it only in    *)
(* the select of its back-off and after an attempt that may be repeated.   *)
(***************************************************************************)
EXTENDS Naturals, RpcOutcome

CONSTANT MaxRetries   \* options.MaxRetries

ASSUME RetryAssumption == MaxRetries \in Nat

VARIABLES
  kind,        \* "unary" or "stream"
  perCall,     \* options.PerCallTimeout > 0
  ctx,         \* the context the retry interceptor is given
  callCtx,     \* the context of the running attempt or of the opened stream
  owed,        \* per-call contexts whose cancel function is still to be called
  timer,       \* the back-off timer: "off", "armed" or "fired"
  pc,          \* where the call is
  attempt,     \* the loop counter
  lastErr,     \* the answer of the last attempt
  result,      \* what the retry interceptor returned
  stream,      \* "none", or the life of the opened stream
  verdict,     \* "none", or what the breaker was told: "success", "failure"
  tries,       \* history: attempts handed to the transport
  late         \* history: attempts started with ctx already done

options == <<kind, perCall>>
contexts == <<ctx, callCtx, owed>>
loop == <<timer, pc, attempt, lastErr, result>>
hist == <<tries, late>>
vars == <<options, contexts, loop, stream, verdict, hist>>

Contexts == {"live", "Expired", "Canceled"}

\* The caller's context may be done already, and timeout.Timeout takes any
\* duration: with one <= 0 the context is born expired.
Init ==
  /\ kind \in {"unary", "stream"} /\ perCall \in BOOLEAN
  /\ ctx \in Contexts
  /\ callCtx = "none" /\ owed = 0
  /\ timer = "off"
  /\ pc = "trying"
  /\ attempt = 0
  /\ lastErr = "nil" /\ result = "nil"
  /\ stream = "none" /\ verdict = "none"
  /\ tries = 0 /\ late = 0

-------------------------------------------------------------------------------
(* The environment.                                                        *)

\* The call or the stream has a use for its context.
InUse == pc # "returned" \/ stream \notin {"none", "over"}

\* A done context passes its error on to the contexts derived from it.
Done(reason) ==
  /\ InUse /\ ctx = "live"
  /\ ctx' = reason
  /\ callCtx' = IF callCtx = "live" THEN reason ELSE callCtx
  /\ UNCHANGED <<options, owed, loop, stream, verdict, hist>>

Expire == Done("Expired")    \* the timeout interceptor's timer, or the caller's

Cancel == Done("Canceled")   \* the caller gives up

\* Mutant: the per-call timer is stopped once the stream is open.
PerCallExpireOpening ==
  /\ owed = 1 /\ callCtx = "live" /\ pc = "invoking"
  /\ callCtx' = "Expired"
  /\ UNCHANGED <<options, ctx, owed, loop, stream, verdict, hist>>

PerCallExpire ==
  /\ owed = 1 /\ callCtx = "live"
  /\ callCtx' = "Expired"
  /\ UNCHANGED <<options, ctx, owed, loop, stream, verdict, hist>>

BackoffEnds ==
  /\ timer = "armed"
  /\ timer' = "fired"
  /\ UNCHANGED <<options, contexts, pc, attempt, lastErr, result, stream,
                 verdict, hist>>

-------------------------------------------------------------------------------
(* The loop.                                                               *)

\* The attempt runs under ctx, or under a context of its own derived from it.
Invoke ==
  /\ pc = "trying"
  /\ callCtx' = ctx
  /\ owed' = IF perCall THEN owed + 1 ELSE owed
  /\ tries' = tries + 1
  /\ late' = IF ctx = "live" THEN late ELSE late + 1
  /\ pc' = "invoking"
  /\ UNCHANGED <<options, ctx, timer, attempt, lastErr, result, stream, verdict>>

Return(err) ==
  /\ pc' = "returned"
  /\ result' = err

\* The transport answers by itself: a reply or any error, also one that the
\* server sent, also under a context that has just ended.
Answers == Errors \cup {"nil"}

\* The transport's status for the end of its context.
CodeOf(c) == IF c = "Expired" THEN "DeadlineExceeded" ELSE "Canceled"

Repeat ==
  /\ pc' = "sleeping"
  /\ timer' = "armed"
  /\ attempt' = attempt + 1
  /\ UNCHANGED result

\* Mutant: ctx is not looked at after an attempt.
AfterIgnoresContext(err) ==
  IF err = "nil" \/ ~Retryable(err) \/ attempt = MaxRetries
  THEN Return(err) /\ UNCHANGED <<timer, attempt>>
  ELSE Repeat

\* Mutant: ctx is looked at before the answer.
AfterContextFirst(err) ==
  IF ctx # "live" THEN Return("Canceled") /\ UNCHANGED <<timer, attempt>>
  ELSE IF err = "nil" \/ ~Retryable(err) \/ attempt = MaxRetries
  THEN Return(err) /\ UNCHANGED <<timer, attempt>>
  ELSE Repeat

\* Mutant: the loop runs while attempt <= MaxRetries + 1.
AfterOffByOne(err) ==
  IF err = "nil" \/ ~Retryable(err)
  THEN Return(err) /\ UNCHANGED <<timer, attempt>>
  ELSE IF ctx # "live" THEN Return("Canceled") /\ UNCHANGED <<timer, attempt>>
  ELSE IF attempt > MaxRetries THEN Return(err) /\ UNCHANGED <<timer, attempt>>
  ELSE Repeat

\* The loop's body after an attempt, down to the next one's back-off.
After(err) ==
  IF err = "nil" \/ ~Retryable(err)
  THEN Return(err) /\ UNCHANGED <<timer, attempt>>
  ELSE IF ctx # "live" THEN Return("Canceled") /\ UNCHANGED <<timer, attempt>>
  ELSE IF attempt = MaxRetries THEN Return(err) /\ UNCHANGED <<timer, attempt>>
  ELSE Repeat

\* The context of an attempt is cancelled: twice is as good as once.
Cancelled == IF callCtx = "live" THEN "Canceled" ELSE callCtx

\* Mutant: the stream half releases its context like the unary half.
ReleaseAlways(err) ==
  IF kind = "stream" /\ err = "nil"
  THEN /\ stream' = "open"
       /\ owed' = 0
       /\ callCtx' = IF perCall THEN Cancelled ELSE callCtx
  ELSE owed' = 0 /\ callCtx' = "none" /\ UNCHANGED stream

\* Mutant: a failed attempt to open a stream does not cancel its context.
ReleaseUnaryOnly(err) ==
  IF kind = "stream" /\ err = "nil"
  THEN stream' = "open" /\ UNCHANGED <<owed, callCtx>>
  ELSE /\ owed' = IF kind = "unary" THEN 0 ELSE owed
       /\ callCtx' = "none"
       /\ UNCHANGED stream

\* An opened stream keeps the context of its attempt, with the cancel function
\* in its wrapper; any other attempt's context is cancelled.
Release(err) ==
  IF kind = "stream" /\ err = "nil"
  THEN stream' = "open" /\ UNCHANGED <<owed, callCtx>>
  ELSE owed' = 0 /\ callCtx' = "none" /\ UNCHANGED stream

AttemptEnds(err) ==
  /\ pc = "invoking"
  /\ lastErr' = err
  /\ Release(err)
  /\ After(err)
  /\ UNCHANGED <<options, ctx, verdict, hist>>

Answer == \E err \in Answers : AttemptEnds(err)

GiveUp == callCtx \notin {"none", "live"} /\ AttemptEnds(CodeOf(callCtx))

\* The invoker or the streamer panics: the call is over with no answer and no
\* mark, and the cancel function of the attempt is never called.
InvokerPanics ==
  /\ pc = "invoking"
  /\ pc' = "panicked"
  /\ UNCHANGED <<options, contexts, timer, attempt, lastErr, result, stream,
                 verdict, hist>>

\* sleepWithContext: with both channels ready the select takes either.
WakeByTimer ==
  /\ pc = "sleeping" /\ timer = "fired"
  /\ timer' = "off"
  /\ pc' = "trying"
  /\ UNCHANGED <<options, contexts, attempt, lastErr, result, stream, verdict,
                 hist>>

\* Mutant: the back-off is a plain time.Sleep.
WakeNever == FALSE /\ UNCHANGED vars

\* Mutant: timer.Stop is missing.
WakeLeavesTimer ==
  /\ pc = "sleeping" /\ ctx # "live"
  /\ Return("Canceled")
  /\ UNCHANGED <<options, contexts, timer, attempt, lastErr, stream, verdict,
                 hist>>

WakeByContext ==
  /\ pc = "sleeping" /\ ctx # "live"
  /\ timer' = "off"
  /\ Return("Canceled")
  /\ UNCHANGED <<options, contexts, attempt, lastErr, stream, verdict, hist>>

-------------------------------------------------------------------------------
(* The opened stream.                                                      *)

Verdict(err) == IF CountsAsSuccess(err) THEN "success" ELSE "failure"

\* RecvMsg reports the end of the stream, or an error: of the server, or for the
\* end of its context.  The wrapper of retry cancels, that of the breaker marks.
RecvError(err) ==
  /\ stream \in {"open", "closing", "halfClosed"}
  /\ stream' = "over"
  /\ owed' = 0
  /\ callCtx' = IF owed = 1 THEN Cancelled ELSE callCtx
  /\ verdict' = Verdict(err)
  /\ UNCHANGED <<options, ctx, loop, hist>>

\* CloseSend of retry's wrapper: it cancels first ...
CloseSendCancels ==
  /\ stream = "open" /\ perCall
  /\ stream' = "closing"
  /\ owed' = 0
  /\ callCtx' = Cancelled
  /\ UNCHANGED <<options, ctx, loop, verdict, hist>>

\* ... and then half-closes.  Without a per-call timeout there is no wrapper.
HalfClose ==
  /\ \/ stream = "closing"
     \/ stream = "open" /\ ~perCall
  /\ stream' = "halfClosed"
  /\ UNCHANGED <<options, contexts, loop, verdict, hist>>

-------------------------------------------------------------------------------
\* The breaker marks what the chain below it returned; of an opened stream it
\* waits for the first error.
MarkVerdict ==
  /\ pc = "returned" /\ verdict = "none" /\ stream = "none"
  /\ verdict' = Verdict(result)
  /\ UNCHANGED <<options, contexts, loop, stream, hist>>

\* The call is over, or its stream is left alone.
Finished ==
  /\ verdict # "none" \/ stream # "none" \/ pc = "panicked"
  /\ UNCHANGED vars

Wake == WakeByTimer \/ WakeByContext

Next ==
  \/ Expire \/ Cancel \/ PerCallExpire \/ BackoffEnds
  \/ Invoke \/ Answer \/ GiveUp \/ InvokerPanics \/ Wake
  \/ \E err \in Errors \cup {"EOF"} : RecvError(err)
  \/ CloseSendCancels \/ HalfClose
  \/ MarkVerdict
  \/ Finished

Spec == Init /\ [][Next]_vars

\* The timers of the timeout interceptor, which is there for unary calls only,
\* and of the per-call context fire, goroutines are scheduled, and the transport
\* answers once its context is done; neither the server nor a back-off timer
\* (BackoffFunc may return any delay) need ever end by itself.
Fairness ==
  /\ WF_vars(kind = "unary" /\ Expire) /\ WF_vars(PerCallExpire)
  /\ WF_vars(GiveUp) /\ WF_vars(Invoke) /\ WF_vars(Wake)
  /\ WF_vars(MarkVerdict)

FairSpec == Spec /\ Fairness

-------------------------------------------------------------------------------
\* Every variable has its type; there is a context of an attempt exactly while it
\* runs, after it panicked, or once it opened a stream, and only the back-off has
\* a timer
\* (retry/interceptors.go:12-21, 45-52).
TypeOK ==
  /\ kind \in {"unary", "stream"} /\ perCall \in BOOLEAN
  /\ ctx \in Contexts
  /\ callCtx \in Contexts \cup {"none"}
  /\ owed \in Nat
  /\ timer \in {"off", "armed", "fired"}
  /\ pc \in {"trying", "invoking", "sleeping", "returned", "panicked"}
  /\ attempt \in Nat
  /\ lastErr \in Answers /\ result \in Answers
  /\ stream \in {"none", "open", "closing", "halfClosed", "over"}
  /\ verdict \in {"none", "success", "failure"}
  /\ tries \in Nat /\ late \in Nat
  /\ callCtx # "none" <=> pc \in {"invoking", "panicked"} \/ stream # "none"
  /\ timer # "off" <=> pc = "sleeping"
  /\ stream # "none" => pc = "returned" /\ kind = "stream"

\* At most one attempt starts after the context is done: the first of a call,
\* which does not look at it, or one whose back-off ended at the same moment
\* (retry/interceptors.go:12-21, 37-43 and 62-64).
OneLateAttempt == late <= 1

\* The caller gets the answer of the last attempt, or Canceled once its context
\* is done; a reply or an error not worth repeating is never lost, and an error
\* worth repeating is handed over only when the attempts are used up
\* (retry/interceptors.go:54-67, 105-119).
HonestResult ==
  pc = "returned" =>
    \/ result = lastErr /\ (Retryable(result) => tries = MaxRetries + 1)
    \/ result = "Canceled" /\ ctx # "live" /\ Retryable(lastErr)

\* Every per-call context is cancelled by the time the caller has no more use
\* for it: at most one is owed at a time, by a running attempt or by a stream
\* that was neither half-closed nor seen to fail. Only a panic of the invoker
\* leaves one behind, to its timeout (retry/interceptors.go:46-49, 93-100,
\* 127-138).
ContextsReleased ==
  /\ owed <= 1
  /\ owed = 1 => perCall /\ (pc \in {"invoking", "panicked"} \/ stream = "open")

\* While the application can still read a stream, half-closed or not, its context
\* ends by the caller's, or by the per-call timeout if there is one. The one cut
\* that the interceptor makes itself is CloseSend's, and only with a per-call
\* timeout: then the replies that follow the half-close are lost, while without
\* one a half-closed stream lives on (retry/interceptors.go:93-103, 135-138).
HeldStreamLives ==
  stream \in {"open", "closing", "halfClosed"} /\ callCtx # "live" =>
    \/ ctx # "live"
    \/ perCall /\ (callCtx = "Expired" \/ stream # "open")

\* Both interceptors keep the promise of RetryPromise
\* (retry/interceptors.go:23-69, 71-120).
Promise == INSTANCE RetryPromise WITH
  phase <- IF pc \in {"invoking", "panicked"} THEN "trying"
           ELSE IF pc = "returned" THEN "done" ELSE "between",
  answer <- lastErr

PromiseKept == Promise!Spec

\* Under the timeout interceptor every unary call whose invoker does not panic
\* returns and is marked, though the server hangs or the back-off never ends
\* (timeout/interceptors.go:21-23, retry/interceptors.go:15-20).
CallReturns == kind = "unary" => <>(verdict # "none" \/ pc = "panicked")

\* PerCallTimeout bounds the whole life of a stream and not its opening only: no
\* stream stays usable for ever, though the application never touches it and
\* its own context has no deadline, and neither does the context that a panic left
\* behind (retry/interceptors.go:46-49, 93-100).
StreamBounded ==
  perCall => (stream = "open" \/ pc = "panicked" ~> callCtx # "live")

\* Claim of circuitbreaker/interceptors_test.go:95 (DeadlineExceeded marks a
\* failure) for the chain of the README: when the deadline has passed and the
\* transport says so, the breaker is not told of a success.
DeadlineIsFailure ==
  kind = "unary" /\ ctx = "Expired" /\ lastErr = "DeadlineExceeded" =>
    verdict # "success"
===============================================================================
