------------------------------ MODULE ClientChain ------------------------------
(***************************************************************************)
(* One call through the client interceptors, in any order: down the chain  *)
(* to the transport and back, and down again from retry.  chain[1] is the  *)
(* outermost interceptor, position Len(chain) + 1 is the transport, and    *)
(* position 0 the application.  A stream ends here once it is opened, and  *)
(* lives on in the wrapper of the breaker.                                 *)
(***************************************************************************)
EXTENDS Naturals, Sequences, FiniteSets, Functions, RpcOutcome

CONSTANTS
  Chains,       \* the orders of interceptors considered
  Replies,      \* what the transport may answer by itself
  MaxRetries    \* options.MaxRetries

Interceptors == {"accesslog", "errorlog", "slowlog", "context", "timeout",
                 "retry", "circuitbreaker"}

ASSUME ClientAssumption ==
  /\ \A s \in Chains : s \in Seq(Interceptors) /\ IsInjective(s)
  /\ Replies \subseteq Errors \cup {"nil"}
  /\ MaxRetries \in Nat

VARIABLES
  chain,       \* the order of this client
  kind,        \* "unary" or "stream"
  pos,         \* the position whose code runs next
  mode,        \* "down", "up", "sleeping" (in retry), or "over"
  err,         \* the error being returned
  appCtx,      \* the application's context: "live", "Expired", "Canceled"
  deadline,    \* the context timeout derived: "none", "live", or how it ended
  carried,     \* how often contextFunc was applied to the context passed down
  attempt,     \* the loop counter of retry
  admitted,    \* calls of the breaker's Allow that let an attempt through
  marks,       \* calls of its MarkSuccess and MarkFailure
  stream,      \* "none", "open", or "over" once RecvMsg has seen an error
  accessLog,   \* the status in the last access log entry, "none" or "skipped"
  errorLog,    \* the status in the last error log entry, or "none"
  slowLog,     \* a slow call was logged
  deepest,     \* history: the largest position that ran
  tries,       \* history: attempts the transport was given
  answer,      \* history: the transport's last answer
  begun,       \* history: attempts begun by retry
  heard        \* history: the answer to the last of these that has ended

client == <<chain, kind>>
stack == <<pos, mode, err>>
contexts == <<appCtx, deadline, carried>>
breaker == <<admitted, marks>>
logs == <<accessLog, errorLog, slowLog>>
loop == <<begun, heard>>
hist == <<deepest, tries, answer, loop>>
vars == <<client, stack, contexts, attempt, breaker, stream, logs, hist>>

At(name) == pos \in DOMAIN chain /\ chain[pos] = name

\* Where an interceptor is in the chain: a set, empty if it is not there.
Positions(name) == {p \in DOMAIN chain : chain[p] = name}

\* timeout has no interceptor for streams.
Init ==
  /\ chain \in Chains
  /\ kind \in {"unary", "stream"}
  /\ kind = "stream" => Positions("timeout") = {}
  /\ pos = 1 /\ mode = "down" /\ err = "nil"
  /\ appCtx \in {"live", "Expired", "Canceled"}
  /\ deadline = "none" /\ carried = 0
  /\ attempt = 0
  /\ admitted = 0 /\ marks = 0
  /\ stream = "none"
  /\ accessLog = "none" /\ errorLog = "none" /\ slowLog = FALSE
  /\ deepest = 1 /\ tries = 0 /\ answer = "nil"
  /\ begun = 0 /\ heard = "nil"

-------------------------------------------------------------------------------
(* Contexts.                                                               *)

\* The context of the code at p is done: the application's, or the one that a
\* timeout outside p derived from it.
Ended(p) ==
  \/ appCtx # "live"
  \/ deadline = "Expired" /\ \E t \in Positions("timeout") : t < p

AppCtxEnds ==
  /\ mode # "over" /\ appCtx = "live"
  /\ appCtx' \in {"Expired", "Canceled"}
  /\ UNCHANGED <<client, stack, deadline, carried, attempt, breaker, stream,
                 logs, hist>>

DeadlinePasses ==
  /\ deadline = "live"
  /\ deadline' = "Expired"
  /\ UNCHANGED <<client, stack, appCtx, carried, attempt, breaker, stream, logs,
                 hist>>

-------------------------------------------------------------------------------
(* The way down.                                                           *)

\* The code at pos calls the next interceptor, or the transport.
Descend ==
  /\ mode = "down"
  /\ pos' = pos + 1
  /\ deepest' = IF deepest < pos + 1 THEN pos + 1 ELSE deepest
  /\ begun' = IF At("retry") THEN begun + 1 ELSE begun
  /\ UNCHANGED <<mode, err, tries, answer, heard>>

\* The code at pos returns e.
ReturnUp(e) == pos' = pos - 1 /\ mode' = "up" /\ err' = e

\* Interceptors that do nothing before they call on.
PassDown ==
  /\ At("accesslog") \/ At("errorlog") \/ At("slowlog") \/ At("retry")
  /\ Descend
  /\ UNCHANGED <<client, contexts, attempt, breaker, stream, logs>>

\* Mutant: as on the server, a stream does not get the new context.
ContextDownUnaryOnly ==
  /\ At("context")
  /\ Descend
  /\ carried' = IF kind = "unary" THEN carried + 1 ELSE carried
  /\ UNCHANGED <<client, appCtx, deadline, attempt, breaker, stream, logs>>

ContextDown ==
  /\ At("context")
  /\ Descend
  /\ carried' = carried + 1
  /\ UNCHANGED <<client, appCtx, deadline, attempt, breaker, stream, logs>>

\* Mutant: the call goes down with the context that timeout was given.
TimeoutDownOldContext ==
  /\ At("timeout")
  /\ Descend
  /\ UNCHANGED <<client, contexts, attempt, breaker, stream, logs>>

TimeoutDown ==
  /\ At("timeout")
  /\ Descend
  /\ deadline' = "live"
  /\ UNCHANGED <<client, appCtx, carried, attempt, breaker, stream, logs>>

\* Mutant: the return of a rejected call is missing.
BreakerDownGoesOn ==
  /\ At("circuitbreaker")
  /\ Descend
  /\ admitted' \in {admitted, admitted + 1}
  /\ UNCHANGED <<client, contexts, attempt, marks, stream, logs>>

\* Allow admits the attempt, or ErrCircuitBreakerOpen is returned.
BreakerDown ==
  /\ At("circuitbreaker")
  /\ \/ Descend /\ admitted' = admitted + 1
     \/ /\ mode = "down"
        /\ ReturnUp("ResourceExhausted")
        /\ UNCHANGED <<admitted, hist>>
  /\ UNCHANGED <<client, contexts, attempt, marks, stream, logs>>

-------------------------------------------------------------------------------
(* The transport.                                                          *)

InTransport == mode = "down" /\ pos = Len(chain) + 1

\* An attempt ends with e: a reply, or an opened stream, if e is "nil".
Respond(e) ==
  /\ InTransport
  /\ ReturnUp(e)
  /\ tries' = tries + 1 /\ answer' = e
  /\ UNCHANGED <<client, contexts, attempt, breaker, stream, logs, deepest, loop>>

Reply == \E e \in Replies : Respond(e)

GiveUp ==
  /\ Ended(pos)
  /\ Respond(IF appCtx = "Canceled" THEN "Canceled" ELSE "DeadlineExceeded")

-------------------------------------------------------------------------------
(* The way up.                                                             *)

PassUp == mode = "up" /\ pos' = pos - 1 /\ UNCHANGED <<mode, err>>

\* contextFunc's context was passed on; the caller's own is unchanged.
ContextUp ==
  /\ At("context") /\ PassUp
  /\ carried' = carried - 1
  /\ UNCHANGED <<client, appCtx, deadline, attempt, breaker, stream, logs, hist>>

\* The deferred cancel.
TimeoutUp ==
  /\ At("timeout") /\ PassUp
  /\ deadline' = IF deadline = "live" THEN "Canceled" ELSE deadline
  /\ UNCHANGED <<client, appCtx, carried, attempt, breaker, stream, logs, hist>>

\* status.Code and status.FromError
Code(e) ==
  LET renamed == [nil |-> "OK", nonStatus |-> "Unknown"]
  IN IF e \in DOMAIN renamed THEN renamed[e] ELSE e

AccessUp ==
  /\ At("accesslog") /\ PassUp
  /\ accessLog' \in {Code(err), "skipped"}
  /\ UNCHANGED <<client, contexts, attempt, breaker, stream, errorLog, slowLog,
                 hist>>

\* Mutant: the test for an error is missing.
ErrorlogUpAlways ==
  /\ At("errorlog") /\ PassUp
  /\ errorLog' = Code(err)
  /\ UNCHANGED <<client, contexts, attempt, breaker, stream, accessLog, slowLog,
                 hist>>

ErrorlogUp ==
  /\ At("errorlog") /\ PassUp
  /\ errorLog' = IF err = "nil" THEN errorLog ELSE Code(err)
  /\ UNCHANGED <<client, contexts, attempt, breaker, stream, accessLog, slowLog,
                 hist>>

\* Whether the call was slow is chance.
SlowlogUp ==
  /\ At("slowlog") /\ PassUp
  /\ slowLog' \in {slowLog, TRUE}
  /\ UNCHANGED <<client, contexts, attempt, breaker, stream, accessLog, errorLog,
                 hist>>

\* Mutant: an opened stream is marked at once and again at its end.
BreakerUpMarksOpening ==
  /\ At("circuitbreaker") /\ PassUp
  /\ marks' = marks + 1
  /\ UNCHANGED <<client, contexts, attempt, admitted, stream, logs, hist>>

\* The attempt is marked with its answer; an opened stream is wrapped.
BreakerUp ==
  /\ At("circuitbreaker") /\ PassUp
  /\ marks' = IF kind = "stream" /\ err = "nil" THEN marks ELSE marks + 1
  /\ UNCHANGED <<client, contexts, attempt, admitted, stream, logs, hist>>

Final == err = "nil" \/ ~Retryable(err)

\* Mutant: the context of the attempt is looked at and not that of the call.
RetryUpInnerContext ==
  /\ At("retry") /\ mode = "up"
  /\ heard' = err
  /\ IF Final
     THEN PassUp /\ UNCHANGED attempt
     ELSE IF appCtx # "live" \/ deadline = "Expired"
     THEN ReturnUp("Canceled") /\ UNCHANGED attempt
     ELSE IF attempt = MaxRetries
     THEN PassUp /\ UNCHANGED attempt
     ELSE mode' = "sleeping" /\ attempt' = attempt + 1 /\ UNCHANGED <<pos, err>>
  /\ UNCHANGED <<client, contexts, breaker, stream, logs, deepest, tries,
                 answer, begun>>

\* The end of the loop's body, down to the back-off.
RetryUp ==
  /\ At("retry") /\ mode = "up"
  /\ heard' = err
  /\ IF Final
     THEN PassUp /\ UNCHANGED attempt
     ELSE IF Ended(pos)
     THEN ReturnUp("Canceled") /\ UNCHANGED attempt
     ELSE IF attempt = MaxRetries
     THEN PassUp /\ UNCHANGED attempt
     ELSE mode' = "sleeping" /\ attempt' = attempt + 1 /\ UNCHANGED <<pos, err>>
  /\ UNCHANGED <<client, contexts, breaker, stream, logs, deepest, tries,
                 answer, begun>>

\* sleepWithContext: the timer fires, and the next attempt goes down ...
WakeByTimer ==
  /\ mode = "sleeping"
  /\ mode' = "down" /\ pos' = pos + 1 /\ err' = "nil"
  /\ begun' = begun + 1
  /\ UNCHANGED <<client, contexts, attempt, breaker, stream, logs, deepest, tries,
                 answer, heard>>

\* ... or the context of the call is done.
WakeByContext ==
  /\ mode = "sleeping" /\ Ended(pos)
  /\ ReturnUp("Canceled")
  /\ UNCHANGED <<client, contexts, attempt, breaker, stream, logs, hist>>

\* The application has its answer.
Finish ==
  /\ mode = "up" /\ pos = 0
  /\ mode' = "over"
  /\ stream' = IF kind = "stream" /\ err = "nil" THEN "open" ELSE "none"
  /\ UNCHANGED <<client, pos, err, contexts, attempt, breaker, logs, hist>>

\* RecvMsg ends with io.EOF or an error, and again: markOnce marks the first.
RecvError ==
  /\ stream \in {"open", "over"}
  /\ stream' = "over"
  /\ marks' = IF stream = "open" /\ Positions("circuitbreaker") # {}
              THEN marks + 1 ELSE marks
  /\ UNCHANGED <<client, stack, contexts, attempt, admitted, logs, hist>>

Stop == mode = "over" /\ stream = "none" /\ UNCHANGED vars

Climb ==
  \/ ContextUp \/ TimeoutUp \/ AccessUp \/ ErrorlogUp \/ SlowlogUp \/ BreakerUp
  \/ RetryUp

Next ==
  \/ AppCtxEnds \/ DeadlinePasses
  \/ PassDown \/ ContextDown \/ TimeoutDown \/ BreakerDown
  \/ Reply \/ GiveUp
  \/ Climb
  \/ WakeByTimer \/ WakeByContext
  \/ Finish \/ RecvError \/ Stop

Spec == Init /\ [][Next]_vars

\* Goroutines run, timers fire, and the transport answers once the context of
\* the attempt is done.  The server need never answer.
Fairness ==
  /\ WF_vars(DeadlinePasses) /\ WF_vars(GiveUp) /\ WF_vars(WakeByTimer)
  /\ WF_vars(PassDown \/ ContextDown \/ TimeoutDown \/ BreakerDown)
  /\ WF_vars(Climb \/ Finish)

FairSpec == Spec /\ Fairness

-------------------------------------------------------------------------------
Codes == {Code(e) : e \in Errors \cup {"nil"}}

\* Every variable has its type; on the way down, also of a repeated attempt, the
\* context carries what each context interceptor above added, once
\* (context/interceptors.go:85-89, 113-115).
TypeOK ==
  /\ chain \in Seq(Interceptors) /\ kind \in {"unary", "stream"}
  /\ pos \in 0 .. Len(chain) + 1
  /\ mode \in {"down", "up", "sleeping", "over"}
  /\ err \in Errors \cup {"nil"} /\ answer \in Errors \cup {"nil"}
  /\ heard \in Errors \cup {"nil"} /\ begun \in Nat
  /\ appCtx \in {"live", "Expired", "Canceled"}
  /\ deadline \in {"none", "live", "Expired", "Canceled"}
  /\ carried \in Nat /\ attempt \in 0 .. MaxRetries
  /\ admitted \in Nat /\ marks \in Nat /\ tries \in Nat
  /\ stream \in {"none", "open", "over"}
  /\ accessLog \in Codes \cup {"none", "skipped"}
  /\ errorLog \in Codes \cup {"none"}
  /\ slowLog \in BOOLEAN
  /\ deepest \in 1 .. Len(chain) + 1
  /\ mode = "down" =>
       carried = Cardinality({p \in Positions("context") : p < pos})

\* Wherever the breaker is, inside retry or outside it, every attempt it admits
\* is marked once it is over, and marked once: a stream when it ends, anything
\* else when it returns (circuitbreaker/interceptors.go:20-52, 66-94, 112-135).
MarkedOnce ==
  /\ marks <= admitted /\ admitted <= marks + 1
  /\ mode = "over" /\ stream # "open" => marks = admitted

\* Logs that are not inside retry name the status the application gets, errorlog
\* only if there is an error; of a stream both log the opening
\* (accesslog/interceptors.go:157-186, 221-250, errorlog/interceptors.go:93-98,
\* 123-128).
LogsTellApplication ==
  mode = "over" =>
    \A p \in 1 .. deepest - 1 :
      Positions("retry") \cap 1 .. p = {} =>
        /\ chain[p] = "accesslog" => accessLog \in {Code(err), "skipped"}
        /\ chain[p] = "errorlog" =>
             errorLog = IF err = "nil" THEN "none" ELSE Code(err)

\* The transport is given no attempt that the breaker did not admit: one for
\* each admission, or a whole loop if retry is inside the breaker.  A rejection
\* can be retried (ResourceExhausted is), but only through the breaker
\* (circuitbreaker/interceptors.go:66-70, 108-112).
BreakerShields ==
  \A b \in Positions("circuitbreaker") :
    tries <= admitted * (IF \E r \in Positions("retry") : b < r
                         THEN MaxRetries + 1 ELSE 1)

\* With timeout inside retry every attempt has a deadline of its own, and one
\* that has passed is no reason to give the call up: the application gets
\* Canceled only from the transport, or because a context outside retry is done
\* (timeout/interceptors.go:21-23, retry/interceptors.go:62-64).
OwnDeadline ==
  mode = "over" /\ err = "Canceled" =>
    \/ answer = "Canceled"
    \/ appCtx # "live"
    \/ \E t \in Positions("timeout"), r \in Positions("retry") : t < r

\* How the call stands as retry sees it: an attempt is inside it, or it has
\* returned, which a call that an interceptor outside rejected never makes it do.
Trying ==
  \E r \in Positions("retry") :
    \/ mode = "down" /\ pos > r
    \/ mode = "up" /\ pos >= r

Returned ==
  \E r \in Positions("retry") :
    mode \in {"up", "over"} /\ pos < r /\ deepest > r

\* In every order of the chain retry keeps the promise of RetryPromise: it calls
\* on only after an answer worth repeating, at most MaxRetries times again, and
\* returns the last answer it got, or Canceled if its own context, that of an
\* interceptor outside it, is done: an attempt's deadline does not count.
\* A rejection by a breaker inside it is an answer like any other, one by a
\* breaker outside it begins no attempt (retry/interceptors.go:23-69, 71-120).
Promise == INSTANCE RetryPromise WITH
  ctx <- IF \E r \in Positions("retry") : Ended(r) THEN "Canceled" ELSE "live",
  phase <- IF Trying THEN "trying" ELSE IF Returned THEN "done" ELSE "between",
  tries <- begun,
  answer <- heard,
  result <- IF Returned THEN err ELSE "nil"

PromiseKept == Promise!Spec

\* With timeout anywhere in the chain every call returns, though the server never
\* answers (timeout/interceptors.go:21-23, retry/interceptors.go:35-43).
EveryCallReturns == Positions("timeout") # {} => <>(mode = "over")
===============================================================================
