------------------------------ MODULE ServerChain ------------------------------
(***************************************************************************)
(* One request through the server interceptors, in any order: down the     *)
(* chain to the handler, and back up as a return or as an unwinding panic. *)
(* grpc runs chain[1] first; position Len(chain) + 1 is the handler, and   *)
(* position 0 is the server that sends the reply.                          *)
(***************************************************************************)
EXTENDS Naturals, Sequences

CONSTANT Chains   \* the orders of interceptors considered

Interceptors == {"ratelimiter", "auth", "accesslog", "recovery", "errorlog",
                 "slowlog", "unifiederror", "context"}

\* Only auth may be there more than once.
ASSUME ChainsAssumption ==
  \A s \in Chains :
    /\ s \in Seq(Interceptors)
    /\ \A i, j \in DOMAIN s : s[i] = s[j] /\ s[i] # "auth" => i = j

VARIABLES
  chain,       \* the order of this server
  kind,        \* "unary" or "stream"
  pos,         \* the position whose code runs next
  mode,        \* "down", "up", "panic", "exit" (runtime.Goexit), or the end:
               \* "replied", "crashed", "exited"
  err,         \* the error being returned
  ctx,         \* the interceptors whose context is in the one passed down
  allowed,     \* the limiter's Allow let the request in
  doneCalls,   \* calls of the limiter's done
  accessLog,   \* the status in the access log entry, "none", or "skipped"
  errorLog,    \* the status in the error log entry, or "none"
  slowLog,     \* a slow request was logged
  deepest,     \* history: the largest position that ran
  cause,       \* history: the answer as the code it comes from gave it, or "none"
  causeAt,     \* history: the position of that code, or 0
  panicAt,     \* history: the position that panicked first, or 0
  exitAt,      \* history: the position that ended the goroutine, or 0
  outcome,     \* history: what the handler did, "none" if it did not run
  handled,     \* history: what recovery's HandlerFunc did, or "none"
  handlerCtx,  \* history: the context the handler found
  recoverCtx   \* history: the context HandlerFunc found

logs == <<accessLog, errorLog, slowLog>>
seen == <<handlerCtx, recoverCtx>>
origin == <<cause, causeAt>>
ends == <<panicAt, exitAt>>
hist == <<deepest, origin, ends, outcome, handled, seen>>
vars == <<chain, kind, pos, mode, err, ctx, allowed, doneCalls, logs, hist>>

-------------------------------------------------------------------------------
(* Errors and their codes.                                                 *)

\* What a handler, authFunc or HandlerFunc may return: "status", an error with a
\* gRPC status, "nilStatus", one whose GRPCStatus method answers nil,
\* "wrappedStatus", one that wraps a status, "rawDeadline", context.DeadlineExceeded
\* itself (context.Canceled goes the same ways), "wrappedDeadline", one that wraps
\* it, and "plain", any other one, a PanicError among them. Left out is an error
\* whose own status is OK, a success for grpc itself.
UserErrors == {"status", "nilStatus", "wrappedStatus", "plain", "rawDeadline",
               "wrappedDeadline"}

Errs == UserErrors \cup {"nil", "limited", "unknownStatus", "deadlineStatus"}

\* status.Code, which looks for a status inside an error too.
Code(e) ==
  LET known == [nil |-> "OK", status |-> "Other", wrappedStatus |-> "Other",
                limited |-> "ResourceExhausted",
                deadlineStatus |-> "DeadlineExceeded"]
  IN IF e \in DOMAIN known THEN known[e] ELSE "Unknown"

\* The server of grpc-go also knows the errors of package context.
ReplyCode(e) ==
  IF e \in {"rawDeadline", "wrappedDeadline"} THEN "DeadlineExceeded" ELSE Code(e)

\* Mutant: the errors of package context are handed on as they are.
UnifyKeepsContext(e) ==
  LET changed == [plain |-> "unknownStatus", wrappedStatus |-> "unknownStatus",
                  nilStatus |-> "nil"]
  IN IF e \in DOMAIN changed THEN changed[e] ELSE e

\* The default errorFunc, as an error again: it compares and asserts, and so sees
\* no error inside another one.
Unify(e) ==
  LET changed == [rawDeadline |-> "deadlineStatus", plain |-> "unknownStatus",
                  wrappedDeadline |-> "unknownStatus",
                  wrappedStatus |-> "unknownStatus", nilStatus |-> "nil"]
  IN IF e \in DOMAIN changed THEN changed[e] ELSE e

-------------------------------------------------------------------------------
At(name) == pos \in DOMAIN chain /\ chain[pos] = name

\* Where an interceptor is in the chain: a set, empty if it is not there.
Positions(name) == {p \in DOMAIN chain : chain[p] = name}

Init ==
  /\ chain \in Chains
  /\ kind \in {"unary", "stream"}
  /\ pos = 1 /\ mode = "down"
  /\ err = "nil"
  /\ ctx = {}
  /\ allowed = FALSE /\ doneCalls = 0
  /\ accessLog = "none" /\ errorLog = "none" /\ slowLog = FALSE
  /\ cause = "none" /\ causeAt = 0 /\ panicAt = 0 /\ exitAt = 0
  /\ deepest = 1 /\ outcome = "none" /\ handled = "none"
  /\ handlerCtx = {} /\ recoverCtx = {}

\* The next interceptor, or the handler, is called.
Descend ==
  /\ mode = "down"
  /\ pos' = pos + 1
  /\ deepest' = pos + 1
  /\ UNCHANGED <<chain, kind, mode, err, doneCalls, logs, origin, ends, outcome,
                 handled, seen>>

\* The code at pos returns e to its caller; Answer: as its own answer.
ReturnUp(e) == pos' = pos - 1 /\ mode' = "up" /\ err' = e
Answer(e) == ReturnUp(e) /\ cause' = e /\ causeAt' = pos

\* The code at pos panics, or ends its goroutine.
PanicUp == pos' = pos - 1 /\ mode' = "panic" /\ UNCHANGED <<err, origin>>
ExitUp ==
  pos' = pos - 1 /\ mode' = "exit" /\ exitAt' = pos /\ UNCHANGED <<err, origin>>

Refuse(e) ==
  /\ mode = "down"
  /\ Answer(e)
  /\ UNCHANGED <<chain, kind, ctx, allowed, doneCalls, logs, deepest, ends, outcome,
                 handled, seen>>

\* User code on the way down does not return.
Break ==
  /\ mode = "down"
  /\ \/ PanicUp /\ panicAt' = pos /\ UNCHANGED exitAt
     \/ ExitUp /\ UNCHANGED panicAt
  /\ UNCHANGED <<chain, kind, ctx, allowed, doneCalls, logs, deepest, outcome,
                 handled, seen>>

\* Interceptors that do nothing before they call on.
PassDown ==
  /\ At("accesslog") \/ At("recovery") \/ At("errorlog") \/ At("slowlog")
     \/ At("unifiederror")
  /\ Descend
  /\ UNCHANGED <<ctx, allowed>>

\* Mutant: the return after a refusal is missing.
LimiterDownGoesOn ==
  /\ At("ratelimiter")
  /\ \/ Descend /\ allowed' \in BOOLEAN /\ UNCHANGED ctx
     \/ /\ mode = "down"
        /\ pos' = pos + 1 /\ deepest' = pos + 1
        /\ err' = "limited"
        /\ UNCHANGED <<chain, kind, mode, ctx, allowed, doneCalls, logs, origin,
                       ends, outcome, handled, seen>>

\* Allow lets the request in, or Skip exempts it, or it is refused.
LimiterDown ==
  /\ At("ratelimiter")
  /\ \/ Descend /\ allowed' \in BOOLEAN /\ UNCHANGED ctx
     \/ Refuse("limited")

\* Mutant: the stream interceptor passes the original stream on.
AuthDownNoWrap ==
  /\ At("auth")
  /\ \/ /\ Descend
        /\ ctx' = IF kind = "unary" THEN ctx \cup {pos} ELSE ctx
        /\ UNCHANGED allowed
     \/ \E e \in UserErrors : Refuse(e)
     \/ Break

\* authFunc accepts, with a context that a stream gets by a wrapper, or it
\* answers an error, or does not return.
AuthDown ==
  /\ At("auth")
  /\ \/ Descend /\ ctx' = ctx \cup {pos} /\ UNCHANGED allowed
     \/ \E e \in UserErrors : Refuse(e)
     \/ Break

\* A stream's context is computed and dropped: the handler gets `stream`.
ContextDown ==
  /\ At("context")
  /\ \/ /\ Descend
        /\ ctx' = IF kind = "unary" THEN ctx \cup {pos} ELSE ctx
        /\ UNCHANGED allowed
     \/ Break

\* The handler returns, panics, or ends its goroutine.
Handle ==
  /\ pos = Len(chain) + 1 /\ mode = "down"
  /\ handlerCtx' = ctx
  /\ \/ \E e \in UserErrors \cup {"nil"} :
          outcome' = e /\ Answer(e) /\ UNCHANGED ends
     \/ outcome' = "panic" /\ PanicUp /\ panicAt' = pos /\ UNCHANGED exitAt
     \/ outcome' = "exit" /\ ExitUp /\ UNCHANGED panicAt
  /\ UNCHANGED <<chain, kind, ctx, allowed, doneCalls, logs, deepest, handled,
                 recoverCtx>>

-------------------------------------------------------------------------------
(* The way back.                                                           *)

\* Mutant: done is called on the normal path only.
LimiterUpNoRecover ==
  /\ At("ratelimiter") /\ mode \in {"up", "panic", "exit"}
  /\ pos' = pos - 1
  /\ doneCalls' = IF allowed /\ mode = "up" THEN doneCalls + 1 ELSE doneCalls
  /\ UNCHANGED <<chain, kind, mode, err, ctx, allowed, logs, hist>>

\* done is called after a return, and in the recover of a panic that goes on;
\* when the goroutine exits recover() is nil.
LimiterUp ==
  /\ At("ratelimiter") /\ mode \in {"up", "panic", "exit"}
  /\ pos' = pos - 1
  /\ doneCalls' = IF allowed /\ mode # "exit" THEN doneCalls + 1 ELSE doneCalls
  /\ UNCHANGED <<chain, kind, mode, err, ctx, allowed, logs, hist>>

\* Mutant: successful requests are not logged.
AccessUpErrorsOnly ==
  /\ At("accesslog") /\ mode = "up"
  /\ accessLog' \in (IF err = "nil" THEN {"none"} ELSE {Code(err), "skipped"})
  /\ pos' = pos - 1
  /\ UNCHANGED <<chain, kind, mode, err, ctx, allowed, doneCalls, errorLog,
                 slowLog, hist>>

AccessUp ==
  /\ At("accesslog") /\ mode = "up"
  /\ accessLog' \in {Code(err), "skipped"}
  /\ pos' = pos - 1
  /\ UNCHANGED <<chain, kind, mode, err, ctx, allowed, doneCalls, errorLog,
                 slowLog, hist>>

ErrorlogUp ==
  /\ At("errorlog") /\ mode = "up"
  /\ errorLog' = IF err = "nil" THEN errorLog ELSE Code(err)
  /\ pos' = pos - 1
  /\ UNCHANGED <<chain, kind, mode, err, ctx, allowed, doneCalls, accessLog,
                 slowLog, hist>>

\* Deferred, so whatever the end; whether the request was slow is chance.
SlowlogUp ==
  /\ At("slowlog") /\ mode \in {"up", "panic", "exit"}
  /\ slowLog' \in BOOLEAN
  /\ pos' = pos - 1
  /\ UNCHANGED <<chain, kind, mode, err, ctx, allowed, doneCalls, accessLog,
                 errorLog, hist>>

UnifiedUp ==
  /\ At("unifiederror") /\ mode = "up"
  /\ ReturnUp(Unify(err))
  /\ UNCHANGED <<chain, kind, ctx, allowed, doneCalls, logs, hist>>

\* The context of the code at p after it has called on: its own, or that of the
\* stream, whose one wrapper the auth interceptors further in have changed.
ContextAt(p) ==
  IF kind = "stream" /\ \E a \in Positions("auth") : a < p
  THEN ctx
  ELSE {q \in ctx : q < p}

\* Mutant: the recovered error is not returned.
RecoverToNil ==
  /\ At("recovery") /\ mode = "panic"
  /\ ReturnUp("nil") /\ handled' = "error"
  /\ cause' = "plain" /\ causeAt' = pos
  /\ recoverCtx' = ContextAt(pos)
  /\ UNCHANGED <<chain, kind, ctx, allowed, doneCalls, logs, deepest, ends, outcome,
                 handlerCtx>>

\* Mutant: the panic goes on after it was handled.
RecoverAndRepanic ==
  /\ At("recovery") /\ mode = "panic"
  /\ PanicUp /\ handled' = "error"
  /\ recoverCtx' = ContextAt(pos)
  /\ UNCHANGED <<chain, kind, ctx, allowed, doneCalls, logs, deepest, ends, outcome,
                 handlerCtx>>

\* The panic ends here: the default HandlerFunc makes a plain error of it, another
\* one may return any error or nil, panic itself, or end the goroutine.
Recover ==
  /\ At("recovery") /\ mode = "panic"
  /\ recoverCtx' = ContextAt(pos)
  /\ \/ (\E e \in UserErrors : Answer(e)) /\ handled' = "error" /\ UNCHANGED ends
     \/ Answer("nil") /\ handled' = "nil" /\ UNCHANGED ends
     \/ PanicUp /\ handled' = "panic" /\ UNCHANGED ends
     \/ ExitUp /\ handled' = "exit" /\ UNCHANGED panicAt
  /\ UNCHANGED <<chain, kind, ctx, allowed, doneCalls, logs, deepest, outcome,
                 handlerCtx>>

\* Code that has nothing to do on this way back: no defer, no look at err.
PassUp ==
  /\ \/ (At("auth") \/ At("context")) /\ mode \in {"up", "panic", "exit"}
     \/ At("recovery") /\ mode \in {"up", "exit"}
     \/ /\ At("accesslog") \/ At("errorlog") \/ At("unifiederror")
        /\ mode \in {"panic", "exit"}
  /\ pos' = pos - 1
  /\ UNCHANGED <<chain, kind, mode, err, ctx, allowed, doneCalls, logs, hist>>

\* The server sends the reply, or the process dies of the panic, or the goroutine
\* is gone.
Finish ==
  /\ pos = 0 /\ mode \in {"up", "panic", "exit"}
  /\ mode' = [up |-> "replied", panic |-> "crashed", exit |-> "exited"][mode]
  /\ UNCHANGED <<chain, kind, pos, err, ctx, allowed, doneCalls, logs, hist>>

Ended == mode \in {"replied", "crashed", "exited"} /\ UNCHANGED vars

Next ==
  \/ PassDown \/ LimiterDown \/ AuthDown \/ ContextDown \/ Handle
  \/ LimiterUp \/ AccessUp \/ ErrorlogUp \/ SlowlogUp \/ UnifiedUp
  \/ Recover \/ PassUp
  \/ Finish \/ Ended

Spec == Init /\ [][Next]_vars

-------------------------------------------------------------------------------
Codes == {Code(e) : e \in Errs}

Over == mode \in {"replied", "crashed", "exited"}

\* Every variable has its type, and nothing was answered, panicked or exited while
\* the request is on its way down.
TypeOK ==
  /\ chain \in Seq(Interceptors) /\ kind \in {"unary", "stream"}
  /\ pos \in 0 .. Len(chain) + 1
  /\ mode \in {"down", "up", "panic", "exit", "replied", "crashed", "exited"}
  /\ err \in Errs
  /\ ctx \subseteq DOMAIN chain /\ handlerCtx \subseteq ctx /\ recoverCtx \subseteq ctx
  /\ allowed \in BOOLEAN /\ doneCalls \in Nat
  /\ accessLog \in Codes \cup {"none", "skipped"}
  /\ errorLog \in Codes \cup {"none"}
  /\ slowLog \in BOOLEAN
  /\ deepest \in 1 .. Len(chain) + 1
  /\ cause \in UserErrors \cup {"none", "nil", "limited"}
  /\ {causeAt, panicAt, exitAt} \subseteq 0 .. Len(chain) + 1
  /\ outcome \in UserErrors \cup {"none", "nil", "panic", "exit"}
  /\ handled \in {"none", "error", "nil", "panic", "exit"}
  /\ mode = "down" =>
       err = "nil" /\ cause = "none" /\ causeAt = 0 /\ panicAt = 0 /\ exitAt = 0

\* Wherever the limiter is in the chain and however the request ends (reply,
\* refusal further in, panic that is recovered or that kills the process),
\* done is called exactly once if Allow let the request in, and never else; only
\* a goroutine that exits further in than the limiter leaves it uncalled
\* (ratelimiter/interceptors.go:25-38, 57-70).
DoneExactlyOnce ==
  Over =>
    doneCalls = IF allowed /\ \A l \in Positions("ratelimiter") : l >= exitAt
                THEN 1 ELSE 0

\* A panic kills the process only if it was raised outside every recovery
\* interceptor, or if HandlerFunc raises another one
\* (recovery/interceptors.go:25-32, 52-59).
PanicContained ==
  mode = "crashed" =>
    handled = "panic" \/ \A p \in Positions("recovery") : p > panicAt

\* The access log has an entry for every request that reached it and neither
\* panicked nor exited through it (accesslog/interceptors.go:34-52, 92-116).
AccessLogged ==
  \A p \in Positions("accesslog") :
    /\ Over /\ mode # "exited" /\ deepest > p
    /\ \/ panicAt <= p
       \/ /\ handled # "panic"
          /\ \E q \in Positions("recovery") : p < q /\ q < panicAt
    => accessLog # "none"

\* Errors whose code the access log, unifiederror and the server may take
\* differently.
Disputed == {"nilStatus", "wrappedStatus", "rawDeadline", "wrappedDeadline"}

\* In every order of interceptors the access log names the status the client gets,
\* whoever answered, and for any answer: but for a disputed error with no
\* unifiederror between the log and the code that returned it. So unifiederror just
\* inside the access log makes them agree on all that comes through it, and
\* anywhere else leaves out what user code between the two returns: with accesslog,
\* auth and unifiederror in this order an authFunc that returns
\* context.DeadlineExceeded is logged as Unknown
\* (unifiederror/options.go:36-49, accesslog/interceptors.go:43,
\* auth/interceptors.go:31-33).
AccessLogMatchesReply ==
  mode = "replied" /\ accessLog \in Codes =>
    \/ accessLog = ReplyCode(err)
    \/ /\ cause \in Disputed
       /\ \A p \in Positions("accesslog"), q \in Positions("unifiederror") :
            ~(p < q /\ q < causeAt)

\* No order of interceptors turns a failure into a success: a client that gets OK
\* was served by a handler that returned nil, unless a HandlerFunc forgave the
\* panic, or code inside unifiederror (handler, authFunc or HandlerFunc) returned
\* an error whose GRPCStatus answers nil
\* (unifiederror/interceptors.go:30-38, unifiederror/options.go:45-46,
\* recovery/interceptors.go:25-32).
NoFailureSwallowed ==
  mode = "replied" /\ ReplyCode(err) = "OK" =>
    \/ outcome = "nil"
    \/ handled = "nil"
    \/ cause = "nilStatus" /\ \E q \in Positions("unifiederror") : q < causeAt

\* The handler finds the context of every auth interceptor, through whatever
\* stands between them, and recovery's HandlerFunc that of every one outside it.
\* It finds one of an interceptor further in only on a stream that was wrapped
\* outside already: the wrapper is changed in place
\* (auth/interceptors.go:31-36, 51-59, 86-92).
AuthContextReaches ==
  /\ outcome # "none" => Positions("auth") \subseteq handlerCtx
  /\ handled # "none" =>
       \E r \in Positions("recovery") :
         /\ {a \in Positions("auth") : a < r} \subseteq recoverCtx
         /\ \A c \in recoverCtx :
              \/ c < r
              \/ kind = "stream" /\ \E a \in Positions("auth") : a < r

\* Claim of context/interceptors.go:38 (the interceptor can modify the context
\* while it handles a stream): the handler finds what contextFunc added.
ContextReaches ==
  outcome # "none" => Positions("context") \subseteq handlerCtx
===============================================================================
