-------------------------- MODULE ServerChain_proofs --------------------------
(***************************************************************************)
(* Proofs about ServerChain, for chains of any length in which only auth   *)
(* is there more than once.                                                *)
(***************************************************************************)
EXTENDS ServerChain, TLAPS

-------------------------------------------------------------------------------
(* Types.                                                                  *)

\* What ChainsAssumption says of the chain at hand.
ChainOK ==
  /\ chain \in Seq(Interceptors)
  /\ \A i, j \in DOMAIN chain : chain[i] = chain[j] /\ chain[i] # "auth" => i = j

\* The handler has not run, and nothing was logged, on the way down.
DownIsFresh ==
  mode = "down" =>
    /\ deepest = pos
    /\ outcome = "none" /\ handled = "none"
    /\ accessLog = "none"
    /\ pos >= 1

\* An answer on its way back has left the code that gave it.
AnswerIsInside == mode \in {"up", "replied"} => pos < causeAt

Typed == TypeOK /\ ChainOK /\ DownIsFresh /\ AnswerIsInside

LEMMA TypedInit == Init => Typed
<1> SUFFICES ASSUME Init PROVE Typed
  OBVIOUS
<1>1. ChainOK
  BY ChainsAssumption DEF Init, ChainOK
<1>2. Len(chain) \in Nat
  BY <1>1 DEF ChainOK
<1>3. TypeOK
  <2>1. /\ pos \in 0 .. Len(chain) + 1
        /\ deepest \in 1 .. Len(chain) + 1
        /\ {causeAt, panicAt, exitAt} \subseteq 0 .. Len(chain) + 1
    BY <1>2 DEF Init
  <2>2. chain \in Seq(Interceptors) /\ kind \in {"unary", "stream"}
    BY <1>1 DEF Init, ChainOK
  <2>3. err \in Errs
    BY DEF Init, Errs
  <2>4. ctx \subseteq DOMAIN chain /\ handlerCtx \subseteq ctx /\ recoverCtx \subseteq ctx
    BY DEF Init
  <2>5. accessLog \in Codes \cup {"none", "skipped"}
     /\ errorLog \in Codes \cup {"none"}
     /\ slowLog \in BOOLEAN
    BY DEF Init
  <2>6. outcome \in UserErrors \cup {"none", "nil", "panic", "exit"}
    BY DEF Init
  <2> QED
    BY <2>1, <2>2, <2>3, <2>4, <2>5, <2>6 DEF Init, TypeOK
<1>4. DownIsFresh
  BY DEF Init, DownIsFresh
<1>5. AnswerIsInside
  BY DEF Init, AnswerIsInside
<1> QED
  BY <1>1, <1>3, <1>4, <1>5 DEF Typed

\* The codes and the unified errors stay within their sets.
LEMMA CodesClosed ==
  \A e \in Errs : Code(e) \in Codes /\ Unify(e) \in Errs
BY DEF Codes, Unify, Errs, UserErrors

LEMMA TypedStep == Typed /\ [Next]_vars => Typed'
<1> SUFFICES ASSUME Typed, [Next]_vars PROVE Typed'
  OBVIOUS
<1> USE DEF Typed, TypeOK, ChainOK, DownIsFresh, AnswerIsInside, logs, hist, origin,
            ends, seen, At
<1>1. CASE UNCHANGED vars \/ Ended
  BY <1>1 DEF vars, Ended
<1>2. CASE PassDown
  BY <1>2 DEF PassDown, Descend
<1>3. CASE LimiterDown
  BY <1>3 DEF LimiterDown, Descend, Refuse, Answer, ReturnUp, Errs
<1>4. CASE AuthDown
  BY <1>4 DEF AuthDown, Descend, Refuse, Answer, ReturnUp, Break,
    PanicUp, ExitUp, Errs
<1>5. CASE ContextDown
  BY <1>5 DEF ContextDown, Descend, Break, PanicUp, ExitUp
<1>6. CASE Handle
  BY <1>6 DEF Handle, Answer, ReturnUp, PanicUp, ExitUp, Errs
<1>7. CASE LimiterUp
  BY <1>7 DEF LimiterUp
<1>8. CASE AccessUp
  BY <1>8, CodesClosed DEF AccessUp
<1>9. CASE ErrorlogUp
  BY <1>9, CodesClosed DEF ErrorlogUp
<1>10. CASE SlowlogUp
  BY <1>10 DEF SlowlogUp
<1>11. CASE UnifiedUp
  BY <1>11, CodesClosed DEF UnifiedUp, ReturnUp
<1>12. CASE Recover
  BY <1>12 DEF Recover, Answer, ReturnUp, PanicUp, ExitUp, ContextAt, Errs
<1>13. CASE PassUp
  BY <1>13 DEF PassUp
<1>14. CASE Finish
  BY <1>14 DEF Finish
<1> QED
  BY <1>1, <1>2, <1>3, <1>4, <1>5, <1>6, <1>7, <1>8, <1>9, <1>10, <1>11, <1>12,
     <1>13, <1>14 DEF Next

LEMMA TypedAlways == Spec => []Typed
BY TypedInit, TypedStep, PTL DEF Spec

\* Every variable has its type, for chains of any length.
THEOREM TypeCorrect == Spec => []TypeOK
<1>1. Typed => TypeOK
  BY DEF Typed
<1> QED
  BY <1>1, TypedAlways, PTL

-------------------------------------------------------------------------------
(* Calls of done.                                                           *)

\* done was not called while the limiter is at pos or further out, and was called
\* once for an admitted request that came back through it, unless by an exit.
DoneInv ==
  /\ mode = "down" =>
       doneCalls = 0 /\ (allowed => \E l \in Positions("ratelimiter") : l < pos)
  /\ mode # "down" /\ (\E l \in Positions("ratelimiter") : l <= pos) =>
       doneCalls = 0
  /\ mode # "down" /\ (\A l \in Positions("ratelimiter") : l > pos) =>
       doneCalls = IF allowed /\ \A l \in Positions("ratelimiter") : l >= exitAt
                   THEN 1 ELSE 0
  /\ IF mode \in {"exit", "exited"} THEN exitAt > pos ELSE exitAt = 0
  /\ Over => pos = 0

LEMMA DoneInit == Init => DoneInv
BY DEF Init, DoneInv, Over

LEMMA DoneStep == Typed /\ DoneInv /\ [Next]_vars => DoneInv'
<1> SUFFICES ASSUME Typed, DoneInv, [Next]_vars PROVE DoneInv'
  OBVIOUS
<1> USE DEF Typed, TypeOK, ChainOK, DownIsFresh, AnswerIsInside, logs, hist, origin,
            ends, seen, At,
            Positions, Over, DoneInv
<1>1. CASE UNCHANGED vars \/ Ended
  BY <1>1 DEF vars, Ended
<1>2. CASE PassDown
  BY <1>2 DEF PassDown, Descend
<1>3. CASE LimiterDown
  BY <1>3 DEF LimiterDown, Descend, Refuse, Answer, ReturnUp
<1>4. CASE AuthDown
  BY <1>4 DEF AuthDown, Descend, Refuse, Answer, ReturnUp, Break,
    PanicUp, ExitUp
<1>5. CASE ContextDown
  BY <1>5 DEF ContextDown, Descend, Break, PanicUp, ExitUp
<1>6. CASE Handle
  BY <1>6 DEF Handle, Answer, ReturnUp, PanicUp, ExitUp
<1>7. CASE LimiterUp
  BY <1>7 DEF LimiterUp
<1>8. CASE AccessUp
  BY <1>8 DEF AccessUp
<1>9. CASE ErrorlogUp
  BY <1>9 DEF ErrorlogUp
<1>10. CASE SlowlogUp
  BY <1>10 DEF SlowlogUp
<1>11. CASE UnifiedUp
  BY <1>11 DEF UnifiedUp, ReturnUp
<1>12. CASE Recover
  BY <1>12 DEF Recover, Answer, ReturnUp, PanicUp, ExitUp
<1>13. CASE PassUp
  BY <1>13 DEF PassUp
<1>14. CASE Finish
  BY <1>14 DEF Finish
<1> QED
  BY <1>1, <1>2, <1>3, <1>4, <1>5, <1>6, <1>7, <1>8,
     <1>9, <1>10, <1>11, <1>12, <1>13, <1>14 DEF Next

\* done is called exactly once for every request that Allow let in and whose
\* goroutine did not exit further in, wherever the limiter is in the chain.
THEOREM DoneCorrect == Spec => []DoneExactlyOnce
<1>1. Typed /\ DoneInv => DoneExactlyOnce
  BY DEF Typed, TypeOK, ChainOK, DoneInv, DoneExactlyOnce, Over, Positions
<1> QED
  BY <1>1, DoneInit, DoneStep, TypedAlways, PTL DEF Spec

-------------------------------------------------------------------------------
(* Panics and errors.                                                       *)

\* A panic that is under way at pos was raised inside pos and met no recovery
\* since, unless HandlerFunc raised it.
PanicInv ==
  mode \in {"panic", "crashed"} =>
    /\ panicAt > pos
    /\ handled # "panic" => \A p \in Positions("recovery") : p > pos => p > panicAt
    /\ mode = "crashed" => pos = 0

LEMMA PanicInit == Init => PanicInv
BY DEF Init, PanicInv

LEMMA PanicStep == Typed /\ PanicInv /\ [Next]_vars => PanicInv'
<1> SUFFICES ASSUME Typed, PanicInv, [Next]_vars PROVE PanicInv'
  OBVIOUS
<1> USE DEF Typed, TypeOK, ChainOK, DownIsFresh, AnswerIsInside, logs, hist, origin,
            ends, seen, At,
            Positions, Over, PanicInv
<1>1. CASE UNCHANGED vars \/ Ended
  BY <1>1 DEF vars, Ended
<1>2. CASE PassDown
  BY <1>2 DEF PassDown, Descend
<1>3. CASE LimiterDown
  BY <1>3 DEF LimiterDown, Descend, Refuse, Answer, ReturnUp
<1>4. CASE AuthDown
  BY <1>4 DEF AuthDown, Descend, Refuse, Answer, ReturnUp, Break,
    PanicUp, ExitUp
<1>5. CASE ContextDown
  BY <1>5 DEF ContextDown, Descend, Break, PanicUp, ExitUp
<1>6. CASE Handle
  BY <1>6 DEF Handle, Answer, ReturnUp, PanicUp, ExitUp
<1>7. CASE LimiterUp
  BY <1>7 DEF LimiterUp
<1>8. CASE AccessUp
  BY <1>8 DEF AccessUp
<1>9. CASE ErrorlogUp
  BY <1>9 DEF ErrorlogUp
<1>10. CASE SlowlogUp
  BY <1>10 DEF SlowlogUp
<1>11. CASE UnifiedUp
  BY <1>11 DEF UnifiedUp, ReturnUp
<1>12. CASE Recover
  BY <1>12 DEF Recover, Answer, ReturnUp, PanicUp, ExitUp
<1>13. CASE PassUp
  BY <1>13 DEF PassUp
<1>14. CASE Finish
  BY <1>14 DEF Finish
<1> QED
  BY <1>1, <1>2, <1>3, <1>4, <1>5, <1>6, <1>7, <1>8,
     <1>9, <1>10, <1>11, <1>12, <1>13, <1>14 DEF Next

LEMMA PanicAlways == Spec => []PanicInv
BY PanicInit, PanicStep, TypedAlways, PTL DEF Spec

\* Only a panic raised outside every recovery, or by HandlerFunc, kills the
\* process.
THEOREM PanicCorrect == Spec => []PanicContained
<1>1. Typed /\ PanicInv => PanicContained
  BY DEF Typed, TypeOK, ChainOK, PanicInv, PanicContained, Positions
<1> QED
  BY <1>1, PanicAlways, TypedAlways, PTL

\* The way back carries a success only for the reasons NoFailureSwallowed names.
SuccessInv ==
  mode \in {"up", "replied"} =>
    /\ err = "nil" =>
         \/ outcome = "nil"
         \/ handled = "nil"
         \/ cause = "nilStatus" /\ \E q \in Positions("unifiederror") : q < causeAt
    /\ err = "nilStatus" => cause = "nilStatus"

LEMMA SuccessInit == Init => SuccessInv
BY DEF Init, SuccessInv

LEMMA UnifiedSuccess ==
  \A e \in Errs : /\ Unify(e) = "nil" => e \in {"nil", "nilStatus"}
                  /\ Unify(e) # "nilStatus"
                  /\ ReplyCode(e) = "OK" => e = "nil"
BY DEF Unify, ReplyCode, Code, Errs, UserErrors

LEMMA SuccessStep == Typed /\ SuccessInv /\ [Next]_vars => SuccessInv'
<1> SUFFICES ASSUME Typed, SuccessInv, [Next]_vars PROVE SuccessInv'
  OBVIOUS
<1> USE DEF Typed, TypeOK, ChainOK, DownIsFresh, AnswerIsInside, logs, hist, origin,
            ends, seen, At,
            Positions, Over, SuccessInv
<1>1. CASE UNCHANGED vars \/ Ended
  BY <1>1 DEF vars, Ended
<1>2. CASE PassDown
  BY <1>2 DEF PassDown, Descend
<1>3. CASE LimiterDown
  BY <1>3 DEF LimiterDown, Descend, Refuse, Answer, ReturnUp
<1>4. CASE AuthDown
  BY <1>4 DEF AuthDown, Descend, Refuse, Answer, ReturnUp, Break,
    PanicUp, ExitUp, UserErrors
<1>5. CASE ContextDown
  BY <1>5 DEF ContextDown, Descend, Break, PanicUp, ExitUp
<1>6. CASE Handle
  BY <1>6 DEF Handle, Answer, ReturnUp, PanicUp, ExitUp, UserErrors
<1>7. CASE LimiterUp
  BY <1>7 DEF LimiterUp
<1>8. CASE AccessUp
  BY <1>8 DEF AccessUp
<1>9. CASE ErrorlogUp
  BY <1>9 DEF ErrorlogUp
<1>10. CASE SlowlogUp
  BY <1>10 DEF SlowlogUp
<1>11. CASE UnifiedUp
  <2>1. err' = Unify(err) /\ mode = "up" /\ pos \in Positions("unifiederror")
    BY <1>11 DEF UnifiedUp, ReturnUp
  <2>2. err' = "nil" => err \in {"nil", "nilStatus"}
    BY <2>1, UnifiedSuccess
  <2>3. err' # "nilStatus"
    BY <2>1, UnifiedSuccess
  <2> QED
    BY <1>11, <2>1, <2>2, <2>3 DEF UnifiedUp, ReturnUp
<1>12. CASE Recover
  BY <1>12 DEF Recover, Answer, ReturnUp, PanicUp, ExitUp, UserErrors
<1>13. CASE PassUp
  BY <1>13 DEF PassUp
<1>14. CASE Finish
  BY <1>14 DEF Finish
<1> QED
  BY <1>1, <1>2, <1>3, <1>4, <1>5, <1>6, <1>7, <1>8,
     <1>9, <1>10, <1>11, <1>12, <1>13, <1>14 DEF Next

\* No order of interceptors, however long, turns a failure into a success, whatever
\* error the handler, authFunc or HandlerFunc returns: only a HandlerFunc that
\* forgives, or a nil status that meets unifiederror, does.
THEOREM SuccessCorrect == Spec => []NoFailureSwallowed
<1>1. Typed /\ SuccessInv => NoFailureSwallowed
  <2> SUFFICES ASSUME Typed, SuccessInv, mode = "replied", ReplyCode(err) = "OK"
               PROVE  NoFailureSwallowed
    BY DEF NoFailureSwallowed
  <2>1. err = "nil"
    BY UnifiedSuccess DEF Typed, TypeOK
  <2> QED
    BY <2>1 DEF SuccessInv, NoFailureSwallowed
<1> QED
  BY <1>1, SuccessInit, SuccessStep, TypedAlways, PTL DEF Spec

-------------------------------------------------------------------------------
(* The context of auth.                                                     *)

\* The context at pos is that of every auth interceptor outside it.
ContextInv ==
  /\ \A a \in Positions("auth") : a < pos => a \in ctx
  /\ AuthContextReaches

LEMMA ContextInit == Init => ContextInv
BY ChainsAssumption DEF Init, ContextInv, AuthContextReaches, Positions

LEMMA ContextStep == Typed /\ ContextInv /\ [Next]_vars => ContextInv'
<1> SUFFICES ASSUME Typed, ContextInv, [Next]_vars PROVE ContextInv'
  OBVIOUS
<1> USE DEF Typed, TypeOK, ChainOK, DownIsFresh, AnswerIsInside, logs, hist, origin,
            ends, seen, At,
            Positions, Over, ContextInv, AuthContextReaches
<1>1. CASE UNCHANGED vars \/ Ended
  BY <1>1 DEF vars, Ended
<1>2. CASE PassDown
  BY <1>2 DEF PassDown, Descend
<1>3. CASE LimiterDown
  BY <1>3 DEF LimiterDown, Descend, Refuse, Answer, ReturnUp
<1>4. CASE AuthDown
  BY <1>4 DEF AuthDown, Descend, Refuse, Answer, ReturnUp, Break,
    PanicUp, ExitUp
<1>5. CASE ContextDown
  BY <1>5 DEF ContextDown, Descend, Break, PanicUp, ExitUp
<1>6. CASE Handle
  BY <1>6 DEF Handle, Answer, ReturnUp, PanicUp, ExitUp
<1>7. CASE LimiterUp
  BY <1>7 DEF LimiterUp
<1>8. CASE AccessUp
  BY <1>8 DEF AccessUp
<1>9. CASE ErrorlogUp
  BY <1>9 DEF ErrorlogUp
<1>10. CASE SlowlogUp
  BY <1>10 DEF SlowlogUp
<1>11. CASE UnifiedUp
  BY <1>11 DEF UnifiedUp, ReturnUp
<1>12. CASE Recover
  BY <1>12 DEF Recover, Answer, ReturnUp, PanicUp, ExitUp, ContextAt
<1>13. CASE PassUp
  BY <1>13 DEF PassUp
<1>14. CASE Finish
  BY <1>14 DEF Finish
<1> QED
  BY <1>1, <1>2, <1>3, <1>4, <1>5, <1>6, <1>7, <1>8,
     <1>9, <1>10, <1>11, <1>12, <1>13, <1>14 DEF Next

\* The context of every auth interceptor reaches the handler, and HandlerFunc has
\* that of those outside recovery.
THEOREM ContextCorrect == Spec => []AuthContextReaches
<1>1. ContextInv => AuthContextReaches
  BY DEF ContextInv
<1> QED
  BY <1>1, ContextInit, ContextStep, TypedAlways, PTL DEF Spec

-------------------------------------------------------------------------------
(* The access log.                                                          *)

LEMMA CodesAreCodes == "none" \notin Codes /\ "skipped" \notin Codes
BY DEF Codes, Code, Errs, UserErrors

\* What came back through the access log, or panicked past it where no recovery
\* was to stop it first, as AccessLogged says at the end.
LoggedInv ==
  /\ handled # "none" => \E r \in Positions("recovery") : r > pos
  /\ \A p \in Positions("accesslog") :
       /\ mode \in {"up", "panic", "replied", "crashed"}
       /\ pos < p /\ deepest > p
       /\ \/ panicAt <= p
          \/ /\ handled # "panic"
             /\ \E q \in Positions("recovery") : p < q /\ q < panicAt
       => accessLog # "none"

LEMMA LoggedInit == Init => LoggedInv
BY DEF Init, LoggedInv

LEMMA LoggedStep == Typed /\ PanicInv /\ LoggedInv /\ [Next]_vars => LoggedInv'
<1> SUFFICES ASSUME Typed /\ PanicInv, LoggedInv, [Next]_vars PROVE LoggedInv'
  OBVIOUS
<1> USE DEF Typed, TypeOK, ChainOK, DownIsFresh, AnswerIsInside, logs, hist, origin,
            ends, seen, At,
            Positions, Over, PanicInv, LoggedInv
<1>1. CASE UNCHANGED vars \/ Ended
  BY <1>1 DEF vars, Ended
<1>2. CASE PassDown
  BY <1>2 DEF PassDown, Descend
<1>3. CASE LimiterDown
  BY <1>3 DEF LimiterDown, Descend, Refuse, Answer, ReturnUp
<1>4. CASE AuthDown
  BY <1>4 DEF AuthDown, Descend, Refuse, Answer, ReturnUp, Break,
    PanicUp, ExitUp
<1>5. CASE ContextDown
  BY <1>5 DEF ContextDown, Descend, Break, PanicUp, ExitUp
<1>6. CASE Handle
  BY <1>6 DEF Handle, Answer, ReturnUp, PanicUp, ExitUp
<1>7. CASE LimiterUp
  BY <1>7 DEF LimiterUp
<1>8. CASE AccessUp
  BY <1>8, CodesClosed, CodesAreCodes DEF AccessUp
<1>9. CASE ErrorlogUp
  BY <1>9 DEF ErrorlogUp
<1>10. CASE SlowlogUp
  BY <1>10 DEF SlowlogUp
<1>11. CASE UnifiedUp
  BY <1>11 DEF UnifiedUp, ReturnUp
<1>12. CASE Recover
  BY <1>12 DEF Recover, Answer, ReturnUp, PanicUp, ExitUp
<1>13. CASE PassUp
  BY <1>13 DEF PassUp
<1>14. CASE Finish
  BY <1>14 DEF Finish
<1> QED
  BY <1>1, <1>2, <1>3, <1>4, <1>5, <1>6, <1>7, <1>8,
     <1>9, <1>10, <1>11, <1>12, <1>13, <1>14 DEF Next

\* Every request that came back through the access log has an entry there.
THEOREM LoggedCorrect == Spec => []AccessLogged
<1>1. Typed /\ DoneInv /\ LoggedInv => AccessLogged
    BY DEF Typed, TypeOK, ChainOK, DoneInv, LoggedInv, AccessLogged, Over,
     Positions
<1> QED
  BY <1>1, LoggedInit, LoggedStep, DoneInit, DoneStep, PanicAlways, TypedAlways,
     PTL DEF Spec

\* What unifiederror returns is not disputed, and it leaves the code of what is
\* not disputed.
LEMMA UnifiedSettles ==
  \A e \in Errs : /\ Unify(e) \notin Disputed
                  /\ e \notin Disputed =>
                       Code(e) = ReplyCode(e) /\ ReplyCode(Unify(e)) = ReplyCode(e)
BY DEF Unify, ReplyCode, Code, Disputed, Errs, UserErrors

\* What AccessLogMatchesReply says of the log once it is written.
LogFits ==
  \/ accessLog = ReplyCode(err)
  \/ /\ cause \in Disputed
     /\ \A p \in Positions("accesslog"), q \in Positions("unifiederror") :
          ~(p < q /\ q < causeAt)

\* Only the answer as it was given is disputed, and no longer past unifiederror;
\* so the status that is logged is the one of the reply, and stays it.
MatchInv ==
  /\ mode \in {"up", "replied"} =>
       /\ err \in Disputed => err = cause
       /\ \A q \in Positions("unifiederror") :
            pos < q /\ q < causeAt => err \notin Disputed
  /\ accessLog \in Codes =>
       /\ mode \in {"up", "replied"}
       /\ \E p \in Positions("accesslog") : pos < p
       /\ LogFits

LEMMA MatchInit == Init => MatchInv
BY CodesAreCodes DEF Init, MatchInv

LEMMA MatchStep == Typed /\ MatchInv /\ [Next]_vars => MatchInv'
<1> SUFFICES ASSUME Typed, MatchInv, [Next]_vars PROVE MatchInv'
  OBVIOUS
<1> USE DEF Typed, TypeOK, ChainOK, DownIsFresh, AnswerIsInside, logs, hist, origin,
            ends, seen, At,
            Positions, Over, MatchInv, LogFits
<1>1. CASE UNCHANGED vars \/ Ended
  BY <1>1 DEF vars, Ended
<1>2. CASE PassDown
  BY <1>2, CodesAreCodes DEF PassDown, Descend
<1>3. CASE LimiterDown
  BY <1>3, CodesAreCodes DEF LimiterDown, Descend, Refuse, Answer, ReturnUp
<1>4. CASE AuthDown
  BY <1>4, CodesAreCodes DEF AuthDown, Descend, Refuse, Answer, ReturnUp, Break,
    PanicUp, ExitUp
<1>5. CASE ContextDown
  BY <1>5, CodesAreCodes DEF ContextDown, Descend, Break, PanicUp, ExitUp
<1>6. CASE Handle
  BY <1>6, CodesAreCodes DEF Handle, Answer, ReturnUp, PanicUp, ExitUp
<1>7. CASE LimiterUp
  BY <1>7 DEF LimiterUp
<1>8. CASE AccessUp
  <2>1. mode = "up" /\ pos \in Positions("accesslog")
    BY <1>8 DEF AccessUp
  <2>2. \A p \in Positions("accesslog") : p = pos
    BY <2>1
  <2>3. UNCHANGED <<chain, mode, err, cause, causeAt>> /\ pos' = pos - 1
    BY <1>8 DEF AccessUp
  <2>4. accessLog' \in {Code(err), "skipped"}
    BY <1>8 DEF AccessUp
  <2>5. err \notin Disputed => Code(err) = ReplyCode(err)
    BY UnifiedSettles
  <2>6. ReplyCode(err)' = ReplyCode(err)
    BY <2>3
  <2>7. err \in Disputed => LogFits'
    BY <2>1, <2>2, <2>3
  <2>8. accessLog' \in Codes => LogFits'
    BY <2>4, <2>5, <2>6, <2>7, CodesAreCodes
  <2> QED
    BY <2>1, <2>3, <2>8
<1>9. CASE ErrorlogUp
  BY <1>9 DEF ErrorlogUp
<1>10. CASE SlowlogUp
  BY <1>10 DEF SlowlogUp
<1>11. CASE UnifiedUp
  <2>1. mode = "up" /\ pos \in Positions("unifiederror") /\ err' = Unify(err)
    BY <1>11 DEF UnifiedUp, ReturnUp
  <2>2. UNCHANGED <<chain, cause, causeAt, accessLog>> /\ pos' = pos - 1 /\ mode' = "up"
    BY <1>11 DEF UnifiedUp, ReturnUp
  <2>3. err' \notin Disputed
    BY <2>1, UnifiedSettles
  <2>4. err \notin Disputed => ReplyCode(err)' = ReplyCode(err)
    BY <2>1, UnifiedSettles
  <2>5. \A q \in Positions("unifiederror") : q = pos
    BY <2>1
  <2>6. accessLog \in Codes => LogFits'
    BY <2>1, <2>2, <2>4, <2>5
  <2> QED
    BY <2>2, <2>3, <2>6
<1>12. CASE Recover
  BY <1>12 DEF Recover, Answer, ReturnUp, PanicUp, ExitUp
<1>13. CASE PassUp
  BY <1>13 DEF PassUp
<1>14. CASE Finish
  BY <1>14 DEF Finish
<1> QED
  BY <1>1, <1>2, <1>3, <1>4, <1>5, <1>6, <1>7, <1>8,
     <1>9, <1>10, <1>11, <1>12, <1>13, <1>14 DEF Next

\* In chains of any length the access log names the status the client gets, but for
\* a disputed error that meets no unifiederror before the log.
THEOREM MatchCorrect == Spec => []AccessLogMatchesReply
<1>1. MatchInv => AccessLogMatchesReply
  BY DEF MatchInv, LogFits, AccessLogMatchesReply
<1> QED
  BY <1>1, MatchInit, MatchStep, TypedAlways, PTL DEF Spec
-------------------------------------------------------------------------------
(* The contexts of package context.                                         *)

\* What the context passed down has of the context interceptors outside pos.
OwnContextInv ==
  /\ \A c \in Positions("context") :
       IF kind = "unary" THEN c < pos => c \in ctx ELSE c \notin ctx
  /\ kind = "unary" => ContextReaches
  /\ kind = "stream" => Positions("context") \cap handlerCtx = {}

LEMMA OwnContextStep == Typed /\ OwnContextInv /\ [Next]_vars => OwnContextInv'
<1> SUFFICES ASSUME Typed, OwnContextInv, [Next]_vars PROVE OwnContextInv'
  OBVIOUS
<1> USE DEF Typed, TypeOK, ChainOK, DownIsFresh, AnswerIsInside, logs, hist, origin,
            ends, seen, At,
            Positions, OwnContextInv, ContextReaches
<1>1. CASE UNCHANGED vars \/ Ended
  BY <1>1 DEF vars, Ended
<1>2. CASE PassDown
  BY <1>2 DEF PassDown, Descend
<1>3. CASE LimiterDown
  BY <1>3 DEF LimiterDown, Descend, Refuse, Answer, ReturnUp
<1>4. CASE AuthDown
  BY <1>4 DEF AuthDown, Descend, Refuse, Answer, ReturnUp, Break,
    PanicUp, ExitUp
<1>5. CASE ContextDown
  BY <1>5 DEF ContextDown, Descend, Break, PanicUp, ExitUp
<1>6. CASE Handle
  BY <1>6 DEF Handle, Answer, ReturnUp, PanicUp, ExitUp
<1>7. CASE LimiterUp
  BY <1>7 DEF LimiterUp
<1>8. CASE AccessUp
  BY <1>8 DEF AccessUp
<1>9. CASE ErrorlogUp
  BY <1>9 DEF ErrorlogUp
<1>10. CASE SlowlogUp
  BY <1>10 DEF SlowlogUp
<1>11. CASE UnifiedUp
  BY <1>11 DEF UnifiedUp, ReturnUp
<1>12. CASE Recover
  BY <1>12 DEF Recover, Answer, ReturnUp, PanicUp, ExitUp, ContextAt
<1>13. CASE PassUp
  BY <1>13 DEF PassUp
<1>14. CASE Finish
  BY <1>14 DEF Finish
<1> QED
  BY <1>1, <1>2, <1>3, <1>4, <1>5, <1>6, <1>7, <1>8, <1>9, <1>10, <1>11, <1>12,
     <1>13, <1>14 DEF Next

\* Where ContextReaches fails, and why: on every unary call, in any chain, the
\* handler finds the context of every context interceptor, on a stream that of
\* none (context/interceptors.go:20-28, 50-60).
THEOREM OwnContextCorrect ==
  Spec => [](/\ kind = "unary" => ContextReaches
             /\ kind = "stream" => Positions("context") \cap handlerCtx = {})
<1>1. Init => OwnContextInv
  BY ChainsAssumption DEF Init, OwnContextInv, ContextReaches, Positions
<1>2. OwnContextInv => /\ kind = "unary" => ContextReaches
                       /\ kind = "stream" => Positions("context") \cap handlerCtx = {}
  BY DEF OwnContextInv
<1> QED
  BY <1>1, <1>2, OwnContextStep, TypedAlways, PTL DEF Spec

-------------------------------------------------------------------------------
(* The end of a request.                                                    *)

\* The steps a request still has before it, if every interceptor calls on.
Ahead ==
  IF mode = "down" THEN 2 * Len(chain) + 3 - pos
  ELSE IF Over THEN 0 ELSE pos + 1

Nearer == Ahead' < Ahead

LEMMA AheadStep == Typed /\ [Next]_vars => [Nearer]_vars
<1> SUFFICES ASSUME Typed, [Next]_vars PROVE [Nearer]_vars
  OBVIOUS
<1> USE DEF Typed, TypeOK, ChainOK, DownIsFresh, AnswerIsInside, logs, hist, origin,
            ends, seen, At, Over,
            Ahead, Nearer
<1>1. CASE UNCHANGED vars \/ Ended
  BY <1>1 DEF vars, Ended
<1>2. CASE PassDown
  BY <1>2 DEF PassDown, Descend
<1>3. CASE LimiterDown
  BY <1>3 DEF LimiterDown, Descend, Refuse, Answer, ReturnUp
<1>4. CASE AuthDown
  BY <1>4 DEF AuthDown, Descend, Refuse, Answer, ReturnUp, Break,
    PanicUp, ExitUp
<1>5. CASE ContextDown
  BY <1>5 DEF ContextDown, Descend, Break, PanicUp, ExitUp
<1>6. CASE Handle
  BY <1>6 DEF Handle, Answer, ReturnUp, PanicUp, ExitUp
<1>7. CASE LimiterUp
  BY <1>7 DEF LimiterUp
<1>8. CASE AccessUp
  BY <1>8 DEF AccessUp
<1>9. CASE ErrorlogUp
  BY <1>9 DEF ErrorlogUp
<1>10. CASE SlowlogUp
  BY <1>10 DEF SlowlogUp
<1>11. CASE UnifiedUp
  BY <1>11 DEF UnifiedUp, ReturnUp
<1>12. CASE Recover
  BY <1>12 DEF Recover, Answer, ReturnUp, PanicUp, ExitUp, ContextAt
<1>13. CASE PassUp
  BY <1>13 DEF PassUp
<1>14. CASE Finish
  BY <1>14 DEF Finish
<1> QED
  BY <1>1, <1>2, <1>3, <1>4, <1>5, <1>6, <1>7, <1>8, <1>9, <1>10, <1>11, <1>12,
     <1>13, <1>14 DEF Next

\* No order of interceptors, refusal, panic, exit or HandlerFunc that panics again
\* makes a request go round: each step brings it nearer to its end, which it
\* reaches after 2 * Len(chain) + 2 steps or fewer.
THEOREM RequestIsFinite ==
  /\ Init => Ahead = 2 * Len(chain) + 2
  /\ Spec => [](Ahead \in Nat) /\ [][Nearer]_vars
<1>1. Init => Ahead = 2 * Len(chain) + 2
  <2> SUFFICES ASSUME Init PROVE Ahead = 2 * Len(chain) + 2
    OBVIOUS
  <2>1. Len(chain) \in Nat
    BY TypedInit DEF Typed, ChainOK
  <2> QED
    BY <2>1 DEF Init, Ahead
<1>2. Typed => Ahead \in Nat
  BY DEF Typed, TypeOK, ChainOK, Ahead, Over
<1> QED
  BY <1>1, <1>2, AheadStep, TypedAlways, TypedInit, PTL DEF Spec
===============================================================================
