-------------------------- MODULE ClientChain_proofs --------------------------
(***************************************************************************)
(* Proofs about ClientChain, for chains of any length without a repeated   *)
(* interceptor and any MaxRetries.                                         *)
(***************************************************************************)
EXTENDS ClientChain, FiniteSetTheorems, TLAPS

-------------------------------------------------------------------------------
(* Types.                                                                  *)

ChainOK == chain \in Seq(Interceptors) /\ IsInjective(chain)

\* Every conjunct of TypeOK but the last one.
Types ==
  /\ chain \in Seq(Interceptors) /\ kind \in {"unary", "stream"}
  /\ pos \in 0 .. Len(chain) + 1
  /\ mode \in {"down", "up", "sleeping", "over"}
  /\ err \in Errors \cup {"nil"} /\ answer \in Errors \cup {"nil"}
  /\ heard \in Errors \cup {"nil"} /\ begun \in Nat
  /\ appCtx \in {"live", "Expired", "Canceled"}
  /\ deadline \in {"none", "live", "Expired", "Canceled"}
  /\ carried \in Nat /\ attempt \in 0 .. MaxRetries
  /\ admitted \in Nat /\ marks \in Nat /\ tries \in Nat
  /\ stream \in {"none", "open", "over"}
  /\ accessLog \in Codes \cup {"none", "skipped"}
  /\ errorLog \in Codes \cup {"none"}
  /\ slowLog \in BOOLEAN
  /\ deepest \in 1 .. Len(chain) + 1

\* The call sleeps in retry, goes down from an interceptor, and has a stream once
\* it is over.
Modes ==
  /\ mode = "sleeping" => At("retry")
  /\ mode = "down" => pos >= 1
  /\ stream # "none" => mode = "over"
  /\ mode = "over" => pos = 0

\* The context carries what the context interceptor above added: on the way down
\* that of one outside pos, on the way up also its own.
Carries ==
  /\ mode \in {"down", "sleeping"} =>
       carried = IF \E c \in Positions("context") : c < pos THEN 1 ELSE 0
  /\ mode \in {"up", "over"} =>
       carried = IF \E c \in Positions("context") : c <= pos THEN 1 ELSE 0

Typed == ChainOK /\ Types /\ Modes /\ Carries

LEMMA CodesClosed == \A e \in Errors \cup {"nil"} : Code(e) \in Codes
BY DEF Codes

LEMMA OwnErrors == {"Canceled", "DeadlineExceeded", "ResourceExhausted"} \subseteq Errors
BY DEF Errors, FailureCodes, RetryableCodes

LEMMA TypedInit == Init => Typed
<1> SUFFICES ASSUME Init PROVE Typed
  OBVIOUS
<1>1. ChainOK
  BY ClientAssumption DEF Init, ChainOK
<1>2. Len(chain) \in Nat
  BY <1>1 DEF ChainOK
<1>3. pos \in 0 .. Len(chain) + 1 /\ deepest \in 1 .. Len(chain) + 1
  BY <1>2 DEF Init
<1>4. attempt \in 0 .. MaxRetries
  BY ClientAssumption DEF Init
<1>5. Types
  <2>1. chain \in Seq(Interceptors)
    BY <1>1 DEF ChainOK
  <2> QED
    BY <1>3, <1>4, <2>1 DEF Init, Types
<1>6. Modes
  BY DEF Init, Modes
<1>7. Carries
  <2>1. ~\E c \in Positions("context") : c < 1
    BY <1>1 DEF Positions, ChainOK
  <2> QED
    BY <2>1 DEF Init, Carries
<1> QED
  BY <1>1, <1>5, <1>6, <1>7 DEF Typed

LEMMA TypedStep == Typed /\ [Next]_vars => Typed'
<1> SUFFICES ASSUME Typed, [Next]_vars PROVE Typed'
  OBVIOUS
<1> USE DEF Typed, Types, ChainOK, Modes, IsInjective, At, Positions, client,
            stack, contexts, breaker, logs, hist, loop
<1>1. CASE UNCHANGED vars \/ Stop
  BY <1>1 DEF vars, Stop, Carries
<1>2. CASE AppCtxEnds
  <2>1. (ChainOK /\ Types /\ Modes)'
    BY <1>2 DEF AppCtxEnds
  <2>2. Carries'
    BY <1>2 DEF AppCtxEnds, Carries
  <2> QED
    BY <2>1, <2>2
<1>3. CASE DeadlinePasses
  <2>1. (ChainOK /\ Types /\ Modes)'
    BY <1>3 DEF DeadlinePasses
  <2>2. Carries'
    BY <1>3 DEF DeadlinePasses, Carries
  <2> QED
    BY <2>1, <2>2
<1>4. CASE PassDown
  <2>1. (ChainOK /\ Types /\ Modes)'
    BY <1>4 DEF PassDown, Descend
  <2>2. Carries'
    BY <1>4 DEF PassDown, Descend, Carries
  <2> QED
    BY <2>1, <2>2
<1>5. CASE ContextDown
  <2>1. (ChainOK /\ Types /\ Modes)'
    BY <1>5 DEF ContextDown, Descend
  <2>2. Carries'
    BY <1>5 DEF ContextDown, Descend, Carries
  <2> QED
    BY <2>1, <2>2
<1>6. CASE TimeoutDown
  <2>1. (ChainOK /\ Types /\ Modes)'
    BY <1>6 DEF TimeoutDown, Descend
  <2>2. Carries'
    BY <1>6 DEF TimeoutDown, Descend, Carries
  <2> QED
    BY <2>1, <2>2
<1>7. CASE BreakerDown
  <2>1. CASE mode' = "down"
    BY <1>7, <2>1 DEF BreakerDown, Descend, ReturnUp, Carries
  <2>2. CASE mode' = "up"
    <3>1. /\ pos' = pos - 1 /\ err' = "ResourceExhausted" /\ mode = "down" /\ pos \in DOMAIN chain
          /\ UNCHANGED <<client, contexts, attempt, marks, stream, logs, admitted, hist>>
      BY <1>7, <2>2 DEF BreakerDown, Descend, ReturnUp
    <3>2. (ChainOK /\ Types /\ Modes)'
      BY <2>2, <3>1, OwnErrors
    <3>3. Carries'
      BY <2>2, <3>1 DEF Carries
    <3> QED
      BY <3>2, <3>3
  <2> QED
    BY <1>7, <2>1, <2>2 DEF BreakerDown, Descend, ReturnUp
<1>8. CASE Reply
  <2>1. (ChainOK /\ Types /\ Modes)'
    BY <1>8, ClientAssumption DEF Reply, Respond, InTransport, ReturnUp
  <2>2. Carries'
    BY <1>8 DEF Reply, Respond, InTransport, ReturnUp, Carries
  <2> QED
    BY <2>1, <2>2
<1>9. CASE GiveUp
  <2>1. (ChainOK /\ Types /\ Modes)'
    BY <1>9, OwnErrors DEF GiveUp, Respond, InTransport, ReturnUp
  <2>2. Carries'
    BY <1>9 DEF GiveUp, Respond, InTransport, ReturnUp, Carries
  <2> QED
    BY <2>1, <2>2
<1>10. CASE ContextUp
  <2>1. carried = 1
    BY <1>10 DEF ContextUp, PassUp, Carries
  <2>2. (ChainOK /\ Types /\ Modes)'
    BY <1>10, <2>1 DEF ContextUp, PassUp
  <2>3. Carries'
    BY <1>10, <2>1 DEF ContextUp, PassUp, Carries
  <2> QED
    BY <2>2, <2>3
<1>11. CASE TimeoutUp
  <2>1. (ChainOK /\ Types /\ Modes)'
    BY <1>11 DEF TimeoutUp, PassUp
  <2>2. Carries'
    BY <1>11 DEF TimeoutUp, PassUp, Carries
  <2> QED
    BY <2>1, <2>2
<1>12. CASE AccessUp
  <2>1. (ChainOK /\ Types /\ Modes)'
    BY <1>12, CodesClosed DEF AccessUp, PassUp
  <2>2. Carries'
    BY <1>12, CodesClosed DEF AccessUp, PassUp, Carries
  <2> QED
    BY <2>1, <2>2
<1>13. CASE ErrorlogUp
  <2>1. (ChainOK /\ Types /\ Modes)'
    BY <1>13, CodesClosed DEF ErrorlogUp, PassUp
  <2>2. Carries'
    BY <1>13, CodesClosed DEF ErrorlogUp, PassUp, Carries
  <2> QED
    BY <2>1, <2>2
<1>14. CASE SlowlogUp
  <2>1. slowLog' \in BOOLEAN
    BY <1>14 DEF SlowlogUp
  <2>2. (ChainOK /\ Types /\ Modes)'
    BY <1>14, <2>1 DEF SlowlogUp, PassUp
  <2>3. Carries'
    BY <1>14 DEF SlowlogUp, PassUp, Carries
  <2> QED
    BY <2>2, <2>3
<1>15. CASE BreakerUp
  <2>1. (ChainOK /\ Types /\ Modes)'
    BY <1>15 DEF BreakerUp, PassUp
  <2>2. Carries'
    BY <1>15 DEF BreakerUp, PassUp, Carries
  <2> QED
    BY <2>1, <2>2
<1>16. CASE RetryUp
  <2> USE ClientAssumption
  <2>1. ASSUME PassUp, UNCHANGED attempt PROVE Typed'
    BY <1>16, <2>1 DEF RetryUp, PassUp, Carries
  <2>2. ASSUME ReturnUp("Canceled"), UNCHANGED attempt PROVE Typed'
    BY <1>16, <2>2, OwnErrors DEF RetryUp, ReturnUp, Carries
  <2>3. ASSUME attempt # MaxRetries, mode' = "sleeping", attempt' = attempt + 1,
               UNCHANGED <<pos, err>>
        PROVE  Typed'
    <3>1. attempt + 1 \in 0 .. MaxRetries
      BY <2>3
    <3> QED
      BY <1>16, <2>3, <3>1 DEF RetryUp, Carries
  <2> QED
    BY <1>16, <2>1, <2>2, <2>3 DEF RetryUp
<1>17. CASE WakeByTimer
  <2>1. (ChainOK /\ Types /\ Modes)'
    BY <1>17 DEF WakeByTimer
  <2>2. Carries'
    BY <1>17 DEF WakeByTimer, Carries
  <2> QED
    BY <2>1, <2>2
<1>18. CASE WakeByContext
  <2>1. (ChainOK /\ Types /\ Modes)'
    BY <1>18, OwnErrors DEF WakeByContext, ReturnUp
  <2>2. Carries'
    BY <1>18 DEF WakeByContext, ReturnUp, Carries
  <2> QED
    BY <2>1, <2>2
<1>19. CASE Finish
  <2>1. (ChainOK /\ Types /\ Modes)'
    BY <1>19 DEF Finish
  <2>2. Carries'
    BY <1>19 DEF Finish, Carries
  <2> QED
    BY <2>1, <2>2
<1>20. CASE RecvError
  <2>1. (ChainOK /\ Types /\ Modes)'
    BY <1>20 DEF RecvError
  <2>2. Carries'
    BY <1>20 DEF RecvError, Carries
  <2> QED
    BY <2>1, <2>2
<1> QED
  BY <1>1, <1>2, <1>3, <1>4, <1>5, <1>6, <1>7, <1>8, <1>9, <1>10,
     <1>11, <1>12, <1>13, <1>14, <1>15, <1>16, <1>17, <1>18, <1>19, <1>20
     DEF Next, Climb

LEMMA TypedAlways == Spec => []Typed
BY TypedInit, TypedStep, PTL DEF Spec

\* Every variable has its type, and the context of every attempt carries what
\* each context interceptor above added, once.
THEOREM TypeCorrect == Spec => []TypeOK
<1>1. Typed => TypeOK
  <2> SUFFICES ASSUME Typed PROVE TypeOK
    OBVIOUS
  <2> DEFINE S == {p \in Positions("context") : p < pos}
  <2>1. \A p, q \in S : p = q
    BY DEF Typed, ChainOK, IsInjective, Positions
  <2>2. CASE S = {}
    <3>1. Cardinality(S) = 0
      BY <2>2, FS_EmptySet
    <3>2. mode = "down" => carried = 0
      BY <2>2 DEF Typed, Carries
    <3> HIDE DEF S
    <3> QED
      BY <3>1, <3>2 DEF Typed, Types, TypeOK, S
  <2>3. CASE S # {}
    <3>1. PICK p : S = {p}
      BY <2>1, <2>3
    <3>2. Cardinality(S) = 1
      BY <3>1, FS_Singleton
    <3>3. mode = "down" => carried = 1
      BY <2>3 DEF Typed, Carries
    <3> HIDE DEF S
    <3> QED
      BY <3>2, <3>3 DEF Typed, Types, TypeOK, S
  <2> QED
    BY <2>2, <2>3
<1> QED
  BY <1>1, TypedAlways, PTL

-------------------------------------------------------------------------------
(* The breaker.                                                            *)

\* An admitted attempt is pending: it is inside the breaker, or it opened a stream
\* that has not ended.
Pending ==
  \E b \in Positions("circuitbreaker") :
    \/ mode \in {"down", "sleeping"} /\ b < pos
    \/ mode = "up" /\ b <= pos
    \/ mode = "up" /\ b > pos /\ kind = "stream" /\ err = "nil"
    \/ mode = "over" /\ stream = "open"

MarkInv ==
  /\ admitted = marks + (IF Pending THEN 1 ELSE 0)
  /\ stream = "open" => kind = "stream"

LEMMA MarkStep == Typed /\ MarkInv /\ [Next]_vars => MarkInv'
<1> SUFFICES ASSUME Typed, MarkInv, [Next]_vars PROVE MarkInv'
  OBVIOUS
<1> USE DEF Typed, Types, ChainOK, Modes, IsInjective, At, Positions, client,
            stack, contexts, breaker, logs, hist, loop, MarkInv
<1>1. CASE UNCHANGED vars \/ Stop
  <2>1. Pending' <=> Pending
    BY <1>1 DEF vars, Stop, Pending
  <2> QED
    BY <1>1, <2>1 DEF vars, Stop
<1>2. CASE AppCtxEnds
  <2>1. Pending' <=> Pending
    BY <1>2 DEF AppCtxEnds, Pending
  <2> QED
    BY <1>2, <2>1 DEF AppCtxEnds
<1>3. CASE DeadlinePasses
  <2>1. Pending' <=> Pending
    BY <1>3 DEF DeadlinePasses, Pending
  <2> QED
    BY <1>3, <2>1 DEF DeadlinePasses
<1>4. CASE PassDown
  <2>1. Pending' <=> Pending
    BY <1>4 DEF PassDown, Descend, Pending
  <2> QED
    BY <1>4, <2>1 DEF PassDown, Descend
<1>5. CASE ContextDown
  <2>1. Pending' <=> Pending
    BY <1>5 DEF ContextDown, Descend, Pending
  <2> QED
    BY <1>5, <2>1 DEF ContextDown, Descend
<1>6. CASE TimeoutDown
  <2>1. Pending' <=> Pending
    BY <1>6 DEF TimeoutDown, Descend, Pending
  <2> QED
    BY <1>6, <2>1 DEF TimeoutDown, Descend
<1>7. CASE BreakerDown
  <2>1. ~Pending
    BY <1>7 DEF BreakerDown, Descend, ReturnUp, Pending
  <2>2. CASE mode' = "down"
    <3>1. Pending' /\ admitted' = admitted + 1
      BY <1>7, <2>2 DEF BreakerDown, Descend, ReturnUp, Pending
    <3> QED
      BY <1>7, <2>1, <3>1 DEF BreakerDown
  <2>3. CASE mode' = "up"
    <3>1. ~Pending' /\ admitted' = admitted
      BY <1>7, <2>3 DEF BreakerDown, Descend, ReturnUp, Pending
    <3> QED
      BY <1>7, <2>1, <3>1 DEF BreakerDown
  <2> QED
    BY <1>7, <2>2, <2>3 DEF BreakerDown, Descend, ReturnUp
<1>8. CASE Reply
  <2>1. Pending' <=> Pending
    BY <1>8 DEF Reply, Respond, InTransport, ReturnUp, Pending
  <2> QED
    BY <1>8, <2>1 DEF Reply, Respond, InTransport, ReturnUp
<1>9. CASE GiveUp
  <2>1. Pending' <=> Pending
    BY <1>9 DEF GiveUp, Respond, InTransport, ReturnUp, Pending
  <2> QED
    BY <1>9, <2>1 DEF GiveUp, Respond, InTransport, ReturnUp
<1>10. CASE ContextUp
  <2>1. Pending' <=> Pending
    BY <1>10 DEF ContextUp, PassUp, Pending
  <2> QED
    BY <1>10, <2>1 DEF ContextUp, PassUp
<1>11. CASE TimeoutUp
  <2>1. Pending' <=> Pending
    BY <1>11 DEF TimeoutUp, PassUp, Pending
  <2> QED
    BY <1>11, <2>1 DEF TimeoutUp, PassUp
<1>12. CASE AccessUp
  <2>1. Pending' <=> Pending
    BY <1>12 DEF AccessUp, PassUp, Pending
  <2> QED
    BY <1>12, <2>1 DEF AccessUp, PassUp
<1>13. CASE ErrorlogUp
  <2>1. Pending' <=> Pending
    BY <1>13 DEF ErrorlogUp, PassUp, Pending
  <2> QED
    BY <1>13, <2>1 DEF ErrorlogUp, PassUp
<1>14. CASE SlowlogUp
  <2>1. Pending' <=> Pending
    BY <1>14 DEF SlowlogUp, PassUp, Pending
  <2> QED
    BY <1>14, <2>1 DEF SlowlogUp, PassUp
<1>15. CASE BreakerUp
  <2>1. Pending
    BY <1>15 DEF BreakerUp, PassUp, Pending
  <2>2. Pending' <=> kind = "stream" /\ err = "nil"
    BY <1>15 DEF BreakerUp, PassUp, Pending
  <2> QED
    BY <1>15, <2>1, <2>2 DEF BreakerUp
<1>16. CASE RetryUp
  <2>1. Pending' <=> Pending
    BY <1>16, OwnErrors DEF RetryUp, PassUp, ReturnUp, Final, Pending
  <2> QED
    BY <1>16, <2>1 DEF RetryUp, PassUp, ReturnUp
<1>17. CASE WakeByTimer
  <2>1. Pending' <=> Pending
    BY <1>17 DEF WakeByTimer, Pending
  <2> QED
    BY <1>17, <2>1 DEF WakeByTimer
<1>18. CASE WakeByContext
  <2>1. Pending' <=> Pending
    BY <1>18 DEF WakeByContext, ReturnUp, Pending
  <2> QED
    BY <1>18, <2>1 DEF WakeByContext, ReturnUp
<1>19. CASE Finish
  <2>1. Pending' <=> Pending
    BY <1>19 DEF Finish, Pending
  <2> QED
    BY <1>19, <2>1 DEF Finish
<1>20. CASE RecvError
  <2>1. ~Pending'
    BY <1>20 DEF RecvError, Pending
  <2>2. Pending <=> stream = "open" /\ Positions("circuitbreaker") # {}
    BY <1>20 DEF RecvError, Pending
  <2> QED
    BY <1>20, <2>1, <2>2 DEF RecvError
<1> QED
  BY <1>1, <1>2, <1>3, <1>4, <1>5, <1>6, <1>7, <1>8, <1>9, <1>10,
     <1>11, <1>12, <1>13, <1>14, <1>15, <1>16, <1>17, <1>18, <1>19, <1>20
     DEF Next, Climb

\* Every attempt the breaker admits is marked once, wherever the breaker is.
THEOREM MarkedCorrect == Spec => []MarkedOnce
<1>1. Init => MarkInv
  BY ClientAssumption DEF Init, MarkInv, Pending, Positions
<1>2. Typed /\ MarkInv => MarkedOnce
  BY DEF Typed, Types, MarkInv, MarkedOnce, Pending
<1> QED
  BY <1>1, <1>2, MarkStep, TypedAlways, PTL DEF Spec

\* Retry counts the attempts, and before the breaker admits anything nothing is
\* inside it.  Outside retry it admits once for each attempt.
ShieldInv ==
  /\ mode \in {"down", "sleeping"} => tries <= attempt
  /\ tries <= attempt + 1
  /\ \A b \in Positions("circuitbreaker") :
       /\ admitted = 0 => /\ tries = 0
                          /\ mode = "down" => pos <= b
                          /\ mode # "down" => pos < b
       /\ (\A r \in Positions("retry") : r < b) =>
            tries + (IF mode = "down" /\ b < pos THEN 1 ELSE 0) <= admitted

LEMMA ShieldStep == Typed /\ ShieldInv /\ [Next]_vars => ShieldInv'
<1> SUFFICES ASSUME Typed, ShieldInv, [Next]_vars PROVE ShieldInv'
  OBVIOUS
<1> USE DEF Typed, Types, ChainOK, Modes, IsInjective, At, Positions, client,
            stack, contexts, breaker, logs, hist, loop, ShieldInv
<1>1. CASE UNCHANGED vars \/ Stop
  BY <1>1 DEF vars, Stop
<1>2. CASE AppCtxEnds
  BY <1>2 DEF AppCtxEnds
<1>3. CASE DeadlinePasses
  BY <1>3 DEF DeadlinePasses
<1>4. CASE PassDown
  BY <1>4 DEF PassDown, Descend
<1>5. CASE ContextDown
  BY <1>5 DEF ContextDown, Descend
<1>6. CASE TimeoutDown
  BY <1>6 DEF TimeoutDown, Descend
<1>7. CASE BreakerDown
  BY <1>7 DEF BreakerDown, Descend, ReturnUp
<1>8. CASE Reply
  BY <1>8, ClientAssumption DEF Reply, Respond, InTransport, ReturnUp
<1>9. CASE GiveUp
  BY <1>9 DEF GiveUp, Respond, InTransport, ReturnUp
<1>10. CASE ContextUp
  BY <1>10 DEF ContextUp, PassUp
<1>11. CASE TimeoutUp
  BY <1>11 DEF TimeoutUp, PassUp
<1>12. CASE AccessUp
  BY <1>12 DEF AccessUp, PassUp
<1>13. CASE ErrorlogUp
  BY <1>13 DEF ErrorlogUp, PassUp
<1>14. CASE SlowlogUp
  BY <1>14 DEF SlowlogUp, PassUp
<1>15. CASE BreakerUp
  BY <1>15 DEF BreakerUp, PassUp
<1>16. CASE RetryUp
  <2>1. MaxRetries \in Nat /\ tries \in Nat /\ attempt \in Nat /\ admitted \in Nat
        /\ pos \in Nat
    BY ClientAssumption
  <2>2. UNCHANGED <<chain, tries, admitted>> /\ mode = "up" /\ At("retry")
    BY <1>16 DEF RetryUp
  <2>3. CASE mode' = "up"
    <3>1. attempt' = attempt /\ pos' = pos - 1
      BY <1>16, <2>3 DEF RetryUp, PassUp, ReturnUp
    <3> QED
      BY <2>1, <2>2, <2>3, <3>1
  <2>4. CASE mode' = "sleeping"
    <3>1. attempt' = attempt + 1 /\ pos' = pos
      BY <1>16, <2>4 DEF RetryUp, PassUp, ReturnUp
    <3>2. \A b \in Positions("circuitbreaker") : admitted = 0 => pos < b
      BY <2>1, <2>2 
    <3> QED
      BY <2>1, <2>2, <2>4, <3>1, <3>2
  <2> QED
    BY <1>16, <2>3, <2>4 DEF RetryUp, PassUp, ReturnUp
<1>17. CASE WakeByTimer
  BY <1>17 DEF WakeByTimer
<1>18. CASE WakeByContext
  BY <1>18 DEF WakeByContext, ReturnUp
<1>19. CASE Finish
  BY <1>19 DEF Finish
<1>20. CASE RecvError
  BY <1>20 DEF RecvError
<1> QED
  BY <1>1, <1>2, <1>3, <1>4, <1>5, <1>6, <1>7, <1>8, <1>9, <1>10,
     <1>11, <1>12, <1>13, <1>14, <1>15, <1>16, <1>17, <1>18, <1>19, <1>20
     DEF Next, Climb

\* The transport gets no attempt that the breaker did not admit, for any
\* MaxRetries.
THEOREM ShieldCorrect == Spec => []BreakerShields
<1>1. Init => ShieldInv
  BY ClientAssumption DEF Init, ShieldInv, Positions
<1>2. Typed /\ ShieldInv => BreakerShields
  <2> SUFFICES ASSUME Typed, ShieldInv, NEW b \in Positions("circuitbreaker")
               PROVE  tries <= admitted * (IF \E r \in Positions("retry") : b < r
                                           THEN MaxRetries + 1 ELSE 1)
    BY DEF BreakerShields
  <2>1. tries \in Nat /\ admitted \in Nat /\ attempt \in 0 .. MaxRetries
        /\ MaxRetries \in Nat /\ tries <= MaxRetries + 1
    BY ClientAssumption DEF Typed, Types, ShieldInv
  <2>2. CASE \E r \in Positions("retry") : b < r
    <3>1. CASE admitted = 0
      <4>1. tries = 0 /\ admitted * (MaxRetries + 1) = 0
        BY <2>1, <3>1 DEF ShieldInv
      <4> QED
        BY <2>2, <4>1
    <3>2. CASE admitted # 0
      <4>1. admitted * (MaxRetries + 1) = (admitted - 1) * (MaxRetries + 1) + (MaxRetries + 1)
        BY <2>1
      <4>2. (admitted - 1) * (MaxRetries + 1) \in Nat
        <5>1. admitted - 1 \in Nat /\ MaxRetries + 1 \in Nat
          BY <2>1, <3>2
        <5> QED
          BY <5>1
      <4>3. MaxRetries + 1 <= admitted * (MaxRetries + 1)
        BY <2>1, <4>1, <4>2
      <4>4. admitted * (MaxRetries + 1) \in Nat
        BY <2>1
      <4> QED
        BY <2>1, <2>2, <4>3, <4>4
    <3> QED
      BY <3>1, <3>2
  <2>3. CASE ~\E r \in Positions("retry") : b < r
    <3>1. \A r \in Positions("retry") : r < b
      BY <2>3 DEF Typed, ChainOK, Positions
    <3>2. tries <= admitted
      BY <2>1, <3>1 DEF ShieldInv
    <3> QED
      BY <2>1, <2>3, <3>2
  <2> QED
    BY <2>2, <2>3
<1> QED
  BY <1>1, <1>2, ShieldStep, TypedAlways, PTL DEF Spec

-------------------------------------------------------------------------------
(* Deadlines and logs.                                                     *)

\* On the way back Canceled has one of the causes OwnDeadline names.
CanceledInv ==
  mode \in {"up", "over"} /\ err = "Canceled" =>
    \/ answer = "Canceled"
    \/ appCtx # "live"
    \/ \E s \in Positions("timeout"), r \in Positions("retry") : s < r

LEMMA CanceledStep == Typed /\ CanceledInv /\ [Next]_vars => CanceledInv'
<1> SUFFICES ASSUME Typed, CanceledInv, [Next]_vars PROVE CanceledInv'
  OBVIOUS
<1> USE DEF Typed, Types, ChainOK, Modes, IsInjective, At, Positions, client,
            stack, contexts, breaker, logs, hist, loop, CanceledInv
<1>1. CASE UNCHANGED vars \/ Stop
  BY <1>1 DEF vars, Stop
<1>2. CASE AppCtxEnds
  BY <1>2 DEF AppCtxEnds
<1>3. CASE DeadlinePasses
  BY <1>3 DEF DeadlinePasses
<1>4. CASE PassDown
  BY <1>4 DEF PassDown, Descend
<1>5. CASE ContextDown
  BY <1>5 DEF ContextDown, Descend
<1>6. CASE TimeoutDown
  BY <1>6 DEF TimeoutDown, Descend
<1>7. CASE BreakerDown
  BY <1>7 DEF BreakerDown, Descend, ReturnUp
<1>8. CASE Reply
  BY <1>8 DEF Reply, Respond, InTransport, ReturnUp
<1>9. CASE GiveUp
  BY <1>9 DEF GiveUp, Respond, InTransport, ReturnUp
<1>10. CASE ContextUp
  BY <1>10 DEF ContextUp, PassUp
<1>11. CASE TimeoutUp
  BY <1>11 DEF TimeoutUp, PassUp
<1>12. CASE AccessUp
  BY <1>12 DEF AccessUp, PassUp
<1>13. CASE ErrorlogUp
  BY <1>13 DEF ErrorlogUp, PassUp
<1>14. CASE SlowlogUp
  BY <1>14 DEF SlowlogUp, PassUp
<1>15. CASE BreakerUp
  BY <1>15 DEF BreakerUp, PassUp
<1>16. CASE RetryUp
  BY <1>16 DEF RetryUp, PassUp, ReturnUp, Final, Ended
<1>17. CASE WakeByTimer
  BY <1>17 DEF WakeByTimer
<1>18. CASE WakeByContext
  BY <1>18 DEF WakeByContext, ReturnUp, Ended
<1>19. CASE Finish
  BY <1>19 DEF Finish
<1>20. CASE RecvError
  BY <1>20 DEF RecvError
<1> QED
  BY <1>1, <1>2, <1>3, <1>4, <1>5, <1>6, <1>7, <1>8, <1>9, <1>10,
     <1>11, <1>12, <1>13, <1>14, <1>15, <1>16, <1>17, <1>18, <1>19, <1>20
     DEF Next, Climb

\* A deadline of an attempt that has passed is no reason to give the call up.
THEOREM OwnDeadlineCorrect == Spec => []OwnDeadline
<1>1. Init => CanceledInv
  BY DEF Init, CanceledInv
<1>2. CanceledInv => OwnDeadline
  BY DEF CanceledInv, OwnDeadline
<1> QED
  BY <1>1, <1>2, CanceledStep, TypedAlways, PTL DEF Spec

OutsideRetry(p) == \A r \in Positions("retry") : p < r

\* A log outside retry is not written before the call comes back to it, which it
\* does once.
LogInv ==
  \A p \in DOMAIN chain : OutsideRetry(p) =>
    /\ mode \in {"down", "sleeping"} /\ deepest > p => pos > p
    /\ chain[p] = "errorlog" /\ (mode \in {"down", "sleeping"} \/ pos >= p) =>
         errorLog = "none"
    /\ mode \in {"up", "over"} /\ pos < p /\ deepest > p =>
         /\ chain[p] = "accesslog" => accessLog \in {Code(err), "skipped"}
         /\ chain[p] = "errorlog" =>
              errorLog = IF err = "nil" THEN "none" ELSE Code(err)

LEMMA LogStep == Typed /\ LogInv /\ [Next]_vars => LogInv'
<1> SUFFICES ASSUME Typed, LogInv, [Next]_vars PROVE LogInv'
  OBVIOUS
<1> USE DEF Typed, Types, ChainOK, Modes, IsInjective, At, Positions, client,
            stack, contexts, breaker, logs, hist, loop, LogInv, OutsideRetry
<1>1. CASE UNCHANGED vars \/ Stop
  BY <1>1 DEF vars, Stop
<1>2. CASE AppCtxEnds
  BY <1>2 DEF AppCtxEnds
<1>3. CASE DeadlinePasses
  BY <1>3 DEF DeadlinePasses
<1>4. CASE PassDown
  BY <1>4 DEF PassDown, Descend
<1>5. CASE ContextDown
  BY <1>5 DEF ContextDown, Descend
<1>6. CASE TimeoutDown
  BY <1>6 DEF TimeoutDown, Descend
<1>7. CASE BreakerDown
  BY <1>7 DEF BreakerDown, Descend, ReturnUp
<1>8. CASE Reply
  BY <1>8 DEF Reply, Respond, InTransport, ReturnUp
<1>9. CASE GiveUp
  BY <1>9 DEF GiveUp, Respond, InTransport, ReturnUp
<1>10. CASE ContextUp
  BY <1>10 DEF ContextUp, PassUp
<1>11. CASE TimeoutUp
  BY <1>11 DEF TimeoutUp, PassUp
<1>12. CASE AccessUp
  BY <1>12 DEF AccessUp, PassUp
<1>13. CASE ErrorlogUp
  BY <1>13 DEF ErrorlogUp, PassUp
<1>14. CASE SlowlogUp
  BY <1>14 DEF SlowlogUp, PassUp
<1>15. CASE BreakerUp
  BY <1>15 DEF BreakerUp, PassUp
<1>16. CASE RetryUp
  BY <1>16 DEF RetryUp, PassUp, ReturnUp, Final
<1>17. CASE WakeByTimer
  BY <1>17 DEF WakeByTimer
<1>18. CASE WakeByContext
  BY <1>18 DEF WakeByContext, ReturnUp
<1>19. CASE Finish
  BY <1>19 DEF Finish
<1>20. CASE RecvError
  BY <1>20 DEF RecvError
<1> QED
  BY <1>1, <1>2, <1>3, <1>4, <1>5, <1>6, <1>7, <1>8, <1>9, <1>10,
     <1>11, <1>12, <1>13, <1>14, <1>15, <1>16, <1>17, <1>18, <1>19, <1>20
     DEF Next, Climb

\* A log outside retry names the status the application gets.
THEOREM LogsCorrect == Spec => []LogsTellApplication
<1>1. Init => LogInv
  BY ClientAssumption DEF Init, LogInv, Positions
<1>2. Typed /\ LogInv => LogsTellApplication
  <2> SUFFICES ASSUME Typed, LogInv, mode = "over", NEW p \in 1 .. deepest - 1,
                      Positions("retry") \cap 1 .. p = {}
               PROVE  /\ chain[p] = "accesslog" => accessLog \in {Code(err), "skipped"}
                      /\ chain[p] = "errorlog" =>
                           errorLog = IF err = "nil" THEN "none" ELSE Code(err)
    BY DEF LogsTellApplication
  <2>1. p \in DOMAIN chain /\ p < deepest /\ pos < p
    BY DEF Typed, Types, ChainOK, Modes
  <2>2. OutsideRetry(p)
    BY <2>1 DEF OutsideRetry, Positions, Typed, ChainOK
  <2> QED
    BY <2>1, <2>2 DEF LogInv, Typed, Types
<1> QED
  BY <1>1, <1>2, LogStep, TypedAlways, PTL DEF Spec

-------------------------------------------------------------------------------
(* The promise of retry.                                                   *)

\* The attempts retry has begun, by where the call is: none before retry is
\* reached, one more than the loop counter while one is inside it, as many as the
\* counter during a back-off.  A timeout outside retry starts its deadline before.
LoopInv ==
  \A r \in Positions("retry") :
    /\ mode = "down" /\ pos <= r =>
         begun = 0 /\ attempt = 0 /\ heard = "nil" /\ deepest <= r
    /\ (mode = "down" /\ pos > r) \/ (mode = "up" /\ pos >= r) =>
         begun = attempt + 1 /\ deepest > r
    /\ mode = "sleeping" => begun = attempt /\ attempt > 0 /\ deepest > r
    /\ mode = "down" =>
         \A t \in Positions("timeout") : t < r /\ pos <= t => deadline = "none"

LEMMA LoopStep == Typed /\ LoopInv /\ [Next]_vars => LoopInv'
<1> SUFFICES ASSUME Typed, LoopInv, [Next]_vars PROVE LoopInv'
  OBVIOUS
<1> USE DEF Typed, Types, ChainOK, Modes, IsInjective, At, Positions, client,
            stack, contexts, breaker, logs, hist, loop, LoopInv
<1>1. CASE UNCHANGED vars \/ Stop
  BY <1>1 DEF vars, Stop
<1>2. CASE AppCtxEnds
  BY <1>2 DEF AppCtxEnds
<1>3. CASE DeadlinePasses
  BY <1>3 DEF DeadlinePasses
<1>4. CASE PassDown
  BY <1>4 DEF PassDown, Descend
<1>5. CASE ContextDown
  BY <1>5 DEF ContextDown, Descend
<1>6. CASE TimeoutDown
  <2>1. /\ pos \in DOMAIN chain /\ chain[pos] = "timeout"
        /\ pos \in Nat /\ deepest \in Nat /\ DOMAIN chain \subseteq Nat
        /\ mode = "down" /\ mode' = "down" /\ pos' = pos + 1
        /\ deepest' = IF deepest < pos + 1 THEN pos + 1 ELSE deepest
    BY <1>6 DEF TimeoutDown, Descend
  <2>2. UNCHANGED <<chain, attempt, heard, begun>>
    BY <1>6 DEF TimeoutDown, Descend
  <2>3. \A t \in DOMAIN chain : chain[t] = "timeout" => t = pos
    BY <2>1
  <2>4. \A r \in DOMAIN chain : chain[r] = "retry" => pos # r
    BY <2>1
  <2> SUFFICES ASSUME NEW r \in DOMAIN chain, chain[r] = "retry"
               PROVE  /\ pos' <= r =>
                           begun' = 0 /\ attempt' = 0 /\ heard' = "nil" /\ deepest' <= r
                      /\ pos' > r => begun' = attempt' + 1 /\ deepest' > r
                      /\ ~\E t \in DOMAIN chain :
                           chain[t] = "timeout" /\ t < r /\ pos' <= t
    BY <2>1, <2>2
  <2>5. ~\E t \in DOMAIN chain : chain[t] = "timeout" /\ t < r /\ pos' <= t
    BY <2>1, <2>3
  <2> QED
    BY <2>1, <2>2, <2>4, <2>5
<1>7. CASE BreakerDown
  <2>1. CASE Descend /\ admitted' = admitted + 1
    <3>1. \A r \in DOMAIN chain : chain[r] = "retry" => pos # r
      BY <1>7 DEF BreakerDown
    <3> QED
      BY <1>7, <2>1, <3>1 DEF BreakerDown, Descend
  <2>2. CASE mode = "down" /\ ReturnUp("ResourceExhausted") /\ UNCHANGED hist
    <3>1. \A r \in DOMAIN chain : chain[r] = "retry" => pos # r
      BY <1>7 DEF BreakerDown
    <3> QED
      BY <1>7, <2>2, <3>1 DEF BreakerDown, ReturnUp
  <2> QED
    BY <1>7, <2>1, <2>2 DEF BreakerDown
<1>8. CASE Reply
  BY <1>8 DEF Reply, Respond, InTransport, ReturnUp
<1>9. CASE GiveUp
  BY <1>9 DEF GiveUp, Respond, InTransport, ReturnUp
<1>10. CASE ContextUp
  BY <1>10 DEF ContextUp, PassUp
<1>11. CASE TimeoutUp
  BY <1>11 DEF TimeoutUp, PassUp
<1>12. CASE AccessUp
  BY <1>12 DEF AccessUp, PassUp
<1>13. CASE ErrorlogUp
  BY <1>13 DEF ErrorlogUp, PassUp
<1>14. CASE SlowlogUp
  BY <1>14 DEF SlowlogUp, PassUp
<1>15. CASE BreakerUp
  BY <1>15 DEF BreakerUp, PassUp
<1>16. CASE RetryUp
  BY <1>16 DEF RetryUp, PassUp, ReturnUp, Final
<1>17. CASE WakeByTimer
  BY <1>17 DEF WakeByTimer
<1>18. CASE WakeByContext
  BY <1>18 DEF WakeByContext, ReturnUp
<1>19. CASE Finish
  BY <1>19 DEF Finish
<1>20. CASE RecvError
  BY <1>20 DEF RecvError
<1> QED
  BY <1>1, <1>2, <1>3, <1>4, <1>5, <1>6, <1>7, <1>8, <1>9, <1>10, <1>11,
     <1>12, <1>13, <1>14, <1>15, <1>16, <1>17, <1>18, <1>19, <1>20
     DEF Next, Climb

LEMMA ChainFixed == [Next]_vars => chain' = chain
BY DEF Next, Climb, vars, client, AppCtxEnds, DeadlinePasses, PassDown,
       ContextDown, TimeoutDown, BreakerDown, Reply, GiveUp, Respond, ContextUp,
       TimeoutUp, AccessUp, ErrorlogUp, SlowlogUp, BreakerUp, RetryUp,
       WakeByTimer, WakeByContext, Finish, RecvError, Stop

\* The context of retry is done once and for all, and by no other step.
LEMMA ContextSteps ==
  ASSUME Typed, LoopInv, [Next]_vars, NEW r \in Positions("retry")
  PROVE  /\ Ended(r) => Ended(r)'
         /\ ~AppCtxEnds /\ ~DeadlinePasses => (Ended(r)' <=> Ended(r))
<1> USE DEF Ended, Positions, client, stack, contexts, hist, loop
<1>1. CASE TimeoutDown
  <2>1. /\ pos \in DOMAIN chain /\ chain[pos] = "timeout" /\ mode = "down"
        /\ deadline' = "live" /\ UNCHANGED <<chain, appCtx>>
    BY <1>1 DEF TimeoutDown, Descend, At
  <2>2. \A t \in DOMAIN chain : chain[t] = "timeout" => t = pos
    BY <2>1 DEF Typed, ChainOK, IsInjective
  <2>3. pos < r => deadline = "none"
    BY <2>1 DEF LoopInv, Typed, Types
  <2> QED
    BY <2>1, <2>2, <2>3
<1>2. CASE TimeoutUp
  BY <1>2 DEF TimeoutUp
<1>3. CASE AppCtxEnds \/ DeadlinePasses
  BY <1>3 DEF AppCtxEnds, DeadlinePasses
<1>4. CASE UNCHANGED <<chain, appCtx, deadline>>
  BY <1>4
<1> QED
  BY <1>1, <1>2, <1>3, <1>4
     DEF Next, Climb, vars, PassDown, ContextDown, BreakerDown, Reply, GiveUp,
         Respond, ContextUp, AccessUp, ErrorlogUp, SlowlogUp, BreakerUp, RetryUp,
         WakeByTimer, WakeByContext, Finish, RecvError, Stop

LEMMA StepAtRetry ==
  ASSUME Typed, LoopInv, [Next]_vars, NEW r \in Positions("retry")
  PROVE  [Promise!Next]_(Promise!vars)
<1> DEFINE Inside == (mode = "down" /\ pos > r) \/ (mode = "up" /\ pos >= r)
           Back == mode \in {"up", "over"} /\ pos < r /\ deepest > r
<1>1. chain' = chain
  BY ChainFixed
<1>2. Positions("retry") = {r} /\ Positions("retry")' = {r}
  BY <1>1 DEF Typed, ChainOK, IsInjective, Positions
<1>3. /\ (Trying <=> Inside) /\ (Trying' <=> Inside')
      /\ (Returned <=> Back) /\ (Returned' <=> Back')
      /\ (\E q \in Positions("retry") : Ended(q)) <=> Ended(r)
      /\ (\E q \in Positions("retry") : Ended(q))' <=> Ended(r)'
  BY <1>2 DEF Trying, Returned
<1>4. ASSUME UNCHANGED <<begun, heard>>, Inside' <=> Inside, Back' <=> Back,
             Back => err' = err, Ended(r)' <=> Ended(r)
      PROVE  UNCHANGED Promise!vars
  <2> HIDE DEF Inside, Back
  <2> QED
    BY <1>3, <1>4 DEF Promise!vars
<1>5. /\ pos \in Nat /\ deepest \in Nat /\ begun \in Nat /\ attempt \in Nat
      /\ attempt <= MaxRetries /\ MaxRetries \in Nat
      /\ r \in Nat /\ r \in DOMAIN chain /\ chain[r] = "retry" /\ r <= Len(chain)
      /\ (At("retry") <=> pos = r)
  BY ClientAssumption DEF Typed, ChainOK, Types, Positions, At, IsInjective
<1>6. /\ mode = "down" /\ pos <= r =>
           begun = 0 /\ attempt = 0 /\ heard = "nil" /\ deepest <= r
      /\ Inside => begun = attempt + 1 /\ deepest > r
      /\ mode = "sleeping" => begun = attempt /\ attempt > 0 /\ deepest > r /\ pos = r
  BY <1>5 DEF LoopInv, Typed, Modes
<1> USE DEF client, stack, contexts, breaker, logs, hist, loop
<1>7. CASE UNCHANGED vars \/ Stop
  BY <1>4, <1>7, ContextSteps DEF vars, Stop, Ended, Positions
<1>8. CASE AppCtxEnds \/ DeadlinePasses
  <2>1. UNCHANGED <<mode, pos, deepest, err, begun, heard>>
    BY <1>8 DEF AppCtxEnds, DeadlinePasses
  <2>2. CASE Ended(r)' <=> Ended(r)
    BY <1>4, <2>1, <2>2
  <2>3. CASE ~(Ended(r)' <=> Ended(r))
    <3>1. ~Ended(r) /\ Ended(r)'
      BY <2>3, ContextSteps
    <3>2. Promise!ContextEnds
      BY <1>3, <2>1, <3>1 DEF Promise!ContextEnds
    <3> QED
      BY <3>2 DEF Promise!Next
  <2> QED
    BY <2>2, <2>3
<1>9. CASE PassDown
  <2>1. /\ mode = "down" /\ mode' = "down" /\ pos' = pos + 1 /\ UNCHANGED <<err, heard>>
        /\ begun' = IF pos = r THEN begun + 1 ELSE begun
        /\ Ended(r)' <=> Ended(r)
    BY <1>5, <1>9, ContextSteps DEF PassDown, Descend, AppCtxEnds, DeadlinePasses
  <2>2. CASE pos = r
    <3>1. Promise!Begin
      BY <1>3, <1>5, <1>6, <2>1, <2>2 DEF Promise!Begin, Promise!Left
    <3> QED
      BY <3>1 DEF Promise!Next
  <2>3. CASE pos # r
    BY <1>4, <1>5, <2>1, <2>3
  <2> QED
    BY <2>2, <2>3
<1>10. CASE ContextDown \/ TimeoutDown \/ (BreakerDown /\ Descend)
  <2>1. /\ mode = "down" /\ mode' = "down" /\ pos' = pos + 1 /\ pos # r
        /\ UNCHANGED <<err, heard, begun>>
        /\ Ended(r)' <=> Ended(r)
    BY <1>5, <1>10, ContextSteps
       DEF ContextDown, TimeoutDown, BreakerDown, Descend, At, AppCtxEnds, DeadlinePasses
  <2> QED
    BY <1>4, <1>5, <2>1
<1>11. CASE Reply \/ GiveUp \/ (BreakerDown /\ ~Descend)
  <2>1. /\ mode = "down" /\ mode' = "up" /\ pos' = pos - 1 /\ pos # r
        /\ UNCHANGED <<deepest, heard, begun>>
    BY <1>5, <1>11
       DEF Reply, GiveUp, Respond, InTransport, BreakerDown, ReturnUp, At
  <2>2. Ended(r)' <=> Ended(r)
    BY <1>11, <2>1, ContextSteps DEF AppCtxEnds, DeadlinePasses
  <2> QED
    BY <1>4, <1>5, <1>6, <2>1, <2>2
<1>12. CASE ContextUp \/ TimeoutUp \/ AccessUp \/ ErrorlogUp \/ SlowlogUp \/ BreakerUp
  <2>1. /\ mode = "up" /\ mode' = "up" /\ pos' = pos - 1 /\ pos # r
        /\ UNCHANGED <<err, deepest, heard, begun>>
        /\ Ended(r)' <=> Ended(r)
    BY <1>5, <1>12, ContextSteps
       DEF ContextUp, TimeoutUp, AccessUp, ErrorlogUp, SlowlogUp, BreakerUp,
           PassUp, At, AppCtxEnds, DeadlinePasses
  <2> QED
    BY <1>4, <1>5, <2>1
<1>13. CASE RetryUp
  <2>1. /\ mode = "up" /\ pos = r /\ heard' = err /\ UNCHANGED <<deepest, begun>>
        /\ Ended(r)' <=> Ended(r)
        /\ begun = attempt + 1 /\ deepest > r
    BY <1>5, <1>6, <1>13, ContextSteps DEF RetryUp, AppCtxEnds, DeadlinePasses
  <2>2. /\ Promise!Retryable(err) <=> Retryable(err)
        /\ err \in Promise!Errors \cup {"nil"} /\ ~Retryable("nil")
    BY DEF Typed, Types, Promise!Retryable, Promise!RetryableCodes,
           Promise!Errors, Promise!FailureCodes, Retryable, RetryableCodes,
           Errors, FailureCodes
  <2>3. Promise!Left <=> attempt # MaxRetries
    BY <1>5, <2>1 DEF Promise!Left
  <2>4. Promise!End(err)
    <3>1. CASE Final
      <4>1. mode' = "up" /\ pos' = r - 1 /\ err' = err /\ ~Retryable(err)
        BY <1>13, <2>1, <2>2, <3>1 DEF RetryUp, PassUp, Final
      <4> QED
        BY <1>3, <1>5, <2>1, <2>2, <4>1 DEF Promise!End
    <3>2. CASE ~Final /\ Ended(r)
      <4>1. mode' = "up" /\ pos' = r - 1 /\ err' = "Canceled" /\ Retryable(err)
        BY <1>13, <2>1, <3>2 DEF RetryUp, ReturnUp, Final
      <4> QED
        BY <1>3, <1>5, <2>1, <2>2, <3>2, <4>1 DEF Promise!End
    <3>3. CASE ~Final /\ ~Ended(r) /\ attempt = MaxRetries
      <4>1. mode' = "up" /\ pos' = r - 1 /\ err' = err
        BY <1>13, <2>1, <3>3 DEF RetryUp, PassUp
      <4> QED
        BY <1>3, <1>5, <2>1, <2>3, <3>3, <4>1 DEF Promise!End
    <3>4. CASE ~Final /\ ~Ended(r) /\ attempt # MaxRetries
      <4>1. mode' = "sleeping" /\ pos' = r /\ Retryable(err)
        BY <1>13, <2>1, <3>4 DEF RetryUp, Final
      <4>2. Inside /\ ~Inside' /\ ~Back /\ ~Back'
        BY <1>5, <2>1, <4>1
      <4>3. Promise!Retryable(err) /\ Promise!Left
        BY <2>2, <2>3, <3>4, <4>1
      <4> HIDE DEF Inside, Back
      <4> QED
        BY <1>3, <2>1, <4>2, <4>3 DEF Promise!End
    <3> QED
      BY <3>1, <3>2, <3>3, <3>4
  <2> QED
    BY <2>2, <2>4 DEF Promise!Next
<1>14. CASE WakeByTimer
  <2>1. /\ mode = "sleeping" /\ mode' = "down" /\ pos' = pos + 1
        /\ begun' = begun + 1 /\ UNCHANGED <<heard, deepest>>
        /\ Ended(r)' <=> Ended(r)
    BY <1>14, ContextSteps DEF WakeByTimer, AppCtxEnds, DeadlinePasses
  <2>2. Promise!Begin
    BY <1>3, <1>5, <1>6, <2>1 DEF Promise!Begin, Promise!Left
  <2> QED
    BY <2>2 DEF Promise!Next
<1>15. CASE WakeByContext
  <2>1. /\ mode = "sleeping" /\ mode' = "up" /\ pos' = pos - 1 /\ err' = "Canceled"
        /\ Ended(pos) /\ UNCHANGED <<heard, begun, deepest>>
        /\ Ended(r)' <=> Ended(r)
    BY <1>15, ContextSteps DEF WakeByContext, ReturnUp, AppCtxEnds, DeadlinePasses
  <2>2. Promise!GiveUp
    BY <1>3, <1>5, <1>6, <2>1 DEF Promise!GiveUp
  <2> QED
    BY <2>2 DEF Promise!Next
<1>16. CASE Finish
  <2>1. /\ mode = "up" /\ mode' = "over" /\ pos = 0
        /\ UNCHANGED <<pos, err, deepest, heard, begun>>
        /\ Ended(r)' <=> Ended(r)
    BY <1>16, ContextSteps DEF Finish, AppCtxEnds, DeadlinePasses
  <2> QED
    BY <1>4, <1>5, <2>1
<1>17. CASE RecvError
  <2>1. /\ UNCHANGED <<mode, pos, err, deepest, heard, begun>>
        /\ Ended(r)' <=> Ended(r)
    BY <1>17, ContextSteps DEF RecvError, AppCtxEnds, DeadlinePasses, Ended, Positions
  <2> QED
    BY <1>4, <2>1
<1> QED
  BY <1>7, <1>8, <1>9, <1>10, <1>11, <1>12, <1>13, <1>14, <1>15, <1>16, <1>17
     DEF Next, Climb

\* Without retry in the chain nothing happens to the promise.
LEMMA StepWithoutRetry ==
  ASSUME Typed, [Next]_vars, Positions("retry") = {}
  PROVE  UNCHANGED Promise!vars
<1>1. Positions("retry")' = {}
  BY ChainFixed DEF Positions
<1>2. UNCHANGED <<begun, heard>>
  <2>1. ~At("retry") /\ mode # "sleeping"
    BY DEF At, Positions, Typed, Modes
  <2> QED
    BY <2>1
       DEF Next, Climb, vars, hist, loop, AppCtxEnds, DeadlinePasses, PassDown,
           Descend, ContextDown, TimeoutDown, BreakerDown, Reply, GiveUp, Respond,
           ContextUp, TimeoutUp, AccessUp, ErrorlogUp, SlowlogUp, BreakerUp,
           RetryUp, WakeByTimer, WakeByContext, Finish, RecvError, Stop
<1> QED
  BY <1>1, <1>2 DEF Promise!vars, Trying, Returned

\* Wherever retry stands in the chain, and whatever stands around it, it keeps the
\* promise of RetryPromise (retry/interceptors.go:23-69, 71-120).
THEOREM PromiseCorrect == Spec => PromiseKept
<1>1. Init => LoopInv /\ Promise!Init
  <2> SUFFICES ASSUME Init PROVE LoopInv /\ Promise!Init
    OBVIOUS
  <2>1. chain \in Seq(Interceptors)
    BY ClientAssumption DEF Init
  <2>2. \A r \in Positions("retry") : r \in Nat /\ r >= 1
    BY <2>1 DEF Positions
  <2>3. LoopInv
    BY <2>2 DEF Init, LoopInv
  <2>4. ~Trying /\ ~Returned
    BY <2>2 DEF Init, Trying, Returned
  <2>5. Promise!Init
    BY <2>4 DEF Init, Promise!Init
  <2> QED
    BY <2>3, <2>5
<1>2. Typed /\ LoopInv /\ [Next]_vars => [Promise!Next]_(Promise!vars)
  BY StepAtRetry, StepWithoutRetry
<1> QED
  BY <1>1, <1>2, LoopStep, TypedAlways, PTL DEF Spec, PromiseKept, Promise!Spec

-------------------------------------------------------------------------------
(* The end of a call.                                                      *)

\* The steps the running attempt, or the one that a back-off precedes, still has
\* before it, if every interceptor calls on.
Ahead ==
  IF mode \in {"down", "sleeping"} THEN 2 * Len(chain) + 3 - pos
  ELSE IF mode = "up" THEN pos + 1 ELSE 0

\* A step of the call's goroutine brings it nearer to its end, or starts the
\* back-off before one more of finitely many attempts.
Nearer ==
  \/ UNCHANGED <<stack, attempt>>
  \/ attempt' = attempt /\ Ahead' < Ahead
  \/ attempt' = attempt + 1 /\ attempt < MaxRetries

LEMMA AheadStep == Typed /\ [Next]_vars => [Nearer]_vars
<1> SUFFICES ASSUME Typed, [Next]_vars PROVE Nearer \/ UNCHANGED vars
  OBVIOUS
<1> USE DEF Typed, Types, ChainOK, Modes, At, client, stack, contexts, hist,
            loop, Ahead, Nearer
<1>1. CASE UNCHANGED vars \/ Stop
  BY <1>1 DEF Stop
<1>2. CASE AppCtxEnds \/ DeadlinePasses \/ RecvError
  BY <1>2 DEF AppCtxEnds, DeadlinePasses, RecvError
<1>3. CASE PassDown \/ ContextDown \/ TimeoutDown
  BY <1>3 DEF PassDown, ContextDown, TimeoutDown, Descend
<1>4. CASE BreakerDown
  BY <1>4 DEF BreakerDown, Descend, ReturnUp
<1>5. CASE Reply \/ GiveUp
  BY <1>5 DEF Reply, GiveUp, Respond, InTransport, ReturnUp
<1>6. CASE ContextUp \/ TimeoutUp \/ AccessUp \/ ErrorlogUp \/ SlowlogUp \/ BreakerUp
  <2>1. /\ mode = "up" /\ mode' = "up" /\ pos' = pos - 1 /\ attempt' = attempt
    BY <1>6 DEF ContextUp, TimeoutUp, AccessUp, ErrorlogUp, SlowlogUp, BreakerUp,
                PassUp
  <2> QED
    BY <2>1
<1>7. CASE RetryUp
  BY <1>7, ClientAssumption DEF RetryUp, PassUp, ReturnUp
<1>8. CASE WakeByTimer
  BY <1>8 DEF WakeByTimer
<1>9. CASE WakeByContext
  BY <1>9 DEF WakeByContext, ReturnUp
<1>10. CASE Finish
  BY <1>10 DEF Finish
<1> QED
  BY <1>1, <1>2, <1>3, <1>4, <1>5, <1>6, <1>7, <1>8, <1>9, <1>10 DEF Next, Climb

\* In no order of interceptors does a call go round for ever: the pair of the
\* attempts that are left and of Ahead falls lexicographically with each of its
\* steps, for any number of retries and however its context and its stream end
\* (retry/interceptors.go:35-69).
THEOREM CallIsFinite ==
  Spec => [](Ahead \in Nat /\ attempt \in 0 .. MaxRetries) /\ [][Nearer]_vars
<1>1. Typed => Ahead \in Nat /\ attempt \in 0 .. MaxRetries
  BY DEF Typed, Types, ChainOK, Ahead
<1> QED
  BY <1>1, AheadStep, TypedAlways, PTL DEF Spec
===============================================================================
