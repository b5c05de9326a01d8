-------------------------- MODULE RetryStack_proofs --------------------------
(***************************************************************************)
(* Proofs about RetryStack, for any number of retries: its invariants, and *)
(* that the loop and its back-off implement RetryPromise.                  *)
(***************************************************************************)
EXTENDS RetryStack, TLAPS

-------------------------------------------------------------------------------
(* The inductive invariant.                                                *)

\* Where the loop is says how often it has been round, and that every answer so
\* far but the one just received was worth repeating.
LoopCounts ==
  /\ attempt <= MaxRetries
  /\ pc = "invoking" => tries = attempt + 1
  /\ pc \in {"trying", "sleeping"} =>
       /\ tries = attempt
       /\ attempt > 0 => Retryable(lastErr)
  /\ pc = "sleeping" => attempt > 0
  /\ stream # "none" => lastErr = "nil"

\* Once an attempt was started late the loop does not come round again.
LateIsLast ==
  /\ late \in {0, 1}
  /\ late = 1 => ctx # "live" /\ pc \in {"invoking", "panicked", "returned"}

\* The context of a running attempt ends only for a reason, like that of a stream.
AttemptLives ==
  pc = "invoking" /\ callCtx # "live" =>
    \/ ctx # "live"
    \/ perCall /\ callCtx = "Expired"

Inv ==
  /\ TypeOK /\ LoopCounts /\ LateIsLast /\ AttemptLives
  /\ HonestResult /\ ContextsReleased /\ HeldStreamLives

LEMMA InvInit == Init => Inv
BY RetryAssumption
   DEF Init, Inv, TypeOK, LoopCounts, LateIsLast, AttemptLives, HonestResult,
       ContextsReleased, HeldStreamLives, Contexts, Answers

\* The error of an attempt whose context is done is one of the answers.
LEMMA CodeIsAnswer == \A c : CodeOf(c) \in Answers
BY DEF CodeOf, Answers, Errors, FailureCodes, RetryableCodes

\* A reply is never worth repeating.
LEMMA ReplyIsFinal == ~Retryable("nil")
BY DEF Retryable, RetryableCodes

LEMMA AttemptEndsKeepsInv ==
  ASSUME Inv, NEW err \in Answers, AttemptEnds(err) PROVE Inv'
<1> USE DEF Inv
<1>1. /\ pc = "invoking" /\ stream = "none" /\ tries = attempt + 1
      /\ lastErr' = err
      /\ UNCHANGED <<kind, perCall, ctx, verdict, tries, late>>
  BY DEF AttemptEnds, TypeOK, LoopCounts, options, hist
<1>2. \/ /\ kind = "stream" /\ err = "nil"
         /\ stream' = "open" /\ UNCHANGED <<owed, callCtx>>
      \/ /\ ~(kind = "stream" /\ err = "nil")
         /\ owed' = 0 /\ callCtx' = "none" /\ stream' = "none"
  BY <1>1 DEF AttemptEnds, Release
<1>3. \/ /\ ~Retryable(err) \/ attempt = MaxRetries
         /\ pc' = "returned" /\ result' = err
         /\ UNCHANGED <<timer, attempt>>
      \/ /\ Retryable(err) /\ ctx # "live"
         /\ pc' = "returned" /\ result' = "Canceled"
         /\ UNCHANGED <<timer, attempt>>
      \/ /\ Retryable(err) /\ ctx = "live" /\ attempt # MaxRetries
         /\ pc' = "sleeping" /\ timer' = "armed" /\ attempt' = attempt + 1
         /\ UNCHANGED result
  BY ReplyIsFinal DEF AttemptEnds, After, Return, Repeat
<1>4. "Canceled" \in Answers
  BY DEF Answers, Errors
<1>5. TypeOK'
  BY <1>1, <1>2, <1>3, <1>4, ReplyIsFinal DEF TypeOK, Contexts
<1>6. LoopCounts'
    BY <1>1, <1>2, <1>3, ReplyIsFinal, RetryAssumption DEF LoopCounts, TypeOK,
     Retryable
<1>7. LateIsLast' /\ AttemptLives'
  BY <1>1, <1>3 DEF LateIsLast, AttemptLives
<1>8. HonestResult'
  BY <1>1, <1>3 DEF HonestResult, Retryable
<1>9. ContextsReleased' /\ HeldStreamLives'
  BY <1>1, <1>2, <1>3, ReplyIsFinal
     DEF ContextsReleased, HeldStreamLives, AttemptLives, TypeOK
<1> QED
  BY <1>5, <1>6, <1>7, <1>8, <1>9

LEMMA InvStep == Inv /\ [Next]_vars => Inv'
<1> SUFFICES ASSUME Inv, [Next]_vars PROVE Inv'
  OBVIOUS
<1> USE RetryAssumption
<1> USE DEF Inv, TypeOK, LoopCounts, LateIsLast, AttemptLives, HonestResult,
            ContextsReleased, HeldStreamLives, Contexts, Retryable,
            options, contexts, loop, hist
<1>1. CASE UNCHANGED vars \/ Finished
  BY <1>1 DEF vars, Finished
<1>2. CASE Expire \/ Cancel
  BY <1>2 DEF Expire, Cancel, Done
<1>3. CASE PerCallExpire
  BY <1>3 DEF PerCallExpire
<1>4. CASE BackoffEnds
  BY <1>4 DEF BackoffEnds
<1>5. CASE Invoke
  BY <1>5 DEF Invoke
<1>6. CASE Answer \/ GiveUp
  BY <1>6, AttemptEndsKeepsInv, CodeIsAnswer DEF Answer, GiveUp
<1>7. CASE WakeByTimer \/ InvokerPanics
  BY <1>7 DEF WakeByTimer, InvokerPanics
<1>8. CASE WakeByContext
  <2>1. "Canceled" \in Answers
    BY DEF Answers, Errors
  <2> QED
    BY <1>8, <2>1 DEF WakeByContext, Return
<1>9. ASSUME NEW err, RecvError(err) PROVE Inv'
  BY <1>9 DEF RecvError, Verdict, Cancelled
<1>10. CASE CloseSendCancels
  BY <1>10 DEF CloseSendCancels, Cancelled
<1>11. CASE HalfClose
  BY <1>11 DEF HalfClose
<1>12. CASE MarkVerdict
  BY <1>12 DEF MarkVerdict, Verdict
<1> QED
  BY <1>1, <1>2, <1>3, <1>4, <1>5, <1>6, <1>7, <1>8, <1>9, <1>10, <1>11, <1>12
     DEF Next, Wake

\* The inductive invariant holds in every reachable state.
LEMMA InvAlways == Spec => []Inv
BY InvInit, InvStep, PTL DEF Spec

-------------------------------------------------------------------------------
(* The invariants of the runs.                                             *)

\* Every variable has its type; an attempt has a context exactly while it runs
\* or its stream lives, and only the back-off has a timer
\* (retry/interceptors.go:12-21, 45-52).
THEOREM TypeCorrect == Spec => []TypeOK
<1>1. Inv => TypeOK
  BY DEF Inv
<1> QED
  BY <1>1, InvAlways, PTL

\* At most one attempt starts after the context is done
\* (retry/interceptors.go:37-43 and 62-64).
THEOREM OneLateCorrect == Spec => []OneLateAttempt
<1>1. Inv => OneLateAttempt
  BY DEF Inv, LateIsLast, OneLateAttempt
<1> QED
  BY <1>1, InvAlways, PTL

\* The caller gets the last answer, or Canceled once its context is done
\* (retry/interceptors.go:54-67, 105-119).
THEOREM HonestCorrect == Spec => []HonestResult
<1>1. Inv => HonestResult
  BY DEF Inv
<1> QED
  BY <1>1, InvAlways, PTL

\* Every per-call context is cancelled by the time nobody has a use for it, or was
\* left behind by a panic (retry/interceptors.go:46-49, 93-100, 127-138).
THEOREM ReleasedCorrect == Spec => []ContextsReleased
<1>1. Inv => ContextsReleased
  BY DEF Inv
<1> QED
  BY <1>1, InvAlways, PTL

\* As long as a stream can be read, half-closed or not, the interceptor cuts it
\* only in CloseSend, and only with a per-call timeout
\* (retry/interceptors.go:93-103, 135-138).
THEOREM HeldCorrect == Spec => []HeldStreamLives
<1>1. Inv => HeldStreamLives
  BY DEF Inv
<1> QED
  BY <1>1, InvAlways, PTL

-------------------------------------------------------------------------------
(* The refinement.                                                         *)

\* Every step of the loop is a step of the promise, or changes nothing in it.
LEMMA StepKeepsPromise ==
  ASSUME Inv, [Next]_vars PROVE [Promise!Next]_(Promise!vars)
<1> USE RetryAssumption
<1> USE DEF Inv, Promise!vars, options, contexts, loop, hist
<1>1. CASE UNCHANGED vars \/ Finished
  BY <1>1 DEF vars, Finished
<1>2. CASE Expire \/ Cancel
  <2>1. Promise!ContextEnds
    BY <1>2 DEF Expire, Cancel, Done, Promise!ContextEnds
  <2> QED
    BY <2>1 DEF Promise!Next
<1>3. CASE Invoke
  <2>1. Promise!Begin
    BY <1>3 DEF Invoke, LoopCounts, TypeOK, Promise!Begin, Promise!Left
  <2> QED
    BY <2>1 DEF Promise!Next
<1>4. ASSUME NEW err \in Answers, AttemptEnds(err) PROVE Promise!Next
  <2>1. pc = "invoking" /\ lastErr' = err /\ UNCHANGED <<ctx, tries>>
    BY <1>4 DEF AttemptEnds
  <2>2. tries = attempt + 1 /\ attempt \in Nat /\ attempt <= MaxRetries
    BY <2>1 DEF LoopCounts, TypeOK
  <2>3. Promise!Retryable(err) <=> Retryable(err)
    BY DEF Promise!Retryable, Promise!RetryableCodes, Retryable, RetryableCodes
  <2>4. Promise!End(err)
    BY <1>4, <2>1, <2>2, <2>3, ReplyIsFinal
       DEF AttemptEnds, After, Return, Repeat, Promise!End, Promise!Left
  <2> QED
    BY <2>4 DEF Promise!Next, Answers, Promise!Errors, Promise!FailureCodes,
                Promise!RetryableCodes, Errors, FailureCodes, RetryableCodes
<1>5. CASE Answer \/ GiveUp
  BY <1>4, <1>5, CodeIsAnswer DEF Answer, GiveUp
<1>6. CASE WakeByContext
  <2>1. Promise!GiveUp
    BY <1>6 DEF WakeByContext, Return, LoopCounts, TypeOK, Promise!GiveUp
  <2> QED
    BY <2>1 DEF Promise!Next
<1>7. CASE PerCallExpire \/ BackoffEnds \/ InvokerPanics \/ WakeByTimer
           \/ CloseSendCancels \/ HalfClose \/ MarkVerdict
  BY <1>7 DEF PerCallExpire, InvokerPanics, BackoffEnds, WakeByTimer, CloseSendCancels,
              HalfClose, MarkVerdict
<1>8. ASSUME NEW err, RecvError(err) PROVE UNCHANGED Promise!vars
  BY <1>8 DEF RecvError
<1> QED
  BY <1>1, <1>2, <1>3, <1>5, <1>6, <1>7, <1>8 DEF Next, Wake

\* Both retry interceptors keep the promise of RetryPromise, for any number of
\* retries (retry/interceptors.go:23-69, 71-120).
THEOREM PromiseCorrect == Spec => PromiseKept
<1>1. Init => Promise!Init
  BY DEF Init, Contexts, Promise!Init
<1>2. Inv /\ [Next]_vars => [Promise!Next]_(Promise!vars)
  BY StepKeepsPromise
<1> QED
  BY <1>1, <1>2, InvAlways, PTL DEF Spec, PromiseKept, Promise!Spec

-------------------------------------------------------------------------------
(* The end of a call.                                                      *)

\* The steps before the loop comes round or returns, and those of a stream's end.
Ahead ==
  IF pc = "panicked" THEN 0
  ELSE IF pc = "returned" THEN
    IF verdict # "none" \/ stream = "over" THEN 0
    ELSE IF stream = "none" \/ stream = "halfClosed" THEN 1
    ELSE IF stream = "closing" THEN 2 ELSE 3
  ELSE 3 + CASE pc = "sleeping" -> 3
             [] pc = "trying"   -> 2
             [] pc = "invoking" -> 1

\* The steps of the call's own goroutine, the breaker's mark and those of its
\* stream come nearer to the end, or start the back-off before one more of
\* finitely many attempts; timers and contexts do neither.
Nearer ==
  \/ UNCHANGED <<pc, attempt, stream, verdict>>
  \/ attempt' = attempt /\ Ahead' < Ahead
  \/ attempt' = attempt + 1 /\ attempt < MaxRetries

\* Only a stream, and only at its end, is marked after it was opened.
Marks == verdict # "none" => pc = "returned" /\ stream \in {"none", "over"}

LEMMA AheadStep == Inv /\ Marks /\ [Next]_vars => Marks' /\ [Nearer]_vars
<1> SUFFICES ASSUME Inv, Marks, [Next]_vars
             PROVE  Marks' /\ (Nearer \/ UNCHANGED vars)
  OBVIOUS
<1> USE RetryAssumption
<1> USE DEF Inv, TypeOK, LoopCounts, Marks, Ahead, Nearer, options, contexts, loop,
            hist
<1>1. CASE UNCHANGED vars \/ Finished
  BY <1>1 DEF vars, Finished
<1>2. CASE Expire \/ Cancel \/ PerCallExpire \/ BackoffEnds
  BY <1>2 DEF Expire, Cancel, Done, PerCallExpire, BackoffEnds
<1>3. CASE Invoke
  BY <1>3 DEF Invoke
<1>4. ASSUME NEW err, AttemptEnds(err) PROVE Marks' /\ Nearer
  BY <1>4 DEF AttemptEnds, Release, After, Return, Repeat
<1>5. CASE Answer \/ GiveUp
  BY <1>4, <1>5 DEF Answer, GiveUp
<1>6. CASE Wake
  BY <1>6 DEF Wake, WakeByTimer, WakeByContext, Return
<1>7. ASSUME NEW err, RecvError(err) PROVE Marks' /\ Nearer
  BY <1>7 DEF RecvError
<1>8. CASE CloseSendCancels \/ HalfClose \/ InvokerPanics
  BY <1>8 DEF CloseSendCancels, HalfClose, InvokerPanics
<1>9. CASE MarkVerdict
  BY <1>9 DEF MarkVerdict, Verdict
<1> QED
  BY <1>1, <1>2, <1>3, <1>5, <1>6, <1>7, <1>8, <1>9 DEF Next

\* The loop does not go round for ever, and neither does what follows it: the pair
\* of the attempts that are left and of Ahead falls lexicographically with each
\* step of the call, for any number of retries, whatever the transport answers and
\* whenever contexts and timers end (retry/interceptors.go:12-21, 35-69, 86-119).
THEOREM CallIsFinite ==
  Spec => [](Ahead \in Nat /\ attempt \in 0 .. MaxRetries) /\ [][Nearer]_vars
<1>1. Inv => Ahead \in Nat /\ attempt \in 0 .. MaxRetries
  BY RetryAssumption DEF Inv, TypeOK, LoopCounts, Ahead
<1>2. Init => Marks
  BY DEF Init, Marks
<1> QED
  BY <1>1, <1>2, AheadStep, InvAlways, PTL DEF Spec
===============================================================================
