----------------------------- MODULE RetryPromise -----------------------------
(***************************************************************************)
(* What the retry interceptors promise for one call, unary or stream,      *)
(* without back-offs, timers and contexts of attempts: attempts one after  *)
(* the other, each after an answer worth repeating, at most 1 + MaxRetries *)
(* of them, and then the last answer, or Canceled once the context is done.*)
(***************************************************************************)
EXTENDS Naturals, RpcOutcome

CONSTANT MaxRetries   \* options.MaxRetries

VARIABLES
  ctx,      \* the call's context: "live", "Expired" or "Canceled"
  phase,    \* "between" attempts, "trying", or "done"
  tries,    \* attempts begun
  answer,   \* of the last attempt
  result    \* what the caller got

vars == <<ctx, phase, tries, answer, result>>

Init ==
  /\ ctx \in {"live", "Expired", "Canceled"}
  /\ phase = "between"
  /\ tries = 0
  /\ answer = "nil" /\ result = "nil"

ContextEnds ==
  /\ ctx = "live"
  /\ ctx' \in {"Expired", "Canceled"}
  /\ UNCHANGED <<phase, tries, answer, result>>

Left == tries <= MaxRetries

Begin ==
  /\ phase = "between" /\ Left
  /\ phase' = "trying"
  /\ tries' = tries + 1
  /\ UNCHANGED <<ctx, answer, result>>

\* The attempt's answer is handed over, or repeated, or given up for Canceled.
End(err) ==
  /\ phase = "trying"
  /\ answer' = err
  /\ \/ /\ ~Retryable(err) \/ ~Left
        /\ phase' = "done" /\ result' = err
     \/ /\ Retryable(err) /\ Left
        /\ phase' = "between" /\ UNCHANGED result
     \/ /\ Retryable(err) /\ ctx # "live"
        /\ phase' = "done" /\ result' = "Canceled"
  /\ UNCHANGED <<ctx, tries>>

GiveUp ==
  /\ phase = "between" /\ tries > 0 /\ ctx # "live"
  /\ phase' = "done" /\ result' = "Canceled"
  /\ UNCHANGED <<ctx, tries, answer>>

Next ==
  \/ ContextEnds
  \/ Begin
  \/ \E err \in Errors \cup {"nil"} : End(err)
  \/ GiveUp

Spec == Init /\ [][Next]_vars
===============================================================================
