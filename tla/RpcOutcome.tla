------------------------------ MODULE RpcOutcome ------------------------------
(***************************************************************************)
(* The outcomes of an RPC as the client interceptors tell them apart, and  *)
(* their verdicts on them.                                                 *)
(***************************************************************************)

\* "Other" stands for the status codes that no interceptor names, "nonStatus"
\* for an error that carries no gRPC status.
FailureCodes == {"DeadlineExceeded", "Internal", "Unavailable",
                 "ResourceExhausted"}

RetryableCodes == {"Unavailable", "ResourceExhausted", "DeadlineExceeded",
                   "Aborted"}

Errors == FailureCodes \cup RetryableCodes \cup {"Canceled", "Other", "nonStatus"}

\* What the breaker makes of the answer of a call: nil, io.EOF at the end of a
\* stream, or an error.
CountsAsSuccess(err) == err \notin FailureCodes \cup {"nonStatus"}

\* defaultRetryableFunc: whether an error is worth another attempt.
Retryable(err) == err \in RetryableCodes
===============================================================================
