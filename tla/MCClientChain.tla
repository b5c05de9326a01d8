---------------------------- MODULE MCClientChain ----------------------------
(* ClientChain on small instances for TLC.                                 *)
EXTENDS ClientChain

\* Every order of at most four different interceptors.
UpToFour ==
  UNION {{s \in [1 .. k -> Interceptors] : IsInjective(s)} : k \in 0 .. 4}

\* An answer of each kind: success, retryable, neither, and without a status.
OneOfEach == {"nil", "Unavailable", "Other", "nonStatus"}
===============================================================================
