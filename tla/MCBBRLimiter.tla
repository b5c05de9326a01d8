----------------------------- MODULE MCBBRLimiter -----------------------------
(* BBRLimiter on small instances for TLC.                                  *)
EXTENDS BBRLimiter, TLC

\* Requests are interchangeable (without fairness).
Symmetry == Permutations(Requests)
===============================================================================
