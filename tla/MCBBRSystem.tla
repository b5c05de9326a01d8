----------------------------- MODULE MCBBRSystem -----------------------------
(* BBRSystem on small instances for TLC.                                   *)
EXTENDS BBRSystem, TLC

\* Requests are interchangeable (without fairness).
Symmetry == Permutations(Requests)
===============================================================================
