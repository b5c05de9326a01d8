------------------------------ MODULE MCBBRStats ------------------------------
(* BBRStats on small instances for TLC.                                    *)
EXTENDS BBRStats, TLC

\* Goroutines are interchangeable.
Symmetry == Permutations(Workers)
===============================================================================
