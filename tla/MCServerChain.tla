---------------------------- MODULE MCServerChain ----------------------------
(* ServerChain on small instances for TLC.                                 *)
EXTENDS ServerChain, FiniteSets

\* Every order of at most three or four interceptors, of which only auth may be
\* there twice.
Orders(n) ==
  UNION {{s \in [1 .. k -> Interceptors] :
            \A i, j \in 1 .. k : s[i] = s[j] /\ s[i] # "auth" => i = j} : k \in 0 .. n}

UpToThree == {s \in Orders(3) : Cardinality({i \in DOMAIN s : s[i] = "auth"}) < 3}
UpToFour == {s \in Orders(4) : Cardinality({i \in DOMAIN s : s[i] = "auth"}) < 3}
===============================================================================
