-------------------------- MODULE MCSessionLifecycle --------------------------
(* Instances of SessionLifecycle for TLC. *)
EXTENDS SessionLifecycle, TLC

CONSTANTS s1, s2, n1, n2, e1, e2, e3, e4, p1, p2, p3

OneName == [i \in Ids |-> n1]
TwoNames == (s1 :> n1) @@ (s2 :> n2)
AllVerbs == {"start", "stop", "logout", "forceKill", "delete"}
Symmetry == Permutations(Engines) \cup Permutations(Procs)
=============================================================================
