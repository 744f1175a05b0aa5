-------------------------- MODULE MCSessionOwnership --------------------------
(***************************************************************************)
(* Instances of SessionOwnership for TLC.                                    *)
(***************************************************************************)
EXTENDS SessionOwnership, TLC

Symmetry == Permutations(Nodes) \cup Permutations(Clients)
=============================================================================
