----------------------------- MODULE MCCrmInbox -----------------------------
(***************************************************************************)
(* Instances of CrmInbox for TLC.                                           *)
(***************************************************************************)
EXTENDS CrmInbox, TLC

\* The requests are interchangeable; of the messages one may be anonymous.
Symmetry == Permutations(Requests)
=============================================================================
