-------------------------- MODULE MCIngressPipeline --------------------------
(***************************************************************************)
(* Instances of IngressPipeline for TLC.                                     *)
(***************************************************************************)
EXTENDS IngressPipeline, TLC

CONSTANTS d1, d2, i1, i2

OneInstance == [d \in Deliveries |-> i1]
OwnInstance == d1 :> i1 @@ d2 :> i2
=============================================================================
