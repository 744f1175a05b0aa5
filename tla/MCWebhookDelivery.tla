------------------------- MODULE MCWebhookDelivery -------------------------
(***************************************************************************)
(* Instances of WebhookDelivery for TLC.  Nothing tells deliveries apart,   *)
(* so they may as well be dispatched in one fixed order.  Unlike SYMMETRY   *)
(* this constraint is sound for liveness: it only removes dispatches,       *)
(* which no fairness condition asks for.                                    *)
(***************************************************************************)
EXTENDS WebhookDelivery

Seqs == INSTANCE SequencesExt

Order == Seqs!SetToSeq(Tasks)

DispatchedInOrder ==
  \A i \in 1..Len(Order) - 1 : at[Order[i]] = "new" => at[Order[i + 1]] = "new"
=============================================================================
