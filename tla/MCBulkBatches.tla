---------------------------- MODULE MCBulkBatches ----------------------------
(***************************************************************************)
(* Instances of BulkBatches for TLC.  Neither constraint can hide a failure   *)
(* of BatchEnds: what they leave out is begun by an action that is not fair.   *)
(***************************************************************************)
EXTENDS BulkBatches, Sequences, TLC

Seqs == INSTANCE SequencesExt

Order == Seqs!SetToSeq(Runs)

\* Requests, which are alike, come in one order.
CreatedInOrder ==
  \A i \in 1..Len(Order) - 1 : At(Order[i], "idle") => At(Order[i + 1], "idle")

\* A fault and an event, or two events.
TwoMishaps == faults + events <= 2
=============================================================================
