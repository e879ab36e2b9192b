--------------------------- MODULE SingleRankUpdate ---------------------------
(* What an update promises: the same sequence of optimizer steps as one      *)
(* process that holds the whole batch. Each trainable logical batch gives    *)
(* one step per epoch, in order. Its gradient is the sum of its rows, each   *)
(* counted once over the batch's own denominators, or the step is dropped    *)
(* because the gradient is not finite.                                       *)
(*                                                                           *)
(* Weights are in units of 1 / DP, the gradient being kept in DP shards.     *)
EXTENDS LogicalBatch

VARIABLES
  phase,   \* "reserved", then "running", then how the update ended
  applied  \* the optimizer steps so far

svars == <<slots, useMask, phase, applied>>

StepCount == Epochs * Cardinality(Trainable)

\* The batch of the i-th optimizer step: epoch by epoch, in order.
BatchAt(i) ==
  CHOOSE k \in Trainable :
    Cardinality({j \in Trainable : j < k}) = (i - 1) % Cardinality(Trainable)

Exact(k) ==
  [r \in 1..DP |->
     [weight |-> [s \in Slot |-> IF s \in RowsOf(k) THEN DP ELSE 0],
      over |-> Denominators(k)]]

Dropped == <<>>

SingleInit ==
  /\ slots \in Reservations
  /\ useMask \in BOOLEAN
  /\ phase = "reserved"
  /\ applied = <<>>

Start ==
  /\ phase = "reserved"
  /\ phase' \in (IF Trainable = {} THEN {"skipped"} ELSE {"running", "refused"})
  /\ UNCHANGED <<slots, useMask, applied>>

Step ==
  /\ phase = "running"
  /\ Len(applied) < StepCount
  /\ \E e \in {Exact(BatchAt(Len(applied) + 1)), Dropped} :
       applied' = Append(applied, e)
  /\ UNCHANGED <<slots, useMask, phase>>

Finish ==
  /\ phase = "running"
  /\ Len(applied) = StepCount
  /\ phase' = "done"
  /\ UNCHANGED <<slots, useMask, applied>>

SingleNext == Start \/ Step \/ Finish

SingleSpec == SingleInit /\ [][SingleNext]_svars
=============================================================================
