----------------------------- MODULE LogicalBatch -----------------------------
(* A reservation of the replay as logical optimizer batches                  *)
(* (verl/recipe/gear_tree/tree_data.py, build_logical_update_batch).         *)
(*                                                                           *)
(* A slot stands for one reserved edge: a ledger slot has a zero advantage   *)
(* and keeps only its token counts, any other slot is a row of the update.   *)
(* Batch k is made of Mini consecutive slots. Its denominators count every   *)
(* slot, whether it becomes a row or not.                                    *)
EXTENDS Integers, Sequences, FiniteSets, FiniteSetsExt, Functions, SequencesExt

CONSTANTS
  Mini,         \* ppo_mini_batch_size of the trainer, in slots
  Batches,      \* logical batches of the reservation
  Epochs,       \* ppo_epochs
  DP,           \* dp_size: data-parallel ranks the trainer counts with
  Reservations  \* what may be reserved

Slot == 1..(Batches * Mini)

ASSUME SizesAssumption ==
  /\ Mini \in Nat \ {0}
  /\ Batches \in Nat \ {0}
  /\ Epochs \in Nat \ {0}
  /\ DP \in Nat \ {0}

\* A tree edge has a response, and its mask keeps some of the tokens.
ASSUME ReservationsAssumption ==
  \A f \in Reservations :
    /\ f \in [Slot -> [ledger : BOOLEAN, resp : Nat \ {0}, mask : Nat]]
    /\ \A s \in Slot : f[s].mask <= f[s].resp

VARIABLES
  slots,   \* the reservation, in the order of the replay
  useMask  \* use_prob_mask

SlotsOf(k) == ((k - 1) * Mini + 1)..(k * Mini)

RowsOf(k) == {s \in SlotsOf(k) : ~slots[s].ledger}

\* Effective tokens of a slot under the objective's mask.
Tokens(s) == IF useMask THEN slots[s].mask ELSE slots[s].resp

Active(k) == SumFunction([s \in RowsOf(k) |-> Tokens(s)])

Status(k) ==
  IF RowsOf(k) = {} THEN "all_zero_advantage"
  ELSE IF Active(k) = 0 THEN "zero_active_tokens"
  ELSE "trainable"

\* M_B and T_B of batch k: its slots, and their effective tokens.
Denominators(k) == <<Mini, SumFunction([s \in SlotsOf(k) |-> Tokens(s)])>>

Trainable == {k \in 1..Batches : Status(k) = "trainable"}
=============================================================================
