----------------------------- MODULE SnapshotStore -----------------------------
(***************************************************************************)
(* What a checkpoint directory promises a trainer that may die at any      *)
(* moment: a restart continues from one snapshot, taken whole, or it       *)
(* refuses.  Only a run that never kept anything starts over.              *)
(***************************************************************************)
EXTENDS Integers

CONSTANTS Blank, Nothing, Unusable

VARIABLES
  current,  \* the trainer's state, without the rollout counter
  rollout,  \* the rollout counter: a restart may move it forward
  kept      \* the snapshot a restart reads, Nothing, or Unusable

vars == <<current, rollout, kept>>

Init ==
  /\ current = Blank
  /\ rollout = 0
  /\ kept = Nothing

(* Training: the state becomes any other. *)
Work ==
  /\ rollout' = rollout + 1
  /\ UNCHANGED kept

(* Taking a snapshot makes the old one unusable for a while. *)
Spoil ==
  /\ kept' = Unusable
  /\ UNCHANGED <<current, rollout>>

Keep ==
  /\ kept' = [state |-> current, rollout |-> rollout]
  /\ UNCHANGED <<current, rollout>>

Restart ==
  /\ kept \notin {Nothing, Unusable}
  /\ current' = kept.state
  /\ rollout' >= kept.rollout
  /\ UNCHANGED kept

StartOver ==
  /\ kept = Nothing
  /\ current' = Blank
  /\ rollout' = 0
  /\ UNCHANGED kept

Next == Work \/ Spoil \/ Keep \/ Restart \/ StartOver

Spec == Init /\ [][Next]_vars
===============================================================================
