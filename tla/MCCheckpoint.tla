------------------------------ MODULE MCCheckpoint ------------------------------
(* CheckpointBundle with the constants of the configurations. *)
EXTENDS CheckpointBundle
===============================================================================
