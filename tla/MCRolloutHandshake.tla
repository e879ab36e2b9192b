-------------------------- MODULE MCRolloutHandshake ---------------------------
(* RolloutHandshake with three rows on two workers. *)
EXTENDS RolloutHandshake

CONSTANTS r1, r2, r3, w1, w2

MCWorkerOf == [r \in {r1, r2, r3} |-> IF r = r3 THEN w2 ELSE w1]
===============================================================================
