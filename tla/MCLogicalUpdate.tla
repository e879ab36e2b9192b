--------------------------- MODULE MCLogicalUpdate ---------------------------
(* Two batches of three slots on two ranks: uneven batches that need a dummy *)
(* row, batches that are skipped for either reason, before or after one that *)
(* is not, ranks whose own micro-batch counts differ, and a group of another *)
(* size than the trainer padded for.                                         *)
EXTENDS LogicalUpdate

Ledger == [ledger |-> TRUE, resp |-> 2, mask |-> 1]
Quiet == [ledger |-> FALSE, resp |-> 1, mask |-> 0]
Loud == [ledger |-> FALSE, resp |-> 3, mask |-> 2]

\* The slots of the second batch come in one order of their kinds.
Order == <<Ledger, Quiet, Loud>>
Pick(c) == [s \in 1..6 |-> Order[c[s]]]
MCReservations == {Pick(c) : c \in {d \in [1..6 -> 1..3] : d[4] <= d[5] /\ d[5] <= d[6]}}
MCWorlds == {2, 3}
=============================================================================
