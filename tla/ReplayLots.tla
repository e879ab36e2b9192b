------------------------------ MODULE ReplayLots ------------------------------
(***************************************************************************)
(* What the replay buffer promises the trainer, without ids, ages or       *)
(* handles: a pool of edges, some of them set aside in disjoint lots.  A   *)
(* lot is consumed whole or released whole, and an edge that is set aside  *)
(* leaves the pool in no other way.                                        *)
(***************************************************************************)
CONSTANT Edge

VARIABLES
  pool,   \* the edges available for training, set aside or not
  lots    \* the lots set aside: non-empty, disjoint subsets of the pool

vars == <<pool, lots>>

Loose == pool \ UNION lots

Init ==
  /\ pool = {}
  /\ lots = {}

Put(S) ==
  /\ S \cap pool = {}
  /\ pool' = pool \cup S
  /\ UNCHANGED lots

(* Too-old edges D are dropped and S is set aside; an empty S makes no lot. *)
Take(S, D) ==
  /\ S \subseteq Loose
  /\ D \subseteq Loose \ S
  /\ pool' = pool \ D
  /\ lots' = lots \cup ({S} \ {{}})

Drop(D) ==
  /\ D \subseteq Loose
  /\ pool' = pool \ D
  /\ UNCHANGED lots

Consume(L) ==
  /\ L \in lots
  /\ pool' = pool \ L
  /\ lots' = lots \ {L}

Release(L) ==
  /\ L \in lots
  /\ lots' = lots \ {L}
  /\ UNCHANGED pool

Next ==
  \/ \E S \in SUBSET Edge : Put(S)
  \/ \E S, D \in SUBSET Edge : Take(S, D)
  \/ \E D \in SUBSET Edge : Drop(D)
  \/ \E L \in lots : Consume(L)
  \/ \E L \in lots : Release(L)

Spec == Init /\ [][Next]_vars
===============================================================================
