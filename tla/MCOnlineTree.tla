------------------------------ MODULE MCOnlineTree ------------------------------
(* OnlineTree with the constants of the configurations. *)
EXTENDS OnlineTree

Level[d \in Nat] == IF d = 0 THEN 1 ELSE Default * Level[d - 1]
Total[d \in Nat] == IF d = 0 THEN 0 ELSE Level[d] + Total[d - 1]

(* The tokens of a uniform tree of the same shape. *)
UniformCap == Total[MaxDepth]
===============================================================================
