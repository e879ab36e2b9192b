--------------------------- MODULE MCPolicyIteration ---------------------------
(* PolicyIteration with cached engines and a checkpoint in every iteration,  *)
(* for a critic and for a replay of edges; and with engines that are rebuilt *)
(* and a checkpoint in every second one, for a hybrid generator.             *)
EXTENDS PolicyIteration

ThreeSetups ==
  {[cached |-> TRUE, critic |-> TRUE, replay |-> 0, saveSteps |-> 1],
   [cached |-> TRUE, critic |-> FALSE, replay |-> 2, saveSteps |-> 1],
   [cached |-> FALSE, critic |-> FALSE, replay |-> 1, saveSteps |-> 2]}
===============================================================================
