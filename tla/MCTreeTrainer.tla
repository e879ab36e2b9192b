----------------------------- MODULE MCTreeTrainer -----------------------------
(* Instances of TreeTrainer for TLC: six edges of two questions and three  *)
(* trees; one edge of each question has no learning signal, and e6 is a    *)
(* row of e5's parent group that no rollout delivers.                       *)
EXTENDS TreeTrainer

CONSTANTS e1, e2, e3, e4, e5, e6, q1, q2, t1, t2, t3, p1, p2, p3, p4, p5

MCEdge == {e1, e2, e3, e4, e5, e6}
MCQuestion == {q1, q2}
MCTree == {t1, t2, t3}
MCParent == {p1, p2, p3, p4, p5}
MCQuestionOf == [e \in MCEdge |-> IF e \in {e1, e2} THEN q1 ELSE q2]
MCTreeOf == [e \in MCEdge |-> CASE e \in {e1, e2} -> t1 [] e \in {e5, e6} -> t3
                                [] OTHER -> t2]
MCSilent == {e1, e3}

(* Edge mode: a rollout yields nothing, one edge, or a tree. *)
MCBatches == {{}, {e1, e2}, {e3}, {e3, e4}, {e5}}

(* Tree mode: whole trees, each of two parent groups, alone or together. *)
MCParentOf == [e \in MCEdge |-> CASE e = e1 -> p1 [] e = e2 -> p2 [] e = e3 -> p3
                                  [] e = e4 -> p4 [] OTHER -> p5]
MCTreeBatches == {{}, {e1, e2}, {e3, e4}, {e1, e2, e3, e4}, {e5}}
===============================================================================
