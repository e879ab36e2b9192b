---------------------------- MODULE MCReplayBuffer ----------------------------
(* Instances of ReplayBuffer for TLC: two questions, three trees, one of   *)
(* which has two parent groups.                                             *)
EXTENDS ReplayBuffer

CONSTANTS e1, e2, e3, e4, e5, q1, q2, t1, t2, t3, p1, p2, p3, p4

MCEdge == {e1, e2, e3, e4, e5}
MCQuestion == {q1, q2}
MCTree == {t1, t2, t3}
MCParent == {p1, p2, p3, p4}
MCQuestionOf == [e \in MCEdge |-> IF e = e5 THEN q2 ELSE q1]
MCTreeOf == [e \in MCEdge |-> CASE e = e4 -> t2 [] e = e5 -> t3 [] OTHER -> t1]
MCParentOf == [e \in MCEdge |-> CASE e \in {e1, e2} -> p1 [] e = e3 -> p2
                                  [] e = e4 -> p3 [] OTHER -> p4]
MCBatches == {{e1, e2, e3}, {e4, e5}}
===============================================================================
