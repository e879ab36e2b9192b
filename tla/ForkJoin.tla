-------------------------------- MODULE ForkJoin --------------------------------
(***************************************************************************)
(* What the builder of a tree promises: all the children of a node appear  *)
(* at once, a node is built only after its children, never after one that  *)
(* failed, and the tree is returned only when its root was built.  What a  *)
(* failed node had started may go on, unattended.                          *)
(***************************************************************************)
EXTENDS Integers, Sequences

CONSTANT Node  \* paths from the root: sequences of child numbers

VARIABLES
  state,    \* absent, open, built or failed
  result    \* building, returned or raised

Below(n) == {c \in Node : c # <<>> /\ SubSeq(c, 1, Len(c) - 1) = n}
Children(n) == {c \in Below(n) : state[c] # "absent"}

Init ==
  /\ state = [n \in Node |-> IF n = <<>> THEN "open" ELSE "absent"]
  /\ result = "building"

Fork(n, kids) ==
  /\ state[n] \in {"open", "failed"} /\ Children(n) = {}
  /\ state' = [c \in Node |-> IF c \in kids THEN "open" ELSE state[c]]
  /\ UNCHANGED result

Build(n) ==
  /\ state[n] = "open"
  /\ \A c \in Children(n) : state[c] = "built"
  /\ state' = [state EXCEPT ![n] = "built"]
  /\ UNCHANGED result

Fail(n) ==
  /\ state[n] = "open"
  /\ state' = [state EXCEPT ![n] = "failed"]
  /\ UNCHANGED result

Return ==
  /\ result = "building" /\ state[<<>>] = "built"
  /\ result' = "returned"
  /\ UNCHANGED state

Raise ==
  /\ result = "building" /\ state[<<>>] = "failed"
  /\ result' = "raised"
  /\ UNCHANGED state

Next ==
  \/ \E n \in Node : (\E kids \in SUBSET Below(n) : Fork(n, kids)) \/ Build(n) \/ Fail(n)
  \/ Return
  \/ Raise

Spec == Init /\ [][Next]_<<state, result>>
===============================================================================
