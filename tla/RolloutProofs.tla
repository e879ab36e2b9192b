----------------------------- MODULE RolloutProofs ------------------------------
(***************************************************************************)
(* Proofs about the rollout of a generation.                               *)
(*                                                                         *)
(* First OnlineTree, for every depth, number of queues, capacity and cap,  *)
(* and whatever may raise.  The inductive invariant TreeInv ties together  *)
(* the three variables that say where a node is (Stage), a node and its    *)
(* children (Family), a node and all that is above it (Lineage), the       *)
(* queues (Queued) and the two processes around the tree (Ending).         *)
(* Lineage is what makes the joins worth anything: a node that was         *)
(* expanded is done last, so that a root that is done leaves nobody        *)
(* waiting.                                                                *)
(*                                                                         *)
(* Then RolloutHandshake, for every number of rows, workers, updates and   *)
(* generations.  Each of its safety properties is inductive with the       *)
(* conjunct beside it that follows the trainer's request through the       *)
(* generation; its type invariant bounds what a probe may answer.          *)
(***************************************************************************)
EXTENDS OnlineTree, RolloutHandshake, FiniteSetTheorems, SequenceTheorems,
        WellFoundedInduction, TLAPS

(* Nodes are paths.  All that the proofs need of them is who is above whom. *)
Above(p, n) == Len(p) < Len(n) /\ \A i \in 1 .. Len(p) : n[i] = p[i]
Offspring(n) == {Append(n, i) : i \in 1 .. MaxK} \cap Nodes

Busy == {"scheduled", "generating", "gathering"}

(* Where one node is in its life, by coroutine, expansion and future. *)
Stage(n) ==
  /\ at[n] \in {"absent", "ready", "estimating"} => expansion[n] = "none" /\ future[n] = "none"
  /\ at[n] = "estimating" => ~Direct(n)
  /\ at[n] = "done" => expansion[n] \in {"none", "done"} /\ future[n] \in {"none", "result"}
  /\ expansion[n] \in Busy => at[n] \in {"waiting", "raised"}
  /\ expansion[n] = "raised" => at[n] = "raised" \/ (at[n] = "waiting" /\ future[n] = "error")
  /\ future[n] = "pending" => at[n] \in {"waiting", "raised"} /\ expansion[n] \notin {"done", "raised"}
  /\ future[n] = "result" => expansion[n] = "done"
  /\ Direct(n) =>
       /\ future[n] = "none" /\ expansion[n] # "scheduled"
       /\ at[n] = "waiting" <=> expansion[n] \in {"generating", "gathering"}
  /\ ~Direct(n) /\ (at[n] = "waiting" \/ expansion[n] # "none") => future[n] # "none"

(* Where its children are. *)
Family(n) ==
  /\ kids[n] \subseteq Offspring(n)
  /\ kids[n] # {} => expansion[n] \in {"gathering", "done", "raised"}
  /\ \A c \in Offspring(n) : at[c] # "absent" <=> c \in kids[n]
  /\ expansion[n] = "done" => \A c \in kids[n] : at[c] = "done"

(* Whatever is above a node was there first, and is done last. *)
Lineage ==
  /\ at[Root] # "absent"
  /\ \A p, n \in Nodes : Above(p, n) /\ at[n] # "absent" =>
       /\ at[p] # "absent"
       /\ at[p] = "done" => at[n] = "done"

(* A queued node is in one queue and waits for a task not yet started. *)
Queued(q) ==
  /\ IsFiniteSet(queues[q])
  /\ \A r \in Queues : r # q => queues[q] \cap queues[r] = {}
  /\ \A n \in queues[q] :
       /\ ~Direct(n) /\ expansion[n] = "none"
       /\ future[n] # "none" /\ at[n] \in {"waiting", "raised"}
       /\ worker # "dead" => future[n] = "pending"

Ending ==
  /\ worker = "dead" =>
       \E n \in Nodes : at[n] = "raised" \/ (at[n] = "waiting" /\ future[n] = "error")
  /\ builder \in {"draining", "stopping"} => at[Root] = "done"
  /\ builder \in {"failing", "raised"} => at[Root] = "raised"
  /\ builder = "returned" => at[Root] = "done" /\ worker # "dead"

TreeInv ==
  /\ TypeOK
  /\ \A n \in Nodes : Stage(n) /\ Family(n)
  /\ Lineage
  /\ \A q \in Queues : Queued(q)
  /\ Ending

-----------------------------------------------------------------------------
(* Paths. *)
LEMMA NodeIsPath ==
  ASSUME NEW n \in Nodes
  PROVE  /\ n \in Seq(1 .. MaxK) /\ Len(n) \in 0 .. MaxDepth - 1
         /\ DOMAIN n = 1 .. Len(n) /\ \A i \in 1 .. Len(n) : n[i] \in 1 .. MaxK
<1>1. PICK d \in 0 .. MaxDepth - 1 : n \in [1 .. d -> 1 .. MaxK]
  BY DEF Nodes
<1>2. d \in Nat /\ DOMAIN n = 1 .. d /\ \A i \in 1 .. d : n[i] \in 1 .. MaxK
  BY <1>1, OnlineTreeAssumption
<1>3. n \in Seq(1 .. MaxK)
  BY <1>1, <1>2, SeqDef
<1>4. Len(n) = d
  BY <1>1, <1>2, <1>3, LenProperties
<1>5. QED
  BY <1>1, <1>2, <1>3, <1>4

LEMMA PathIsNode ==
  ASSUME NEW n \in Seq(1 .. MaxK), Len(n) \in 0 .. MaxDepth - 1
  PROVE  n \in Nodes
<1>1. n \in [1 .. Len(n) -> 1 .. MaxK]
  BY LenProperties
<1>2. QED  BY <1>1 DEF Nodes

LEMMA RootIsNode == Root \in Nodes
<1>1. Root \in Seq(1 .. MaxK) /\ Len(Root) = 0
  BY EmptySeq DEF Root
<1>2. 0 \in 0 .. MaxDepth - 1
  BY OnlineTreeAssumption
<1>3. QED  BY <1>1, <1>2, PathIsNode

LEMMA ChildFacts ==
  ASSUME NEW n \in Nodes, NEW c \in Offspring(n)
  PROVE  /\ c \in Nodes /\ Len(c) = Len(n) + 1
         /\ \A i \in 1 .. Len(n) : c[i] = n[i]
<1>1. PICK i \in 1 .. MaxK : c = Append(n, i)
  BY DEF Offspring
<1>2. n \in Seq(1 .. MaxK)
  BY NodeIsPath
<1>3. c \in Nodes
  BY DEF Offspring
<1>4. QED  BY <1>1, <1>2, <1>3

(* Two paths that agree are the same. *)
LEMMA SamePath ==
  ASSUME NEW n \in Nodes, NEW m \in Nodes, Len(n) = Len(m),
         \A i \in 1 .. Len(n) : n[i] = m[i]
  PROVE  n = m
BY NodeIsPath

LEMMA AboveChild ==
  ASSUME NEW n \in Nodes, NEW c \in Offspring(n), NEW p \in Nodes
  PROVE  Above(p, c) <=> p = n \/ Above(p, n)
<1>1. /\ c \in Nodes /\ Len(c) = Len(n) + 1
      /\ \A i \in 1 .. Len(n) : c[i] = n[i]
  BY ChildFacts
<1>2. Len(p) \in Nat /\ Len(n) \in Nat
  BY NodeIsPath, OnlineTreeAssumption
<1>3. ASSUME Above(p, c), Len(p) = Len(n)  PROVE p = n
  BY <1>1, <1>3, SamePath DEF Above
<1>4. ASSUME Above(p, c), Len(p) < Len(n)  PROVE Above(p, n)
  BY <1>1, <1>2, <1>4 DEF Above
<1>5. p = n => Above(p, c)
  BY <1>1, <1>2 DEF Above
<1>6. Above(p, n) => Above(p, c)
  BY <1>1, <1>2 DEF Above
<1>7. Above(p, c) => Len(p) = Len(n) \/ Len(p) < Len(n)
  BY <1>1, <1>2 DEF Above
<1>8. QED  BY <1>3, <1>4, <1>5, <1>6, <1>7

LEMMA OneParent ==
  ASSUME NEW n \in Nodes, NEW m \in Nodes, NEW c, c \in Offspring(n), c \in Offspring(m)
  PROVE  n = m /\ c # n /\ c # Root
<1>1. /\ c \in Nodes /\ Len(c) = Len(n) + 1 /\ Len(c) = Len(m) + 1
      /\ \A i \in 1 .. Len(n) : c[i] = n[i]
      /\ \A i \in 1 .. Len(m) : c[i] = m[i]
  BY ChildFacts
<1>2. Len(m) \in Nat /\ Len(n) \in Nat /\ Len(Root) = 0
  BY NodeIsPath, OnlineTreeAssumption DEF Root
<1>3. n = m
  BY <1>1, <1>2, SamePath
<1>4. QED  BY <1>1, <1>2, <1>3

LEMMA RootAbove ==
  ASSUME NEW n \in Nodes, n # Root
  PROVE  Above(Root, n)
<1>1. Len(n) \in Nat /\ Len(Root) = 0
  BY NodeIsPath, OnlineTreeAssumption DEF Root
<1>2. Len(n) # 0
  BY <1>1, SamePath, RootIsNode
<1>3. QED  BY <1>1, <1>2 DEF Above

LEMMA ChildBetween ==
  ASSUME NEW n \in Nodes, NEW d \in Nodes, Above(n, d)
  PROVE  \E c \in Offspring(n) : c = d \/ Above(c, d)
<1> DEFINE k == d[Len(n) + 1]
           c == Append(n, k)
<1>1. /\ n \in Seq(1 .. MaxK) /\ Len(n) \in Nat /\ Len(d) \in 0 .. MaxDepth - 1 /\ Len(d) \in Nat
      /\ \A i \in 1 .. Len(d) : d[i] \in 1 .. MaxK
  BY NodeIsPath, OnlineTreeAssumption
<1>2. Len(n) < Len(d) /\ \A i \in 1 .. Len(n) : d[i] = n[i]
  BY DEF Above
<1>3. k \in 1 .. MaxK
  BY <1>1, <1>2
<1>4. c \in Seq(1 .. MaxK) /\ Len(c) = Len(n) + 1 /\ c[Len(n) + 1] = k
      /\ \A i \in 1 .. Len(n) : c[i] = n[i]
  BY <1>1, <1>3
<1>5. Len(c) \in 0 .. MaxDepth - 1
  BY <1>1, <1>2, <1>4, OnlineTreeAssumption
<1>6. c \in Nodes /\ c \in Offspring(n)
  BY <1>3, <1>4, <1>5, PathIsNode DEF Offspring
<1>7. \A i \in 1 .. Len(c) : d[i] = c[i]
  BY <1>1, <1>2, <1>4
<1> HIDE DEF c, k
<1>8. CASE Len(d) = Len(c)
  BY <1>6, <1>7, <1>8, SamePath
<1>9. CASE Len(d) # Len(c)
  <2>1. Len(c) < Len(d)
    BY <1>1, <1>2, <1>4, <1>9
  <2>2. QED  BY <1>6, <1>7, <2>1 DEF Above
<1>10. QED  BY <1>8, <1>9

(* ForkJoin's Below. *)
LEMMA BelowIsOffspring ==
  ASSUME NEW n \in Nodes
  PROVE  Contract!Below(n) = Offspring(n)
<1>1. ASSUME NEW c \in Offspring(n)  PROVE c \in Contract!Below(n)
  <2>1. PICK i \in 1 .. MaxK : c = Append(n, i)
    BY DEF Offspring
  <2>2. n \in Seq(1 .. MaxK) /\ c \in Nodes
    BY NodeIsPath DEF Offspring
  <2>3. c # <<>> /\ SubSeq(c, 1, Len(c) - 1) = n
    BY <2>1, <2>2
  <2>4. QED  BY <2>2, <2>3 DEF Contract!Below
<1>2. ASSUME NEW c \in Contract!Below(n)  PROVE c \in Offspring(n)
  <2>1. c \in Nodes /\ c # <<>> /\ SubSeq(c, 1, Len(c) - 1) = n
    BY DEF Contract!Below
  <2>2. c \in Seq(1 .. MaxK) /\ Len(c) \in Nat
    BY <2>1, NodeIsPath, OnlineTreeAssumption
  <2>3. PICK s \in Seq(1 .. MaxK), e \in 1 .. MaxK : c = Append(s, e)
    BY <2>1, <2>2, SequenceEmptyOrAppend
  <2>4. SubSeq(c, 1, Len(c) - 1) = s
    BY <2>3
  <2>5. QED  BY <2>1, <2>3, <2>4 DEF Offspring
<1>3. QED  BY <1>1, <1>2

(* Every set of numbers has a smallest: the shortest queue exists. *)
LEMMA SmallestIn ==
  ASSUME NEW T, T \subseteq Nat, T # {}
  PROVE  \E x \in T : \A y \in T : x <= y
<1>1. \E x \in T : \A y \in T : ~ (<<y, x>> \in OpToRel(<, Nat))
  <2> DEFINE R == OpToRel(<, Nat)
  <2>1. IsWellFoundedOn(R, Nat)
    BY NatLessThanWellFounded
  <2> HIDE DEF R
  <2>2. \E x \in T : \A y \in T : ~ (<<y, x>> \in R)
    BY <2>1, WFMin
  <2> QED BY <2>2 DEF R
<1>2. \A x, y \in Nat : y < x => <<y, x>> \in OpToRel(<, Nat)
  BY DEF OpToRel
<1>3. \A x, y \in Nat : x <= y \/ y < x OBVIOUS
<1>4. QED BY <1>1, <1>2, <1>3

-----------------------------------------------------------------------------
(* A step of one node.  The nodes above it stay in order because it is     *)
(* done only when its children are.                                        *)
LEMMA FamilyKept ==
  ASSUME TreeInv, NEW n \in Nodes, UNCHANGED kids,
         \A m \in Nodes : m # n => at'[m] = at[m],
         at[n] \notin {"absent", "done"}, at'[n] # "absent",
         at'[n] = "done" => \A c \in kids[n] : at[c] = "done",
         \A m \in Nodes : expansion'[m] # expansion[m] =>
           /\ kids[m] # {} => expansion'[m] \in {"gathering", "done", "raised"}
           /\ expansion'[m] = "done" => \A c \in kids[m] : at[c] = "done"
  PROVE  (\A m \in Nodes : Family(m)') /\ Lineage'
<1>1. \A m \in Nodes : /\ Family(m) /\ kids[m] \subseteq Nodes
                       /\ at'[m] # "absent" <=> at[m] # "absent"
                       /\ at[m] = "done" => at'[m] = "done"
  BY DEF TreeInv, TypeOK
<1>2. ASSUME NEW m \in Nodes  PROVE Family(m)'
  <2>1. \A c \in Offspring(m) : at'[c] # "absent" <=> c \in kids[m]
    BY <1>1 DEF Family, Offspring
  <2>2. expansion'[m] = "done" => \A c \in kids[m] : at[c] = "done"
    BY <1>1 DEF Family
  <2>3. expansion'[m] = "done" => \A c \in kids[m] : at'[c] = "done"
    BY <1>1, <2>2
  <2>4. kids[m] # {} => expansion'[m] \in {"gathering", "done", "raised"}
    BY <1>1 DEF Family
  <2>5. kids[m] \subseteq Offspring(m)
    BY <1>1 DEF Family
  <2>6. QED  BY <2>1, <2>3, <2>4, <2>5 DEF Family
<1>3. ASSUME NEW p \in Nodes, NEW d \in Nodes, Above(p, d), at'[d] # "absent"
      PROVE  at'[p] # "absent" /\ (at'[p] = "done" => at'[d] = "done")
  <2>1. at[d] # "absent" /\ at[p] # "absent"
    BY <1>1, <1>3 DEF TreeInv, Lineage
  <2>2. CASE p # n
    BY <1>1, <1>3, <2>1, <2>2 DEF TreeInv, Lineage
  <2>3. CASE p = n /\ at'[n] = "done"
    <3>1. PICK c \in Offspring(n) : c = d \/ Above(c, d)
      BY <1>3, <2>3, ChildBetween
    <3>2. c \in Nodes /\ at[c] # "absent"
      BY <2>1, <3>1 DEF Offspring, TreeInv, Lineage
    <3>3. at[c] = "done"
      BY <1>1, <2>3, <3>2, <3>1 DEF Family
    <3>4. at[d] = "done"
      BY <2>1, <3>1, <3>2, <3>3 DEF TreeInv, Lineage
    <3>5. QED  BY <1>1, <2>1, <3>4
  <2>4. QED  BY <1>1, <2>1, <2>2, <2>3
<1>4. at'[Root] # "absent"
  BY <1>1, RootIsNode DEF TreeInv, Lineage
<1>5. QED  BY <1>2, <1>3, <1>4 DEF Lineage

Settled(m) == at[m] = "raised" \/ (at[m] = "waiting" /\ future[m] = "error")

LEMMA EndingKept ==
  ASSUME TreeInv, UNCHANGED <<worker, builder>>,
         \A m \in Nodes : /\ at[m] \in {"done", "raised"} => at'[m] = at[m]
                          /\ Settled(m) => Settled(m)'
  PROVE  Ending'
<1>1. worker = "dead" => \E m \in Nodes : Settled(m)
  BY DEF TreeInv, Ending, Settled
<1>2. worker' = "dead" => \E m \in Nodes : Settled(m)'
  BY <1>1
<1>3. QED  BY <1>2, RootIsNode DEF TreeInv, Ending, Settled

(* One node moves. *)
LEMMA OneMoves ==
  ASSUME TreeInv, TypeOK', NEW n \in Nodes, UNCHANGED <<kids, queues, worker, builder>>,
         \A m \in Nodes : m # n =>
           at'[m] = at[m] /\ expansion'[m] = expansion[m] /\ future'[m] = future[m],
         Stage(n)',
         at[n] \notin {"absent", "done"}, at'[n] # "absent",
         at'[n] = "done" \/ expansion'[n] = "done" => \A c \in kids[n] : at[c] = "done",
         kids[n] # {} => expansion'[n] \in {"gathering", "done", "raised"},
         Settled(n) => Settled(n)', at[n] = "raised" => at'[n] = "raised",
         \A q \in Queues : n \in queues[q] =>
           /\ worker = "dead" /\ expansion'[n] = expansion[n]
           /\ future'[n] # "none" /\ at'[n] = "raised"
  PROVE  TreeInv'
<1>1. \A m \in Nodes : Stage(m)'
  <2> SUFFICES ASSUME NEW m \in Nodes, m # n  PROVE Stage(m)'
    OBVIOUS
  <2>1. Stage(m)
    BY DEF TreeInv
  <2>2. QED  BY <2>1 DEF Stage, Direct
<1>2. (\A m \in Nodes : Family(m)') /\ Lineage'
  BY FamilyKept
<1>3. ASSUME NEW q \in Queues  PROVE Queued(q)'
  <2>1. Queued(q) /\ queues[q] \subseteq Nodes
    BY DEF TreeInv, TypeOK
  <2>2. QED  BY <2>1 DEF Queued, Direct
<1>4. Ending'
  BY EndingKept DEF Settled
<1>5. QED  BY <1>1, <1>2, <1>3, <1>4 DEF TreeInv

LEMMA OneAttended ==
  ASSUME TreeInv, QueuesAttended, NEW n \in Nodes, UNCHANGED queues,
         \A m \in Nodes : m # n =>
           at'[m] = at[m] /\ expansion'[m] = expansion[m] /\ future'[m] = future[m],
         at'[n] = "waiting" /\ future'[n] = "pending" => expansion'[n] \in Busy,
         at[n] = "raised" => at'[n] = "raised"
  PROVE  QueuesAttended'
<1>1. Failed # {} => Failed' # {}
  BY DEF Failed
<1>2. FullQueuesFlushed'
  BY <1>1 DEF QueuesAttended, FullQueuesFlushed
<1>3. ASSUME NEW m \in Nodes, at'[m] = "waiting", future'[m] = "pending", Failed' = {}
      PROVE  m \in UNION {queues[q] : q \in Queues} \/ m \in Expanding'
  <2>1. CASE m = n
    BY <1>3, <2>1 DEF Expanding, Busy
  <2>2. CASE m # n
    BY <1>1, <1>3, <2>2 DEF Expanding, QueuesAttended, WaitersAttended
  <2>3. QED  BY <2>1, <2>2
<1>4. QED  BY <1>2, <1>3 DEF QueuesAttended, WaitersAttended

Inv == TreeInv /\ QueuesAttended

LEMMA OneNode ==
  ASSUME Inv, TypeOK', NEW n \in Nodes, UNCHANGED <<kids, queues, worker, builder>>,
         \A m \in Nodes : m # n =>
           at'[m] = at[m] /\ expansion'[m] = expansion[m] /\ future'[m] = future[m],
         Stage(n)',
         at[n] \notin {"absent", "done"}, at'[n] # "absent",
         at'[n] = "done" \/ expansion'[n] = "done" => \A c \in kids[n] : at[c] = "done",
         kids[n] # {} => expansion'[n] \in {"gathering", "done", "raised"},
         at'[n] = "waiting" /\ future'[n] = "pending" => expansion'[n] \in Busy,
         Settled(n) => Settled(n)', at[n] = "raised" => at'[n] = "raised",
         \A q \in Queues : n \in queues[q] =>
           /\ worker = "dead" /\ expansion'[n] = expansion[n]
           /\ future'[n] # "none" /\ at'[n] = "raised"
  PROVE  Inv'
BY OneMoves, OneAttended DEF Inv

LEMMA InitTree == Init => Inv
<1> SUFFICES ASSUME Init  PROVE Inv
  OBVIOUS
<1> USE RootIsNode DEF Init
<1>1. TypeOK
  BY OnlineTreeAssumption DEF TypeOK
<1>2. ASSUME NEW n \in Nodes  PROVE Stage(n)
  BY DEF Stage, Busy
<1>3. ASSUME NEW n \in Nodes  PROVE Family(n)
  <2>1. \A c \in Offspring(n) : c \in Nodes /\ c # Root
    BY OneParent DEF Offspring
  <2>2. QED  BY <2>1 DEF Family
<1>4. Lineage
  <2>1. ASSUME NEW p \in Nodes, Above(p, Root)  PROVE FALSE
    BY <2>1, NodeIsPath, OnlineTreeAssumption DEF Above, Root
  <2>2. QED  BY <2>1 DEF Lineage
<1>5. \A q \in Queues : Queued(q)
  BY FS_EmptySet DEF Queued
<1>6. Ending
  BY DEF Ending
<1>7. QueuesAttended
  BY FS_EmptySet, OnlineTreeAssumption DEF QueuesAttended, WaitersAttended, FullQueuesFlushed
<1>8. QED  BY <1>1, <1>2, <1>3, <1>4, <1>5, <1>6, <1>7 DEF Inv, TreeInv

(* A coroutine that has not enqueued its node yet. *)
LEMMA EarlyFacts ==
  ASSUME Inv, NEW n \in Nodes, at[n] \in {"ready", "estimating"}
  PROVE  /\ expansion[n] = "none" /\ future[n] = "none" /\ kids[n] = {}
         /\ \A q \in Queues : n \notin queues[q]
<1>1. Stage(n) /\ Family(n) /\ \A q \in Queues : Queued(q)
  BY DEF Inv, TreeInv
<1>2. QED  BY <1>1 DEF Stage, Family, Queued

LEMMA EarlyMoves ==
  ASSUME Inv, NEW n \in Nodes, at[n] \in {"ready", "estimating"},
         NEW v \in {"estimating", "done", "raised"}, v = "estimating" => ~Direct(n),
         at' = [at EXCEPT ![n] = v],
         UNCHANGED <<expansion, future, branches, kids, queues, used, worker, builder>>
  PROVE  Inv'
<1>1. /\ expansion[n] = "none" /\ future[n] = "none" /\ kids[n] = {}
      /\ \A q \in Queues : n \notin queues[q]
  BY EarlyFacts
<1>2. TypeOK /\ at \in [Nodes -> {"absent", "ready", "estimating", "waiting", "done", "raised"}]
  BY DEF Inv, TreeInv, TypeOK
<1>3. TypeOK' /\ at'[n] = v /\ \A m \in Nodes : m # n => at'[m] = at[m]
  BY <1>2 DEF TypeOK
<1>4. Stage(n)'
  BY <1>1, <1>3 DEF Stage, Direct, Busy
<1>5. QED  BY <1>1, <1>3, <1>4, OneNode DEF Settled

LEMMA AffordableRange ==
  ASSUME TypeOK, NEW k \in 0 .. MaxK
  PROVE  Affordable(k) \in 0 .. MaxK
BY OnlineTreeAssumption DEF TypeOK, Affordable

(* A node under expansion: who hears of the end of it. *)
LEMMA BusyFacts ==
  ASSUME Inv, NEW n \in Nodes, expansion[n] \in Busy
  PROVE  /\ at[n] \in {"waiting", "raised"} /\ future[n] # "result"
         /\ ~Direct(n) => future[n] # "none"
         /\ Direct(n) => at[n] = "waiting" /\ future[n] = "none"
         /\ \A q \in Queues : n \notin queues[q]
<1>1. Stage(n) /\ \A q \in Queues : Queued(q)
  BY DEF Inv, TreeInv
<1>2. QED  BY <1>1 DEF Stage, Queued, Busy

LEMMA SettleFacts ==
  ASSUME TypeOK, NEW n \in Nodes, NEW ok \in BOOLEAN, Settle(n, ok)
  PROVE  /\ at' \in [Nodes -> {"absent", "ready", "estimating", "waiting", "done", "raised"}]
         /\ future' \in [Nodes -> {"none", "pending", "result", "error"}]
         /\ \A m \in Nodes : m # n => at'[m] = at[m] /\ future'[m] = future[m]
         /\ Direct(n) => /\ at'[n] = IF ok THEN "done" ELSE "raised"
                         /\ future'[n] = future[n]
         /\ ~Direct(n) => /\ at'[n] = at[n]
                          /\ future'[n] = IF future[n] = "pending"
                                            THEN IF ok THEN "result" ELSE "error"
                                            ELSE future[n]
BY DEF TypeOK, Settle

(* The expansion of n ends as e, with the branches it has afterwards. *)
LEMMA ExpansionEnds ==
  ASSUME Inv, NEW n \in Nodes, expansion[n] \in Busy, NEW ok \in BOOLEAN, Settle(n, ok),
         NEW e, e = IF ok THEN "done" ELSE "raised",
         expansion' = [expansion EXCEPT ![n] = e],
         branches' \in [Nodes -> 0 .. MaxK], used' \in Nat,
         ok => \A c \in kids[n] : at[c] = "done",
         UNCHANGED <<kids, queues, worker, builder>>
  PROVE  Inv'
<1>1. TypeOK /\ Stage(n) /\ n \in DOMAIN expansion
  BY DEF Inv, TreeInv, TypeOK
<1>2. TypeOK'
  BY <1>1, SettleFacts DEF TypeOK
<1>3. /\ expansion'[n] = e
      /\ \A m \in Nodes : m # n =>
           at'[m] = at[m] /\ expansion'[m] = expansion[m] /\ future'[m] = future[m]
  BY <1>1, SettleFacts
<1>4. Stage(n)'
  BY <1>1, <1>3, SettleFacts, BusyFacts DEF Stage, Direct, Busy, TypeOK
<1>5. /\ at[n] \notin {"absent", "done"} /\ at'[n] # "absent"
      /\ at'[n] = "done" \/ expansion'[n] = "done" => ok
      /\ ~(at'[n] = "waiting" /\ future'[n] = "pending")
      /\ Settled(n) => Settled(n)'
      /\ at[n] = "raised" => at'[n] = "raised"
  BY <1>1, <1>3, SettleFacts, BusyFacts DEF Settled
<1>6. QED  BY <1>2, <1>3, <1>4, <1>5, BusyFacts, OneNode

(* The expansion of n gets to where it generates. *)
LEMMA ExpansionBegins ==
  ASSUME Inv, NEW n \in Nodes, NEW k \in 0 .. MaxK, Expand(n, k),
         \/ expansion[n] = "scheduled"
         \/ Direct(n) /\ at[n] = "ready",
         UNCHANGED <<kids, queues, used, worker, builder>>
  PROVE  Inv'
<1>1. TypeOK /\ Stage(n) /\ Family(n) /\ n \in DOMAIN expansion /\ n \in DOMAIN at
  BY DEF Inv, TreeInv, TypeOK
<1>2. /\ kids[n] = {} /\ branches' \in [Nodes -> 0 .. MaxK] /\ used' \in Nat
      /\ \A q \in Queues : n \notin queues[q]
  BY <1>1, AffordableRange, EarlyFacts, BusyFacts DEF Expand, TypeOK, Family, Busy
<1>3. CASE Affordable(k) = 0 /\ expansion[n] = "scheduled"
  BY <1>2, <1>3, ExpansionEnds DEF Expand, Busy
<1>4. CASE Affordable(k) = 0 /\ Direct(n) /\ at[n] = "ready"
  <2>1. /\ at' = [at EXCEPT ![n] = "done"] /\ UNCHANGED future
        /\ expansion' = [expansion EXCEPT ![n] = "done"]
    BY <1>4 DEF Expand, Settle
  <2>2. TypeOK'
    BY <1>1, <1>2, <2>1 DEF TypeOK
  <2>3. /\ at'[n] = "done" /\ expansion'[n] = "done" /\ future'[n] = "none"
        /\ \A m \in Nodes : m # n =>
             at'[m] = at[m] /\ expansion'[m] = expansion[m] /\ future'[m] = future[m]
    BY <1>1, <1>4, <2>1, EarlyFacts
  <2>4. Stage(n)'
    BY <1>4, <2>3 DEF Stage, Direct, Busy
  <2>5. QED  BY <1>2, <1>4, <2>2, <2>3, <2>4, OneNode DEF Settled
<1>5. CASE Affordable(k) # 0
  <2>1. /\ expansion' = [expansion EXCEPT ![n] = "generating"] /\ UNCHANGED future
        /\ at' = IF Direct(n) THEN [at EXCEPT ![n] = "waiting"] ELSE at
    BY <1>5 DEF Expand
  <2>2. TypeOK'
    BY <1>1, <1>2, <2>1 DEF TypeOK
  <2>3. /\ expansion'[n] = "generating" /\ future'[n] = future[n]
        /\ at'[n] = IF Direct(n) THEN "waiting" ELSE at[n]
        /\ \A m \in Nodes : m # n =>
             at'[m] = at[m] /\ expansion'[m] = expansion[m] /\ future'[m] = future[m]
    BY <1>1, <2>1
  <2>4. /\ Direct(n) => at[n] = "ready" /\ future[n] = "none"
        /\ ~Direct(n) => at[n] \in {"waiting", "raised"} /\ future[n] \notin {"none", "result"}
    BY <1>1, EarlyFacts DEF Stage, Busy
  <2>5. Stage(n)'
    BY <2>3, <2>4 DEF Stage, Direct, Busy
  <2>6. QED  BY <1>2, <2>2, <2>3, <2>4, <2>5, OneNode DEF Settled, Busy
<1>6. QED  BY <1>3, <1>4, <1>5

LEMMA WakeStep ==
  ASSUME Inv, NEW n \in Nodes, Wake(n)
  PROVE  Inv'
<1>1. TypeOK /\ Stage(n) /\ Family(n) /\ (\A q \in Queues : Queued(q)) /\ n \in DOMAIN at
  BY DEF Inv, TreeInv, TypeOK
<1>2. /\ at[n] = "waiting" /\ future[n] \in {"result", "error"}
      /\ at'[n] = IF future[n] = "result" THEN "done" ELSE "raised"
      /\ \A m \in Nodes : m # n => at'[m] = at[m]
      /\ UNCHANGED <<expansion, future, branches, kids, queues, used, worker, builder>>
  BY <1>1 DEF Wake
<1>3. TypeOK'
  BY <1>1 DEF Wake, TypeOK
<1>4. future[n] = "result" => expansion[n] = "done" /\ \A c \in kids[n] : at[c] = "done"
  BY <1>1 DEF Stage, Family
<1>5. Stage(n)'
  BY <1>1, <1>2, <1>4 DEF Stage, Direct, Busy
<1>6. \A q \in Queues : n \in queues[q] =>
        worker = "dead" /\ future'[n] # "none" /\ at'[n] = "raised"
  BY <1>1, <1>2, <1>4 DEF Queued
<1>7. QED  BY <1>1, <1>2, <1>3, <1>4, <1>5, <1>6, OneNode DEF Settled, Family

(* Children are generated: they were not there before. *)
LEMMA ForkStep ==
  ASSUME Inv, NEW n \in Nodes, expansion[n] = "generating",
         NEW grow \in SUBSET Offspring(n), grow # {},
         kids' = [kids EXCEPT ![n] = grow],
         expansion' = [expansion EXCEPT ![n] = "gathering"],
         at' = [c \in Nodes |-> IF c \in grow THEN "ready" ELSE at[c]],
         used' \in Nat, UNCHANGED <<future, branches, queues, worker, builder>>
  PROVE  Inv' /\ \A c \in Offspring(n) : at[c] = "absent"
<1>1. TypeOK /\ Lineage /\ Ending /\ QueuesAttended
  BY DEF Inv, TreeInv
<1>2. ASSUME NEW m \in Nodes  PROVE Stage(m) /\ Family(m) /\ kids[m] \subseteq Nodes
  BY DEF Inv, TreeInv, TypeOK
<1>3. ASSUME NEW q \in Queues  PROVE Queued(q) /\ queues[q] \subseteq Nodes
  BY DEF Inv, TreeInv, TypeOK
<1>4. /\ kids[n] = {} /\ at[n] \in {"waiting", "raised"}
      /\ \A c \in Offspring(n) : at[c] = "absent"
  BY <1>2, BusyFacts DEF Family, Busy
<1>5. \A m \in Nodes : /\ kids'[m] = IF m = n THEN grow ELSE kids[m]
                       /\ expansion'[m] = IF m = n THEN "gathering" ELSE expansion[m]
                       /\ at'[m] = IF m \in grow THEN "ready" ELSE at[m]
                       /\ m \in grow => at[m] = "absent" /\ m # n
                       /\ at[m] # "absent" => at'[m] = at[m]
                       /\ at'[m] # "ready" => at'[m] = at[m]
  BY <1>1, <1>4, OneParent DEF TypeOK
<1>6. TypeOK'
  <2>1. grow \subseteq Nodes
    BY DEF Offspring
  <2>2. QED  BY <1>1, <2>1 DEF TypeOK
<1>7. ASSUME NEW m \in Nodes  PROVE Stage(m)'
  BY <1>2, <1>4, <1>5 DEF Stage, Direct, Busy
<1>8. ASSUME NEW m \in Nodes  PROVE Family(m)'
  <2>1. ASSUME NEW c \in Offspring(m)  PROVE at'[c] # "absent" <=> c \in kids'[m]
    <3>1. c \in Nodes /\ (c \in Offspring(n) <=> m = n)
      BY OneParent DEF Offspring
    <3>2. QED  BY <1>2, <1>4, <1>5, <3>1 DEF Family
  <2>2. kids'[m] \subseteq Offspring(m)
    BY <1>2, <1>5 DEF Family
  <2>3. kids'[m] # {} => expansion'[m] \in {"gathering", "done", "raised"}
    BY <1>2, <1>5 DEF Family
  <2>4. expansion'[m] = "done" => m # n /\ \A c \in kids[m] : at[c] = "done"
    BY <1>2, <1>5 DEF Family
  <2>5. expansion'[m] = "done" => \A c \in kids'[m] : at'[c] = "done"
    BY <1>2, <1>5, <2>4
  <2>6. QED  BY <2>1, <2>2, <2>3, <2>5 DEF Family
<1>9. Lineage'
  <2>1. ASSUME NEW p \in Nodes, NEW d \in Nodes, Above(p, d), at'[d] # "absent"
        PROVE  at'[p] # "absent" /\ (at'[p] = "done" => at'[d] = "done")
    <3>1. CASE d \in grow
      <4>1. p = n \/ Above(p, n)
        BY <2>1, <3>1, AboveChild
      <4>2. at[p] \notin {"absent", "done"}
        BY <1>1, <1>4, <4>1 DEF Lineage
      <4>3. QED  BY <1>5, <4>2
    <3>2. CASE d \notin grow
      <4>1. at[d] # "absent" /\ at[p] # "absent"
        BY <1>1, <1>5, <2>1, <3>2 DEF Lineage
      <4>2. QED  BY <1>1, <1>5, <2>1, <3>2, <4>1 DEF Lineage
    <3>3. QED  BY <3>1, <3>2
  <2>2. at'[Root] # "absent"
    BY <1>1, <1>5, RootIsNode DEF Lineage
  <2>3. QED  BY <2>1, <2>2 DEF Lineage
<1>10. ASSUME NEW q \in Queues  PROVE Queued(q)'
  BY <1>3, <1>5 DEF Queued, Direct
<1>11. Ending'
  BY <1>5, EndingKept DEF Inv, Settled
<1>12. QueuesAttended'
  <2>1. Failed # {} => Failed' # {}
    BY <1>5 DEF Failed
  <2>2. FullQueuesFlushed'
    BY <1>1, <2>1 DEF QueuesAttended, FullQueuesFlushed
  <2>3. ASSUME NEW m \in Nodes, at'[m] = "waiting", future'[m] = "pending", Failed' = {}
        PROVE  m \in UNION {queues[q] : q \in Queues} \/ m \in Expanding'
    BY <1>1, <1>5, <2>1, <2>3 DEF QueuesAttended, WaitersAttended, Expanding
  <2>4. QED  BY <2>2, <2>3 DEF QueuesAttended, WaitersAttended
<1>13. QED  BY <1>4, <1>6, <1>7, <1>8, <1>9, <1>10, <1>11, <1>12 DEF Inv, TreeInv

LEMMA GeneratedStep ==
  ASSUME Inv, NEW n \in Nodes, Generated(n)
  PROVE  /\ Inv'
         /\ \/ expansion'[n] = "done" /\ Settle(n, TRUE) /\ kids[n] = {}
            \/ /\ UNCHANGED future
               /\ \E grow \in SUBSET Offspring(n) :
                    at' = [c \in Nodes |-> IF c \in grow THEN "ready" ELSE at[c]]
               /\ \A c \in Offspring(n) : at[c] = "absent"
<1>1. TypeOK /\ Family(n) /\ branches[n] \in 0 .. MaxK
  BY DEF Inv, TreeInv, TypeOK
<1>2. expansion[n] = "generating" /\ kids[n] = {}
  BY <1>1 DEF Generated, Family
<1>3. used' \in Nat /\ UNCHANGED <<branches, queues, worker, builder>>
  BY <1>1, OnlineTreeAssumption DEF Generated, TypeOK
<1>4. PICK grow \in SUBSET ({Append(n, i) : i \in 1 .. branches[n]} \cap Nodes) :
        /\ kids' = [kids EXCEPT ![n] = grow]
        /\ IF grow = {}
             THEN expansion' = [expansion EXCEPT ![n] = "done"] /\ Settle(n, TRUE)
             ELSE /\ expansion' = [expansion EXCEPT ![n] = "gathering"]
                  /\ at' = [c \in Nodes |-> IF c \in grow THEN "ready" ELSE at[c]]
                  /\ UNCHANGED future
  BY DEF Generated
<1>5. grow \in SUBSET Offspring(n)
  BY <1>1 DEF Offspring
<1>6. CASE grow = {}
  <2>1. UNCHANGED kids
    BY <1>1, <1>2, <1>4, <1>6 DEF TypeOK
  <2>2. expansion' = [expansion EXCEPT ![n] = "done"] /\ Settle(n, TRUE)
    BY <1>4, <1>6
  <2>3. branches' \in [Nodes -> 0 .. MaxK]
    BY <1>1, <1>3 DEF TypeOK
  <2>4. Inv'
    BY <1>2, <1>3, <2>1, <2>2, <2>3, ExpansionEnds DEF Busy
  <2>5. expansion'[n] = "done"
    BY <1>1, <2>2 DEF TypeOK
  <2>6. QED  BY <1>2, <2>2, <2>4, <2>5
<1>7. CASE grow # {}
  BY <1>2, <1>3, <1>4, <1>5, <1>7, ForkStep
<1>8. QED  BY <1>6, <1>7

LEMMA OtherNodeSteps ==
  ASSUME Inv, NEW n \in Nodes,
         \/ EnterRaises(n) \/ GradeAtCap(n) \/ ExpandDirectly(n) \/ Estimate(n)
         \/ EstimateRaises(n) \/ StartExpansion(n) \/ GenerationRaises(n)
         \/ Joined(n) \/ JoinRaises(n)
  PROVE  Inv'
<1>1. TypeOK /\ branches \in [Nodes -> 0 .. MaxK] /\ used \in Nat
  BY DEF Inv, TreeInv, TypeOK
<1>2. CASE EnterRaises(n)
  BY <1>2, EarlyMoves DEF EnterRaises
<1>3. CASE GradeAtCap(n)
  BY <1>3, EarlyMoves DEF GradeAtCap
<1>4. CASE Estimate(n)
  BY <1>4, EarlyMoves DEF Estimate
<1>5. CASE EstimateRaises(n)
  BY <1>5, EarlyMoves DEF EstimateRaises
<1>6. CASE ExpandDirectly(n)
  <2>1. Default \in 0 .. MaxK
    BY OnlineTreeAssumption
  <2>2. QED  BY <1>6, <2>1, ExpansionBegins DEF ExpandDirectly
<1>7. CASE StartExpansion(n)
  BY <1>1, <1>7, ExpansionBegins DEF StartExpansion
<1>8. CASE GenerationRaises(n)
  BY <1>1, <1>8, ExpansionEnds DEF GenerationRaises, Busy
<1>9. CASE Joined(n)
  BY <1>1, <1>9, ExpansionEnds DEF Joined, Busy
<1>10. CASE JoinRaises(n)
  BY <1>1, <1>10, ExpansionEnds DEF JoinRaises, Busy
<1>11. QED  BY <1>2, <1>3, <1>4, <1>5, <1>6, <1>7, <1>8, <1>9, <1>10

-----------------------------------------------------------------------------
(* When the root is done, so is whatever was started. *)
LEMMA RootDone ==
  ASSUME Inv, at[Root] = "done"
  PROVE  /\ \A n \in Nodes : /\ at[n] \in {"absent", "done"}
                             /\ expansion[n] \in {"none", "done"}
                             /\ future[n] # "pending"
         /\ \A q \in Queues : queues[q] = {}
         /\ worker # "dead"
<1>1. ASSUME NEW n \in Nodes  PROVE at[n] \in {"absent", "done"}
  BY RootAbove, RootIsNode DEF Inv, TreeInv, Lineage
<1>2. ASSUME NEW n \in Nodes  PROVE expansion[n] \in {"none", "done"} /\ future[n] # "pending"
  BY <1>1 DEF Inv, TreeInv, Stage, TypeOK, Busy
<1>3. ASSUME NEW q \in Queues  PROVE queues[q] = {}
  BY <1>1 DEF Inv, TreeInv, Queued, TypeOK
<1>4. worker # "dead"
  BY <1>1 DEF Inv, TreeInv, Ending
<1>5. QED  BY <1>1, <1>2, <1>3, <1>4

LEMMA RootDoneSets ==
  Inv /\ at[Root] = "done" =>
    /\ Left = {} /\ Expanding = {}
    /\ \A n \in Nodes : future[n] # "pending" /\ at[n] \in {"absent", "done"}
    /\ \A n \in Nodes : at[n] # "raised" /\ expansion[n] # "raised"
    /\ worker # "dead"
BY RootDone DEF Left, Expanding

(* A flush that succeeds, of queues to which n may just have been added. *)
LEMMA FlushStep ==
  ASSUME Inv, worker # "dead", NEW n \in Nodes,
         NEW qs \in [Queues -> SUBSET Nodes], NEW due \in Due(qs), Flush(qs, due),
         used' \in Nat, UNCHANGED <<kids, worker, builder>>,
         at' \in [Nodes -> {"absent", "ready", "estimating", "waiting", "done", "raised"}],
         future' \in [Nodes -> {"none", "pending", "result", "error"}],
         \A m \in Nodes : m # n => at'[m] = at[m] /\ future'[m] = future[m],
         future'[n] = "pending",
         \/ at[n] = "estimating" /\ at'[n] = "waiting" /\ \E q \in Queues : n \in qs[q]
         \/ at'[n] = at[n] /\ at[n] \in {"waiting", "raised"} /\ future[n] = "pending",
         \A q \in Queues :
           /\ IsFiniteSet(qs[q]) /\ queues[q] \subseteq qs[q]
           /\ \A m \in qs[q] : m \in queues[q] \/ (m = n /\ at[n] = "estimating")
           /\ \A r \in Queues : r # q => qs[q] \cap qs[r] = {}
  PROVE  Inv'
<1> DEFINE items == UNION {qs[q] : q \in due}
<1>1. TypeOK /\ Lineage /\ Ending /\ QueuesAttended
  BY DEF Inv, TreeInv
<1>2. ASSUME NEW m \in Nodes  PROVE Stage(m) /\ Family(m)
  BY DEF Inv, TreeInv
<1>3. ASSUME NEW q \in Queues  PROVE Queued(q) /\ queues[q] \subseteq Nodes
  BY DEF Inv, TreeInv, TypeOK
<1>4. due \subseteq Queues /\ (\A q \in Queues : Cardinality(qs[q]) >= Capacity => q \in due)
  BY DEF Due
<1>5. items \subseteq Nodes
  BY <1>4
<1>6. /\ queues' = Emptied(qs, due)
      /\ expansion' = [m \in Nodes |-> IF m \in items THEN "scheduled" ELSE expansion[m]]
      /\ branches' \in [Nodes -> 0 .. MaxK]
  <2>1. PICK k \in [items -> 1 .. MaxK] :
          branches' = [m \in Nodes |-> IF m \in items THEN k[m] ELSE branches[m]]
    BY DEF Flush
  <2>2. branches \in [Nodes -> 0 .. MaxK]
    BY <1>1 DEF TypeOK
  <2>3. \A m \in items : k[m] \in 0 .. MaxK
    OBVIOUS
  <2> HIDE DEF items
  <2>4. branches' \in [Nodes -> 0 .. MaxK]
    BY <2>1, <2>2, <2>3
  <2>5. QED  BY <2>4 DEF Flush, items
<1>7. ASSUME NEW m \in items
      PROVE  /\ ~Direct(m) /\ expansion[m] = "none" /\ kids[m] = {}
             /\ at'[m] \in {"waiting", "raised"} /\ future'[m] = "pending"
  <2>1. PICK q \in Queues : m \in qs[q] /\ m \in Nodes
    BY <1>4
  <2>2. \/ m \in queues[q]
        \/ m = n /\ at[n] = "estimating"
    BY <2>1
  <2>3. m \in queues[q] => /\ ~Direct(m) /\ expansion[m] = "none"
                           /\ future[m] = "pending" /\ at[m] \in {"waiting", "raised"}
    BY <1>3 DEF Queued
  <2>4. m = n /\ at[n] = "estimating" => ~Direct(m) /\ expansion[m] = "none"
    BY <1>2 DEF Stage
  <2>5. QED  BY <1>2, <2>1, <2>2, <2>3, <2>4 DEF Family
<1> HIDE DEF items
<1>8. \A m \in Nodes : expansion'[m] = IF m \in items THEN "scheduled" ELSE expansion[m]
  BY <1>6
<1>9. \A q \in Queues : queues'[q] = IF q \in due THEN {} ELSE qs[q]
  BY <1>6 DEF Emptied
<1>10. TypeOK'
  <2>1. expansion' \in
          [Nodes -> {"none", "scheduled", "generating", "gathering", "done", "raised"}]
    BY <1>1, <1>6 DEF TypeOK
  <2>2. queues' \in [Queues -> SUBSET Nodes]
    BY <1>6 DEF Emptied
  <2>3. QED  BY <1>1, <1>6, <2>1, <2>2 DEF TypeOK
<1>11. ASSUME NEW m \in Nodes  PROVE Stage(m)'
  <2>1. CASE m \in items
    BY <1>7, <1>8, <2>1 DEF Stage, Direct, Busy
  <2>2. CASE m \notin items /\ m # n
    BY <1>2, <1>8, <2>2 DEF Stage, Direct
  <2>3. CASE m = n /\ m \notin items
    BY <1>2, <1>8, <2>3 DEF Stage, Direct, Busy
  <2>4. QED  BY <2>1, <2>2, <2>3
<1>12. (\A m \in Nodes : Family(m)') /\ Lineage'
  <2>1. \A m \in Nodes : expansion'[m] # expansion[m] => kids[m] = {} /\ expansion'[m] # "done"
    BY <1>7, <1>8
  <2>2. at[n] \notin {"absent", "done"} /\ at'[n] \notin {"absent", "done"}
    OBVIOUS
  <2>3. QED  BY <2>1, <2>2, FamilyKept DEF Inv
<1>13. ASSUME NEW q \in Queues  PROVE Queued(q)'
  <2>1. CASE q \in due
    BY <1>9, <2>1, FS_EmptySet DEF Queued
  <2>2. CASE q \notin due
    <3>1. queues'[q] = qs[q] /\ IsFiniteSet(qs[q])
      BY <1>9, <2>2
    <3>2. ASSUME NEW m \in qs[q]
          PROVE  /\ ~Direct(m) /\ expansion[m] = "none"
                 /\ future'[m] = "pending" /\ at'[m] \in {"waiting", "raised"}
      <4>1. m \in Nodes /\ (m \in queues[q] \/ (m = n /\ at[n] = "estimating"))
        OBVIOUS
      <4>2. m \in queues[q] => /\ ~Direct(m) /\ expansion[m] = "none"
                               /\ future[m] = "pending" /\ at[m] \in {"waiting", "raised"}
        BY <1>3 DEF Queued
      <4>3. m = n /\ at[n] = "estimating" => ~Direct(m) /\ expansion[m] = "none"
        BY <1>2 DEF Stage
      <4>4. QED  BY <4>1, <4>2, <4>3
    <3>3. ASSUME NEW m \in qs[q]  PROVE expansion'[m] = "none"
      <4>1. m \notin items
        <5> SUFFICES ASSUME m \in items  PROVE FALSE
          OBVIOUS
        <5>1. PICK r \in due : m \in qs[r]
          BY DEF items
        <5>2. QED  BY <1>4, <2>2, <5>1
      <4>2. QED  BY <1>8, <3>2, <4>1
    <3>4. \A r \in Queues : r # q => queues'[q] \cap queues'[r] = {}
      BY <1>9, <3>1
    <3>5. QED  BY <3>1, <3>2, <3>3, <3>4 DEF Queued, Direct
  <2>3. QED  BY <2>1, <2>2
<1>14. Ending'
  BY EndingKept DEF Inv, Settled
<1>15. QueuesAttended'
  <2>1. ASSUME NEW q \in Queues  PROVE Cardinality(queues'[q]) < Capacity
    BY <1>4, <1>9, FS_EmptySet, FS_CardinalityType, OnlineTreeAssumption
  <2>2. ASSUME NEW m \in Nodes, at'[m] = "waiting", future'[m] = "pending", Failed' = {}
        PROVE  m \in UNION {queues'[q] : q \in Queues} \/ m \in Expanding'
    <3>1. Failed = {}
      BY <2>2 DEF Failed
    <3>2. m \in Expanding => m \in Expanding'
      BY <1>8 DEF Expanding
    <3>3. (\E q \in Queues : m \in qs[q]) => m \in UNION {queues'[q] : q \in Queues} \/ m \in Expanding'
      <4> SUFFICES ASSUME NEW q \in Queues, m \in qs[q]
                   PROVE  m \in UNION {queues'[q_1] : q_1 \in Queues} \/ m \in Expanding'
        OBVIOUS
      <4>1. CASE q \in due
        <5>1. m \in items
          BY <4>1 DEF items
        <5>2. QED  BY <1>8, <5>1 DEF Expanding
      <4>2. CASE q \notin due
        BY <1>9, <4>2
      <4>3. QED  BY <4>1, <4>2
    <3>4. at[m] = "waiting" /\ future[m] = "pending"
          => m \in Expanding \/ \E q \in Queues : m \in qs[q]
      BY <1>1, <3>1 DEF QueuesAttended, WaitersAttended
    <3>5. QED  BY <2>2, <3>2, <3>3, <3>4
  <2>3. QED  BY <2>1, <2>2 DEF QueuesAttended, WaitersAttended, FullQueuesFlushed
<1>16. QED
  BY <1>10, <1>11, <1>12, <1>13, <1>14, <1>15 DEF Inv, TreeInv

(* A flush that raises, or a node left with a dead worker: a queue may keep *)
(* what it held, and the tree is failing.                                   *)
LEMMA FailedStep ==
  ASSUME Inv, NEW n \in Nodes, UNCHANGED <<expansion, branches, kids, builder>>, TypeOK',
         \A m \in Nodes : m # n => at'[m] = at[m],
         \/ at'[n] = at[n] /\ at[n] \notin {"absent", "done"}
         \/ at[n] = "estimating" /\ at'[n] = "raised" /\ future'[n] = "pending",
         \A m \in Nodes : m # n \/ at'[n] = at[n] =>
           \/ future'[m] = future[m]
           \/ future[m] = "pending" /\ future'[m] = "error" /\ worker' = "dead",
         worker' = worker \/ worker' = "dead",
         Settled(n)',
         \A q \in Queues :
           /\ IsFiniteSet(queues'[q])
           /\ \A r \in Queues : r # q => queues'[q] \cap queues'[r] = {}
           /\ \A m \in queues'[q] :
                \/ m \in queues[q]
                \/ m = n /\ at[n] = "estimating" /\ at'[n] = "raised"
  PROVE  TreeInv'
<1>1. TypeOK /\ Lineage /\ Ending
  BY DEF Inv, TreeInv
<1>2. ASSUME NEW m \in Nodes  PROVE Stage(m)
  BY DEF Inv, TreeInv
<1>3. ASSUME NEW m \in Nodes  PROVE Stage(m)'
  <2>1. CASE m # n \/ at'[n] = at[n]
    BY <1>2, <2>1 DEF Stage, Direct, Busy
  <2>2. CASE m = n /\ at[n] = "estimating" /\ at'[n] = "raised" /\ future'[n] = "pending"
    BY <1>2, <2>2 DEF Stage, Direct, Busy
  <2>3. QED  BY <2>1, <2>2
<1>4. (\A m \in Nodes : Family(m)') /\ Lineage'
  BY FamilyKept DEF Inv
<1>5. ASSUME NEW q \in Queues  PROVE Queued(q)'
  <2>1. Queued(q) /\ queues'[q] \subseteq Nodes
    BY DEF Inv, TreeInv, TypeOK
  <2>2. ASSUME NEW m \in queues'[q]
        PROVE  /\ ~Direct(m) /\ expansion'[m] = "none"
               /\ future'[m] # "none" /\ at'[m] \in {"waiting", "raised"}
               /\ worker' # "dead" => future'[m] = "pending"
    <3>1. m \in Nodes
      BY <2>1
    <3>2. CASE m = n /\ at[n] = "estimating" /\ at'[n] = "raised"
      BY <1>2, <3>1, <3>2 DEF Stage
    <3>3. CASE m \in queues[q] /\ (m # n \/ at'[n] = at[n])
      BY <2>1, <3>1, <3>3 DEF Queued
    <3>4. CASE m \in queues[q] /\ m = n /\ at[n] = "estimating"
      BY <2>1, <3>1, <3>4 DEF Queued
    <3>5. QED  BY <3>1, <3>2, <3>3, <3>4
  <2>3. QED  BY <2>2 DEF Queued, Direct
<1>6. Ending'
  <2>1. at[n] \notin {"absent", "done"} /\ at[Root] # "done"
    BY RootDone
  <2>2. at[Root] = "raised" => at'[Root] = "raised"
    BY RootIsNode
  <2>3. QED  BY <1>1, <2>1, <2>2 DEF Ending, Settled
<1>7. QED  BY <1>3, <1>4, <1>5, <1>6 DEF TreeInv

LEMMA ShortestIsQueue == TypeOK /\ (\A q \in Queues : Queued(q)) => Shortest \in Queues
<1> SUFFICES ASSUME TypeOK, \A q \in Queues : Queued(q)  PROVE Shortest \in Queues
  OBVIOUS
<1> DEFINE size == [q \in Queues |-> Cardinality(queues[q])]
           sizes == {size[q] : q \in Queues}
<1>1. \A q \in Queues : size[q] \in Nat
  BY FS_CardinalityType DEF Queued
<1>2. 1 \in Queues
  BY OnlineTreeAssumption DEF Queues
<1>3. PICK s \in sizes : \A t \in sizes : s <= t
  <2> HIDE DEF size
  <2>1. sizes \subseteq Nat /\ sizes # {}
    BY <1>1, <1>2
  <2>2. QED  BY <2>1, SmallestIn
<1> DEFINE candidates == {q \in Queues : size[q] = s}
<1>4. candidates \subseteq Nat /\ candidates # {}
  BY <1>3 DEF Queues
<1>5. PICK q \in candidates : \A r \in candidates : q <= r
  BY <1>4, SmallestIn
<1>6. q \in Queues /\ \A r \in Queues :
        size[q] < size[r] \/ (size[q] = size[r] /\ q <= r)
  <2> HIDE DEF size
  <2>1. q \in Queues /\ size[q] = s
    BY <1>5
  <2>2. ASSUME NEW r \in Queues  PROVE size[q] < size[r] \/ (size[q] = size[r] /\ q <= r)
    <3>1. s <= size[r] /\ size[r] \in Nat /\ size[q] \in Nat
      BY <1>1, <1>3, <2>1
    <3>2. size[r] = s => q <= r
      BY <1>5
    <3>3. QED  BY <2>1, <3>1, <3>2
  <2>3. QED  BY <2>1, <2>2
<1>7. QED  BY <1>6 DEF Shortest

LEMMA EnqueueStep ==
  ASSUME Inv, NEW n \in Nodes, Enqueue(n)
  PROVE  /\ Inv'
         /\ at[n] = "estimating" /\ at' = [at EXCEPT ![n] = at'[n]]
         /\ at'[n] \in {"waiting", "raised"} /\ UNCHANGED builder
<1> DEFINE qs == [queues EXCEPT ![Shortest] = @ \cup {n}]
<1>1. TypeOK /\ Stage(n) /\ QueuesAttended /\ \A q \in Queues : Queued(q)
  BY DEF Inv, TreeInv
<1>2. /\ at[n] = "estimating" /\ future' = [future EXCEPT ![n] = "pending"]
      /\ UNCHANGED <<kids, worker, builder>>
      /\ used' = used + IF Capped THEN PilotTokens ELSE 0
      /\ \/ /\ worker = "dead" /\ queues' = qs /\ UNCHANGED <<expansion, branches>>
            /\ at' = [at EXCEPT ![n] = "raised"]
         \/ /\ worker # "dead" /\ at' = [at EXCEPT ![n] = "waiting"]
            /\ \E due \in Due(qs) : Flush(qs, due)
         \/ /\ worker # "dead" /\ at' = [at EXCEPT ![n] = "raised"]
            /\ \E due \in Due(qs) : FlushRaises(qs, due)
  BY DEF Enqueue
<1>3. /\ \A m \in Nodes : m # n => at'[m] = at[m] /\ future'[m] = future[m]
      /\ future'[n] = "pending" /\ n \in DOMAIN at
      /\ at' \in [Nodes -> {"absent", "ready", "estimating", "waiting", "done", "raised"}]
      /\ future' \in [Nodes -> {"none", "pending", "result", "error"}]
  BY <1>1, <1>2 DEF TypeOK
<1>4. used' \in Nat
  BY <1>1, <1>2, OnlineTreeAssumption DEF TypeOK
<1>5. Shortest \in Queues /\ qs \in [Queues -> SUBSET Nodes]
  BY <1>1, ShortestIsQueue DEF TypeOK
<1>6. \A q \in Queues : qs[q] = IF q = Shortest THEN queues[q] \cup {n} ELSE queues[q]
  BY <1>1, <1>5 DEF TypeOK
<1>7. \A q \in Queues : n \notin queues[q]
  BY <1>2, EarlyFacts
<1> HIDE DEF qs
<1>8. ASSUME NEW q \in Queues
      PROVE  /\ IsFiniteSet(qs[q]) /\ queues[q] \subseteq qs[q]
             /\ \A m \in qs[q] : m \in queues[q] \/ (m = n /\ at[n] = "estimating")
             /\ \A r \in Queues : r # q => qs[q] \cap qs[r] = {}
  <2>1. Queued(q)
    BY <1>1
  <2>2. IsFiniteSet(qs[q])
    <3>1. IsFiniteSet(queues[q])
      BY <2>1 DEF Queued
    <3>2. IsFiniteSet(queues[q] \cup {n})
      BY <3>1, FS_AddElement
    <3>3. QED  BY <1>6, <3>1, <3>2
  <2>3. ASSUME NEW r \in Queues, r # q  PROVE qs[q] \cap qs[r] = {}
    BY <1>6, <1>7, <2>1, <2>3 DEF Queued
  <2>4. QED  BY <1>2, <1>6, <2>2, <2>3
<1>9. CASE /\ worker # "dead" /\ at' = [at EXCEPT ![n] = "waiting"]
           /\ \E due \in Due(qs) : Flush(qs, due)
  <2>1. PICK due \in Due(qs) : Flush(qs, due)
    BY <1>9
  <2>2. at'[n] = "waiting" /\ at' = [at EXCEPT ![n] = at'[n]]
    BY <1>3, <1>9
  <2>3. \E q \in Queues : n \in qs[q]
    BY <1>5, <1>6
  <2>4. Inv'
    BY <1>2, <1>3, <1>4, <1>5, <1>8, <1>9, <2>1, <2>2, <2>3, FlushStep
  <2>5. QED  BY <1>2, <2>2, <2>4
<1>10. CASE /\ at' = [at EXCEPT ![n] = "raised"] /\ UNCHANGED <<expansion, branches>>
            /\ queues' \in [Queues -> SUBSET Nodes]
            /\ \A q \in Queues : queues'[q] \in {{}, qs[q]}
  <2>1. at'[n] = "raised" /\ at' = [at EXCEPT ![n] = at'[n]]
    BY <1>3, <1>10
  <2>2. TypeOK'
    BY <1>1, <1>2, <1>3, <1>4, <1>10 DEF TypeOK
  <2>3. ASSUME NEW q \in Queues
        PROVE  /\ IsFiniteSet(queues'[q])
               /\ \A r \in Queues : r # q => queues'[q] \cap queues'[r] = {}
               /\ \A m \in queues'[q] :
                    \/ m \in queues[q]
                    \/ m = n /\ at[n] = "estimating" /\ at'[n] = "raised"
    BY <1>8, <1>10, <2>1, FS_EmptySet
  <2>4. TreeInv'
    BY <1>2, <1>3, <1>10, <2>1, <2>2, <2>3, FailedStep DEF Settled
  <2>5. Failed' # {}
    BY <2>1 DEF Failed
  <2>6. QED  BY <1>2, <2>1, <2>4, <2>5
             DEF Inv, QueuesAttended, WaitersAttended, FullQueuesFlushed
<1>11. CASE /\ worker = "dead" /\ queues' = qs /\ UNCHANGED <<expansion, branches>>
            /\ at' = [at EXCEPT ![n] = "raised"]
  BY <1>5, <1>10, <1>11
<1>12. CASE /\ worker # "dead" /\ at' = [at EXCEPT ![n] = "raised"]
            /\ \E due \in Due(qs) : FlushRaises(qs, due)
  <2>1. PICK due \in Due(qs) : FlushRaises(qs, due)
    BY <1>12
  <2>2. PICK f \in due : queues' = Emptied(qs, {q \in due : q <= f})
    BY <2>1 DEF FlushRaises
  <2>3. UNCHANGED <<expansion, branches>>
    BY <2>1 DEF FlushRaises
  <2>4. /\ queues' \in [Queues -> SUBSET Nodes]
        /\ \A q \in Queues : queues'[q] \in {{}, qs[q]}
    BY <1>5, <2>2 DEF Emptied
  <2>5. QED  BY <1>10, <1>12, <2>3, <2>4
<1>13. QED
  BY <1>2, <1>9, <1>11, <1>12 DEF qs

LEMMA DueFacts ==
  ASSUME Inv, NEW due \in Due(queues), NEW q \in due
  PROVE  q \in Queues /\ \E n \in queues[q] : n \in Nodes
BY DEF Due, Inv, TreeInv, TypeOK

LEMMA WorkerFlushesStep ==
  ASSUME Inv, NEW q \in Queues, WorkerFlushes(q)
  PROVE  Inv'
<1>1. TypeOK /\ \A r \in Queues : Queued(r)
  BY DEF Inv, TreeInv
<1>2. PICK due \in Due(queues) : q \in due /\ Flush(queues, due)
  BY DEF WorkerFlushes
<1>3. worker = "running" /\ UNCHANGED <<at, future, kids, used, worker, builder>>
  BY DEF WorkerFlushes
<1>4. PICK n \in queues[q] : n \in Nodes
  BY <1>2, DueFacts
<1>5. future[n] = "pending" /\ at[n] \in {"waiting", "raised"}
  BY <1>1, <1>3, <1>4 DEF Queued
<1>6. /\ queues \in [Queues -> SUBSET Nodes] /\ used' \in Nat
      /\ at' \in [Nodes -> {"absent", "ready", "estimating", "waiting", "done", "raised"}]
      /\ future' \in [Nodes -> {"none", "pending", "result", "error"}]
  BY <1>1, <1>3 DEF TypeOK
<1>7. ASSUME NEW r \in Queues
      PROVE  /\ IsFiniteSet(queues[r])
             /\ \A s \in Queues : s # r => queues[r] \cap queues[s] = {}
  BY <1>1 DEF Queued
<1>8. QED  BY <1>2, <1>3, <1>4, <1>5, <1>6, <1>7, FlushStep

LEMMA WorkerDiesStep ==
  ASSUME Inv, WorkerDies
  PROVE  Inv'
<1>1. TypeOK /\ QueuesAttended /\ \A q \in Queues : Queued(q)
  BY DEF Inv, TreeInv
<1>2. /\ worker = "running" /\ worker' = "dead" /\ UNCHANGED <<at, kids, used, builder>>
      /\ future' = [m \in Nodes |-> IF future[m] = "pending" THEN "error" ELSE future[m]]
  BY DEF WorkerDies
<1>3. PICK due \in Due(queues) : FlushRaises(queues, due)
  BY DEF WorkerDies
<1>4. PICK f \in due : queues' = Emptied(queues, {q \in due : q <= f})
  BY <1>3 DEF FlushRaises
<1>5. UNCHANGED <<expansion, branches>>
  BY <1>3 DEF FlushRaises
<1>6. PICK n \in queues[f] : n \in Nodes /\ f \in Queues
  BY <1>3, <1>4, DueFacts
<1>7. future[n] = "pending" /\ at[n] \in {"waiting", "raised"}
  BY <1>1, <1>2, <1>6 DEF Queued
<1>8. \A m \in Nodes : future'[m] = IF future[m] = "pending" THEN "error" ELSE future[m]
  BY <1>2
<1>9. \A q \in Queues : queues'[q] = {} \/ queues'[q] = queues[q]
  BY <1>4 DEF Emptied
<1>10. TypeOK'
  <2>1. future' \in [Nodes -> {"none", "pending", "result", "error"}]
    BY <1>1, <1>2 DEF TypeOK
  <2>2. queues' \in [Queues -> SUBSET Nodes]
    BY <1>1, <1>4 DEF TypeOK, Emptied
  <2>3. QED  BY <1>1, <1>2, <1>5, <2>1, <2>2 DEF TypeOK
<1>11. ASSUME NEW q \in Queues
       PROVE  /\ IsFiniteSet(queues'[q])
              /\ \A r \in Queues : r # q => queues'[q] \cap queues'[r] = {}
              /\ queues'[q] \subseteq queues[q]
              /\ Cardinality(queues'[q]) = 0 \/ queues'[q] = queues[q]
  BY <1>1, <1>9, FS_EmptySet DEF Queued
<1>12. Settled(n)'
  BY <1>2, <1>6, <1>7, <1>8 DEF Settled
<1>13. TreeInv'
  BY <1>2, <1>5, <1>6, <1>7, <1>8, <1>10, <1>11, <1>12, FailedStep
<1>14. QueuesAttended'
  <2>1. \A m \in Nodes : future'[m] # "pending"
    BY <1>8
  <2>2. ASSUME NEW q \in Queues  PROVE Cardinality(queues'[q]) < Capacity \/ Failed' # {}
    <3>1. Cardinality(queues[q]) < Capacity \/ Failed # {}
      BY <1>1 DEF QueuesAttended, FullQueuesFlushed
    <3>2. Failed' = Failed
      BY <1>2 DEF Failed
    <3>3. QED  BY <1>11, <3>1, <3>2, OnlineTreeAssumption
  <2>3. QED  BY <2>1, <2>2 DEF QueuesAttended, WaitersAttended, FullQueuesFlushed
<1>15. QED  BY <1>13, <1>14 DEF Inv

(* Only the worker or the builder moves. *)
LEMMA BuilderMoves ==
  ASSUME Inv, UNCHANGED <<nodeVars, queues, used>>, Ending',
         worker' \in {"running", "dead", "stopped"}, worker' = "dead" <=> worker = "dead",
         builder' \in {"building", "draining", "stopping", "failing", "returned", "raised"}
  PROVE  Inv'
<1>1. TypeOK'
  BY DEF Inv, TreeInv, TypeOK, nodeVars
<1>2. \A n \in Nodes : Stage(n)' /\ Family(n)'
  BY DEF Inv, TreeInv, nodeVars, Stage, Family, Direct
<1>3. Lineage' /\ \A q \in Queues : Queued(q)'
  BY DEF Inv, TreeInv, nodeVars, Lineage, Queued, Direct
<1>4. QueuesAttended'
  BY DEF Inv, nodeVars, QueuesAttended, WaitersAttended, FullQueuesFlushed, Expanding, Failed
<1>5. QED  BY <1>1, <1>2, <1>3, <1>4 DEF Inv, TreeInv

LEMMA DrainStep ==
  ASSUME Inv, Drain
  PROVE  /\ Inv' /\ UNCHANGED at
         /\ builder \in {"building", "draining"} /\ builder' \in {"draining", "stopping"}
<1>1. at[Root] = "done" /\ builder \in {"building", "draining"}
  BY DEF Drain, Inv, TreeInv, Ending
<1>2. /\ Left = {} /\ \A q \in Queues : queues[q] = {}
      /\ worker # "dead"
  BY <1>1, RootDone DEF Left
<1>3. ~FlushRaises(queues, Left)
  BY <1>2 DEF FlushRaises
<1>4. Flush(queues, Left) /\ builder' \in {"draining", "stopping"}
  BY <1>3 DEF Drain
<1>5. UNCHANGED <<at, future, kids, used, worker>>
  BY DEF Drain
<1>6. UNCHANGED <<expansion, branches, queues>>
  <2> DEFINE items == UNION {queues[q] : q \in Left}
  <2>1. items = {}
    BY <1>2
  <2>2. PICK k \in [items -> 1 .. MaxK] :
          branches' = [n \in Nodes |-> IF n \in items THEN k[n] ELSE branches[n]]
    BY <1>4 DEF Flush
  <2>3. expansion' = [n \in Nodes |-> IF n \in items THEN "scheduled" ELSE expansion[n]]
    BY <1>4 DEF Flush
  <2>4. queues' = [q \in Queues |-> IF q \in Left THEN {} ELSE queues[q]]
    BY <1>4 DEF Flush, Emptied
  <2> HIDE DEF items
  <2>5. QED  BY <1>2, <2>1, <2>2, <2>3, <2>4 DEF Inv, TreeInv, TypeOK
<1>7. Ending'
  BY <1>1, <1>2, <1>4, <1>5 DEF Ending
<1>8. Inv'
  BY <1>2, <1>4, <1>5, <1>6, <1>7, BuilderMoves DEF nodeVars, Inv, TreeInv, TypeOK
<1>9. QED  BY <1>1, <1>4, <1>5, <1>8

LEMMA OtherBuilderSteps ==
  ASSUME Inv, WorkerStops \/ RootRaised \/ Finish
  PROVE  Inv'
<1>1. TypeOK /\ Ending
  BY DEF Inv, TreeInv
<1>2. CASE WorkerStops
  <2>1. Ending'
    BY <1>1, <1>2 DEF WorkerStops, Ending, nodeVars
  <2>2. QED  BY <1>1, <1>2, <2>1, BuilderMoves DEF WorkerStops, TypeOK
<1>3. CASE RootRaised
  <2>1. Ending'
    BY <1>1, <1>3 DEF RootRaised, Ending, nodeVars
  <2>2. QED  BY <1>1, <1>3, <2>1, BuilderMoves DEF RootRaised, TypeOK
<1>4. CASE Finish
  <2>1. builder = "stopping" => /\ at[Root] = "done" /\ worker # "dead"
                                /\ \A n \in Nodes : future[n] # "pending"
    BY <1>1, RootDone DEF Ending
  <2>2. \/ builder = "failing" /\ builder' = "raised"
        \/ builder = "stopping" /\ builder' = "returned"
    BY <1>4, <2>1 DEF Finish
  <2>3. Ending'
    BY <1>1, <1>4, <2>1, <2>2 DEF Finish, Ending, nodeVars
  <2>4. QED  BY <1>1, <1>4, <2>2, <2>3, BuilderMoves DEF Finish, TypeOK
<1>5. QED  BY <1>2, <1>3, <1>4

LEMMA TreeStep == Inv /\ [Next]_vars => Inv'
<1> SUFFICES ASSUME Inv, [Next]_vars  PROVE Inv'
  OBVIOUS
<1>1. ASSUME NEW n \in Nodes, NodeStep(n)  PROVE Inv'
  BY <1>1, OtherNodeSteps, EnqueueStep, GeneratedStep, WakeStep DEF NodeStep
<1>2. ASSUME NEW q \in Queues, WorkerFlushes(q)  PROVE Inv'
  BY <1>2, WorkerFlushesStep
<1>3. CASE WorkerDies
  BY <1>3, WorkerDiesStep
<1>4. CASE BuilderStep
  BY <1>4, DrainStep, OtherBuilderSteps DEF BuilderStep
<1>5. CASE UNCHANGED vars
  <2>1. UNCHANGED <<nodeVars, queues, used>> /\ UNCHANGED <<worker, builder>>
    BY <1>5 DEF vars
  <2>2. Ending'
    BY <2>1 DEF Inv, TreeInv, Ending, nodeVars
  <2>3. QED  BY <2>1, <2>2, BuilderMoves DEF Inv, TreeInv, TypeOK
<1>6. QED  BY <1>1, <1>2, <1>3, <1>4, <1>5 DEF Next

LEMMA TreeInvariant == Spec => []Inv
<1>1. QED  BY InitTree, TreeStep, PTL DEF Spec

(* The variables stay in their ranges.  Every step of a coroutine, of the    *)
(* queue manager, of its worker and of the builder.                         *)
THEOREM OnlineTreeTypeCorrect == Spec => []TypeOK
BY TreeInvariant, PTL DEF Inv, TreeInv

(* No lost wakeup: as long as nothing failed, a node whose coroutine waits  *)
(* is queued or under expansion, and no queue is full between two steps, so *)
(* that a flush by capacity is never left to the timeout.                   *)
THEOREM OnlineTreeAttends == Spec => []QueuesAttended
BY TreeInvariant, PTL DEF Inv

LEMMA InvReturnsWhole == Inv => ReturnedWhole
<1> SUFFICES ASSUME Inv  PROVE ReturnedWhole
  OBVIOUS
<1>1. NothingLeft
  BY RootDoneSets DEF NothingLeft
<1>2. NoFallback
  BY RootDoneSets DEF NoFallback, Inv, TreeInv, Ending
<1>3. QED  BY <1>1, <1>2 DEF ReturnedWhole

(* When the root is built nothing of the tree is queued, pending or being   *)
(* expanded, so that the final drain finds nothing; and a tree is returned  *)
(* only if nothing in it failed, the worker included.                       *)
THEOREM OnlineTreeReturnsWhole == Spec => []ReturnedWhole
BY TreeInvariant, InvReturnsWhole, PTL

-----------------------------------------------------------------------------
(* No wait is for ever.  CanGoOn is the guards of the steps, without what   *)
(* may raise: as long as the builder has not answered its caller, one of    *)
(* them holds.  A queue that is not full needs the timeout.                 *)
CanGoOn ==
  \/ \E n \in Nodes :
       \/ at[n] \in {"ready", "estimating"}
       \/ expansion[n] \in {"scheduled", "generating"}
       \/ /\ expansion[n] = "gathering"
          /\ (\A c \in kids[n] : at[c] = "done") \/ (\E c \in kids[n] : at[c] = "raised")
       \/ at[n] = "waiting" /\ future[n] \in {"result", "error"}
  \/ worker = "running" /\ TimesOut /\ Left # {}
  \/ builder = "building" /\ at[Root] \in {"done", "raised"}
  \/ builder = "draining" /\ Expanding = {}
  \/ builder \in {"stopping", "failing"}

(* The worker is stopped by the builder, after the tree. *)
StoppedLast == worker = "stopped" => builder \notin {"building", "draining"}

LEMMA StoppedLastInvariant == Spec => []StoppedLast
<1>1. Init => StoppedLast
  BY DEF Init, StoppedLast
<1>2. ASSUME StoppedLast, [Next]_vars  PROVE StoppedLast'
  <2> USE DEF StoppedLast
  <2>1. CASE \E n \in Nodes : NodeStep(n)
    <3>1. UNCHANGED <<worker, builder>>
      BY <2>1 DEF NodeStep, EnterRaises, GradeAtCap, ExpandDirectly, Estimate, EstimateRaises,
                  Enqueue, StartExpansion, GenerationRaises, Generated, Joined, JoinRaises, Wake
    <3>2. QED  BY <1>2, <3>1
  <2>2. CASE \E q \in Queues : WorkerFlushes(q)
    BY <1>2, <2>2 DEF WorkerFlushes
  <2>3. CASE WorkerDies
    BY <1>2, <2>3 DEF WorkerDies
  <2>4. CASE Drain
    BY <1>2, <2>4 DEF Drain
  <2>5. CASE RootRaised \/ WorkerStops \/ Finish
    BY <1>2, <2>5 DEF RootRaised, WorkerStops, Finish
  <2>6. CASE UNCHANGED vars
    BY <1>2, <2>6 DEF vars
  <2>7. QED  BY <1>2, <2>1, <2>2, <2>3, <2>4, <2>5, <2>6 DEF Next, BuilderStep
<1>3. QED  BY <1>1, <1>2, PTL DEF Spec

(* The node above. *)
LEMMA ParentOf ==
  ASSUME NEW n \in Nodes, n # Root
  PROVE  \E p \in Nodes : n \in Offspring(p) /\ Len(n) = Len(p) + 1
<1>1. n \in Seq(1 .. MaxK) /\ Len(n) \in 0 .. MaxDepth - 1 /\ n # <<>>
  BY NodeIsPath DEF Root
<1>2. PICK p \in Seq(1 .. MaxK), i \in 1 .. MaxK : n = Append(p, i)
  BY <1>1, SequenceEmptyOrAppend
<1>3. Len(p) \in Nat /\ Len(n) = Len(p) + 1
  BY <1>2
<1>4. Len(p) \in 0 .. MaxDepth - 1
  BY <1>1, <1>3, OnlineTreeAssumption
<1>5. p \in Nodes
  BY <1>4, PathIsNode
<1>6. QED  BY <1>2, <1>3, <1>5 DEF Offspring

(* The highest and the lowest node of a set. *)
LEMMA Highest ==
  ASSUME NEW S, S \subseteq Nodes, S # {}
  PROVE  \E n \in S : \A m \in S : Len(n) <= Len(m)
<1> DEFINE T == {Len(n) : n \in S}
<1>0. \A n \in S : Len(n) \in Nat
  BY NodeIsPath
<1>1. T \subseteq Nat /\ T # {}
  BY <1>0
<1>2. PICK x \in T : \A y \in T : x <= y
  <2> HIDE DEF T
  <2> QED BY <1>1, SmallestIn
<1>3. QED  BY <1>2

LEMMA Lowest ==
  ASSUME NEW S, S \subseteq Nodes, S # {}
  PROVE  \E n \in S : \A m \in S : Len(m) <= Len(n)
<1> DEFINE T == {MaxDepth - Len(n) : n \in S}
<1>1. T \subseteq Nat /\ T # {} /\ \A n \in S : Len(n) \in Nat
  BY NodeIsPath, OnlineTreeAssumption
<1>2. PICK x \in T : \A y \in T : x <= y
  <2> HIDE DEF T
  <2> QED BY <1>1, SmallestIn
<1>3. PICK n \in S : x = MaxDepth - Len(n)
  BY <1>2
<1>4. ASSUME NEW m \in S  PROVE Len(m) <= Len(n)
  <2>1. x <= MaxDepth - Len(m)
    BY <1>2
  <2>2. QED  BY <1>1, <1>3, <2>1, OnlineTreeAssumption
<1>5. QED  BY <1>4

(* A failure travels up: the highest node that failed is the root, or its  *)
(* parent can go on.                                                       *)
LEMMA FailureRises ==
  ASSUME Inv, Failed # {}, at[Root] # "raised"
  PROVE  CanGoOn
<1>1. TypeOK /\ Lineage /\ \A n \in Nodes : Stage(n) /\ Family(n)
  BY DEF Inv, TreeInv
<1>2. PICK r \in Failed : \A m \in Failed : Len(r) <= Len(m)
  BY Highest DEF Failed
<1>3. r \in Nodes /\ at[r] = "raised" /\ r # Root
  BY <1>2 DEF Failed
<1>4. PICK p \in Nodes : r \in Offspring(p) /\ Len(r) = Len(p) + 1
  BY <1>3, ParentOf
<1>5. at[p] # "raised"
  BY <1>2, <1>4, NodeIsPath, OnlineTreeAssumption DEF Failed
<1>6. r \in kids[p] /\ expansion[p] \in {"gathering", "done", "raised"}
  BY <1>1, <1>3, <1>4 DEF Family
<1>7. CASE expansion[p] = "gathering"
  BY <1>3, <1>6, <1>7 DEF CanGoOn
<1>8. CASE expansion[p] = "done"
  BY <1>1, <1>3, <1>6, <1>8 DEF Family
<1>9. CASE expansion[p] = "raised"
  BY <1>1, <1>5, <1>9 DEF Stage, CanGoOn
<1>10. QED  BY <1>6, <1>7, <1>8, <1>9

(* While the root waits, the lowest node that waits is in a queue. *)
LEMMA WaitingRises ==
  ASSUME Inv, StoppedLast, TimesOut, builder = "building", at[Root] = "waiting", Failed = {}
  PROVE  CanGoOn
<1>1. TypeOK /\ WaitersAttended /\ Ending /\ \A n \in Nodes : Stage(n) /\ Family(n)
  BY DEF Inv, TreeInv, QueuesAttended
<1> DEFINE W == {n \in Nodes : at[n] = "waiting"}
<1>2. PICK n \in W : \A m \in W : Len(m) <= Len(n)
  <2>1. W \subseteq Nodes /\ W # {}
    BY RootIsNode
  <2> HIDE DEF W
  <2>2. QED  BY <2>1, Lowest
<1>3. n \in Nodes /\ at[n] = "waiting"
  BY <1>2
<1>4. CASE expansion[n] = "gathering"
  <2>1. CASE \A c \in kids[n] : at[c] = "done"
    BY <1>3, <1>4, <2>1 DEF CanGoOn
  <2>2. CASE \E c \in kids[n] : at[c] # "done"
    <3>1. PICK c \in kids[n] : at[c] # "done"
      BY <2>2
    <3>2. c \in Offspring(n) /\ at[c] # "absent"
      BY <1>1, <1>3, <3>1 DEF Family
    <3>3. c \in Nodes /\ Len(c) = Len(n) + 1
      BY <1>3, <3>2, ChildFacts
    <3>4. at[c] # "waiting"
      <4>1. Len(n) \in Nat
        BY <1>3, NodeIsPath, OnlineTreeAssumption
      <4>2. QED  BY <1>2, <3>3, <4>1
    <3>5. at[c] # "raised"
      BY <3>3 DEF Failed
    <3>6. at[c] \in {"ready", "estimating"}
      BY <1>1, <3>1, <3>2, <3>3, <3>4, <3>5 DEF TypeOK
    <3>7. QED  BY <3>3, <3>6 DEF CanGoOn
  <2>3. QED  BY <2>1, <2>2
<1>5. CASE future[n] \in {"result", "error"}
  BY <1>3, <1>5 DEF CanGoOn
<1>6. CASE expansion[n] \in {"scheduled", "generating"}
  BY <1>3, <1>6 DEF CanGoOn
<1>7. CASE /\ future[n] \in {"none", "pending"}
           /\ expansion[n] \notin {"scheduled", "generating", "gathering"}
  <2>1. future[n] = "pending"
    BY <1>1, <1>3, <1>7 DEF Stage
  <2>2. n \in UNION {queues[q] : q \in Queues}
    BY <1>1, <1>3, <1>7, <2>1 DEF WaitersAttended, Expanding
  <2>3. Left # {}
    BY <2>2 DEF Left
  <2>4. worker # "stopped"
    BY DEF StoppedLast
  <2>5. CASE worker = "running"
    BY <2>3, <2>5 DEF CanGoOn
  <2>6. CASE worker = "dead"
    BY <1>1, <2>6 DEF Ending, Failed, CanGoOn
  <2>7. QED  BY <1>1, <2>4, <2>5, <2>6 DEF TypeOK
<1>8. QED  BY <1>1, <1>3, <1>4, <1>5, <1>6, <1>7 DEF TypeOK

(* A build is never stuck: when queues time out, a coroutine, a flush or   *)
(* the builder can go on until the builder has returned or raised, whoever *)
(* has failed and whether or not the worker is alive.                      *)
THEOREM OnlineTreeNeverStuck ==
  ASSUME TimesOut
  PROVE  Spec => [](builder \notin {"returned", "raised"} => CanGoOn)
<1>1. ASSUME Inv, StoppedLast, builder \notin {"returned", "raised"}  PROVE CanGoOn
  <2>1. TypeOK /\ Ending /\ Lineage
    BY <1>1 DEF Inv, TreeInv
  <2>2. CASE builder \in {"stopping", "failing"}
    BY <2>2 DEF CanGoOn
  <2>3. CASE builder = "draining"
    <3>1. at[Root] = "done"
      BY <2>1, <2>3 DEF Ending
    <3>2. Expanding = {}
      BY <1>1, <3>1, InvReturnsWhole DEF ReturnedWhole, NothingLeft
    <3>3. QED  BY <2>3, <3>2 DEF CanGoOn
  <2>4. CASE builder = "building"
    <3>1. CASE at[Root] \in {"done", "raised"}
      BY <2>4, <3>1 DEF CanGoOn
    <3>2. CASE at[Root] \in {"ready", "estimating"}
      BY <3>2, RootIsNode DEF CanGoOn
    <3>3. CASE at[Root] = "waiting"
      BY <1>1, <2>4, <3>3, FailureRises, WaitingRises
    <3>4. QED  BY <2>1, <3>1, <3>2, <3>3, RootIsNode DEF TypeOK, Lineage
  <2>5. QED  BY <1>1, <2>1, <2>2, <2>3, <2>4 DEF TypeOK
<1>2. Inv /\ StoppedLast => (builder \notin {"returned", "raised"} => CanGoOn)
  BY <1>1
<1>3. QED  BY <1>2, TreeInvariant, StoppedLastInvariant, PTL

-----------------------------------------------------------------------------
(* The refinement of ForkJoin. *)
States == [n \in Nodes |-> ForkJoinState(n)]
Result == IF builder \in {"returned", "raised"} THEN builder ELSE "building"
Open == {"ready", "estimating", "waiting"}

LEMMA StateOf ==
  TypeOK => \A n \in Nodes :
    /\ at[n] \in Open => States[n] = "open"
    /\ at[n] = "absent" => States[n] = "absent"
    /\ at[n] = "done" => States[n] = "built"
    /\ at[n] = "raised" => States[n] = "failed"
BY DEF TypeOK, States, ForkJoinState, Open

LEMMA StateKept ==
  ASSUME NEW n \in Nodes, at'[n] = at[n] \/ (at[n] \in Open /\ at'[n] \in Open)
  PROVE  States'[n] = States[n]
BY DEF States, ForkJoinState, Open

LEMMA ContractInit == Init => Contract!Init
<1> SUFFICES ASSUME Init  PROVE Contract!Init
  OBVIOUS
<1>1. States = [n \in Nodes |-> IF n = <<>> THEN "open" ELSE "absent"]
  BY DEF Init, States, ForkJoinState, Root
<1>2. Result = "building"
  BY DEF Init, Result
<1>3. QED  BY <1>1, <1>2 DEF Contract!Init, States, Result

(* A node opens, is built or fails; no other node does in the same step. *)
LEMMA NodeMoves ==
  ASSUME Inv, NEW n \in Nodes, at[n] \in Open,
         NEW v \in {"estimating", "waiting", "done", "raised"},
         at' = [at EXCEPT ![n] = v], UNCHANGED builder,
         v = "done" => \A c \in kids[n] : at[c] = "done"
  PROVE  [Contract!Next]_<<States, Result>>
<1>1. /\ TypeOK /\ Family(n) /\ kids[n] \subseteq Nodes
      /\ at'[n] = v /\ \A m \in Nodes : m # n => at'[m] = at[m]
  BY DEF Inv, TreeInv, TypeOK
<1>2. States[n] = "open" /\ Result' = Result
  BY <1>1, StateOf DEF Result
<1>3. \A m \in Nodes : m # n => States'[m] = States[m]
  BY <1>1, StateKept
<1>4. States \in [Nodes -> {"absent", "open", "built", "failed"}] /\ DOMAIN States' = Nodes
  BY DEF States, ForkJoinState
<1>5. States' = [States EXCEPT ![n] = States'[n]]
  <2>1. \A m \in Nodes : States'[m] = [States EXCEPT ![n] = States'[n]][m]
    BY <1>3, <1>4
  <2>2. States' = [m \in Nodes |-> States'[m]]
    BY DEF States
  <2>3. QED  BY <1>4, <2>1, <2>2
<1>6. CASE v \in {"estimating", "waiting"}
  <2>1. States'[n] = States[n]
    BY <1>1, <1>6, StateKept DEF Open
  <2>2. States' = States
    BY <1>4, <1>5, <2>1
  <2>3. QED  BY <1>2, <2>2
<1>7. CASE v = "raised"
  <2>1. States'[n] = "failed"
    BY <1>1, <1>7 DEF States, ForkJoinState
  <2>2. Contract!Fail(n)
    BY <1>2, <1>5, <2>1 DEF Contract!Fail, States, Result
  <2>3. QED  BY <2>2 DEF Contract!Next
<1>8. CASE v = "done"
  <2>1. States'[n] = "built"
    BY <1>1, <1>8 DEF States, ForkJoinState
  <2>2. ASSUME NEW c \in Contract!Children(n)  PROVE States[c] = "built"
    <3>1. c \in Offspring(n) /\ States[c] # "absent"
      BY BelowIsOffspring DEF Contract!Children, States
    <3>2. c \in Nodes /\ at[c] # "absent"
      BY <1>1, <3>1, StateOf DEF Offspring
    <3>3. at[c] = "done"
      BY <1>1, <1>8, <3>1, <3>2 DEF Family
    <3>4. QED  BY <1>1, <3>2, <3>3, StateOf
  <2>3. Contract!Build(n)
    BY <1>2, <1>5, <2>1, <2>2 DEF Contract!Build, States, Result
  <2>4. QED  BY <2>3 DEF Contract!Next
<1>9. QED  BY <1>6, <1>7, <1>8

LEMMA AtKept ==
  ASSUME Inv, UNCHANGED at, Result' = Result
  PROVE  [Contract!Next]_<<States, Result>>
<1>1. States' = States
  BY DEF States, ForkJoinState
<1>2. QED  BY <1>1

LEMMA SettleMoves ==
  ASSUME Inv, NEW n \in Nodes, expansion[n] \in Busy, NEW ok \in BOOLEAN, Settle(n, ok),
         UNCHANGED builder, ok => \A c \in kids[n] : at[c] = "done"
  PROVE  [Contract!Next]_<<States, Result>>
<1>1. CASE Direct(n)
  <2>1. at[n] \in Open
    BY <1>1, BusyFacts DEF Open
  <2>2. at' = [at EXCEPT ![n] = IF ok THEN "done" ELSE "raised"]
    BY <1>1 DEF Settle
  <2>3. QED  BY <2>1, <2>2, NodeMoves
<1>2. CASE ~Direct(n)
  BY <1>2, AtKept DEF Settle, Result
<1>3. QED  BY <1>1, <1>2

LEMMA ExpandMoves ==
  ASSUME Inv, NEW n \in Nodes, NEW k, Expand(n, k), UNCHANGED builder,
         \/ expansion[n] = "scheduled"
         \/ Direct(n) /\ at[n] = "ready"
  PROVE  [Contract!Next]_<<States, Result>>
<1>1. Family(n) /\ kids[n] = {}
  BY EarlyFacts DEF Inv, TreeInv, Family
<1>2. CASE Affordable(k) = 0 /\ expansion[n] = "scheduled"
  BY <1>1, <1>2, SettleMoves DEF Expand, Busy
<1>3. CASE Affordable(k) = 0 /\ Direct(n) /\ at[n] = "ready"
  <2>1. at' = [at EXCEPT ![n] = "done"]
    BY <1>3 DEF Expand, Settle
  <2>2. QED  BY <1>1, <1>3, <2>1, NodeMoves DEF Open
<1>4. CASE Affordable(k) # 0 /\ Direct(n) /\ at[n] = "ready"
  <2>1. at' = [at EXCEPT ![n] = "waiting"]
    BY <1>4 DEF Expand
  <2>2. QED  BY <1>4, <2>1, NodeMoves DEF Open
<1>5. CASE Affordable(k) # 0 /\ expansion[n] = "scheduled"
  <2>1. ~Direct(n)
    BY <1>5 DEF Inv, TreeInv, Stage
  <2>2. QED  BY <1>5, <2>1, AtKept DEF Expand, Result
<1>6. QED  BY <1>2, <1>3, <1>4, <1>5

LEMMA GeneratedMoves ==
  ASSUME Inv, NEW n \in Nodes, Generated(n)
  PROVE  [Contract!Next]_<<States, Result>>
<1>1. expansion[n] \in Busy /\ UNCHANGED builder
  BY DEF Generated, Busy
<1>2. TypeOK /\ States \in [Nodes -> {"absent", "open", "built", "failed"}]
  BY DEF Inv, TreeInv, States, ForkJoinState
<1>3. CASE Settle(n, TRUE) /\ kids[n] = {}
  BY <1>1, <1>3, SettleMoves
<1>4. ASSUME NEW grow \in SUBSET Offspring(n),
             at' = [c \in Nodes |-> IF c \in grow THEN "ready" ELSE at[c]],
             \A c \in Offspring(n) : at[c] = "absent"
      PROVE  [Contract!Next]_<<States, Result>>
  <2>1. States' = [c \in Nodes |-> IF c \in grow THEN "open" ELSE States[c]]
    <3>1. \A c \in Nodes : States'[c] = IF c \in grow THEN "open" ELSE States[c]
      <4> SUFFICES ASSUME NEW c \in Nodes
                   PROVE  States'[c] = IF c \in grow THEN "open" ELSE States[c]
        OBVIOUS
      <4>1. at'[c] = IF c \in grow THEN "ready" ELSE at[c]
        BY <1>4
      <4>2. c \in grow => States'[c] = "open"
        BY <4>1 DEF States, ForkJoinState
      <4>3. c \notin grow => States'[c] = States[c]
        BY <4>1, StateKept
      <4>4. QED  BY <4>2, <4>3
    <3>2. States' = [c \in Nodes |-> States'[c]]
      BY DEF States
    <3>3. QED  BY <3>1, <3>2
  <2>2. States[n] \in {"open", "failed"}
    BY <1>1, <1>2, BusyFacts, StateOf DEF Open
  <2>3. Contract!Children(n) = {}
    <3>1. \A c \in Offspring(n) : States[c] = "absent"
      BY <1>2, <1>4, StateOf DEF Offspring
    <3>2. QED  BY <3>1, BelowIsOffspring DEF Contract!Children, States
  <2>4. Contract!Fork(n, grow) /\ grow \in SUBSET Contract!Below(n)
    BY <1>1, <2>1, <2>2, <2>3, BelowIsOffspring DEF Contract!Fork, States, Result
  <2>5. QED  BY <2>4 DEF Contract!Next
<1>5. QED  BY <1>3, <1>4, GeneratedStep

LEMMA FinishMoves ==
  ASSUME Inv, Finish
  PROVE  [Contract!Next]_<<States, Result>>
<1>1. TypeOK /\ Ending /\ UNCHANGED at
  BY DEF Inv, TreeInv, Finish, nodeVars
<1>2. States' = States /\ Root = <<>>
  BY <1>1 DEF States, ForkJoinState, Root
<1>3. Result = "building" /\ builder \in {"stopping", "failing"}
  BY DEF Finish, Result
<1>4. CASE builder = "stopping"
  <2>1. at[Root] = "done" /\ \A n \in Nodes : future[n] # "pending"
    BY <1>1, <1>4, RootDone DEF Ending
  <2>2. Result' = "returned" /\ States[<<>>] = "built"
    BY <1>1, <1>2, <1>4, <2>1, RootIsNode, StateOf DEF Finish, Result
  <2>3. Contract!Return
    BY <1>2, <1>3, <2>2 DEF Contract!Return, States, Result
  <2>4. QED  BY <2>3 DEF Contract!Next
<1>5. CASE builder = "failing"
  <2>1. at[Root] = "raised"
    BY <1>1, <1>5 DEF Ending
  <2>2. Result' = "raised" /\ States[<<>>] = "failed"
    BY <1>1, <1>2, <1>5, <2>1, RootIsNode, StateOf DEF Finish, Result
  <2>3. Contract!Raise
    BY <1>2, <1>3, <2>2 DEF Contract!Raise, States, Result
  <2>4. QED  BY <2>3 DEF Contract!Next
<1>6. QED  BY <1>3, <1>4, <1>5

LEMMA ContractStep == Inv /\ [Next]_vars => [Contract!Next]_<<States, Result>>
<1> SUFFICES ASSUME Inv, [Next]_vars  PROVE [Contract!Next]_<<States, Result>>
  OBVIOUS
<1>1. TypeOK /\ branches \in [Nodes -> 0 .. MaxK]
  BY DEF Inv, TreeInv, TypeOK
<1>2. ASSUME NEW n \in Nodes, NodeStep(n)  PROVE [Contract!Next]_<<States, Result>>
  <2>1. UNCHANGED builder
    BY <1>2 DEF NodeStep, EnterRaises, GradeAtCap, ExpandDirectly, Estimate, EstimateRaises,
         Enqueue, StartExpansion, GenerationRaises, Generated, Joined, JoinRaises, Wake
  <2>2. CASE EnterRaises(n) \/ Estimate(n) \/ EstimateRaises(n)
    BY <2>1, <2>2, NodeMoves DEF EnterRaises, Estimate, EstimateRaises, Open
  <2>3. CASE GradeAtCap(n)
    <3>1. kids[n] = {}
      BY <2>3, EarlyFacts DEF GradeAtCap
    <3>2. QED  BY <2>1, <2>3, <3>1, NodeMoves DEF GradeAtCap, Open
  <2>4. CASE ExpandDirectly(n)
    BY <2>1, <2>4, ExpandMoves DEF ExpandDirectly
  <2>5. CASE Enqueue(n)
    <3>1. at[n] \in Open
      BY <2>5, EnqueueStep DEF Open
    <3>2. at' = [at EXCEPT ![n] = at'[n]] /\ at'[n] \in {"waiting", "raised"}
      BY <2>5, EnqueueStep
    <3>3. QED  BY <2>1, <3>1, <3>2, NodeMoves
  <2>6. CASE StartExpansion(n)
    BY <2>1, <2>6, ExpandMoves DEF StartExpansion
  <2>7. CASE GenerationRaises(n)
    BY <2>1, <2>7, SettleMoves DEF GenerationRaises, Busy
  <2>8. CASE Generated(n)
    BY <2>8, GeneratedMoves
  <2>9. CASE Joined(n)
    BY <2>1, <2>9, SettleMoves DEF Joined, Busy
  <2>10. CASE JoinRaises(n)
    BY <2>1, <2>10, SettleMoves DEF JoinRaises, Busy
  <2>11. CASE Wake(n)
    <3>1. future[n] = "result" => \A c \in kids[n] : at[c] = "done"
      BY DEF Inv, TreeInv, Stage, Family
    <3>2. at[n] \in Open
      BY <2>11 DEF Wake, Open
    <3>3. CASE future[n] = "result"
      BY <2>1, <2>11, <3>1, <3>2, <3>3, NodeMoves DEF Wake
    <3>4. CASE future[n] # "result"
      BY <2>1, <2>11, <3>2, <3>4, NodeMoves DEF Wake
    <3>5. QED  BY <3>3, <3>4
  <2>12. QED
    BY <1>2, <2>2, <2>3, <2>4, <2>5, <2>6, <2>7, <2>8, <2>9, <2>10, <2>11 DEF NodeStep
<1>3. ASSUME NEW q \in Queues, WorkerFlushes(q)  PROVE [Contract!Next]_<<States, Result>>
  BY <1>3, AtKept DEF WorkerFlushes, Result
<1>4. CASE WorkerDies
  BY <1>4, AtKept DEF WorkerDies, Result
<1>5. CASE Drain
  BY <1>5, DrainStep, AtKept DEF Result
<1>6. CASE RootRaised \/ WorkerStops
  BY <1>6, AtKept DEF RootRaised, WorkerStops, nodeVars, Result
<1>7. CASE Finish
  BY <1>7, FinishMoves
<1>8. CASE UNCHANGED vars
  BY <1>8, AtKept DEF vars, nodeVars, Result
<1>9. QED  BY <1>2, <1>3, <1>4, <1>5, <1>6, <1>7, <1>8 DEF Next, BuilderStep

(* The builder implements a fork and a join: children appear together, a    *)
(* node is built after all of its children and never over one that failed,  *)
(* and the tree is returned exactly when its root was built.                *)
THEOREM OnlineTreeImplementsForkJoin == Spec => ImplementsForkJoin
<1>1. Init => Contract!Init
  BY ContractInit
<1>2. Inv /\ [Next]_vars => [Contract!Next]_<<States, Result>>
  BY ContractStep
<1>3. QED
  BY <1>1, <1>2, TreeInvariant, PTL DEF Spec, ImplementsForkJoin, Contract!Spec, States, Result

-------------------------------------------------------------------------------
(* The request names the actor that the dispatch loads into the server.     *)
Synchronised ==
  /\ pc \in {"fetched", "rolling"} => request.snapshot = actor
  /\ pc = "rolling" => awake /\ served = actor

(* A strict request carries a version, and strict gates agreed with it.     *)
Strictly ==
  config.strict =>
    /\ pc \in {"fetched", "rolling"} => request.version # None
    /\ ~manifest.lapsed
    /\ pc = "rolling" => \A r \in Rows : Building(r) =>
         gate[r].verified /\ gate[r].seen = request.version

(* One server with one software version, and no threads: every probe        *)
(* answers it or is lost, one row at a time is on a worker's event loop, and *)
(* what it has checked there stays so until it binds.                       *)
OneVersion ==
  config.endpoints = "same" /\ config.reports = "build" /\ ~config.busy =>
    /\ request.version \in {Build, None}
    /\ \A w \in Workers : scorer[w] \in {Build, None}
    /\ \A r \in Rows :
         /\ answer[r] \in {Build, None}
         /\ row[r] \notin {"deferred", "ensuring", "refused"}
         /\ row[r] \in OnLoop =>
              \A s \in Rows : s # r /\ WorkerOf[s] = WorkerOf[r] => row[s] \notin OnLoop
         /\ row[r] = "checked" => ~Unreported(r)
         /\ pc \in {"idle", "fetched", "collected"} => row[r] \in {"idle", "done"}

LEMMA FetchedTyped ==
  ASSUME NEW weights \in Nat, config \in Configs
  PROVE  Fetched(weights) \subseteq Versions
  <1>1. config.reports \in Reports
    BY DEF Configs
  <1>2. CASE config.reports = "weights"
    BY <1>2 DEF Fetched, Versions
  <1>3. CASE config.reports = "build"
    BY <1>3 DEF Fetched, Versions
  <1>4. CASE config.reports = "silent"
    BY <1>4 DEF Fetched, Versions
  <1>5. QED
    BY <1>1, <1>2, <1>3, <1>4 DEF Reports

LEMMA BuildFetched ==
  ASSUME NEW weights, config.reports = "build"
  PROVE  Fetched(weights) = {None, Build}
  BY DEF Fetched

LEMMA TypeInit == ASSUME HandshakeInit PROVE HandshakeTypeOK
  <1> USE HandshakeAssumption
  <1>1. request \in [snapshot : 0..actor, version : Versions]
    BY DEF HandshakeInit, Versions
  <1>2. gate \in [Rows -> [verified : BOOLEAN, seen : Versions]]
    BY DEF HandshakeInit, Versions, NoGate
  <1>3. scorer \in [Workers -> Versions]
    BY DEF HandshakeInit, Versions
  <1>4. QED
    BY <1>1, <1>2, <1>3 DEF HandshakeInit, HandshakeTypeOK, Configs, Versions

(* What a row does, seen from the trainer: nothing. *)
LEMMA RowKeepsTrainer ==
  ASSUME NEW r \in Rows, RowStep(r)
  PROVE  UNCHANGED <<config, served, external, awake, trainerVars>>
  BY DEF RowStep, Construct, Defer, EnsureEndpoint, BuildGate,
         CheckScorer, RepairScorer, Bind, FinishTree, RowRaises

LEMMA RowType ==
  ASSUME HandshakeTypeOK, NEW r \in Rows, RowStep(r)
  PROVE  /\ row' \in [Rows -> {"idle", "sent", "constructing", "deferred", "ensuring",
                               "ready", "repairing", "checked", "building", "done",
                               "refused", "raised"}]
         /\ answer' \in [Rows -> Versions]
         /\ scorer' \in [Workers -> Versions]
         /\ gate' \in [Rows -> [verified : BOOLEAN, seen : Versions]]
  <1>1. CASE Construct(r) \/ EnsureEndpoint(r)
    <2>1. PICK v \in Fetched(ScorerWeights) : answer' = [answer EXCEPT ![r] = v]
      BY <1>1 DEF Construct, EnsureEndpoint, Probe
    <2>2. ScorerWeights \in Nat
      BY HandshakeAssumption DEF HandshakeTypeOK, ScorerWeights
    <2>3. v \in Versions
      BY <2>2, FetchedTyped DEF HandshakeTypeOK
    <2>4. QED
      BY <1>1, <2>1, <2>3 DEF HandshakeTypeOK, Construct, EnsureEndpoint
  <1>2. CASE Defer(r) \/ FinishTree(r) \/ CheckScorer(r)
    BY <1>2 DEF HandshakeTypeOK, Defer, FinishTree, CheckScorer
  <1>3. CASE BuildGate(r)
    BY <1>3 DEF HandshakeTypeOK, BuildGate, Versions
  <1>4. CASE RepairScorer(r)
    BY <1>4 DEF HandshakeTypeOK, RepairScorer
  <1>5. CASE RowRaises(r)
    BY <1>5 DEF HandshakeTypeOK, RowRaises, Versions
  <1>6. CASE Bind(r)
    <2>1. Reported(r) \in Versions
      BY HandshakeAssumption DEF Reported, HandshakeTypeOK
    <2>2. CASE Refused(r)
      BY <1>6, <2>2 DEF HandshakeTypeOK, Bind
    <2>3. CASE ~Refused(r)
      <3>1. config.strict \in BOOLEAN
        BY HandshakeAssumption DEF HandshakeTypeOK, Configs
      <3>2. Verified(r) \in BOOLEAN
        BY <3>1 DEF Verified
      <3>3. [verified |-> Verified(r), seen |-> Reported(r)] \in [verified : BOOLEAN, seen : Versions]
        BY <2>1, <3>2
      <3>4. gate' = [gate EXCEPT ![r] = [verified |-> Verified(r), seen |-> Reported(r)]]
        BY <1>6, <2>3 DEF Bind
      <3>5. gate' \in [Rows -> [verified : BOOLEAN, seen : Versions]]
        BY <3>3, <3>4 DEF HandshakeTypeOK
      <3>6. QED
        BY <1>6, <2>3, <3>5 DEF HandshakeTypeOK, Bind
    <2>4. QED
      BY <2>2, <2>3
  <1>7. QED
    BY <1>1, <1>2, <1>3, <1>4, <1>5, <1>6 DEF RowStep

LEMMA TypeStep == ASSUME HandshakeTypeOK, [HandshakeNext]_handshakeVars PROVE HandshakeTypeOK'
  <1> USE HandshakeAssumption
  <1>1. ASSUME NEW r \in Rows, RowStep(r) PROVE HandshakeTypeOK'
    <2>1. UNCHANGED <<config, served, external, awake, actor, pc, request, work, manifest>>
      BY <1>1, RowKeepsTrainer DEF trainerVars
    <2>2. QED
      BY <1>1, <2>1, RowType DEF HandshakeTypeOK
  <1>2. CASE FetchVersion
    <2>1. PICK v \in Fetched(FetchTarget) :
            \/ (config.strict => v # None) /\ Answered(v)
            \/ config.strict /\ v = None
               /\ pc' = "failed" /\ UNCHANGED <<request, manifest, work>>
      BY <1>2 DEF FetchVersion
    <2>2. FetchTarget \in Nat
      BY DEF HandshakeTypeOK, FetchTarget
    <2>3. v \in Versions
      BY <2>2, FetchedTyped DEF HandshakeTypeOK
    <2>4. UNCHANGED <<config, actor, served, external, awake, row, answer, scorer, gate>>
      BY <1>2 DEF FetchVersion, workerVars
    <2>5. CASE pc' = "failed" /\ UNCHANGED <<request, manifest, work>>
      BY <2>4, <2>5 DEF HandshakeTypeOK
    <2>6. CASE Answered(v)
      <3>1. request' \in [snapshot : 0..actor, version : Versions]
        BY <2>3, <2>6 DEF HandshakeTypeOK, Answered
      <3>2. manifest' \in [verified : BOOLEAN, lapsed : BOOLEAN]
        <4>1. (v # None) \in BOOLEAN /\ (manifest.lapsed \/ v = None) \in BOOLEAN
          OBVIOUS
        <4>2. manifest' = [verified |-> v # None, lapsed |-> manifest.lapsed \/ v = None]
          BY <2>6 DEF Answered
        <4> DEFINE fetched == v # None
                   without == manifest.lapsed \/ v = None
        <4>3. manifest' = [verified |-> fetched, lapsed |-> without]
          BY <4>2
        <4>4. fetched \in BOOLEAN /\ without \in BOOLEAN
          BY <4>1
        <4> HIDE DEF fetched, without
        <4>5. QED
          BY <4>3, <4>4
      <3>3. work' \in 0..MaxGenerations
        BY <1>2, <2>6 DEF HandshakeTypeOK, FetchVersion, Answered
      <3>4. QED
        BY <2>4, <2>6, <3>1, <3>2, <3>3 DEF HandshakeTypeOK, Answered
    <2>7. QED
      BY <2>1, <2>5, <2>6
  <1>3. CASE Dispatch
    <2>1. gate' \in [Rows -> [verified : BOOLEAN, seen : Versions]]
      BY <1>3 DEF Dispatch, NoGate, Versions
    <2>2. served' \in 0..actor
      BY <1>3 DEF Dispatch, Synced, HandshakeTypeOK
    <2>3. QED
      BY <1>3, <2>1, <2>2 DEF HandshakeTypeOK, Dispatch
  <1>4. CASE AttachFails \/ GenerationFails \/ Postpone
    BY <1>4 DEF HandshakeTypeOK, AttachFails, GenerationFails, Postpone, workerVars
  <1>5. CASE Collect
    BY <1>5 DEF HandshakeTypeOK, Collect, workerVars
  <1>6. CASE UpdateActor
    <2>1. actor' \in 0..MaxUpdates /\ 0..actor \subseteq 0..actor'
      BY <1>6 DEF HandshakeTypeOK, UpdateActor
    <2>2. request' \in [snapshot : 0..actor', version : Versions]
      BY <1>6, <2>1 DEF HandshakeTypeOK, UpdateActor
    <2>3. QED
      BY <1>6, <2>1, <2>2 DEF HandshakeTypeOK, UpdateActor, workerVars
  <1>7. CASE ReloadScorer
    BY <1>7 DEF HandshakeTypeOK, ReloadScorer, workerVars, trainerVars
  <1>8. CASE UNCHANGED handshakeVars
    BY <1>8 DEF HandshakeTypeOK, handshakeVars
  <1>9. QED
    BY <1>1, <1>2, <1>3, <1>4, <1>5, <1>6, <1>7, <1>8 DEF HandshakeNext, Trainer

(* Every field of the state keeps its type, whatever the servers answer.    *)
THEOREM HandshakeTypeCorrect == HandshakeSpec => []HandshakeTypeOK
  <1>1. HandshakeInit => HandshakeTypeOK
    BY TypeInit
  <1>2. HandshakeTypeOK /\ [HandshakeNext]_handshakeVars => HandshakeTypeOK'
    BY TypeStep
  <1>3. QED
    BY <1>1, <1>2, PTL DEF HandshakeSpec
-----------------------------------------------------------------------------
LEMMA SynchronisedStep ==
  ASSUME FreeCacheEngine, HandshakeTypeOK, Synchronised, [HandshakeNext]_handshakeVars
  PROVE  Synchronised'
  <1>1. ASSUME NEW r \in Rows, RowStep(r) PROVE Synchronised'
    BY <1>1, RowKeepsTrainer DEF Synchronised, trainerVars
  <1>2. CASE FetchVersion
    <2>1. PICK v \in Fetched(FetchTarget) :
            \/ (config.strict => v # None) /\ Answered(v)
            \/ config.strict /\ v = None
               /\ pc' = "failed" /\ UNCHANGED <<request, manifest, work>>
      BY <1>2 DEF FetchVersion
    <2>2. CASE Answered(v)
      <3>1. pc' = "fetched" /\ request'.snapshot = actor /\ actor' = actor
        BY <1>2, <2>2 DEF Answered, FetchVersion
      <3>2. QED
        BY <3>1 DEF Synchronised
    <2>3. CASE pc' = "failed" /\ UNCHANGED <<request, manifest, work>>
      BY <2>3 DEF Synchronised
    <2>4. QED
      BY <2>1, <2>2, <2>3
  <1>3. CASE Dispatch
    BY <1>3 DEF Synchronised, Dispatch, Synced
  <1>4. CASE AttachFails \/ GenerationFails \/ Postpone \/ Collect \/ UpdateActor
    BY <1>4 DEF Synchronised, AttachFails, GenerationFails, Postpone, Collect, UpdateActor
  <1>5. CASE ReloadScorer
    BY <1>5 DEF Synchronised, ReloadScorer, trainerVars
  <1>6. CASE UNCHANGED handshakeVars
    BY <1>6 DEF Synchronised, handshakeVars
  <1>7. QED
    BY <1>1, <1>2, <1>3, <1>4, <1>5, <1>6 DEF HandshakeNext, Trainer

(* As long as the replicas are woken for every generation, no tree samples   *)
(* from other weights than those its edges are labelled with.                *)
THEOREM SnapshotsHonest == ASSUME FreeCacheEngine PROVE HandshakeSpec => []SnapshotHonest
  <1>1. HandshakeInit => Synchronised
    BY DEF HandshakeInit, Synchronised
  <1>2. HandshakeTypeOK /\ Synchronised /\ [HandshakeNext]_handshakeVars => Synchronised'
    BY SynchronisedStep
  <1>3. Synchronised => SnapshotHonest
    BY DEF Synchronised, SnapshotHonest
  <1>4. QED
    BY <1>1, <1>2, <1>3, HandshakeTypeCorrect, PTL DEF HandshakeSpec
-----------------------------------------------------------------------------
LEMMA StrictlyRow ==
  ASSUME HandshakeTypeOK, Strictly, NEW r \in Rows, RowStep(r)
  PROVE  Strictly'
  <1>1. UNCHANGED <<config, actor, pc, request, work, manifest>>
    BY RowKeepsTrainer DEF trainerVars
  <1>2. SUFFICES ASSUME config.strict, pc = "rolling", NEW q \in Rows, Building(q)'
                 PROVE  gate'[q].verified /\ gate'[q].seen = request.version
    BY <1>1 DEF Strictly
  <1>3. request.version # None
    BY <1>2 DEF Strictly
  <1>4. CASE Building(q) /\ gate'[q] = gate[q]
    BY <1>2, <1>4 DEF Strictly
  <1>5. CASE ~(Building(q) /\ gate'[q] = gate[q])
    <2>1. Bind(r) /\ q = r /\ ~Refused(r)
      <3>1. CASE Construct(r) \/ Defer(r) \/ EnsureEndpoint(r) \/ BuildGate(r)
                   \/ CheckScorer(r) \/ RepairScorer(r) \/ RowRaises(r) \/ FinishTree(r)
        BY <1>2, <1>5, <3>1 DEF HandshakeTypeOK, Building, Construct, Defer, EnsureEndpoint,
           BuildGate, CheckScorer, RepairScorer, RowRaises, FinishTree
      <3>2. CASE Bind(r)
        BY <1>2, <1>5, <3>2 DEF HandshakeTypeOK, Building, Bind
      <3>3. QED
        BY <3>1, <3>2 DEF RowStep
    <2>2. gate'[q] = [verified |-> Verified(r), seen |-> Reported(r)]
      BY <2>1 DEF Bind, HandshakeTypeOK
    <2>3. Reported(r) = request.version
      BY <1>2, <1>3, <2>1 DEF Refused
    <2>4. Verified(r)
      BY <1>3, <2>3 DEF Verified
    <2>5. QED
      BY <2>2, <2>3, <2>4
  <1>6. QED
    BY <1>4, <1>5

LEMMA StrictlyStep ==
  ASSUME HandshakeTypeOK, Strictly, [HandshakeNext]_handshakeVars
  PROVE  Strictly'
  <1>1. ASSUME NEW r \in Rows, RowStep(r) PROVE Strictly'
    BY <1>1, StrictlyRow
  <1>2. CASE FetchVersion
    <2>1. PICK v \in Fetched(FetchTarget) :
            \/ (config.strict => v # None) /\ Answered(v)
            \/ config.strict /\ v = None
               /\ pc' = "failed" /\ UNCHANGED <<request, manifest, work>>
      BY <1>2 DEF FetchVersion
    <2>2. config' = config
      BY <1>2 DEF FetchVersion
    <2>3. pc' = "failed" \/ pc' = "fetched"
      BY <2>1 DEF Answered
    <2>4. ASSUME config.strict
          PROVE  (pc' = "fetched" => request'.version # None) /\ ~manifest'.lapsed
      <3>1. ~manifest.lapsed
        BY <2>4 DEF Strictly
      <3>2. CASE pc' = "failed" /\ UNCHANGED <<request, manifest, work>>
        BY <3>1, <3>2
      <3>3. CASE v # None /\ Answered(v)
        <4>1. manifest'.lapsed = (manifest.lapsed \/ v = None)
          BY <3>3 DEF Answered
        <4>2. QED
          BY <3>1, <3>3, <4>1 DEF Answered
      <3>4. QED
        BY <2>1, <2>4, <3>2, <3>3
    <2>5. QED
      BY <2>2, <2>3, <2>4 DEF Strictly
  <1>3. CASE Dispatch
    <2>1. \A q \in Rows : row'[q] = "sent"
      BY <1>3 DEF Dispatch
    <2>2. QED
      BY <1>3, <2>1 DEF Strictly, Dispatch, Building
  <1>4. CASE AttachFails \/ GenerationFails \/ Postpone \/ Collect \/ UpdateActor
    BY <1>4 DEF Strictly, AttachFails, GenerationFails, Postpone, Collect, UpdateActor
  <1>5. CASE ReloadScorer
    BY <1>5 DEF Strictly, ReloadScorer, trainerVars, workerVars, Building
  <1>6. CASE UNCHANGED handshakeVars
    BY <1>6 DEF Strictly, handshakeVars, Building
  <1>7. QED
    BY <1>1, <1>2, <1>3, <1>4, <1>5, <1>6 DEF HandshakeNext, Trainer

(* No interleaving of the rows on the scorer they share lets a strict gate   *)
(* through without two reported fingerprints that agree.                     *)
THEOREM StrictRunsVerified == HandshakeSpec => []StrictMeansVerified
  <1>1. HandshakeInit => Strictly
    BY DEF HandshakeInit, Strictly
  <1>2. HandshakeTypeOK /\ Strictly /\ [HandshakeNext]_handshakeVars => Strictly'
    BY StrictlyStep
  <1>3. Strictly => StrictMeansVerified
    BY DEF Strictly, StrictMeansVerified
  <1>4. QED
    BY <1>1, <1>2, <1>3, HandshakeTypeCorrect, PTL DEF HandshakeSpec
-----------------------------------------------------------------------------
LEMMA OneVersionRow ==
  ASSUME HandshakeTypeOK, OneVersion, NEW r \in Rows, RowStep(r)
  PROVE  OneVersion'
  <1>1. UNCHANGED <<config, actor, pc, request, work, manifest>>
    BY RowKeepsTrainer DEF trainerVars
  <1>2. SUFFICES ASSUME config.endpoints = "same", config.reports = "build", ~config.busy,
                        NEW q \in Rows
                 PROVE  /\ \A w \in Workers : scorer'[w] \in {Build, None}
                        /\ answer'[q] \in {Build, None}
                        /\ row'[q] \notin {"deferred", "ensuring", "refused"}
                        /\ row'[q] \in OnLoop =>
                             \A s \in Rows : s # q /\ WorkerOf[s] = WorkerOf[q] => row'[s] \notin OnLoop
                        /\ row'[q] = "checked" => ~Unreported(q)'
                        /\ pc \in {"idle", "fetched", "collected"} => row'[q] \in {"idle", "done"}
    BY <1>1 DEF OneVersion
  <1>3. /\ request.version \in {Build, None}
        /\ \A w \in Workers : scorer[w] \in {Build, None}
        /\ \A s \in Rows : answer[s] \in {Build, None}
        /\ \A s \in Rows : row[s] \notin {"deferred", "ensuring", "refused"}
        /\ \A s, t \in Rows : row[s] \in OnLoop /\ t # s /\ WorkerOf[t] = WorkerOf[s] => row[t] \notin OnLoop
        /\ \A s \in Rows : row[s] = "checked" => request.version = None \/ scorer[WorkerOf[s]] # None
        /\ \A s \in Rows : pc \in {"idle", "fetched", "collected"} => row[s] \in {"idle", "done"}
    BY <1>2 DEF OneVersion, Unreported, Reported
  <1>4. /\ DOMAIN row = Rows /\ DOMAIN answer = Rows /\ DOMAIN scorer = Workers
        /\ \A s \in Rows : WorkerOf[s] \in Workers
    BY HandshakeAssumption DEF HandshakeTypeOK
  <1>5. row[r] \notin {"idle", "done"} /\ pc \notin {"idle", "fetched", "collected"}
    BY <1>3 DEF RowStep, Construct, Defer, EnsureEndpoint, BuildGate, CheckScorer,
                RepairScorer, Bind, FinishTree, RowRaises
  <1>6. Unreported(q)' <=> request.version # None /\ scorer'[WorkerOf[q]] = None
    BY <1>1, <1>2 DEF Unreported, Reported
  <1>7. CASE Construct(r)
    <2>1. PICK v \in {None, Build} : answer' = [answer EXCEPT ![r] = v]
      BY <1>2, <1>7, BuildFetched DEF Construct, Probe
    <2>2. /\ row' = [row EXCEPT ![r] = "constructing"] /\ UNCHANGED scorer
          /\ \A s \in Rows : WorkerOf[s] = WorkerOf[r] => row[s] \notin OnLoop
      BY <1>7 DEF Construct, LoopFree
    <2>3. QED
      BY <1>3, <1>4, <1>5, <1>6, <2>1, <2>2
  <1>8. CASE Defer(r) \/ EnsureEndpoint(r)
    BY <1>2, <1>3, <1>8 DEF Defer, EnsureEndpoint
  <1>9. CASE BuildGate(r)
    <2>1. /\ row[r] = "constructing" /\ row' = [row EXCEPT ![r] = "ready"]
          /\ scorer' = [scorer EXCEPT ![WorkerOf[r]] = answer[r]]
          /\ answer' = [answer EXCEPT ![r] = None]
      BY <1>3, <1>9 DEF BuildGate
    <2>2. row[r] \in OnLoop /\ "ready" \notin OnLoop /\ "checked" \in OnLoop
      BY <2>1 DEF OnLoop
    <2>3. row'[q] = "checked" => WorkerOf[q] # WorkerOf[r]
      BY <1>3, <1>4, <2>1, <2>2
    <2>4. QED
      BY <1>3, <1>4, <1>5, <1>6, <2>1, <2>2, <2>3
  <1>10. CASE CheckScorer(r)
    <2>1. /\ row' = [row EXCEPT ![r] = IF Unreported(r) THEN "repairing" ELSE "checked"]
          /\ UNCHANGED <<scorer, answer>>
          /\ \A s \in Rows : WorkerOf[s] = WorkerOf[r] => row[s] \notin OnLoop
      BY <1>10 DEF CheckScorer, LoopFree
    <2>2. Unreported(r) <=> request.version # None /\ scorer[WorkerOf[r]] = None
      BY <1>2 DEF Unreported, Reported
    <2>3. CASE Unreported(r)
      BY <1>3, <1>4, <1>5, <1>6, <2>1, <2>2, <2>3
    <2>4. CASE ~Unreported(r)
      BY <1>3, <1>4, <1>5, <1>6, <2>1, <2>2, <2>4
    <2>5. QED
      BY <2>3, <2>4
  <1>11. CASE RepairScorer(r)
    <2>1. /\ row[r] = "repairing" /\ row' = [row EXCEPT ![r] = "checked"]
          /\ scorer' = [scorer EXCEPT ![WorkerOf[r]] = request.version]
          /\ UNCHANGED answer
      BY <1>11 DEF RepairScorer
    <2>2. row[r] \in OnLoop
      BY <2>1 DEF OnLoop
    <2>3. \A s \in Rows : s # r /\ WorkerOf[s] = WorkerOf[r] => row[s] \notin OnLoop
      BY <1>3, <2>2
    <2>4. "checked" \in OnLoop
      BY DEF OnLoop
    <2>5. QED
      BY <1>3, <1>4, <1>5, <1>6, <2>1, <2>3, <2>4
  <1>12. CASE Bind(r)
    <2>1. ~Refused(r)
      BY <1>3, <1>4, <1>12 DEF Bind, Refused, Reported
    <2>2. row' = [row EXCEPT ![r] = "building"] /\ UNCHANGED <<scorer, answer>>
      BY <1>12, <2>1 DEF Bind
    <2>3. "building" \notin OnLoop
      BY DEF OnLoop
    <2>4. QED
      BY <1>3, <1>4, <1>5, <1>6, <2>2, <2>3
  <1>13. CASE FinishTree(r) \/ RowRaises(r)
    <2>1. PICK to \in {"done", "raised"} : row' = [row EXCEPT ![r] = to]
      BY <1>13 DEF FinishTree, RowRaises
    <2>2. UNCHANGED scorer /\ answer' \in {answer, [answer EXCEPT ![r] = None]}
      BY <1>13 DEF FinishTree, RowRaises
    <2>3. to \notin OnLoop /\ to \notin {"checked", "deferred", "ensuring", "refused"}
      BY DEF OnLoop
    <2>4. QED
      BY <1>3, <1>4, <1>5, <1>6, <2>1, <2>2, <2>3
  <1>14. QED
    BY <1>7, <1>8, <1>9, <1>10, <1>11, <1>12, <1>13 DEF RowStep

LEMMA OneVersionStep ==
  ASSUME HandshakeTypeOK, OneVersion, [HandshakeNext]_handshakeVars
  PROVE  OneVersion'
  <1>1. ASSUME NEW r \in Rows, RowStep(r) PROVE OneVersion'
    BY <1>1, OneVersionRow
  <1>2. CASE FetchVersion
    <2>1. pc = "idle" /\ UNCHANGED <<config, row, answer, scorer>>
      BY <1>2 DEF FetchVersion, workerVars
    <2>2. ASSUME config.reports = "build"
          PROVE  request'.version = request.version \/ request'.version \in {Build, None}
      <3>1. PICK v \in {None, Build} :
              \/ Answered(v)
              \/ UNCHANGED <<request, manifest, work>>
        BY <1>2, <2>2, BuildFetched DEF FetchVersion
      <3>2. CASE Answered(v)
        BY <3>2 DEF Answered
      <3>3. QED
        BY <3>1, <3>2
    <2>3. QED
      BY <2>1, <2>2 DEF OneVersion
  <1>3. CASE Dispatch
    <2>1. "sent" \notin OnLoop
      BY DEF OnLoop
    <2>2. QED
      BY <1>3, <2>1 DEF OneVersion, Dispatch
  <1>4. CASE AttachFails \/ GenerationFails \/ Postpone \/ UpdateActor
    BY <1>4 DEF OneVersion, AttachFails, GenerationFails, Postpone, UpdateActor, workerVars,
                Unreported, Reported
  <1>5. CASE Collect
    BY <1>5 DEF OneVersion, Collect, workerVars, Unreported, Reported
  <1>6. CASE ReloadScorer
    BY <1>6 DEF OneVersion, ReloadScorer, trainerVars, workerVars, Unreported, Reported
  <1>7. CASE UNCHANGED handshakeVars
    BY <1>7 DEF OneVersion, handshakeVars, Unreported, Reported
  <1>8. QED
    BY <1>1, <1>2, <1>3, <1>4, <1>5, <1>6, <1>7 DEF HandshakeNext, Trainer

(* Without deferred rows a probe that one of any number of workers loses is  *)
(* made good by the trainer's fingerprint: no other row comes between the    *)
(* repair of a scorer and its binding, however many share it.                *)
THEOREM LostProbesAlwaysForgiven == HandshakeSpec => []LostProbesForgiven
  <1>1. HandshakeInit => OneVersion
    <2>1. "idle" \notin OnLoop
      BY DEF OnLoop
    <2>2. QED
      BY <2>1 DEF HandshakeInit, OneVersion
  <1>2. HandshakeTypeOK /\ OneVersion /\ [HandshakeNext]_handshakeVars => OneVersion'
    BY OneVersionStep
  <1>3. OneVersion => LostProbesForgiven
    BY DEF OneVersion, LostProbesForgiven
  <1>4. QED
    BY <1>1, <1>2, <1>3, HandshakeTypeCorrect, PTL DEF HandshakeSpec
===============================================================================
