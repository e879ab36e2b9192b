----------------------------- MODULE ReplayBuffer -----------------------------
(***************************************************************************)
(* GearTreeReplayBuffer (verl/recipe/gear_tree/replay_buffer.py): the      *)
(* trainer-owned buffer of training edges with reserve / commit /          *)
(* rollback.  A record is reduced to its id, question, tree, parent group  *)
(* and generation iteration; payload validation is the caller choosing a   *)
(* valid batch.  A call that raises before it changes anything (duplicate  *)
(* ids, a stale handle) is a disabled action.                              *)
(***************************************************************************)
EXTENDS Integers, FiniteSets, Functions

CONSTANTS
  Edge, Question, Tree, Parent,  \* ids
  QuestionOf, TreeOf, ParentOf,  \* the fields of an edge that sampling reads
  Batches,          \* the edge sets a rollout iteration may hand to add()
  Units,            \* the replay_sampling_units callers use
  Target,           \* target_edges_per_iteration
  Cap,              \* max_edges_per_question_per_iteration, resolved
  MaxAge,           \* max_edge_age_iterations
  MaxIteration,     \* bound on rollout iterations
  MaxReservations,  \* bound on reservations
  MaxAdded          \* bound on edges ever added

ASSUME EdgeAssumption ==
  /\ IsFiniteSet(Edge)
  /\ QuestionOf \in [Edge -> Question]
  /\ TreeOf \in [Edge -> Tree]
  /\ ParentOf \in [Edge -> Parent]
  /\ Batches \subseteq SUBSET Edge

ASSUME LimitAssumption ==
  /\ Units \subseteq {"edge", "complete_tree"}
  /\ Target \in Nat \ {0} /\ Cap \in Nat \ {0} /\ MaxAge \in Nat \ {0}
  /\ MaxIteration \in Nat /\ MaxReservations \in Nat /\ MaxAdded \in Nat

VARIABLES
  edges,       \* _edges: the generation iteration of each stored edge
  reserved,    \* _reserved: the reservation id that holds an edge
  nextId,      \* _next_reservation_id
  metrics,     \* the buffer's counters
  iteration,   \* the rollout iteration callers pass in
  handles      \* ReplayReservation objects callers still have, active or not

vars == <<edges, reserved, nextId, metrics, iteration, handles>>

Stored == DOMAIN edges
Held   == DOMAIN reserved

Least(a, b) == IF a <= b THEN a ELSE b

OfQuestion(S, q) == {e \in S : QuestionOf[e] = q}
OfTrees(S, T)    == {e \in S : TreeOf[e] \in T}

-----------------------------------------------------------------------------
(* Definitions named ...Mutant are one-line bugs of the definition that     *)
(* follows; they show that a property notices them and are used nowhere.    *)
ExpiredMutant == {e \in Stored : iteration - edges[e] >= MaxAge}  \* held ones too

(* expire() spares reserved edges; age counts rollout iterations. *)
Expired == {e \in Stored \ Held : iteration - edges[e] >= MaxAge}

FreeMutant == Stored \ Held  \* nothing has expired

Free == Stored \ (Held \cup Expired)

EdgeSamplesMutant(F) ==  \* no cap per question
  {S \in SUBSET F : Cardinality(S) = Least(Target, Cardinality(F))}

(* sample_for_update: at most Cap random edges per question, of which at    *)
(* most Target random ones are kept.                                        *)
EdgeSamples(F) ==
  {S \in SUBSET F :
     \E C \in SUBSET F :
       /\ \A q \in Question :
            Cardinality(OfQuestion(C, q)) = Least(Cap, Cardinality(OfQuestion(F, q)))
       /\ S \subseteq C
       /\ Cardinality(S) = Least(Target, Cardinality(C))}

(* Whole trees of one question: the first is taken whatever its size, a     *)
(* later one is skipped when it would pass Cap.  Tree ids end in a random   *)
(* suffix, so their sort order is any order: T is a result of the scan iff  *)
(* it is one tree or fits, and nothing left out would still fit.            *)
QuestionPicks(F, q) ==
  LET QTrees == {TreeOf[e] : e \in OfQuestion(F, q)}
      Size(T) == Cardinality(OfTrees(OfQuestion(F, q), T))
  IN {T \in SUBSET QTrees :
        /\ QTrees # {} => T # {}
        /\ Cardinality(T) > 1 => Size(T) <= Cap
        /\ \A t \in QTrees \ T : Size(T \cup {t}) > Cap}

TreeSamplesMutant(F) == EdgeSamples(F)  \* trees are cut at the target

(* reserve_complete_trees_for_update: the picked trees in shuffled order,   *)
(* skipping one that does not fit under Target; never part of a tree.       *)
TreeSamples(F) ==
  LET Size(T) == Cardinality(OfTrees(F, T))
      Picks == {P \in SUBSET {TreeOf[e] : e \in F} :
                  \A q \in Question :
                    {t \in P : OfTrees(OfQuestion(F, q), {t}) # {}} \in QuestionPicks(F, q)}
      Packed(P) == {T \in SUBSET P :
                      /\ Size(T) <= Target
                      /\ \A t \in P \ T : Size(T \cup {t}) > Target}
  IN {OfTrees(F, T) : T \in UNION {Packed(P) : P \in Picks}}

Samples(unit, F) == IF unit = "edge" THEN EdgeSamples(F) ELSE TreeSamples(F)

(* _assert_complete_parent_groups: every sampled parent group has all its   *)
(* allocated_k rows.                                                        *)
CompleteParentGroups(S) ==
  \A e \in S : \A f \in Edge : ParentOf[f] = ParentOf[e] => f \in S

-----------------------------------------------------------------------------
Init ==
  /\ edges = [e \in {} |-> 0]
  /\ reserved = [e \in {} |-> 0]
  /\ nextId = 1
  /\ metrics = [added |-> 0, expired |-> 0, sampled |-> 0,
                reserved |-> 0, committed |-> 0, rolledBack |-> 0]
  /\ iteration = 0
  /\ handles = {}

(* The caller starts the next rollout iteration. *)
NextIteration ==
  /\ iteration < MaxIteration
  /\ iteration' = iteration + 1
  /\ UNCHANGED <<edges, reserved, nextId, metrics, handles>>

AddMutant(B) ==  \* the edges are stamped with the previous iteration
  /\ B \cap Stored = {}
  /\ metrics.added + Cardinality(B) <= MaxAdded
  /\ edges' = [e \in Stored \cup B |-> IF e \in B THEN iteration - 1 ELSE edges[e]]
  /\ metrics' = [metrics EXCEPT !.added = @ + Cardinality(B)]
  /\ UNCHANGED <<reserved, nextId, iteration, handles>>

(* All or nothing: one id that is already stored rejects the batch. *)
Add(B) ==
  /\ B \cap Stored = {}
  /\ metrics.added + Cardinality(B) <= MaxAdded
  /\ edges' = [e \in Stored \cup B |-> IF e \in B THEN iteration ELSE edges[e]]
  /\ metrics' = [metrics EXCEPT !.added = @ + Cardinality(B)]
  /\ UNCHANGED <<reserved, nextId, iteration, handles>>

ExpireCountMutant == metrics.expired  \* drops edges without counting them

(* What expire() does on its own and as the first step of every sampling. *)
ExpireCount == metrics.expired + Cardinality(Expired)

Expire ==
  /\ edges' = Restrict(edges, Stored \ Expired)
  /\ metrics' = [metrics EXCEPT !.expired = ExpireCount]
  /\ UNCHANGED <<reserved, nextId, iteration, handles>>

(* sample_for_update(remove=True): the sample leaves the buffer at once. *)
SampleAndRemove(S) ==
  /\ "edge" \in Units
  /\ S \in EdgeSamples(Free)
  /\ edges' = Restrict(edges, Stored \ (Expired \cup S))
  /\ metrics' = [metrics EXCEPT !.expired = ExpireCount,
                                !.sampled = @ + Cardinality(S)]
  /\ UNCHANGED <<reserved, nextId, iteration, handles>>

ReserveIdMutant(unit, S) ==  \* every reservation has the same id
  /\ nextId <= MaxReservations
  /\ S \in Samples(unit, Free)
  /\ unit = "complete_tree" => CompleteParentGroups(S)
  /\ edges' = Restrict(edges, Stored \ Expired)
  /\ reserved' = [e \in Held \cup S |-> IF e \in S THEN nextId ELSE reserved[e]]
  /\ handles' = handles \cup {[id |-> nextId, ids |-> S, unit |-> unit]}
  /\ UNCHANGED <<nextId, metrics, iteration>>

ReserveAllMutant(unit, S) ==  \* the candidates are held, not the sample
  /\ nextId <= MaxReservations
  /\ S \in Samples(unit, Free)
  /\ unit = "complete_tree" => CompleteParentGroups(S)
  /\ edges' = Restrict(edges, Stored \ Expired)
  /\ reserved' = [e \in Held \cup Free |-> IF e \in Free THEN nextId ELSE reserved[e]]
  /\ nextId' = nextId + 1
  /\ handles' = handles \cup {[id |-> nextId, ids |-> S, unit |-> unit]}
  /\ UNCHANGED <<metrics, iteration>>

(* reserve_for_update and reserve_complete_trees_for_update. *)
Reserve(unit, S) ==
  /\ nextId <= MaxReservations
  /\ S \in Samples(unit, Free)
  /\ unit = "complete_tree" => CompleteParentGroups(S)
  /\ edges' = Restrict(edges, Stored \ Expired)
  /\ reserved' = [e \in Held \cup S |-> IF e \in S THEN nextId ELSE reserved[e]]
  /\ nextId' = nextId + 1
  /\ metrics' = [metrics EXCEPT !.expired = ExpireCount,
                                !.sampled = @ + Cardinality(S),
                                !.reserved = @ + Cardinality(S)]
  /\ handles' = handles \cup {[id |-> nextId, ids |-> S, unit |-> unit]}
  /\ UNCHANGED iteration

(* The parent-group assertion fails: expiry has happened, nothing is held. *)
ReserveRaises ==
  /\ "complete_tree" \in Units
  /\ \E S \in TreeSamples(Free) : ~CompleteParentGroups(S)
  /\ Expire

(* _check_reservation: the handle still holds every edge it was given. *)
Active(h) == \A e \in h.ids : e \in Held /\ reserved[e] = h.id

CommitMutant(h) ==  \* the edges go, their reservation stays
  /\ Active(h)
  /\ edges' = Restrict(edges, Stored \ h.ids)
  /\ metrics' = [metrics EXCEPT !.committed = @ + Cardinality(h.ids)]
  /\ UNCHANGED <<reserved, nextId, iteration, handles>>

Commit(h) ==
  /\ Active(h)
  /\ edges' = Restrict(edges, Stored \ h.ids)
  /\ reserved' = Restrict(reserved, Held \ h.ids)
  /\ metrics' = [metrics EXCEPT !.committed = @ + Cardinality(h.ids)]
  /\ UNCHANGED <<nextId, iteration, handles>>

Rollback(h) ==
  /\ Active(h)
  /\ reserved' = Restrict(reserved, Held \ h.ids)
  /\ metrics' = [metrics EXCEPT !.rolledBack = @ + Cardinality(h.ids)]
  /\ UNCHANGED <<edges, nextId, iteration, handles>>

Next ==
  \/ NextIteration
  \/ \E B \in Batches : Add(B)
  \/ Expire
  \/ \E S \in SUBSET Free : SampleAndRemove(S)
  \/ \E unit \in Units : \E S \in SUBSET Free : Reserve(unit, S)
  \/ ReserveRaises
  \/ \E h \in handles : Commit(h)
  \/ \E h \in handles : Rollback(h)

Spec == Init /\ [][Next]_vars

-----------------------------------------------------------------------------
(* Values the variables range over. *)
MetricNames == {"added", "expired", "sampled", "reserved", "committed", "rolledBack"}

TypeOK ==
  /\ Stored \subseteq Edge /\ edges \in [Stored -> Nat]
  /\ Held \subseteq Edge /\ reserved \in [Held -> Nat \ {0}]
  /\ nextId \in Nat \ {0}
  /\ metrics \in [MetricNames -> Nat]
  /\ iteration \in Nat
  /\ handles \subseteq [id : Nat \ {0}, ids : SUBSET Edge, unit : Units]

(* A held edge is still in the buffer: neither expiry nor another sample    *)
(* takes an edge away while an update is being computed on it.              *)
HeldEdgesStored == Held \subseteq Stored

(* A reservation is never half done: a handle holds all its edges or none.  *)
(* This is what makes the all-edges check of commit and rollback enough.    *)
HandleAllOrNothing ==
  \A h \in handles :
    \/ Active(h)
    \/ \A e \in h.ids : e \in Held => reserved[e] # h.id

(* No edge is held for nobody: a caller has the handle that can release it. *)
NoOrphanHold ==
  \A e \in Held : \E h \in handles : h.id = reserved[e] /\ e \in h.ids

(* Whatever expires, fails or is used twice in between, a held edge is in   *)
(* the buffer, under one handle, with all the edges of that handle.         *)
HoldsAccounted == HeldEdgesStored /\ HandleAllOrNothing /\ NoOrphanHold

(* Every edge that was ever added is stored or has left in exactly one way. *)
EdgeBalance ==
  metrics.added = Cardinality(Stored) + metrics.expired + metrics.committed
                    + (metrics.sampled - metrics.reserved)

(* Every edge that was ever reserved is held, committed or rolled back. *)
HoldBalance ==
  metrics.reserved = Cardinality(Held) + metrics.committed + metrics.rolledBack

(* The counters that are persisted with the buffer account for all edges.   *)
CountersBalance == EdgeBalance /\ HoldBalance

(* No reservation exceeds the target, and no question exceeds its cap,      *)
(* except that a single tree larger than the cap may be taken whole.        *)
WithinLimits ==
  \A h \in handles :
    /\ Cardinality(h.ids) <= Target
    /\ \A q \in Question :
         LET Q == OfQuestion(h.ids, q)
         IN \/ Cardinality(Q) <= Cap
            \/ h.unit = "complete_tree" /\ Cardinality({TreeOf[e] : e \in Q}) = 1

(* What a reservation hands out is younger than MaxAge at that moment, and  *)
(* not from the future, however long the edges were held before.            *)
FreshWhenReserved ==
  [][\A h \in handles' \ handles : \A e \in h.ids :
       e \in Stored /\ iteration - edges[e] \in 0 .. MaxAge - 1]_vars

(* What the trainer is handed fits its target and caps, and is fresh.       *)
ReservationsLawful == []WithinLimits /\ FreshWhenReserved

(* Under the complete_tree unit edges of one tree that rollouts only add     *)
(* together stay together: both are stored, with one age and one holder, or  *)
(* neither is.  Parent groups do not ensure this: a tree has several.        *)
TreesStayWhole ==
  \A e, f \in Edge :
    TreeOf[e] = TreeOf[f] /\ (\A B \in Batches : e \in B <=> f \in B) /\ e \in Stored =>
      /\ f \in Stored /\ edges[f] = edges[e]
      /\ f \in Held <=> e \in Held
      /\ e \in Held => reserved[e] = reserved[f]

(* The buffer is a pool with lots that are consumed or released whole: the  *)
(* edges that carry one reservation id are one lot.                         *)
LotOf(id) == {e \in Held : reserved[e] = id}
HeldLots  == {LotOf(id) : id \in Range(reserved)}

Lots == INSTANCE ReplayLots WITH pool <- Stored, lots <- HeldLots

ImplementsLots == Lots!Spec
===============================================================================
