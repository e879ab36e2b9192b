------------------------------- MODULE OnlineTree -------------------------------
(***************************************************************************)
(* async_build_tree_online_alloc (verl/recipe/gear_tree/tree_rollout.py):  *)
(* the coroutines that build one tree.  A node is estimated, put into the  *)
(* shortest queue of a RootQueueManager and waits for a future; a flush of *)
(* its queue, when it is full or when the worker finds it timed out,       *)
(* allocates its branches and starts a task that expands it; its children  *)
(* are processed concurrently and joined.  A step runs from one suspension *)
(* of a coroutine to its next.  Only nodes that may be expanded are        *)
(* modelled; the other children are graded where they are generated.       *)
(* Tokens are counted in segments, one for a branch.                       *)
(* Definitions named ...Mutant are one-line bugs of the definition that    *)
(* follows; they show that a property notices them and are used nowhere.   *)
(***************************************************************************)
EXTENDS Integers, Sequences, FiniteSets

CONSTANTS
  MaxDepth,        \* max_depth
  Default,         \* the default branch factor of tree_shape
  MaxK,            \* bound on the branches an allocation gives a node
  QueueCount,      \* queue_count
  Capacity,        \* queue_capacity
  TimesOut,        \* queue_timeout_seconds > 0
  RootAllocation,  \* root_allocation
  SkipNearLeaf,    \* skip_near_leaf_expand
  Capped,          \* budget_mode is uniform_full_tree_token_cap
  Cap,             \* the shared token cap
  PilotTokens,     \* what estimating a node charges
  MayFail          \* what may raise: estimate, allocate, generate

ASSUME OnlineTreeAssumption ==
  /\ MaxDepth \in Nat \ {0} /\ Default \in Nat \ {0} /\ MaxK \in Nat /\ Default <= MaxK
  /\ QueueCount \in Nat \ {0} /\ Capacity \in Nat \ {0}
  /\ {TimesOut, RootAllocation, SkipNearLeaf, Capped} \subseteq BOOLEAN
  /\ Cap \in Nat /\ PilotTokens \in Nat
  /\ MayFail \subseteq {"estimate", "allocate", "generate"}

Nodes == UNION {[1 .. d -> 1 .. MaxK] : d \in 0 .. MaxDepth - 1}
Root == <<>>
Queues == 1 .. QueueCount

VARIABLES
  at,         \* _process_expandable of a node
  expansion,  \* _expand_parent of a node
  future,     \* the completion future of a queued node
  branches,   \* vdra_allocated_k, then what is generated of it
  kids,       \* the children that are processed further
  queues,     \* the items of each queue
  used,       \* token_budget["used"]
  worker,     \* the timeout worker: running, dead (worker_error) or stopped
  builder     \* building, draining, stopping or failing, returned or raised

nodeVars == <<at, expansion, future, branches, kids>>
vars == <<nodeVars, queues, used, worker, builder>>

Init ==
  /\ at = [n \in Nodes |-> IF n = Root THEN "ready" ELSE "absent"]
  /\ expansion = [n \in Nodes |-> "none"]
  /\ future = [n \in Nodes |-> "none"]
  /\ branches = [n \in Nodes |-> 0]
  /\ kids = [n \in Nodes |-> {}]
  /\ queues = [q \in Queues |-> {}]
  /\ used = 0
  /\ worker = "running"
  /\ builder = "building"

-----------------------------------------------------------------------------
(* The queue manager: the shortest queue takes a node; a flush takes the    *)
(* queues that are due in order, each emptied before it is allocated, so    *)
(* that one which raises loses itself and the results before it.            *)
Shortest == CHOOSE q \in Queues : \A r \in Queues :
  \/ Cardinality(queues[q]) < Cardinality(queues[r])
  \/ Cardinality(queues[q]) = Cardinality(queues[r]) /\ q <= r

DueMutant(qs) ==  \* a queue is full only beyond its capacity
  LET full == {q \in Queues : Cardinality(qs[q]) > Capacity}
      waiting == {q \in Queues : qs[q] # {}}
  IN {due \in SUBSET waiting : full \subseteq due /\ (TimesOut \/ due = full)}

Due(qs) ==
  LET full == {q \in Queues : Cardinality(qs[q]) >= Capacity}
      waiting == {q \in Queues : qs[q] # {}}
  IN {due \in SUBSET waiting : full \subseteq due /\ (TimesOut \/ due = full)}

Emptied(qs, due) == [q \in Queues |-> IF q \in due THEN {} ELSE qs[q]]

FlushMutant(qs, due) ==  \* only the first result is handled
  LET items == UNION {qs[q] : q \in {d \in due : \A e \in due : d <= e}}
  IN /\ queues' = Emptied(qs, due)
     /\ expansion' = [n \in Nodes |-> IF n \in items THEN "scheduled" ELSE expansion[n]]
     /\ \E k \in [items -> 1 .. MaxK] :
          branches' = [n \in Nodes |-> IF n \in items THEN k[n] ELSE branches[n]]

Flush(qs, due) ==
  LET items == UNION {qs[q] : q \in due}
  IN /\ queues' = Emptied(qs, due)
     /\ expansion' = [n \in Nodes |-> IF n \in items THEN "scheduled" ELSE expansion[n]]
     /\ \E k \in [items -> 1 .. MaxK] :
          branches' = [n \in Nodes |-> IF n \in items THEN k[n] ELSE branches[n]]

FlushRaises(qs, due) ==
  /\ "allocate" \in MayFail
  /\ \E f \in due : queues' = Emptied(qs, {q \in due : q <= f})
  /\ UNCHANGED <<expansion, branches>>

-----------------------------------------------------------------------------
(* Nodes expanded by their own coroutine, without a queue. *)
Direct(n) ==
  \/ SkipNearLeaf /\ Len(n) = MaxDepth - 1
  \/ n = Root /\ ~RootAllocation

(* The expansion of a node ends: a queued node's waiter hears of it through *)
(* the future, unless the worker's death completed that first.              *)
Settle(n, ok) ==
  IF Direct(n)
    THEN /\ at' = [at EXCEPT ![n] = IF ok THEN "done" ELSE "raised"]
         /\ UNCHANGED future
    ELSE /\ future' = [future EXCEPT ![n] =
                         IF @ = "pending" THEN IF ok THEN "result" ELSE "error" ELSE @]
         /\ UNCHANGED at

AffordableMutant(k) ==  \* the cap is thought never to be exceeded
  IF Capped /\ used + k > Cap THEN Cap - used ELSE k

Affordable(k) ==
  IF Capped /\ used + k > Cap THEN IF used < Cap THEN Cap - used ELSE 0 ELSE k

(* _expand_parent up to the generation; with nothing to generate, to its end. *)
Expand(n, k) ==
  /\ branches' = [branches EXCEPT ![n] = Affordable(k)]
  /\ IF Affordable(k) = 0
       THEN expansion' = [expansion EXCEPT ![n] = "done"] /\ Settle(n, TRUE)
       ELSE /\ expansion' = [expansion EXCEPT ![n] = "generating"]
            /\ at' = IF Direct(n) THEN [at EXCEPT ![n] = "waiting"] ELSE at
            /\ UNCHANGED future

EnterRaises(n) ==
  /\ at[n] = "ready" /\ worker = "dead"
  /\ at' = [at EXCEPT ![n] = "raised"]
  /\ UNCHANGED <<expansion, future, branches, kids, queues, used, worker, builder>>

GradeAtCap(n) ==
  /\ at[n] = "ready" /\ worker # "dead"
  /\ Capped /\ used >= Cap
  /\ at' = [at EXCEPT ![n] = "done"]
  /\ UNCHANGED <<expansion, future, branches, kids, queues, used, worker, builder>>

ExpandDirectly(n) ==
  /\ at[n] = "ready" /\ worker # "dead"
  /\ ~(Capped /\ used >= Cap)
  /\ Direct(n)
  /\ Expand(n, Default)
  /\ UNCHANGED <<kids, queues, used, worker, builder>>

Estimate(n) ==
  /\ at[n] = "ready" /\ worker # "dead"
  /\ ~(Capped /\ used >= Cap)
  /\ ~Direct(n)
  /\ at' = [at EXCEPT ![n] = "estimating"]
  /\ UNCHANGED <<expansion, future, branches, kids, queues, used, worker, builder>>

EstimateRaises(n) ==
  /\ at[n] = "estimating" /\ "estimate" \in MayFail
  /\ at' = [at EXCEPT ![n] = "raised"]
  /\ UNCHANGED <<expansion, future, branches, kids, queues, used, worker, builder>>

(* Enqueued and flushed without a suspension; the node is in its queue even *)
(* if the worker turns out to be dead or the flush raises.                  *)
Enqueue(n) ==
  LET qs == [queues EXCEPT ![Shortest] = @ \cup {n}]
      Waits == at' = [at EXCEPT ![n] = "waiting"]
      Raises == at' = [at EXCEPT ![n] = "raised"]
  IN /\ at[n] = "estimating"
     /\ used' = used + IF Capped THEN PilotTokens ELSE 0
     /\ future' = [future EXCEPT ![n] = "pending"]
     /\ IF worker = "dead"
          THEN queues' = qs /\ Raises /\ UNCHANGED <<expansion, branches>>
          ELSE \E due \in Due(qs) :
                 \/ Flush(qs, due) /\ Waits
                 \/ FlushRaises(qs, due) /\ Raises
     /\ UNCHANGED <<kids, worker, builder>>

StartExpansion(n) ==
  /\ expansion[n] = "scheduled"
  /\ Expand(n, branches[n])
  /\ UNCHANGED <<kids, queues, used, worker, builder>>

GenerationRaises(n) ==
  /\ expansion[n] = "generating" /\ "generate" \in MayFail
  /\ expansion' = [expansion EXCEPT ![n] = "raised"]
  /\ Settle(n, FALSE)
  /\ UNCHANGED <<branches, kids, queues, used, worker, builder>>

(* Some of the generated children are not final: they are processed. *)
Generated(n) ==
  /\ expansion[n] = "generating"
  /\ used' = used + IF Capped THEN branches[n] ELSE 0
  /\ \E grow \in SUBSET ({Append(n, i) : i \in 1 .. branches[n]} \cap Nodes) :
       /\ kids' = [kids EXCEPT ![n] = grow]
       /\ IF grow = {}
            THEN expansion' = [expansion EXCEPT ![n] = "done"] /\ Settle(n, TRUE)
            ELSE /\ expansion' = [expansion EXCEPT ![n] = "gathering"]
                 /\ at' = [c \in Nodes |-> IF c \in grow THEN "ready" ELSE at[c]]
                 /\ UNCHANGED future
  /\ UNCHANGED <<branches, queues, worker, builder>>

JoinedMutant(n) ==  \* the first child is enough
  /\ expansion[n] = "gathering"
  /\ \E c \in kids[n] : at[c] = "done"
  /\ expansion' = [expansion EXCEPT ![n] = "done"]
  /\ Settle(n, TRUE)
  /\ UNCHANGED <<branches, kids, queues, used, worker, builder>>

JoinedAnywayMutant(n) ==  \* exceptions are returned as results
  /\ expansion[n] = "gathering"
  /\ \A c \in kids[n] : at[c] \in {"done", "raised"}
  /\ expansion' = [expansion EXCEPT ![n] = "done"]
  /\ Settle(n, TRUE)
  /\ UNCHANGED <<branches, kids, queues, used, worker, builder>>

(* asyncio.gather: returns when all children did, raises when one raised,   *)
(* and leaves the others running.                                           *)
Joined(n) ==
  /\ expansion[n] = "gathering"
  /\ \A c \in kids[n] : at[c] = "done"
  /\ expansion' = [expansion EXCEPT ![n] = "done"]
  /\ Settle(n, TRUE)
  /\ UNCHANGED <<branches, kids, queues, used, worker, builder>>

JoinRaises(n) ==
  /\ expansion[n] = "gathering"
  /\ \E c \in kids[n] : at[c] = "raised"
  /\ expansion' = [expansion EXCEPT ![n] = "raised"]
  /\ Settle(n, FALSE)
  /\ UNCHANGED <<branches, kids, queues, used, worker, builder>>

WakeMutant(n) ==  \* an exception is taken for a result
  /\ at[n] = "waiting" /\ future[n] \in {"result", "error"}
  /\ at' = [at EXCEPT ![n] = "done"]
  /\ UNCHANGED <<expansion, future, branches, kids, queues, used, worker, builder>>

Wake(n) ==
  /\ at[n] = "waiting" /\ future[n] \in {"result", "error"}
  /\ at' = [at EXCEPT ![n] = IF future[n] = "result" THEN "done" ELSE "raised"]
  /\ UNCHANGED <<expansion, future, branches, kids, queues, used, worker, builder>>

NodeStep(n) ==
  \/ EnterRaises(n)
  \/ GradeAtCap(n)
  \/ ExpandDirectly(n)
  \/ Estimate(n)
  \/ EstimateRaises(n)
  \/ Enqueue(n)
  \/ StartExpansion(n)
  \/ GenerationRaises(n)
  \/ Generated(n)
  \/ Joined(n)
  \/ JoinRaises(n)
  \/ Wake(n)

-----------------------------------------------------------------------------
(* The timeout worker.  Its death completes every future that is pending.   *)
WorkerFlushes(q) ==
  /\ worker = "running"
  /\ \E due \in Due(queues) : q \in due /\ Flush(queues, due)
  /\ UNCHANGED <<at, future, kids, used, worker, builder>>

WorkerDiesMutant ==  \* nobody is told
  /\ worker = "running"
  /\ \E due \in Due(queues) : FlushRaises(queues, due)
  /\ worker' = "dead"
  /\ UNCHANGED <<at, future, kids, used, builder>>

WorkerDies ==
  /\ worker = "running"
  /\ \E due \in Due(queues) : FlushRaises(queues, due)
  /\ worker' = "dead"
  /\ future' = [n \in Nodes |-> IF future[n] = "pending" THEN "error" ELSE future[n]]
  /\ UNCHANGED <<at, kids, used, builder>>

WorkerStops ==
  /\ worker = "running" /\ builder \in {"stopping", "failing"}
  /\ worker' = "stopped"
  /\ UNCHANGED <<nodeVars, queues, used, builder>>

-----------------------------------------------------------------------------
(* The builder.  Its final drain flushes whatever is queued, until nothing  *)
(* is being expanded.                                                       *)
Expanding == {n \in Nodes : expansion[n] \in {"scheduled", "generating", "gathering"}}
Left == {q \in Queues : queues[q] # {}}

Drain ==
  /\ \/ builder = "building" /\ at[Root] = "done"
     \/ builder = "draining" /\ Expanding = {}
  /\ \/ /\ Flush(queues, Left)
        /\ builder' = IF builder = "draining" /\ Left = {} THEN "stopping" ELSE "draining"
     \/ FlushRaises(queues, Left) /\ builder' = "failing"
  /\ UNCHANGED <<at, future, kids, used, worker>>

RootRaised ==
  /\ builder = "building" /\ at[Root] = "raised"
  /\ builder' = "failing"
  /\ UNCHANGED <<nodeVars, queues, used, worker>>

Finish ==
  /\ builder \in {"stopping", "failing"} /\ worker # "running"
  /\ builder' = IF builder = "failing" \/ \E n \in Nodes : future[n] = "pending"
                THEN "raised" ELSE "returned"
  /\ UNCHANGED <<nodeVars, queues, used, worker>>

BuilderStep == Drain \/ RootRaised \/ WorkerStops \/ Finish

Next ==
  \/ \E n \in Nodes : NodeStep(n)
  \/ \E q \in Queues : WorkerFlushes(q)
  \/ WorkerDies
  \/ BuilderStep

Spec == Init /\ [][Next]_vars

(* The event loop runs every coroutine that can go on, the inference engine *)
(* answers every request, and a queue that waits times out.                 *)
Fairness ==
  /\ \A n \in Nodes : WF_vars(NodeStep(n))
  /\ \A q \in Queues : WF_vars(WorkerFlushes(q))
  /\ WF_vars(BuilderStep)

FairSpec == Spec /\ Fairness

-----------------------------------------------------------------------------
TypeOK ==
  /\ at \in [Nodes -> {"absent", "ready", "estimating", "waiting", "done", "raised"}]
  /\ expansion \in [Nodes -> {"none", "scheduled", "generating", "gathering", "done", "raised"}]
  /\ future \in [Nodes -> {"none", "pending", "result", "error"}]
  /\ branches \in [Nodes -> 0 .. MaxK]
  /\ kids \in [Nodes -> SUBSET Nodes]
  /\ queues \in [Queues -> SUBSET Nodes]
  /\ used \in Nat
  /\ worker \in {"running", "dead", "stopped"}
  /\ builder \in {"building", "draining", "stopping", "failing", "returned", "raised"}

Failed == {n \in Nodes : at[n] = "raised"}

(* No lost wakeup: a coroutine that waits for its future finds its node in  *)
(* a queue or under expansion, unless the tree is failing anyway.           *)
WaitersAttended ==
  \A n \in Nodes : at[n] = "waiting" /\ future[n] = "pending" =>
    n \in UNION {queues[q] : q \in Queues} \/ n \in Expanding \/ Failed # {}

(* A full queue is flushed by whoever filled it and never waits for the     *)
(* timeout ("the build must not idle for the timeout").                     *)
FullQueuesFlushed ==
  \A q \in Queues : Cardinality(queues[q]) < Capacity \/ Failed # {}

(* A node that waits will be attended, and by the first who can.            *)
QueuesAttended == WaitersAttended /\ FullQueuesFlushed

(* When the root was built nothing is left: no queued node, no pending      *)
(* future, no expansion; the final drain never finds anything.              *)
NothingLeft ==
  at[Root] = "done" =>
    /\ Left = {} /\ Expanding = {}
    /\ \A n \in Nodes : future[n] # "pending" /\ at[n] \in {"absent", "done"}

(* A failure anywhere in the tree, the worker's included, is raised to the  *)
(* caller and never papered over ("no fallback is allowed").                *)
NoFallback ==
  builder = "returned" =>
    /\ worker # "dead"
    /\ \A n \in Nodes : at[n] # "raised" /\ expansion[n] # "raised"

(* A tree that is returned is whole: nothing of it is pending or has failed. *)
ReturnedWhole == NothingLeft /\ NoFallback

(* Every build ends. *)
BuildEnds == <>(builder \in {"returned", "raised"})

(* "Pilot, support and main expansion generation must all fit under" the    *)
(* cap (_uniform_generated_token_cap).                                      *)
UnderCap == used <= Cap

(* "When the cap is exhausted, remaining nodes are graded as truncated      *)
(* leaves" (Summary.md): no node is left with neither children nor a grade. *)
CappedNodesGraded == \A n \in Nodes : expansion[n] = "done" => branches[n] > 0

(* The builder is a fork and a join over the tree. *)
ForkJoinState(n) ==
  CASE at[n] = "absent" -> "absent"
    [] at[n] = "done"   -> "built"
    [] at[n] = "raised" -> "failed"
    [] OTHER            -> "open"

Contract == INSTANCE ForkJoin
              WITH Node <- Nodes, state <- [n \in Nodes |-> ForkJoinState(n)],
                   result <- IF builder \in {"returned", "raised"} THEN builder ELSE "building"

ImplementsForkJoin == Contract!Spec
===============================================================================
