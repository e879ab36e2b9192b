---------------------------- MODULE IntegerAllocation ----------------------------
(***************************************************************************)
(* One call of allocate_branch_factors_integer (vdra_core/core.py), the    *)
(* solver by which a flush of a VDRA queue divides its budget of branches  *)
(* among the nodes of the queue.  Bounds are derived from each node's      *)
(* default and predicted branch factor, repaired when they cannot take the *)
(* budget, and filled one branch at a time from a heap of marginal gains.  *)
(*                                                                         *)
(* Node ids are numbers and their order is the sort order of the code's    *)
(* string keys.  A dispersion is a natural number and gains are compared   *)
(* exactly, by cross-multiplication: floating-point rounding is left out.  *)
(* The rejection of an unknown mode or policy, of an empty node list, of a *)
(* duplicate id and of a dispersion that is not finite is left out: the    *)
(* inputs enumerated here are the ones past those checks.                  *)
(***************************************************************************)
EXTENDS Naturals, FiniteSets, FiniteSetsExt, Functions

CONSTANTS
    Node,         \* ids of the nodes of the call
    Dispersions,  \* values of C_s
    Factors,      \* default and predicted branch factors
    Budgets,      \* values of total_budget
    Modes,        \* predicted_k_cap_mode
    Policies,     \* infeasible_upper_policy
    NMin,         \* n_min
    MaxK,         \* max_k_per_node
    RepairK       \* max_repair_k_per_node

ASSUME CallAssumption ==
    /\ Node \subseteq Nat /\ Node # {} /\ IsFiniteSet(Node)
    /\ Dispersions \subseteq Nat /\ Factors \subseteq Nat /\ Budgets \subseteq Nat
    /\ Modes \subseteq {"below_default_only", "predicted_k_for_all_nodes",
                        "configured_max_for_all_nodes"}
    /\ Policies \subseteq {"expand_nonredundant_caps", "error"}
    /\ NMin \in Nat /\ MaxK \in Nat /\ RepairK \in Nat

VARIABLES
    call,        \* the arguments: dispersion, default, predicted, budget, mode, policy
    phase,       \* where the solver is: "bounds", "growing", "returned" or "raised"
    upper,       \* upper bounds after the repair
    allocation,  \* branches given to each node so far
    remaining,   \* branches the greedy loop still has to give
    slack        \* infeasible_slack

solverVars == <<call, phase, upper, allocation, remaining, slack>>
-----------------------------------------------------------------------------
AtLeast(x, floor) == IF x < floor THEN floor ELSE x
Floor == AtLeast(NMin, 1)
MaxCap == AtLeast(MaxK, Floor)
RepairCap == AtLeast(RepairK, MaxCap)

DefaultK(n) == AtLeast(call.default[n], Floor)
PredictedK(n) == AtLeast(call.predicted[n], Floor)
Lower == [n \in Node |-> Floor]

\* A node predicted to need fewer branches than its default is capped hard.
Redundant(n) ==
    /\ call.mode # "configured_max_for_all_nodes"
    /\ PredictedK(n) < DefaultK(n)

InitialUpper ==
    [n \in Node |-> IF Redundant(n) \/ call.mode = "predicted_k_for_all_nodes"
                    THEN PredictedK(n) ELSE MaxCap]

RepairedMutant ==   \* the repair forgets which caps are hard
    [n \in Node |-> AtLeast(InitialUpper[n], RepairCap)]

Repaired ==
    [n \in Node |-> IF Redundant(n) THEN InitialUpper[n]
                    ELSE AtLeast(InitialUpper[n], RepairCap)]

FinalUpperMutant == InitialUpper   \* the repair is skipped

FinalUpper ==
    IF call.budget > SumFunction(InitialUpper) /\ call.policy = "expand_nonredundant_caps"
    THEN Repaired ELSE InitialUpper

\* The marginal gain c / (j (j + 1)) of a (j + 1)-st branch is at least d / (l (l + 1)).
GainAtLeast(c, j, d, l) == c * (l * (l + 1)) >= d * (j * (j + 1))

PrecedesMutant(n, m) ==   \* gain C / k: not what one more branch saves
    call.dispersion[n] * allocation[m] >= call.dispersion[m] * allocation[n]

PrecedesStaleMutant(n, m) ==   \* entries keep the gain they were first pushed with
    call.dispersion[n] >= call.dispersion[m]

\* The order of the heap's entries (-gain, key).
Precedes(n, m) ==
    LET c == call.dispersion
        a == allocation
    IN  /\ GainAtLeast(c[n], a[n], c[m], a[m])
        /\ GainAtLeast(c[m], a[m], c[n], a[n]) => n <= m

OpenMutant == {n \in Node : allocation[n] <= upper[n]}   \* off by one at the cap

Open == {n \in Node : allocation[n] < upper[n]}
-----------------------------------------------------------------------------
SolverInit ==
    /\ call \in [dispersion : [Node -> Dispersions], default : [Node -> Factors],
                 predicted : [Node -> Factors], budget : Budgets,
                 mode : Modes, policy : Policies]
    /\ phase = "bounds"
    /\ upper = Lower
    /\ allocation = Lower
    /\ remaining = 0
    /\ slack = 0

\* ValueError: the budget is below the lower bounds, or above the upper ones
\* under the policy that forbids it.
RejectBudget ==
    /\ phase = "bounds"
    /\ \/ call.budget < SumFunction(Lower)
       \/ call.budget > SumFunction(FinalUpper) /\ call.policy = "error"
    /\ phase' = "raised"
    /\ UNCHANGED <<call, upper, allocation, remaining, slack>>

\* Fix the bounds and what can be spent; the rest of the budget is slack.
SetBounds ==
    /\ phase = "bounds"
    /\ call.budget >= SumFunction(Lower)
    /\ ~(call.budget > SumFunction(FinalUpper) /\ call.policy = "error")
    /\ upper' = FinalUpper
    /\ LET spend == IF call.budget > SumFunction(FinalUpper) THEN SumFunction(FinalUpper)
                    ELSE call.budget
       IN  /\ slack' = call.budget - spend
           /\ remaining' = spend - SumFunction(Lower)
    /\ phase' = "growing"
    /\ UNCHANGED <<call, allocation>>

\* Pop the greatest marginal gain, give that node a branch, push its next gain.
GiveBranch ==
    /\ phase = "growing"
    /\ remaining > 0
    /\ \E n \in Open :
          /\ \A m \in Open : Precedes(n, m)
          /\ allocation' = [allocation EXCEPT ![n] = @ + 1]
    /\ remaining' = remaining - 1
    /\ UNCHANGED <<call, phase, upper, slack>>

\* The loop is over, or the heap is empty: the summary is built.
Summarize ==
    /\ phase = "growing"
    /\ remaining = 0 \/ Open = {}
    /\ phase' = "returned"
    /\ UNCHANGED <<call, upper, allocation, remaining, slack>>

SolverNext == RejectBudget \/ SetBounds \/ GiveBranch \/ Summarize

SolverSpec == SolverInit /\ [][SolverNext]_solverVars
-----------------------------------------------------------------------------
\* No node gets fewer than the lower bound or more than its upper bound: the
\* RuntimeError of core.py:356-358 cannot be raised.
WithinBounds ==
    \A n \in Node : Floor <= allocation[n] /\ allocation[n] <= upper[n]

\* A node predicted to be redundant never gets more than its prediction,
\* whatever the repair did to the other nodes (core.py:287-289, 309-314).
RedundancyRespected ==
    \A n \in Node : Redundant(n) => allocation[n] <= PredictedK(n)

\* The repair of the caps never breaks a bound: not the floor, not the repaired
\* cap, not the prediction of a redundant node.
AllocationLawful == WithinBounds /\ RedundancyRespected

\* The exchange argument behind the greedy loop (core.py:341-349): no branch
\* already given is worth less than one still to be given.
GreedyChoice ==
    \A n, m \in Node :
        allocation[n] > Floor /\ allocation[m] < upper[m]
            => GainAtLeast(call.dispersion[n], allocation[n] - 1,
                           call.dispersion[m], allocation[m])

\* The whole budget is spent, or every cap that may not be raised is reached
\* and the rest is reported as slack (core.py:325-332, 342-345).
SpendsWhatItCan ==
    phase = "returned" =>
        /\ SumFunction(allocation) + slack = call.budget
        /\ slack > 0 =>
              \A n \in Node : allocation[n] = upper[n] /\ (Redundant(n) \/ upper[n] >= RepairCap)

\* Scale is a multiple of every branch number up to the highest cap, so Cost is
\* Scale times the objective, the sum of C_s / k_s, in whole numbers.
HighestCap == Max(Range(upper))
Scale == ProductSet(1 .. HighestCap)
Cost(f) == SumFunction([n \in Node |-> call.dispersion[n] * (Scale \div f[n])])

\* "Solve the unified bounded integer allocation exactly by marginal gains"
\* (core.py:246): among all allocations within the bounds that spend as much,
\* none has a smaller objective.
Optimal ==
    phase = "returned" =>
        \A f \in [Node -> Floor .. HighestCap] :
            /\ \A n \in Node : f[n] <= upper[n]
            /\ SumFunction(f) = SumFunction(allocation)
            => Cost(allocation) <= Cost(f)

\* An exact solution: all of the budget that may be spent, in the best way.
SolvedExactly == SpendsWhatItCan /\ Optimal
=============================================================================
