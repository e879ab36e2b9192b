---------------------------- MODULE SolverProofs ----------------------------
(* Proofs about the two solvers of the system: IntegerAllocation, for any     *)
(* nodes, dispersions, factors and budgets, and SeqlenBalance, for any number *)
(* of sequences and parts, any lengths and limits.                            *)
(*                                                                            *)
(* The greedy allocation is optimal by a price argument. GreedyChoice gives a *)
(* price that no branch given saves less than and no branch still to be given *)
(* saves more than. At that price each node's number of branches is the best  *)
(* one for the node by itself, and allocations that spend as much pay the     *)
(* same, so none of them has a smaller objective.                             *)
EXTENDS IntegerAllocation, SeqlenBalance, ListTheorems

ArgumentsOK ==
    call \in [dispersion : [Node -> Nat], default : [Node -> Nat],
              predicted : [Node -> Nat], budget : Nat, mode : Modes, policy : Policies]

BoundsOK ==
    /\ upper \in [Node -> Nat]
    /\ allocation \in [Node -> Nat]
    /\ WithinBounds

\* The repair raises only the caps that are not hard, from the start on.
CapsInv ==
    /\ phase = "bounds" => allocation = Lower
    /\ \A n \in Node : Redundant(n) => upper[n] <= PredictedK(n)

AllocInv == ArgumentsOK /\ BoundsOK /\ CapsInv /\ GreedyChoice

\* The floor is at least one, so no gain divides by zero, and every bound of
\* core.py:262-299 is a natural number not below the floor.
LEMMA FloorPositive == Floor \in Nat /\ Floor >= 1
  BY CallAssumption DEF Floor, AtLeast

\* The caps are ordered.
LEMMA CapsAboveFloor ==
  MaxCap \in Nat /\ RepairCap \in Nat /\ MaxCap >= Floor /\ RepairCap >= MaxCap
  BY FloorPositive, CallAssumption DEF MaxCap, RepairCap, AtLeast

\* The factors of a node are at least the floor.
LEMMA NodeFactors ==
  ASSUME ArgumentsOK, NEW n \in Node
  PROVE  /\ DefaultK(n) \in Nat /\ DefaultK(n) >= Floor
         /\ PredictedK(n) \in Nat /\ PredictedK(n) >= Floor
  <1>1. call.default[n] \in Nat /\ call.predicted[n] \in Nat
    BY DEF ArgumentsOK
  <1>2. QED
    BY <1>1, FloorPositive DEF DefaultK, PredictedK, AtLeast

\* Bounds before and after the repair: none is below the floor, and the cap of
\* a redundant node is its prediction.
LEMMA UpperBounds ==
  ASSUME ArgumentsOK
  PROVE  /\ FinalUpper \in [Node -> Nat]
         /\ \A n \in Node : Floor <= FinalUpper[n]
         /\ \A n \in Node : Redundant(n) => FinalUpper[n] = PredictedK(n)
  <1>1. /\ InitialUpper \in [Node -> Nat]
        /\ \A n \in Node : Floor <= InitialUpper[n]
        /\ \A n \in Node : Redundant(n) => InitialUpper[n] = PredictedK(n)
    BY NodeFactors, CapsAboveFloor, FloorPositive DEF InitialUpper
  <1>2. /\ Repaired \in [Node -> Nat]
        /\ \A n \in Node : Floor <= Repaired[n]
        /\ \A n \in Node : Redundant(n) => Repaired[n] = PredictedK(n)
    BY <1>1, CapsAboveFloor, FloorPositive DEF Repaired, AtLeast
  <1>3. QED
    BY <1>1, <1>2 DEF FinalUpper

\* One more branch never gains more than the one before it.
LEMMA GainDecreases ==
  ASSUME NEW c \in Nat, NEW d \in Nat, NEW j \in Nat, NEW l \in Nat,
         GainAtLeast(c, j, d, l)
  PROVE  GainAtLeast(c, j, d, l + 1)
  <1> DEFINE P == l * (l + 1)
             Q == (l + 1) * ((l + 1) + 1)
             R == d * (j * (j + 1))
  <1>1. P \in Nat /\ Q \in Nat /\ R \in Nat
    OBVIOUS
  <1>2. Q = P + 2 * (l + 1)
    OBVIOUS
  <1>3. c * P >= R
    BY DEF GainAtLeast
  <1>4. c * Q = c * P + c * (2 * (l + 1))
    BY <1>2
  <1>5. c * (2 * (l + 1)) \in Nat /\ c * P \in Nat
    BY <1>1
  <1> HIDE DEF P, Q, R
  <1>6. c * Q >= R
    BY <1>1, <1>3, <1>4, <1>5
  <1>7. QED
    BY <1>6 DEF GainAtLeast, P, Q, R

LEMMA GainReflexive ==
  ASSUME NEW c \in Nat, NEW j \in Nat
  PROVE  GainAtLeast(c, j, c, j)
  <1>1. c * (j * (j + 1)) \in Nat
    OBVIOUS
  <1>2. QED
    BY <1>1 DEF GainAtLeast

\* The invariant holds initially and is kept by every step.
LEMMA InitAllocInv == SolverInit => AllocInv
  <1> SUFFICES ASSUME SolverInit PROVE AllocInv
    OBVIOUS
  <1>1. ArgumentsOK
    BY CallAssumption DEF SolverInit, ArgumentsOK
  <1>2. /\ upper = Lower /\ allocation = Lower
        /\ Lower \in [Node -> Nat] /\ \A n \in Node : Lower[n] = Floor
    BY FloorPositive DEF SolverInit, Lower
  <1>3. BoundsOK
    BY <1>2, FloorPositive DEF BoundsOK, WithinBounds
  <1>4. CapsInv
    BY <1>1, <1>2, NodeFactors DEF CapsInv
  <1>5. GreedyChoice
    BY <1>2, FloorPositive DEF GreedyChoice
  <1>6. QED
    BY <1>1, <1>3, <1>4, <1>5 DEF AllocInv

\* A step that keeps the arguments, the bounds and the allocation.
LEMMA UnchangedAllocInv ==
  ASSUME AllocInv, UNCHANGED <<call, upper, allocation>>,
         phase' = "bounds" => phase = "bounds"
  PROVE  AllocInv'
  <1>1. ArgumentsOK'
    BY DEF AllocInv, ArgumentsOK
  <1>2. BoundsOK'
    BY DEF AllocInv, BoundsOK, WithinBounds
  <1>3. CapsInv'
    BY DEF AllocInv, CapsInv, Redundant, PredictedK, DefaultK, Lower
  <1>4. GreedyChoice'
    BY DEF AllocInv, GreedyChoice
  <1>5. QED
    BY <1>1, <1>2, <1>3, <1>4 DEF AllocInv

LEMMA SetBoundsAllocInv == AllocInv /\ SetBounds => AllocInv'
  <1> SUFFICES ASSUME AllocInv, SetBounds PROVE AllocInv'
    OBVIOUS
  <1>1. ArgumentsOK /\ call' = call
    BY DEF AllocInv, SetBounds
  <1>2. /\ upper' = FinalUpper /\ allocation' = Lower /\ phase' = "growing"
        /\ Lower \in [Node -> Nat] /\ \A n \in Node : Lower[n] = Floor
    BY FloorPositive DEF AllocInv, CapsInv, SetBounds, Lower
  <1>3. ArgumentsOK'
    BY <1>1 DEF ArgumentsOK
  <1>4. BoundsOK'
    BY <1>1, <1>2, UpperBounds, FloorPositive DEF BoundsOK, WithinBounds
  <1>5. CapsInv'
    <2>1. \A n \in Node : Redundant(n)' = Redundant(n) /\ PredictedK(n)' = PredictedK(n)
      BY <1>1 DEF Redundant, PredictedK, DefaultK
    <2>2. \A n \in Node : Redundant(n) => FinalUpper[n] <= PredictedK(n)
      BY <1>1, UpperBounds, NodeFactors
    <2>3. QED
      BY <1>2, <2>1, <2>2 DEF CapsInv
  <1>6. GreedyChoice'
    BY <1>2, FloorPositive DEF GreedyChoice
  <1>7. QED
    BY <1>3, <1>4, <1>5, <1>6 DEF AllocInv

\* The heap's order makes the exchange argument inductive: the branch just
\* given was worth most, and the next one of that node is worth less.
LEMMA GiveBranchAllocInv == AllocInv /\ GiveBranch => AllocInv'
  <1> SUFFICES ASSUME AllocInv, GiveBranch PROVE AllocInv'
    OBVIOUS
  <1>1. PICK w \in Open : /\ \A m \in Open : Precedes(w, m)
                          /\ allocation' = [allocation EXCEPT ![w] = @ + 1]
    BY DEF GiveBranch
  <1>2. /\ UNCHANGED <<call, phase, upper>> /\ phase = "growing"
        /\ upper \in [Node -> Nat] /\ allocation \in [Node -> Nat]
        /\ call.dispersion \in [Node -> Nat]
        /\ w \in Node /\ allocation[w] < upper[w]
    BY DEF GiveBranch, AllocInv, ArgumentsOK, BoundsOK, Open
  <1>3. /\ allocation' \in [Node -> Nat]
        /\ allocation'[w] = allocation[w] + 1
        /\ \A n \in Node \ {w} : allocation'[n] = allocation[n]
    BY <1>1, <1>2
  <1>4. ArgumentsOK'
    BY <1>2 DEF AllocInv, ArgumentsOK
  <1>5. BoundsOK'
    BY <1>2, <1>3, FloorPositive DEF AllocInv, BoundsOK, WithinBounds
  <1>6. CapsInv'
    BY <1>2 DEF AllocInv, CapsInv, Redundant, PredictedK, DefaultK
  <1>7. GreedyChoice'
    <2> DEFINE gives(n) == allocation[n] - 1
               c(n) == call.dispersion[n]
    <2> SUFFICES ASSUME NEW n \in Node, NEW m \in Node,
                        allocation'[n] > Floor, allocation'[m] < upper[m]
                 PROVE  GainAtLeast(c(n), allocation'[n] - 1, c(m), allocation'[m])
      BY <1>2 DEF GreedyChoice
    <2>1. c(n) \in Nat /\ c(m) \in Nat /\ allocation[n] \in Nat /\ allocation[m] \in Nat
      BY <1>2
    <2>2. CASE n = w
      <3>1. allocation'[n] - 1 = allocation[w]
        BY <1>2, <1>3, <2>2
      <3>2. CASE m = w
        <4>1. GainAtLeast(c(w), allocation[w], c(w), allocation[w])
          BY <2>1, <2>2, GainReflexive
        <4>2. GainAtLeast(c(w), allocation[w], c(w), allocation[w] + 1)
          BY <2>1, <2>2, <4>1, GainDecreases
        <4>3. QED
          BY <1>3, <2>2, <3>1, <3>2, <4>2
      <3>3. CASE m # w
        <4>1. m \in Open
          BY <1>2, <1>3, <3>3 DEF Open
        <4>2. GainAtLeast(c(w), allocation[w], c(m), allocation[m])
          BY <1>1, <4>1 DEF Precedes
        <4>3. QED
          BY <1>3, <2>2, <3>1, <3>3, <4>2
      <3>4. QED
        BY <3>2, <3>3
    <2>3. CASE n # w
      <3>1. allocation'[n] = allocation[n] /\ allocation[n] > Floor /\ gives(n) \in Nat
        BY <1>3, <2>1, <2>3, FloorPositive
      <3>2. CASE m = w
        <4>1. GainAtLeast(c(n), gives(n), c(w), allocation[w])
          BY <1>2, <3>1 DEF AllocInv, GreedyChoice
        <4>2. GainAtLeast(c(n), gives(n), c(w), allocation[w] + 1)
          BY <2>1, <3>1, <3>2, <4>1, GainDecreases
        <4>3. QED
          BY <1>3, <3>1, <3>2, <4>2
      <3>3. CASE m # w
        BY <1>3, <3>1, <3>3 DEF AllocInv, GreedyChoice
      <3>4. QED
        BY <3>2, <3>3
    <2>4. QED
      BY <2>2, <2>3
  <1>8. QED
    BY <1>4, <1>5, <1>6, <1>7 DEF AllocInv

LEMMA NextAllocInv == AllocInv /\ [SolverNext]_solverVars => AllocInv'
  <1> SUFFICES ASSUME AllocInv, [SolverNext]_solverVars PROVE AllocInv'
    OBVIOUS
  <1>1. CASE RejectBudget
    BY <1>1, UnchangedAllocInv DEF RejectBudget
  <1>2. CASE SetBounds
    BY <1>2, SetBoundsAllocInv
  <1>3. CASE GiveBranch
    BY <1>3, GiveBranchAllocInv
  <1>4. CASE Summarize
    BY <1>4, UnchangedAllocInv DEF Summarize
  <1>5. CASE UNCHANGED solverVars
    BY <1>5, UnchangedAllocInv DEF solverVars
  <1>6. QED
    BY <1>1, <1>2, <1>3, <1>4, <1>5 DEF SolverNext

LEMMA AllocInvHolds == SolverSpec => []AllocInv
  BY InitAllocInv, NextAllocInv, PTL DEF SolverSpec

\* Every allocation, finished or under way, is within its bounds: the check of
\* core.py:356-358 never fails.
THEOREM AllocationsWithinBounds == SolverSpec => []WithinBounds
  <1>1. AllocInv => WithinBounds
    BY DEF AllocInv, BoundsOK
  <1>2. QED
    BY <1>1, AllocInvHolds, PTL

\* A node predicted to be redundant never gets more branches than predicted,
\* however the bounds of the others were repaired (core.py:282-316).
THEOREM RedundantNodesCapped == SolverSpec => []RedundancyRespected
  <1>1. AllocInv => RedundancyRespected
    <2> SUFFICES ASSUME AllocInv, NEW n \in Node, Redundant(n)
                 PROVE  allocation[n] <= PredictedK(n)
      BY DEF RedundancyRespected
    <2>1. upper[n] \in Nat /\ allocation[n] \in Nat /\ PredictedK(n) \in Nat
      BY NodeFactors DEF AllocInv, BoundsOK
    <2>2. allocation[n] <= upper[n] /\ upper[n] <= PredictedK(n)
      BY DEF AllocInv, BoundsOK, WithinBounds, CapsInv
    <2>3. QED
      BY <2>1, <2>2
  <1>2. QED
    BY <1>1, AllocInvHolds, PTL

\* The repair of the caps breaks no bound, for any nodes, dispersions, factors
\* and budgets.
THEOREM AllocationsAlwaysLawful == SolverSpec => []AllocationLawful
  <1>1. WithinBounds /\ RedundancyRespected => AllocationLawful
    BY DEF AllocationLawful
  <1>2. QED
    BY <1>1, AllocationsWithinBounds, RedundantNodesCapped, PTL

\* No branch given by the greedy loop (core.py:341-349) is worth less than one
\* that could be given instead.
THEOREM NoBetterExchange == SolverSpec => []GreedyChoice
  <1>1. AllocInv => GreedyChoice
    BY DEF AllocInv
  <1>2. QED
    BY <1>1, AllocInvHolds, PTL

\* What one more unit of i saves of s, in s-ths of a product.
LEMMA GainOf ==
  ASSUME NEW s \in Nat, NEW i \in Nat, NEW p \in Nat, NEW q \in Nat,
         i * p = s, (i + 1) * q = s
  PROVE  (p - q) * (i * (i + 1)) = s
<1>1. (p - q) * (i * (i + 1)) = (i * p) * (i + 1) - ((i + 1) * q) * i
  OBVIOUS
<1>2. s * (i + 1) - s * i = s
  OBVIOUS
<1>3. QED  BY <1>1, <1>2

\* What another branch saves is a natural number.
LEMMA SavingPositive ==
  ASSUME NEW s \in Nat, NEW i \in Nat \ {0}, NEW g \in Int, g * (i * (i + 1)) = s
  PROVE  g \in Nat
<1>1. i * (i + 1) \in Nat \ {0}
  OBVIOUS
<1>2. 0 * (i * (i + 1)) <= g * (i * (i + 1))
  OBVIOUS
<1>3. 0 <= g
  <2> DEFINE m == i * (i + 1)
  <2>1. m \in Nat \ {0} /\ 0 * m <= g * m
    BY <1>1, <1>2
  <2> HIDE DEF m
  <2>2. QED  BY <2>1, Cancels
<1>4. QED  BY <1>3

\* The comparison of the heap, by cross-multiplication, compares the gains.
LEMMA GainsCompared ==
  ASSUME NEW s \in Nat, NEW i \in Nat \ {0}, NEW l \in Nat \ {0},
         NEW c \in Nat, NEW d \in Nat, NEW g \in Int, NEW h \in Int,
         g * (i * (i + 1)) = s, h * (l * (l + 1)) = s,
         c * (l * (l + 1)) >= d * (i * (i + 1))
  PROVE  d * h <= c * g
<1> DEFINE K == i * (i + 1)
           L == l * (l + 1)
<1>1. K \in Nat \ {0} /\ L \in Nat \ {0} /\ g * K = s /\ h * L = s /\ d * K <= c * L
  OBVIOUS
<1> HIDE DEF K, L
<1>2. (d * K) * s <= (c * L) * s
  BY <1>1, Scales
<1>3. (d * h) * (K * L) = (d * K) * (h * L) /\ (c * g) * (K * L) = (c * L) * (g * K)
  BY <1>1
<1>4. (d * h) * (K * L) <= (c * g) * (K * L) /\ K * L \in Nat \ {0}
  BY <1>1, <1>2, <1>3
<1>5. d * h \in Int /\ c * g \in Int
  OBVIOUS
<1> DEFINE M == K * L
           A == d * h
           B == c * g
<1>6. M \in Nat \ {0} /\ A \in Int /\ B \in Int /\ A * M <= B * M
  BY <1>4, <1>5
<1> HIDE DEF M, A, B
<1>7. A <= B  BY <1>6, Cancels
<1>8. QED  BY <1>7 DEF A, B

\* Above a, a unit saves no more than the one after a does.
LEMMA SavedAbove ==
  ASSUME NEW s \in Nat, NEW a \in Nat \ {0}, NEW j \in Nat, a < j,
         NEW p \in Nat, NEW q \in Nat, a * p = s, j * q = s,
         NEW g \in Nat, g * (a * (a + 1)) = s
  PROVE  p - q <= g * (j - a)
<1>1. (p - q) * (a * j) = (a * p) * j - (j * q) * a
  OBVIOUS
<1>2. s * j - s * a = s * (j - a)
  OBVIOUS
<1>3. (p - q) * (a * j) = s * (j - a)
  BY <1>1, <1>2
<1> DEFINE e == g * (j - a) * a
<1>4. s * (j - a) = e * (a + 1) /\ e \in Nat
  <2>1. j - a \in Nat
    OBVIOUS
  <2>2. (g * (a * (a + 1))) * (j - a) = (g * (j - a) * a) * (a + 1)
    BY <2>1
  <2>3. g * (j - a) * a \in Nat
    BY <2>1
  <2>4. QED  BY <2>2, <2>3
<1>5. e * (a + 1) <= e * j
  <2> HIDE DEF e
  <2>1. a + 1 <= j
    OBVIOUS
  <2>2. QED  BY <1>4, <2>1, Scales
<1>6. e * j = (g * (j - a)) * (a * j)
  OBVIOUS
<1> HIDE DEF e
<1> DEFINE M == a * j
           A == p - q
           B == g * (j - a)
<1>7. M \in Nat \ {0} /\ A \in Int /\ B \in Int
  OBVIOUS
<1>8. A * M <= B * M
  BY <1>3, <1>4, <1>5, <1>6
<1> HIDE DEF M, A, B
<1>9. A <= B  BY <1>7, <1>8, Cancels
<1>10. QED  BY <1>9 DEF A, B

\* Below a, a unit saved at least as much as the last one did.
LEMMA SavedBelow ==
  ASSUME NEW s \in Nat, NEW a \in Nat, NEW j \in Nat \ {0}, j < a,
         NEW p \in Nat, NEW q \in Nat, a * p = s, j * q = s,
         NEW g \in Nat, g * ((a - 1) * a) = s
  PROVE  g * (a - j) <= q - p
<1>1. (q - p) * (a * j) = (j * q) * a - (a * p) * j
  OBVIOUS
<1>2. s * a - s * j = s * (a - j)
  OBVIOUS
<1>3. (q - p) * (a * j) = s * (a - j)
  BY <1>1, <1>2
<1> DEFINE e == g * (a - j) * a
<1>4. s * (a - j) = e * (a - 1) /\ e \in Nat
  <2>1. a - j \in Nat /\ a - 1 \in Nat
    OBVIOUS
  <2>2. (g * ((a - 1) * a)) * (a - j) = (g * (a - j) * a) * (a - 1)
    BY <2>1
  <2>3. g * (a - j) * a \in Nat
    BY <2>1
  <2>4. QED  BY <2>2, <2>3
<1>5. e * j <= e * (a - 1)
  <2> HIDE DEF e
  <2>1. j <= a - 1 /\ a - 1 \in Int
    OBVIOUS
  <2>2. QED  BY <1>4, <2>1, Scales
<1>6. e * j = (g * (a - j)) * (a * j)
  OBVIOUS
<1> HIDE DEF e
<1> DEFINE M == a * j
           A == q - p
           B == g * (a - j)
<1>7. M \in Nat \ {0} /\ A \in Int /\ B \in Int
  OBVIOUS
<1>8. B * M <= A * M
  BY <1>3, <1>4, <1>5, <1>6
<1> HIDE DEF M, A, B
<1>9. B <= A  BY <1>7, <1>8, Cancels
<1>10. QED  BY <1>9 DEF A, B

ProductStep(f, h, s) == IF s = {} THEN 1 ELSE Pick(s) * h[s \ {Pick(s)}]

\* ProductSet is a fold, and each number up to n divides the product of them.
LEMMA ProductIsFold ==
  ASSUME NEW S, IsFiniteSet(S)
  PROVE  ProductSet(S) = Over("product", [x \in S |-> x], S)
<1> DEFINE f == [x \in S |-> x]
           P(h) == h = [s \in SUBSET S |-> ProductStep(f, h, s)]
           c == CHOOSE h : P(h)
<1>1. ProductSet(S) = c[S]
  BY DEF ProductSet, FoldSet, MapThenFoldSet, ProductStep, Pick
<1>2. ASSUME NEW h  PROVE P(h) <=> IsFold("product", f, h, S)
  <2>1. \A s \in SUBSET S : ProductStep(f, h, s) = Step("product", f, h, s)
    <3>1. ASSUME NEW s \in SUBSET S, s # {}  PROVE f[Pick(s)] = Pick(s)
      BY <3>1 DEF Pick
    <3>2. QED  BY <3>1 DEF Step, ProductStep, Combined, Neutral
  <2> HIDE DEF f
  <2>2. QED  BY <2>1 DEF IsFold
<1> HIDE DEF f
<1>3. PICK h : IsFold("product", f, h, S) /\ Over("product", f, S) = h[S]
  BY FoldIsOne
<1>4. P(c)
  <2>1. \E g : P(g)
    BY <1>2, <1>3
  <2> HIDE DEF P
  <2>2. QED  BY <2>1
<1>5. IsFold("product", f, c, S)
  <2> HIDE DEF c, P
  <2> QED BY <1>2, <1>4
<1> HIDE DEF c, P
<1>6. c[S] = h[S]
  BY <1>3, <1>5, FoldUnique
<1>7. QED  BY <1>1, <1>3, <1>6 DEF f

LEMMA ProductDivides ==
  ASSUME NEW n \in Nat, NEW j \in 1..n
  PROVE  ProductSet(1..n) \in Nat /\ \E q \in Nat : ProductSet(1..n) = j * q
<1> DEFINE D == 1..n
           f == [x \in D |-> x]
<1>1. IsFiniteSet(D) /\ (\A x \in D : f[x] \in Nat) /\ j \in D /\ f[j] = j /\ j \in Nat
  <2>1. IsFiniteSet(D)
    BY FS_Interval
  <2>2. QED  BY <2>1
<1> HIDE DEF D, f
<1>2. ProductSet(D) = Over("product", f, D)
  BY <1>1, ProductIsFold DEF f
<1>3. /\ Over("product", f, D) = Combined("product", f[j], Over("product", f, D \ {j}))
      /\ Over("product", f, D \ {j}) \in Nat /\ Over("product", f, D) \in Nat
  BY <1>1, FoldTakesOne
<1>4. QED  BY <1>1, <1>2, <1>3 DEF Combined, D

\* The sums over the nodes of the call.
LEMMA NodesFinite == IsFiniteSet(Node)
BY CallAssumption

LEMMA SumFunctionIsFold ==
  ASSUME NEW f, IsFiniteSet(DOMAIN f)
  PROVE  SumFunction(f) = Over("sum", f, DOMAIN f)
BY SumsAreFolds DEF SumFunction, SumFunctionOnSet, FoldFunctionOnSet

LEMMA TotalIsSum ==
  ASSUME NEW f, DOMAIN f = Node
  PROVE  SumFunction(f) = SumOver(f, Node)
BY SumFunctionIsFold, NodesFinite DEF SumOver

\* What SpendsWhatItCan needs at every step of the loop: nothing of the budget
\* is unaccounted for, and there is slack only if the repaired caps are met.
SpendingInv ==
    /\ remaining \in Nat /\ slack \in Nat
    /\ phase \in {"growing", "returned"} =>
          /\ SumFunction(allocation) + remaining + slack = call.budget
          /\ SumFunction(allocation) + remaining <= SumFunction(upper)
          /\ slack > 0 =>
                /\ SumFunction(allocation) + remaining = SumFunction(upper)
                /\ \A n \in Node : Redundant(n) \/ upper[n] >= RepairCap
    /\ phase = "returned" => remaining = 0

LEMMA TotalNat ==
  ASSUME NEW f \in [Node -> Nat]
  PROVE  SumFunction(f) \in Nat
<1>1. SumFunction(f) = SumOver(f, Node)
  BY TotalIsSum
<1>2. \A n \in Node : f[n] \in Nat
  OBVIOUS
<1>3. QED  BY <1>1, <1>2, SumBasics, NodesFinite

LEMMA TotalMonotone ==
  ASSUME NEW f \in [Node -> Nat], NEW g \in [Node -> Nat], \A n \in Node : f[n] <= g[n]
  PROVE  SumFunction(f) <= SumFunction(g)
<1>1. SumFunction(f) = SumOver(f, Node) /\ SumFunction(g) = SumOver(g, Node)
  BY TotalIsSum
<1>2. \A n \in Node : f[n] \in Nat /\ g[n] \in Nat /\ f[n] <= g[n]
  OBVIOUS
<1>3. QED  BY <1>1, <1>2, SumMonotone, NodesFinite

LEMMA TotalRigid ==
  ASSUME NEW f \in [Node -> Nat], NEW g \in [Node -> Nat], \A n \in Node : f[n] <= g[n],
         SumFunction(g) <= SumFunction(f)
  PROVE  f = g
<1>1. SumOver(g, Node) <= SumOver(f, Node)
  BY TotalIsSum
<1>2. \A n \in Node : f[n] \in Nat /\ g[n] \in Nat /\ f[n] <= g[n]
  OBVIOUS
<1>3. \A n \in Node : f[n] = g[n]
  BY <1>1, <1>2, SumRigid, NodesFinite
<1>4. QED  BY <1>3

LEMMA TotalOneMore ==
  ASSUME NEW f \in [Node -> Nat], NEW w \in Node, NEW g \in [Node -> Nat],
         g[w] = f[w] + 1, \A n \in Node \ {w} : g[n] = f[n]
  PROVE  SumFunction(g) = SumFunction(f) + 1
<1> DEFINE M == Node \ {w}
<1>1. /\ SumOver(f, Node) = f[w] + SumOver(f, M)
      /\ SumOver(g, Node) = g[w] + SumOver(g, M)
      /\ SumOver(f, M) \in Nat
  <2>1. /\ \A n \in Node : f[n] \in Nat
        /\ \A n \in Node : g[n] \in Nat
    OBVIOUS
  <2>2. SumOver(f, Node) = f[w] + SumOver(f, M) /\ SumOver(f, M) \in Nat
    BY <2>1, SumBasics, NodesFinite
  <2>3. SumOver(g, Node) = g[w] + SumOver(g, M)
    BY <2>1, SumBasics, NodesFinite
  <2>4. QED  BY <2>2, <2>3
<1>2. SumOver(g, M) = SumOver(f, M)
  <2>1. IsFiniteSet(M)
    BY NodesFinite, FS_Subset
  <2>2. \A n \in M : f[n] \in Nat /\ g[n] = f[n]
    OBVIOUS
  <2> HIDE DEF M
  <2>3. QED  BY <2>1, <2>2, SumEqual
<1>3. SumFunction(f) = SumOver(f, Node) /\ SumFunction(g) = SumOver(g, Node)
  BY TotalIsSum
<1>4. QED  BY <1>1, <1>2, <1>3

\* SpendingInv is kept along the solver.
LEMMA InitSpending == SolverInit => SpendingInv
BY DEF SolverInit, SpendingInv

LEMMA SetBoundsSpending ==
  ASSUME AllocInv, SpendingInv, SetBounds  PROVE SpendingInv'
<1> DEFINE B == call.budget
           F == SumFunction(FinalUpper)
           L == SumFunction(Lower)
           U == SumFunction(InitialUpper)
<1>1. /\ ArgumentsOK /\ allocation = Lower /\ allocation' = Lower /\ call' = call
      /\ upper' = FinalUpper /\ phase' = "growing"
  BY DEF SetBounds, AllocInv, CapsInv
<1>2. /\ Lower \in [Node -> Nat] /\ FinalUpper \in [Node -> Nat]
      /\ \A n \in Node : Lower[n] <= FinalUpper[n]
  BY <1>1, UpperBounds, FloorPositive DEF Lower
<1>3. B \in Nat /\ F \in Nat /\ L \in Nat /\ L <= F /\ B >= L
  <2>1. F \in Nat /\ L \in Nat
    BY <1>2, TotalNat
  <2>2. L <= F
    BY <1>2, TotalMonotone
  <2>3. QED  BY <1>1, <2>1, <2>2 DEF ArgumentsOK, SetBounds
<1>4. /\ slack' = B - (IF B > F THEN F ELSE B)
      /\ remaining' = (IF B > F THEN F ELSE B) - L
  BY DEF SetBounds
<1>5. /\ remaining' \in Nat /\ slack' \in Nat
      /\ L + remaining' + slack' = B /\ L + remaining' <= F
      /\ slack' > 0 => B > F /\ L + remaining' = F
  <2> HIDE DEF B, F, L
  <2>1. CASE B > F
    BY <1>3, <1>4, <2>1
  <2>2. CASE ~ (B > F)
    BY <1>3, <1>4, <2>2
  <2>3. QED  BY <2>1, <2>2
<1>6. ASSUME B > F, NEW n \in Node  PROVE Redundant(n) \/ FinalUpper[n] >= RepairCap
  <2>1. FinalUpper = Repaired
    <3>1. call.policy = "expand_nonredundant_caps"
      <4>1. call.policy \in Policies /\ call.policy # "error"
        BY <1>1, <1>6 DEF ArgumentsOK, SetBounds
      <4>2. QED  BY <4>1, CallAssumption
    <3>2. CASE call.budget > SumFunction(InitialUpper)
      BY <3>1, <3>2 DEF FinalUpper
    <3>3. CASE ~ (call.budget > SumFunction(InitialUpper))
      <4>1. FinalUpper = InitialUpper
        BY <3>3 DEF FinalUpper
      <4>2. QED  BY <1>6, <3>3, <4>1
    <3>4. QED  BY <3>2, <3>3
  <2>2. Repaired[n] = (IF Redundant(n) THEN InitialUpper[n] ELSE AtLeast(InitialUpper[n], RepairCap))
    BY DEF Repaired
  <2>3. RepairCap \in Nat /\ InitialUpper[n] \in Nat
    BY <1>1, CapsAboveFloor, NodeFactors DEF InitialUpper
  <2>4. AtLeast(InitialUpper[n], RepairCap) >= RepairCap
    BY <2>3 DEF AtLeast
  <2>5. QED  BY <2>1, <2>2, <2>4
<1>7. /\ SumFunction(allocation)' = L /\ SumFunction(upper)' = F /\ call.budget' = B
      /\ RepairCap' = RepairCap /\ \A n \in Node : Redundant(n)' = Redundant(n)
  BY <1>1 DEF Redundant, PredictedK, DefaultK, RepairCap, MaxCap, Floor, AtLeast
<1>8. slack' > 0 => \A n \in Node : Redundant(n)' \/ upper'[n] >= RepairCap'
  BY <1>1, <1>5, <1>6, <1>7
<1> HIDE DEF B, F, L
<1>9. QED  BY <1>1, <1>5, <1>7, <1>8 DEF SpendingInv

LEMMA GiveBranchSpending ==
  ASSUME AllocInv, SpendingInv, GiveBranch  PROVE SpendingInv'
<1>1. PICK w \in Open : allocation' = [allocation EXCEPT ![w] = @ + 1]
  BY DEF GiveBranch
<1>2. /\ UNCHANGED <<call, phase, upper, slack>> /\ phase = "growing"
      /\ remaining > 0 /\ remaining' = remaining - 1 /\ remaining \in Nat /\ slack \in Nat
      /\ upper \in [Node -> Nat] /\ allocation \in [Node -> Nat] /\ w \in Node
  BY DEF GiveBranch, AllocInv, BoundsOK, Open, SpendingInv
<1>3. SumFunction(allocation') = SumFunction(allocation) + 1
  <2>1. /\ allocation' \in [Node -> Nat] /\ allocation'[w] = allocation[w] + 1
        /\ \A n \in Node \ {w} : allocation'[n] = allocation[n]
    BY <1>1, <1>2
  <2>2. QED  BY <1>2, <2>1, TotalOneMore
<1>4. SumFunction(allocation) \in Nat /\ SumFunction(upper) \in Nat
  BY <1>2, TotalNat
<1>5. SumFunction(allocation)' = SumFunction(allocation') /\ SumFunction(upper)' = SumFunction(upper)
  BY <1>2 DEF SumFunction
<1>6. SumFunction(allocation)' + remaining' = SumFunction(allocation) + remaining /\ remaining' \in Nat
  BY <1>2, <1>3, <1>4, <1>5
<1>7. call.budget' = call.budget /\ \A n \in Node : Redundant(n)' = Redundant(n)
  BY <1>2 DEF Redundant, PredictedK, DefaultK
<1>8. QED
  BY <1>2, <1>5, <1>6, <1>7 DEF SpendingInv, RepairCap, MaxCap, Floor

\* With no node left to give a branch to, nothing is left to give.
LEMMA NothingRemains ==
  ASSUME AllocInv, SpendingInv, phase = "growing", remaining = 0 \/ Open = {}
  PROVE  remaining = 0
<1> SUFFICES ASSUME Open = {}  PROVE remaining = 0
  OBVIOUS
<1>1. upper \in [Node -> Nat] /\ allocation \in [Node -> Nat]
  BY DEF AllocInv, BoundsOK
<1>2. \A n \in Node : upper[n] <= allocation[n]
  BY <1>1 DEF Open
<1>3. SumFunction(upper) <= SumFunction(allocation)
  BY <1>1, <1>2, TotalMonotone
<1>4. SumFunction(allocation) \in Nat /\ SumFunction(upper) \in Nat
  BY <1>1, TotalNat
<1>5. SumFunction(allocation) + remaining <= SumFunction(upper) /\ remaining \in Nat
  BY DEF SpendingInv
<1>6. QED  BY <1>3, <1>4, <1>5

LEMMA NextSpending == AllocInv /\ SpendingInv /\ [SolverNext]_solverVars => SpendingInv'
<1> SUFFICES ASSUME AllocInv, SpendingInv, [SolverNext]_solverVars  PROVE SpendingInv'
  OBVIOUS
<1>1. CASE RejectBudget
  BY <1>1 DEF RejectBudget, SpendingInv
<1>2. CASE SetBounds
  BY <1>2, SetBoundsSpending
<1>3. CASE GiveBranch
  BY <1>3, GiveBranchSpending
<1>4. CASE Summarize
  <2>1. remaining = 0 /\ phase = "growing" /\ phase' = "returned"
        /\ UNCHANGED <<call, upper, allocation, remaining, slack>>
    BY <1>4, NothingRemains DEF Summarize
  <2>2. QED
    BY <2>1 DEF SpendingInv, Redundant, PredictedK, DefaultK
<1>5. CASE UNCHANGED solverVars
  BY <1>5 DEF solverVars, SpendingInv, Redundant, PredictedK, DefaultK
<1>6. QED
  BY <1>1, <1>2, <1>3, <1>4, <1>5 DEF SolverNext

LEMMA SpendingHolds == SolverSpec => []SpendingInv
BY AllocInvHolds, InitSpending, NextSpending, PTL DEF SolverSpec

\* At the end nothing of the budget is left over that could have been spent.
LEMMA SpentWell ==
  AllocInv /\ SpendingInv => SpendsWhatItCan
<1> SUFFICES ASSUME AllocInv, SpendingInv, phase = "returned"
             PROVE  /\ SumFunction(allocation) + slack = call.budget
                    /\ slack > 0 =>
                         \A n \in Node : allocation[n] = upper[n] /\ (Redundant(n) \/ upper[n] >= RepairCap)
  BY DEF SpendsWhatItCan
<1>1. upper \in [Node -> Nat] /\ allocation \in [Node -> Nat]
      /\ \A n \in Node : allocation[n] <= upper[n]
  BY DEF AllocInv, BoundsOK, WithinBounds
<1>2. SumFunction(allocation) \in Nat /\ SumFunction(upper) \in Nat
  BY <1>1, TotalNat
<1>3. /\ remaining = 0 /\ slack \in Nat
      /\ SumFunction(allocation) + remaining + slack = call.budget
      /\ slack > 0 =>
            /\ SumFunction(allocation) + remaining = SumFunction(upper)
            /\ \A n \in Node : Redundant(n) \/ upper[n] >= RepairCap
  BY DEF SpendingInv
<1>4. ASSUME slack > 0  PROVE allocation = upper
  <2>1. SumFunction(upper) <= SumFunction(allocation)
    BY <1>2, <1>3, <1>4
  <2>2. QED  BY <1>1, <2>1, TotalRigid
<1>5. QED  BY <1>2, <1>3, <1>4

\* What one branch more than j saves of a dispersion of one, times Scale.
Saving(j) == (Scale \div j) - (Scale \div (j + 1))

\* Scale can be divided by every branch number that occurs.
LEMMA HighestBounds ==
  ASSUME AllocInv
  PROVE  HighestCap \in Nat /\ \A n \in Node : upper[n] <= HighestCap
<1>1. upper \in [Node -> Nat] /\ Node # {}
  BY CallAssumption DEF AllocInv, BoundsOK
<1>2. Range(upper) \subseteq Nat /\ Range(upper) # {} /\ \A n \in Node : upper[n] \in Range(upper)
  BY <1>1 DEF Range
<1>3. IsFiniteSet(Range(upper))
  <2>1. upper \in Surjection(Node, Range(upper))
    BY <1>1 DEF Surjection, Range
  <2>2. QED  BY <2>1, NodesFinite, FS_Surjection
<1>4. QED  BY <1>2, <1>3, LargestIn DEF HighestCap

LEMMA ScaleDivided ==
  ASSUME HighestCap \in Nat, NEW j \in 1 .. HighestCap
  PROVE  Scale \in Nat /\ Scale \div j \in Nat /\ j * (Scale \div j) = Scale
<1>1. Scale \in Nat /\ \E q \in Nat : Scale = j * q
  BY ProductDivides DEF Scale
<1>2. PICK q \in Nat : Scale = j * q
  BY <1>1
<1>3. (j * q) \div j = q
  BY DivisionExact
<1>4. QED  BY <1>1, <1>2, <1>3

LEMMA SavingDivided ==
  ASSUME HighestCap \in Nat, NEW j \in 1 .. HighestCap, j + 1 <= HighestCap
  PROVE  Saving(j) \in Nat /\ Saving(j) * (j * (j + 1)) = Scale
<1> DEFINE s == Scale
           p == Scale \div j
           q == Scale \div (j + 1)
<1>1. s \in Nat /\ p \in Nat /\ j * p = s
  BY ScaleDivided
<1>2. q \in Nat /\ (j + 1) * q = s
  <2>1. j + 1 \in 1 .. HighestCap
    OBVIOUS
  <2>2. QED  BY <2>1, ScaleDivided
<1>3. j \in Nat \ {0} /\ p - q \in Int /\ Saving(j) = p - q
  BY <1>1, <1>2 DEF Saving
<1> HIDE DEF s, p, q
<1>4. (p - q) * (j * (j + 1)) = s
  BY <1>1, <1>2, <1>3, GainOf
<1>5. p - q \in Nat
  BY <1>1, <1>3, <1>4, SavingPositive
<1>6. QED  BY <1>3, <1>4, <1>5 DEF s

\* If l is between what the last branch saved and what the next one would save,
\* no other number of branches is better at the price of l per branch.
LEMMA BestAtPrice ==
  ASSUME HighestCap \in Nat, NEW c \in Nat, NEW l \in Nat,
         NEW a \in 1 .. HighestCap, NEW j \in 1 .. HighestCap,
         j < a => l <= c * Saving(a - 1),
         a < j => c * Saving(a) <= l
  PROVE  c * (Scale \div a) + l * a <= c * (Scale \div j) + l * j
<1> DEFINE s == Scale
           p == Scale \div a
           q == Scale \div j
<1>1. /\ s \in Nat /\ p \in Nat /\ q \in Nat /\ a * p = s /\ j * q = s
      /\ a \in Nat \ {0} /\ j \in Nat \ {0}
  BY ScaleDivided
<1>2. CASE a < j
  <2> DEFINE g == Saving(a)
  <2>1. g \in Nat /\ g * (a * (a + 1)) = s /\ c * g <= l
    BY <1>2, SavingDivided
  <2> HIDE DEF s, p, q, g
  <2>2. p - q <= g * (j - a)
    BY <1>1, <1>2, <2>1, SavedAbove
  <2>3. j - a \in Nat /\ g * (j - a) \in Int /\ p - q \in Int
    BY <1>1, <1>2, <2>1
  <2>4. c * (p - q) <= c * (g * (j - a))
    <3> DEFINE e == g * (j - a)
               d == p - q
    <3>1. e \in Int /\ d \in Int /\ d <= e
      BY <2>2, <2>3
    <3> HIDE DEF e, d
    <3>2. c * d <= c * e
      BY <3>1, Scales
    <3>3. QED  BY <3>2 DEF e, d
  <2>5. (c * g) * (j - a) <= l * (j - a)
    <3> DEFINE e == c * g
               d == j - a
    <3>1. e \in Int /\ d \in Nat /\ e <= l
      BY <2>1, <2>3
    <3> HIDE DEF e, d
    <3>2. e * d <= l * d
      BY <3>1, Scales
    <3>3. QED  BY <3>2 DEF e, d
  <2>6. c * (g * (j - a)) = (c * g) * (j - a)
    BY <1>1, <2>1
  <2>7. c * (p - q) = c * p - c * q /\ l * (j - a) = l * j - l * a
    BY <1>1
  <2>8. c * p - c * q <= l * j - l * a
    <3>1. c * (p - q) \in Int /\ (c * g) * (j - a) \in Int /\ l * (j - a) \in Int
      BY <1>1, <2>1, <2>3
    <3>2. c * (p - q) <= l * (j - a)
      BY <2>4, <2>5, <2>6, <3>1
    <3>3. QED  BY <2>7, <3>2
  <2>9. c * p \in Int /\ c * q \in Int /\ l * j \in Int /\ l * a \in Int
    BY <1>1
  <2>10. c * p + l * a <= c * q + l * j
    BY <2>8, <2>9
  <2>11. QED  BY <2>10 DEF p, q
<1>3. CASE j < a
  <2> DEFINE g == Saving(a - 1)
  <2>1. g \in Nat /\ g * ((a - 1) * a) = s /\ l <= c * g
    <3>1. a - 1 \in 1 .. HighestCap /\ (a - 1) + 1 = a /\ (a - 1) + 1 <= HighestCap
      BY <1>1, <1>3
    <3>2. g \in Nat /\ g * ((a - 1) * ((a - 1) + 1)) = s
      BY <3>1, SavingDivided
    <3>3. QED  BY <1>3, <3>1, <3>2
  <2> HIDE DEF s, p, q, g
  <2>2. g * (a - j) <= q - p
    BY <1>1, <1>3, <2>1, SavedBelow
  <2>3. a - j \in Nat /\ g * (a - j) \in Int /\ q - p \in Int
    BY <1>1, <1>3, <2>1
  <2>4. c * (g * (a - j)) <= c * (q - p)
    <3> DEFINE e == g * (a - j)
               d == q - p
    <3>1. e \in Int /\ d \in Int /\ e <= d
      BY <2>2, <2>3
    <3> HIDE DEF e, d
    <3>2. c * e <= c * d
      BY <3>1, Scales
    <3>3. QED  BY <3>2 DEF e, d
  <2>5. l * (a - j) <= (c * g) * (a - j)
    <3> DEFINE e == c * g
               d == a - j
    <3>1. e \in Int /\ d \in Nat /\ l <= e
      BY <2>1, <2>3
    <3> HIDE DEF e, d
    <3>2. l * d <= e * d
      BY <3>1, Scales
    <3>3. QED  BY <3>2 DEF e, d
  <2>6. c * (g * (a - j)) = (c * g) * (a - j)
    BY <1>1, <2>1
  <2>7. c * (q - p) = c * q - c * p /\ l * (a - j) = l * a - l * j
    BY <1>1
  <2>8. l * a - l * j <= c * q - c * p
    <3>1. c * (q - p) \in Int /\ (c * g) * (a - j) \in Int /\ l * (a - j) \in Int
      BY <1>1, <2>1, <2>3
    <3>2. l * (a - j) <= c * (q - p)
      BY <2>4, <2>5, <2>6, <3>1
    <3>3. QED  BY <2>7, <3>2
  <2>9. c * p \in Int /\ c * q \in Int /\ l * j \in Int /\ l * a \in Int
    BY <1>1
  <2>10. c * p + l * a <= c * q + l * j
    BY <2>8, <2>9
  <2>11. QED  BY <2>10 DEF p, q
<1>4. CASE a = j
  <2>1. c * p + l * a \in Int
    BY <1>1
  <2>2. QED  BY <1>4, <2>1
<1>5. QED  BY <1>1, <1>2, <1>3, <1>4

\* Every allocation is at least one and at most the highest cap.
LEMMA NodeRanges ==
  ASSUME AllocInv, NEW n \in Node
  PROVE  /\ call.dispersion[n] \in Nat /\ allocation[n] \in Nat /\ upper[n] \in Nat
         /\ Floor \in Nat /\ 1 <= Floor /\ Floor <= allocation[n]
         /\ allocation[n] <= upper[n] /\ upper[n] <= HighestCap /\ HighestCap \in Nat
         /\ allocation[n] \in 1 .. HighestCap
<1>1. /\ call.dispersion[n] \in Nat /\ allocation[n] \in Nat /\ upper[n] \in Nat
      /\ Floor \in Nat /\ 1 <= Floor /\ Floor <= allocation[n]
      /\ allocation[n] <= upper[n]
  BY FloorPositive DEF AllocInv, ArgumentsOK, BoundsOK, WithinBounds
<1>2. upper[n] <= HighestCap /\ HighestCap \in Nat
  BY HighestBounds
<1>3. QED  BY <1>1, <1>2

\* A price of a branch that the branches given are worth and the others are not.
LEMMA PriceExists ==
  ASSUME AllocInv, NEW w \in Node, allocation[w] > Floor
  PROVE  \E l \in Nat : \A n \in Node :
           /\ allocation[n] > Floor => l <= call.dispersion[n] * Saving(allocation[n] - 1)
           /\ allocation[n] < upper[n] => call.dispersion[n] * Saving(allocation[n]) <= l
<1> DEFINE worth(n) == call.dispersion[n] * Saving(allocation[n] - 1)
           T == {worth(n) : n \in {m \in Node : allocation[m] > Floor}}
<1>1. ASSUME NEW n \in Node, allocation[n] > Floor
      PROVE  /\ Saving(allocation[n] - 1) \in Nat /\ worth(n) \in Nat
             /\ Saving(allocation[n] - 1) * ((allocation[n] - 1) * allocation[n]) = Scale
  <2>1. /\ HighestCap \in Nat /\ allocation[n] - 1 \in 1 .. HighestCap
        /\ (allocation[n] - 1) + 1 = allocation[n] /\ (allocation[n] - 1) + 1 <= HighestCap
    BY <1>1, NodeRanges
  <2>2. /\ Saving(allocation[n] - 1) \in Nat
        /\ Saving(allocation[n] - 1) * ((allocation[n] - 1) * ((allocation[n] - 1) + 1)) = Scale
    BY <2>1, SavingDivided
  <2>3. \A x, y \in Nat : x * y \in Nat
    OBVIOUS
  <2>4. worth(n) \in Nat
    BY <2>2, <2>3, NodeRanges
  <2>5. QED  BY <2>1, <2>2, <2>4
<1>2. PICK l \in T : \A y \in T : l <= y
  <2>1. T \subseteq Nat
    BY <1>1
  <2>2. T # {}
    OBVIOUS
  <2> HIDE DEF T
  <2>3. QED  BY <2>1, <2>2, SmallestIn
<1>3. PICK v \in Node : allocation[v] > Floor /\ l = worth(v)
  BY <1>2
<1>4. l \in Nat /\ \A n \in Node : allocation[n] > Floor => l <= worth(n)
  BY <1>1, <1>2, <1>3
<1>5. ASSUME NEW n \in Node, allocation[n] < upper[n]
      PROVE  call.dispersion[n] * Saving(allocation[n]) <= l
  <2> DEFINE s == Scale
             i == allocation[v] - 1
             j == allocation[n]
             c == call.dispersion[v]
             d == call.dispersion[n]
             g == Saving(i)
             h == Saving(j)
  <2>1. /\ c \in Nat /\ d \in Nat /\ i \in Nat \ {0} /\ j \in Nat \ {0} /\ i + 1 = allocation[v]
        /\ HighestCap \in Nat /\ j \in 1 .. HighestCap /\ j + 1 <= HighestCap
    BY <1>3, <1>5, NodeRanges
  <2>2. s \in Nat /\ h \in Int /\ h * (j * (j + 1)) = s
    <3>1. s \in Nat
      BY <2>1, ScaleDivided
    <3>2. h \in Nat /\ h * (j * (j + 1)) = s
      BY <2>1, SavingDivided
    <3>3. QED  BY <3>1, <3>2
  <2>3. g \in Int /\ g * (i * (i + 1)) = s
    BY <1>1, <1>3, <2>1
  <2>4. c * (j * (j + 1)) >= d * (i * (i + 1))
    BY <1>3, <1>5 DEF AllocInv, GreedyChoice, GainAtLeast
  <2> HIDE DEF s, i, j, c, d, g, h
  <2>5. d * h <= c * g
    BY <2>1, <2>2, <2>3, <2>4, GainsCompared
  <2>6. QED  BY <1>3, <2>5 DEF i, j, c, d, g, h
<1> HIDE DEF T
<1>6. QED  BY <1>4, <1>5

\* "Solve the unified bounded integer allocation exactly by marginal gains."
LEMMA GreedyIsBest == AllocInv => Optimal
<1> SUFFICES ASSUME AllocInv, NEW f \in [Node -> Floor .. HighestCap],
                    \A n \in Node : f[n] <= upper[n],
                    SumFunction(f) = SumFunction(allocation)
             PROVE  Cost(allocation) <= Cost(f)
  BY DEF Optimal
<1> DEFINE c(n) == call.dispersion[n]
           x == [n \in Node |-> c(n) * (Scale \div allocation[n])]
           y == [n \in Node |-> c(n) * (Scale \div f[n])]
<1>1. /\ f \in [Node -> Nat] /\ allocation \in [Node -> Nat]
      /\ \A n \in Node : f[n] \in 1 .. HighestCap /\ Floor <= f[n]
  <2>1. \A n \in Node : f[n] \in 1 .. HighestCap /\ Floor <= f[n] /\ f[n] \in Nat
    BY NodeRanges
  <2>2. QED  BY <2>1 DEF AllocInv, BoundsOK
<1>2. x \in [Node -> Nat] /\ y \in [Node -> Nat]
  <2>1. \A a, b \in Nat : a * b \in Nat
    OBVIOUS
  <2>2. ASSUME NEW n \in Node
        PROVE  c(n) * (Scale \div allocation[n]) \in Nat /\ c(n) * (Scale \div f[n]) \in Nat
    <3>1. c(n) \in Nat /\ Scale \div allocation[n] \in Nat /\ Scale \div f[n] \in Nat
      BY <1>1, NodeRanges, ScaleDivided
    <3>2. QED  BY <2>1, <3>1
  <2>3. QED  BY <2>2
<1>3. Cost(allocation) = SumOver(x, Node) /\ Cost(f) = SumOver(y, Node)
  <2>1. DOMAIN x = Node /\ DOMAIN y = Node /\ Cost(allocation) = SumFunction(x) /\ Cost(f) = SumFunction(y)
    BY DEF Cost
  <2> HIDE DEF x, y
  <2>2. QED  BY <2>1, TotalIsSum
<1>4. SumOver(f, Node) = SumOver(allocation, Node)
  BY <1>1, TotalIsSum
<1>5. CASE \A n \in Node : ~ (allocation[n] > Floor)
  <2>1. \A n \in Node : allocation[n] <= f[n]
    BY <1>1, <1>5, NodeRanges
  <2>2. allocation = f
    <3>1. SumFunction(f) <= SumFunction(allocation)
      BY <1>1, TotalNat
    <3>2. QED  BY <1>1, <2>1, <3>1, TotalRigid
  <2>3. SumOver(x, Node) \in Nat /\ x = y
    <3>1. x = y
      BY <2>2
    <3>2. \A n \in Node : x[n] \in Nat
      BY <1>2
    <3> HIDE DEF x, y
    <3>3. QED  BY <3>1, <3>2, SumBasics, NodesFinite
  <2> HIDE DEF x, y
  <2>4. QED  BY <1>3, <2>3
<1>6. CASE \E n \in Node : allocation[n] > Floor
  <2>1. PICK w \in Node : allocation[w] > Floor
    BY <1>6
  <2>2. PICK l \in Nat : \A n \in Node :
          /\ allocation[n] > Floor => l <= c(n) * Saving(allocation[n] - 1)
          /\ allocation[n] < upper[n] => c(n) * Saving(allocation[n]) <= l
    BY <2>1, PriceExists
  <2> DEFINE p == [n \in Node |-> x[n] + l * allocation[n]]
             q == [n \in Node |-> y[n] + l * f[n]]
  <2>3. \A n \in Node : x[n] + l * allocation[n] <= y[n] + l * f[n]
    <3> SUFFICES ASSUME NEW n \in Node
                 PROVE  x[n] + l * allocation[n] <= y[n] + l * f[n]
      OBVIOUS
    <3> DEFINE a == allocation[n]
               j == f[n]
    <3>1. /\ HighestCap \in Nat /\ c(n) \in Nat /\ a \in 1 .. HighestCap /\ j \in 1 .. HighestCap
          /\ Floor \in Nat /\ Floor <= a /\ Floor <= j /\ j <= upper[n] /\ upper[n] \in Nat
      BY <1>1, NodeRanges
    <3>2. j < a => l <= c(n) * Saving(a - 1)
      BY <2>2, <3>1
    <3>3. a < j => c(n) * Saving(a) <= l
      BY <2>2, <3>1
    <3> HIDE DEF a, j
    <3>4. c(n) * (Scale \div a) + l * a <= c(n) * (Scale \div j) + l * j
      BY <3>1, <3>2, <3>3, BestAtPrice
    <3>5. QED  BY <3>4 DEF a, j
  <2>4. ASSUME NEW n \in Node
        PROVE  /\ x[n] \in Nat /\ y[n] \in Nat /\ allocation[n] \in Nat /\ f[n] \in Nat
               /\ p[n] = x[n] + l * allocation[n] /\ q[n] = y[n] + l * f[n]
               /\ p[n] \in Nat /\ q[n] \in Nat /\ p[n] <= q[n]
    <3>1. x[n] \in Nat /\ y[n] \in Nat /\ allocation[n] \in Nat /\ f[n] \in Nat
      BY <1>1, <1>2
    <3> HIDE DEF x, y
    <3>2. \A a, b \in Nat : a + l * b \in Nat
      OBVIOUS
    <3>3. QED  BY <2>3, <3>1, <3>2
  <2> HIDE DEF x, y, p, q
  <2>5. SumOver(p, Node) <= SumOver(q, Node)
    BY <2>4, SumMonotone, NodesFinite
  <2>6. SumOver(p, Node) = SumOver(x, Node) + l * SumOver(allocation, Node)
    BY <2>4, SumLinear, NodesFinite
  <2>7. SumOver(q, Node) = SumOver(y, Node) + l * SumOver(f, Node)
    BY <2>4, SumLinear, NodesFinite
  <2>8. SumOver(x, Node) \in Nat /\ SumOver(y, Node) \in Nat /\ l * SumOver(f, Node) \in Nat
    <3>1. SumOver(f, Node) \in Nat /\ \A a \in Nat : l * a \in Nat
      BY <2>4, SumBasics, NodesFinite
    <3>2. QED  BY <2>4, <3>1, SumBasics, NodesFinite
  <2>9. QED  BY <1>3, <1>4, <2>5, <2>6, <2>7, <2>8
<1>7. QED  BY <1>5, <1>6

\* The loop of core.py:341-349 solves the problem "exactly by marginal gains"
\* (core.py:246): everything that may be spent is spent, and no other way to
\* spend as much has a smaller objective.
THEOREM AllocationsOptimal == SolverSpec => []SolvedExactly
<1>1. AllocInv /\ SpendingInv => SolvedExactly
  BY SpentWell, GreedyIsBest DEF SolvedExactly
<1>2. QED
  BY <1>1, AllocInvHolds, SpendingHolds, PTL

-----------------------------------------------------------------------------
Increasing == \A i, j \in Item : i < j => seqlen[i] <= seqlen[j]

StatesSorted == \A s \in states : Decreasing(s)

\* The nonempty sets of a state come first, and there are as many of them as
\* the items of the state allow.
Filled ==
  \A s \in states : \A i \in 1..k :
    s[i].items # {} <=> i <= Cardinality(ItemsOf(s))

EmptyIsZero ==
  \A s \in states : \A i \in 1..k : s[i].items = {} => s[i].sum = 0

\* In equal_size mode the sets of a state have the same number of items.
Even ==
  mode = "equal_size" =>
    \A s \in states : \A i \in 1..k :
      Cardinality(ItemsOf(s)) = k * Cardinality(s[i].items)

BalanceInv ==
  /\ TypeOK
  /\ Increasing
  /\ StatesSorted
  /\ SpreadBounded
  /\ Covered
  /\ Apart
  /\ Filled
  /\ EmptyIsZero
  /\ Even
  /\ AssertionsHold

\* The number of parts is at least one.
LEMMA PartsArePositive ==
  ASSUME k \in 1..MaxParts
  PROVE  k \in Nat /\ k >= 1 /\ N \in Nat /\ N >= 1 /\ MaxParts \in 1..N
  BY NAssumption, MaxPartsAssumption

\* No sequence is longer than the longest.
LEMMA LongestBounds ==
  ASSUME TypeOK, Increasing
  PROVE  Longest \in Nat /\ \A x \in Item : seqlen[x] <= Longest
  <1>1. N \in Item /\ \A x \in Item : seqlen[x] <= seqlen[N] /\ seqlen[x] \in Nat
    BY NAssumption DEF Item, Increasing, TypeOK
  <1>2. Range(seqlen) = {seqlen[x] : x \in Item}
    BY DEF Range, TypeOK
  <1>3. \E m \in Range(seqlen) : \A y \in Range(seqlen) : m >= y
    BY <1>1, <1>2
  <1>4. Longest \in Range(seqlen) /\ \A y \in Range(seqlen) : Longest >= y
    BY <1>3 DEF Longest, Max
  <1>5. QED
    BY <1>1, <1>2, <1>4

\* The order of a sort is a bijection of the positions.
LEMMA OrderIsBijection ==
  ASSUME NEW n \in 1..MaxParts, NEW p \in Orders[n]
  PROVE  /\ p \in [1..n -> 1..n]
         /\ \A i, j \in 1..n : p[i] = p[j] => i = j
         /\ \A j \in 1..n : \E i \in 1..n : p[i] = j
  <1>1. p \in [1..n -> 1..n] /\ \A i, j \in 1..n : p[i] = p[j] => i = j
    BY DEF Orders
  <1>2. p \in Injection(1..n, 1..n)
    BY <1>1 DEF Injection, IsInjective
  <1>3. IsFiniteSet(1..n)
    <2>1. 1 \in Int /\ n \in Int
      BY MaxPartsAssumption, NAssumption
    <2>2. QED
      BY <2>1, FS_Interval
  <1>4. p \in Surjection(1..n, 1..n)
    BY <1>2, <1>3, FS_Injection
  <1>5. QED
    BY <1>1, <1>4 DEF Surjection

\* What a merge of two states yields.
Pairing(m, a, b, p) ==
  /\ m = [i \in 1..k |-> Joined(a, b)[p[i]]]
  /\ m \in [1..k -> Set]
  /\ Decreasing(m)
  /\ \A i \in 1..k :
       /\ p[i] \in 1..k
       /\ k + 1 - p[i] \in 1..k
       /\ m[i].items = a[p[i]].items \cup b[k + 1 - p[i]].items
       /\ m[i].sum = a[p[i]].sum + b[k + 1 - p[i]].sum

LEMMA MergedPairing ==
  ASSUME TypeOK, NEW a \in states, NEW b \in states,
         NEW m \in Sorted(Joined(a, b))
  PROVE  \E p \in Orders[k] : Pairing(m, a, b, p)
  <1>1. PICK p \in Orders[k] :
          /\ m = [i \in 1..k |-> Joined(a, b)[p[i]]]
          /\ Decreasing(m)
    BY DEF Sorted
  <1>2. \A i \in 1..k : p[i] \in 1..k /\ k + 1 - p[i] \in 1..k
    <2>1. \A i \in 1..k : p[i] \in 1..k
      BY OrderIsBijection DEF TypeOK
    <2>2. \A j \in 1..k : k + 1 - j \in 1..k
      BY PartsArePositive DEF TypeOK
    <2>3. QED
      BY <2>1, <2>2
  <1>3. a \in [1..k -> Set] /\ b \in [1..k -> Set]
    BY DEF TypeOK
  <1>4. \A i \in 1..k :
          m[i] = [items |-> a[p[i]].items \cup b[k + 1 - p[i]].items,
                  sum |-> a[p[i]].sum + b[k + 1 - p[i]].sum]
    BY <1>1, <1>2 DEF Joined
  <1>5. ASSUME NEW i \in 1..k PROVE m[i] \in Set
    <2>1. a[p[i]] \in Set /\ b[k + 1 - p[i]] \in Set
      BY <1>2, <1>3
    <2>2. \A x, y \in Set :
            [items |-> x.items \cup y.items, sum |-> x.sum + y.sum] \in Set
      BY DEF Set
    <2>3. [items |-> a[p[i]].items \cup b[k + 1 - p[i]].items,
           sum |-> a[p[i]].sum + b[k + 1 - p[i]].sum] \in Set
      BY <2>1, <2>2
    <2>4. QED
      BY <1>4, <2>3, Zenon
  <1>6. m \in [1..k -> Set]
    BY <1>1, <1>5
  <1>7. ASSUME NEW i \in 1..k
        PROVE  /\ m[i].items = a[p[i]].items \cup b[k + 1 - p[i]].items
               /\ m[i].sum = a[p[i]].sum + b[k + 1 - p[i]].sum
    <2> DEFINE A == a[p[i]]  B == b[k + 1 - p[i]]
    <2>1. m[i] = [items |-> A.items \cup B.items, sum |-> A.sum + B.sum]
      BY <1>4
    <2> HIDE DEF A, B
    <2>2. m[i].items = A.items \cup B.items /\ m[i].sum = A.sum + B.sum
      BY <2>1
    <2>3. QED
      BY <2>2 DEF A, B
  <1>8. \A i \in 1..k :
          /\ p[i] \in 1..k
          /\ k + 1 - p[i] \in 1..k
          /\ m[i].items = a[p[i]].items \cup b[k + 1 - p[i]].items
          /\ m[i].sum = a[p[i]].sum + b[k + 1 - p[i]].sum
    BY <1>2, <1>7, Zenon
  <1>9. QED
    BY <1>1, <1>6, <1>8, Zenon DEF Pairing

LEMMA MergedState ==
  ASSUME TypeOK, NEW a \in states, NEW b \in states,
         NEW m \in Sorted(Joined(a, b))
  PROVE  \E p \in Orders[k] :
           /\ m = [i \in 1..k |-> Joined(a, b)[p[i]]]
           /\ m \in [1..k -> Set]
           /\ Decreasing(m)
           /\ \A i \in 1..k :
                /\ p[i] \in 1..k
                /\ k + 1 - p[i] \in 1..k
                /\ m[i].items = a[p[i]].items \cup b[k + 1 - p[i]].items
                /\ m[i].sum = a[p[i]].sum + b[k + 1 - p[i]].sum
  <1>1. PICK p \in Orders[k] : Pairing(m, a, b, p)
    BY MergedPairing
  <1>2. QED  BY ONLY <1>1, Zenon DEF Pairing

\* The items of a merged state are those of the two.
LEMMA MergedItems ==
  ASSUME TypeOK, NEW a \in states, NEW b \in states,
         NEW m \in Sorted(Joined(a, b))
  PROVE  ItemsOf(m) = ItemsOf(a) \cup ItemsOf(b)
  <1>1. PICK p \in Orders[k] :
          \A i \in 1..k :
            /\ p[i] \in 1..k
            /\ k + 1 - p[i] \in 1..k
            /\ m[i].items = a[p[i]].items \cup b[k + 1 - p[i]].items
    BY MergedState
  <1>2. \A j \in 1..k : \E i \in 1..k : p[i] = j
    BY OrderIsBijection DEF TypeOK
  <1>3. ASSUME NEW x \in ItemsOf(a) PROVE x \in ItemsOf(m)
    <2>1. PICK j \in 1..k : x \in a[j].items
      BY <1>3 DEF ItemsOf
    <2>2. QED
      BY <1>1, <1>2, <2>1 DEF ItemsOf
  <1>4. ASSUME NEW x \in ItemsOf(b) PROVE x \in ItemsOf(m)
    <2>1. PICK j \in 1..k : x \in b[j].items
      BY <1>4 DEF ItemsOf
    <2>2. k + 1 - j \in 1..k /\ k + 1 - (k + 1 - j) = j
      BY PartsArePositive DEF TypeOK
    <2>3. PICK i \in 1..k : p[i] = k + 1 - j
      BY <1>2, <2>2
    <2>4. x \in m[i].items
      BY <1>1, <2>1, <2>2, <2>3
    <2>5. QED
      BY <2>4 DEF ItemsOf
  <1>5. ASSUME NEW x \in ItemsOf(m) PROVE x \in ItemsOf(a) \cup ItemsOf(b)
    BY <1>1, <1>5 DEF ItemsOf
  <1>6. QED
    BY <1>3, <1>4, <1>5

\* Joining largest to smallest never widens the larger spread of the two.
LEMMA MergedSpread ==
  ASSUME TypeOK, StatesSorted, SpreadBounded, Increasing,
         NEW a \in states, NEW b \in states,
         NEW m \in Sorted(Joined(a, b)), NEW i \in 1..k, NEW j \in 1..k
  PROVE  m[i].sum - m[j].sum <= Longest
  <1>1. PICK p \in Orders[k] :
          \A x \in 1..k :
            /\ p[x] \in 1..k
            /\ k + 1 - p[x] \in 1..k
            /\ m[x].sum = a[p[x]].sum + b[k + 1 - p[x]].sum
    BY MergedState
  <1>2. \A s \in states : \A x, y \in 1..k :
          /\ s[x].sum \in Nat
          /\ x <= y => s[x].sum >= s[y].sum
          /\ s[x].sum - s[y].sum <= Longest
    <2>1. \A s \in states : \A x \in 1..k : s[x].sum \in Nat
      BY DEF TypeOK, Set
    <2>2. \A s \in states : \A x, y \in 1..k : x < y => s[x].sum >= s[y].sum
      BY <2>1 DEF StatesSorted, Decreasing, Below
    <2>3. \A s \in states : \A x, y \in 1..k :
            s[x].sum - s[y].sum <= Longest
      BY DEF SpreadBounded
    <2>4. \A x, y \in 1..k : x <= y => x = y \/ x < y
      BY PartsArePositive DEF TypeOK
    <2>5. \A s \in states : \A x, y \in 1..k : x <= y => s[x].sum >= s[y].sum
      BY <2>1, <2>2, <2>4
    <2>6. QED
      BY <2>1, <2>3, <2>5
  <1>3. Longest \in Nat
    BY LongestBounds
  <1> DEFINE u == p[i]  v == p[j]
  <1>4. /\ u \in 1..k /\ v \in 1..k /\ k + 1 - u \in 1..k /\ k + 1 - v \in 1..k
        /\ m[i].sum = a[u].sum + b[k + 1 - u].sum
        /\ m[j].sum = a[v].sum + b[k + 1 - v].sum
    BY <1>1
  <1> HIDE DEF u, v
  <1>5. CASE u <= v
    <2>1. b[k + 1 - u].sum <= b[k + 1 - v].sum
      BY <1>2, <1>4, <1>5, PartsArePositive DEF TypeOK
    <2>2. a[u].sum - a[v].sum <= Longest
      BY <1>2, <1>4
    <2>3. QED
      BY <1>2, <1>3, <1>4, <2>1, <2>2
  <1>6. CASE v < u
    <2>1. a[u].sum <= a[v].sum
      BY <1>2, <1>4, <1>6, PartsArePositive DEF TypeOK
    <2>2. b[k + 1 - u].sum - b[k + 1 - v].sum <= Longest
      BY <1>2, <1>4
    <2>3. QED
      BY <1>2, <1>3, <1>4, <2>1, <2>2
  <1>7. QED
    BY <1>4, <1>5, <1>6, PartsArePositive DEF TypeOK

\* There are finitely many items, so sets of them have a cardinality.
LEMMA FiniteItems ==
  ASSUME TypeOK, NEW S \in SUBSET Item
  PROVE  IsFiniteSet(S) /\ Cardinality(S) \in Nat
  <1>1. IsFiniteSet(Item)
    BY FS_Interval, NAssumption DEF Item
  <1>2. QED
    BY <1>1, FS_Subset, FS_CardinalityType

LEMMA StateItems ==
  ASSUME TypeOK, NEW s \in states
  PROVE  /\ ItemsOf(s) \in SUBSET Item
         /\ \A i \in 1..k : s[i].items \in SUBSET Item /\ s[i].sum \in Nat
         /\ Cardinality(ItemsOf(s)) \in Nat
  <1>1. \A i \in 1..k : s[i].items \in SUBSET Item /\ s[i].sum \in Nat
    BY DEF TypeOK, Set
  <1>2. ItemsOf(s) \in SUBSET Item
    BY <1>1 DEF ItemsOf
  <1>3. QED
    BY <1>1, <1>2, FiniteItems

\* The size of the union of two disjoint sets of items.
LEMMA DisjointUnion ==
  ASSUME TypeOK, NEW S \in SUBSET Item, NEW T \in SUBSET Item, S \cap T = {}
  PROVE  Cardinality(S \cup T) = Cardinality(S) + Cardinality(T)
  <1>1. Cardinality(S \cup T) = Cardinality(S) + Cardinality(T) - Cardinality(S \cap T)
    BY FiniteItems, FS_Union
  <1>2. Cardinality(S \cap T) = 0
    BY FS_EmptySet
  <1>3. QED
    BY <1>1, <1>2, FiniteItems

\* Which positions of a join are nonempty, and how many.
LEMMA JoinedWidth ==
  ASSUME NEW n \in Nat, NEW A \in Nat, NEW B \in Nat, A + B < n
  PROVE  LET NE == {i \in 1..n : i <= A \/ n + 1 - i <= B}
         IN  IsFiniteSet(NE) /\ Cardinality(NE) = A + B
  <1> DEFINE NE == {i \in 1..n : i <= A \/ n + 1 - i <= B}
             L == 1..A
             R == (n + 1 - B)..n
  <1>1. NE = L \cup R /\ L \cap R = {}
    OBVIOUS
  <1>2. IsFiniteSet(L) /\ Cardinality(L) = A
    BY FS_Interval
  <1>3. IsFiniteSet(R) /\ Cardinality(R) = B
    <2>1. n + 1 - B \in Int /\ n \in Int
      OBVIOUS
    <2>2. QED
      BY <2>1, FS_Interval
  <1>4. Cardinality(L \cup R) = Cardinality(L) + Cardinality(R) - Cardinality(L \cap R)
        /\ IsFiniteSet(L \cup R)
    BY <1>2, <1>3, FS_Union
  <1>5. Cardinality(L \cap R) = 0
    BY <1>1, FS_EmptySet
  <1> HIDE DEF NE, L, R
  <1>6. QED
    BY <1>1, <1>2, <1>3, <1>4, <1>5 DEF NE

\* A set of positions that is closed downwards is an initial segment.
LEMMA InitialSegment ==
  ASSUME NEW n \in Nat, NEW T \in SUBSET (1..n),
         \A x, y \in 1..n : x < y /\ y \in T => x \in T
  PROVE  \A x \in 1..n : x \in T <=> x <= Cardinality(T)
  <1>1. IsFiniteSet(1..n) /\ IsFiniteSet(T) /\ Cardinality(T) \in Nat
    <2>1. IsFiniteSet(1..n)
      BY FS_Interval
    <2>2. QED
      BY <2>1, FS_Subset, FS_CardinalityType
  <1>2. ASSUME NEW x \in 1..n, x \in T PROVE x <= Cardinality(T)
    <2>1. 1..x \in SUBSET T
      BY <1>2
    <2>2. Cardinality(1..x) = x
      BY FS_Interval
    <2>3. QED
      BY <1>1, <2>1, <2>2, FS_Subset
  <1>3. ASSUME NEW x \in 1..n, x \notin T PROVE ~(x <= Cardinality(T))
    <2>1. T \in SUBSET (1..(x - 1))
      BY <1>3
    <2>2. IsFiniteSet(1..(x - 1)) /\ Cardinality(1..(x - 1)) = x - 1
      BY FS_Interval
    <2> DEFINE U == 1..(x - 1)
    <2> HIDE DEF U
    <2>3. Cardinality(T) <= x - 1
      <3>1. T \in SUBSET U /\ IsFiniteSet(U) /\ Cardinality(U) = x - 1
        BY <2>1, <2>2 DEF U
      <3>2. QED  BY ONLY <3>1, FS_Subset
    <2>4. QED
      BY <1>1, <2>3
  <1>4. QED
    BY <1>2, <1>3

\* A sorted list of sets has its nonempty sets first.
LEMMA NonemptyFirst ==
  ASSUME TypeOK, NEW m \in [1..k -> Set], Decreasing(m),
         \A i \in 1..k : m[i].items = {} => m[i].sum = 0,
         NEW x \in 1..k, NEW y \in 1..k, x < y, m[y].items # {}
  PROVE  m[x].items # {}
  <1>1. /\ m[x].items \in SUBSET Item /\ m[y].items \in SUBSET Item
        /\ m[x].sum \in Nat /\ m[y].sum \in Nat
    BY DEF Set
  <1>2. ~Below(m[x], m[y])
    BY DEF Decreasing
  <1>3. Cardinality(m[y].items) \in Nat /\ Cardinality(m[y].items) > 0
    BY <1>1, FiniteItems, FS_EmptySet
  <1>4. m[x].items = {} => Cardinality(m[x].items) = 0
    BY FS_EmptySet
  <1>5. QED
    BY <1>1, <1>2, <1>3, <1>4 DEF Below

\* The merged state keeps the shape that the invariant asks for.
LEMMA MergedEmpty ==
  ASSUME TypeOK, EmptyIsZero, NEW a \in states, NEW b \in states,
         NEW m \in Sorted(Joined(a, b)), NEW i \in 1..k, m[i].items = {}
  PROVE  m[i].sum = 0
  <1>1. PICK p \in Orders[k] :
          \A x \in 1..k :
            /\ p[x] \in 1..k
            /\ k + 1 - p[x] \in 1..k
            /\ m[x].items = a[p[x]].items \cup b[k + 1 - p[x]].items
            /\ m[x].sum = a[p[x]].sum + b[k + 1 - p[x]].sum
    BY MergedState
  <1>2. a[p[i]].items = {} /\ b[k + 1 - p[i]].items = {}
    BY <1>1
  <1>3. a[p[i]].sum = 0 /\ b[k + 1 - p[i]].sum = 0
    <2>1. p[i] \in 1..k /\ k + 1 - p[i] \in 1..k
      BY <1>1
    <2>2. QED
      BY <1>2, <2>1 DEF EmptyIsZero
  <1>4. QED
    BY <1>1, <1>3

\* The merged state has as many nonempty sets as its items allow.
LEMMA MergedFilled ==
  ASSUME TypeOK, Apart, Filled, EmptyIsZero,
         NEW a \in states, NEW b \in states, a # b,
         NEW m \in Sorted(Joined(a, b)), NEW i \in 1..k
  PROVE  m[i].items # {} <=> i <= Cardinality(ItemsOf(m))
  <1> DEFINE A == Cardinality(ItemsOf(a))
             B == Cardinality(ItemsOf(b))
             NE == {x \in 1..k : x <= A \/ k + 1 - x <= B}
             T == {x \in 1..k : m[x].items # {}}
  <1>1. PICK p \in Orders[k] :
          /\ m \in [1..k -> Set]
          /\ Decreasing(m)
          /\ \A x \in 1..k :
               /\ p[x] \in 1..k
               /\ k + 1 - p[x] \in 1..k
               /\ m[x].items = a[p[x]].items \cup b[k + 1 - p[x]].items
    <2>1. \E p \in Orders[k] : Pairing(m, a, b, p)
      BY ONLY TypeOK, a \in states, b \in states, m \in Sorted(Joined(a, b)), MergedPairing
    <2>2. QED  BY ONLY <2>1, Zenon DEF Pairing
  <1>2. A \in Nat /\ B \in Nat /\ k \in Nat /\ k >= 1
    BY StateItems, PartsArePositive DEF TypeOK
  <1>3. Cardinality(ItemsOf(m)) = A + B
    <2>1. ItemsOf(a) \cap ItemsOf(b) = {}
      BY DEF Apart
    <2>2. ItemsOf(m) = ItemsOf(a) \cup ItemsOf(b)
      BY MergedItems
    <2>3. ItemsOf(a) \in SUBSET Item /\ ItemsOf(b) \in SUBSET Item
      BY StateItems
    <2>4. QED
      BY ONLY TypeOK, <2>1, <2>2, <2>3, DisjointUnion
  <1>4. \A x \in 1..k : m[x].items # {} <=> p[x] \in NE
    <2>1. \A x \in 1..k : a[p[x]].items # {} <=> p[x] <= A
      BY <1>1 DEF Filled
    <2>2. \A x \in 1..k : b[k + 1 - p[x]].items # {} <=> k + 1 - p[x] <= B
      BY <1>1 DEF Filled
    <2>3. QED
      BY <1>1, <2>1, <2>2
  <1>5. CASE A + B >= k
    <2>1. \A x \in 1..k : x \in NE
      BY <1>2, <1>5
    <2>2. p[i] \in NE
      BY <1>1, <2>1
    <2>3. QED
      BY <1>2, <1>3, <1>4, <1>5, <2>2
  <1>6. CASE A + B < k
    <2>1. IsFiniteSet(NE) /\ Cardinality(NE) = A + B
      BY <1>2, <1>6, JoinedWidth
    <2>2. \A x, y \in 1..k : x < y /\ y \in T => x \in T
      <3>1. \A x \in 1..k : m[x].items = {} => m[x].sum = 0
        BY MergedEmpty
      <3>2. m \in [1..k -> Set] /\ Decreasing(m)
        BY <1>1
      <3>3. QED
        BY <3>1, <3>2, NonemptyFirst
    <2>3. Cardinality(T) = A + B
      <3> DEFINE g == [x \in T |-> p[x]]
      <3>1. \A x \in T : p[x] \in NE
        BY <1>4
      <3>2. /\ \A x, y \in 1..k : p[x] = p[y] => x = y
            /\ \A z \in 1..k : \E x \in 1..k : p[x] = z
        BY OrderIsBijection DEF TypeOK
      <3>3. g \in [T -> NE]
        BY <3>1
      <3>4. g \in Injection(T, NE)
        BY <3>2, <3>3 DEF Injection, IsInjective
      <3>5. \A z \in NE : \E x \in T : g[x] = z
        BY <1>4, <3>2
      <3>6. g \in Surjection(T, NE)
        BY <3>3, <3>5 DEF Surjection
      <3> HIDE DEF g, T, NE
      <3>7. Cardinality(T) = Cardinality(NE)
        BY <2>1, <3>4, <3>6, FS_Injection
      <3>8. QED
        BY <2>1, <3>7
    <2>4. T \in SUBSET (1..k)
      OBVIOUS
    <2>5. \A x \in 1..k : x \in T <=> x <= Cardinality(T)
      BY <1>2, <2>2, <2>4, InitialSegment
    <2>6. QED
      BY <1>3, <2>3, <2>5
  <1>7. QED
    BY <1>2, <1>5, <1>6

LEMMA MergedEven ==
  ASSUME TypeOK, Apart, Even, mode = "equal_size",
         NEW a \in states, NEW b \in states, a # b,
         NEW m \in Sorted(Joined(a, b)), NEW i \in 1..k
  PROVE  Cardinality(ItemsOf(m)) = k * Cardinality(m[i].items)
  <1>1. PICK p \in Orders[k] :
          \A x \in 1..k :
            /\ p[x] \in 1..k
            /\ k + 1 - p[x] \in 1..k
            /\ m[x].items = a[p[x]].items \cup b[k + 1 - p[x]].items
    BY MergedState
  <1> DEFINE S == a[p[i]].items
             T == b[k + 1 - p[i]].items
  <1>2. /\ S \in SUBSET Item /\ T \in SUBSET Item
        /\ S \subseteq ItemsOf(a) /\ T \subseteq ItemsOf(b)
    BY <1>1, StateItems DEF ItemsOf
  <1>3. ItemsOf(a) \cap ItemsOf(b) = {}
    BY DEF Apart
  <1>4. Cardinality(m[i].items) = Cardinality(S) + Cardinality(T)
    <2>1. m[i].items = S \cup T
      BY <1>1
    <2>2. S \cap T = {}
      BY <1>2, <1>3
    <2> HIDE DEF S, T
    <2>3. QED
      BY <1>2, <2>1, <2>2, DisjointUnion
  <1>5. Cardinality(ItemsOf(m)) = Cardinality(ItemsOf(a)) + Cardinality(ItemsOf(b))
    BY <1>3, MergedItems, StateItems, DisjointUnion
  <1>6. /\ Cardinality(ItemsOf(a)) = k * Cardinality(S)
        /\ Cardinality(ItemsOf(b)) = k * Cardinality(T)
    BY <1>1 DEF Even
  <1>7. Cardinality(S) \in Nat /\ Cardinality(T) \in Nat /\ k \in Nat
    BY <1>2, FiniteItems, PartsArePositive DEF TypeOK
  <1> HIDE DEF S, T
  <1>8. QED
    BY <1>4, <1>5, <1>6, <1>7

\* Facts of integer division.
LEMMA MultipleOrder ==
  ASSUME NEW c \in Nat, NEW d \in Nat, NEW n \in Nat, c < d
  PROVE  c * n + n <= d * n
  <1>1. PICK e \in Nat : d = c + 1 + e
    <2>1. d - c - 1 \in Nat /\ d = c + 1 + (d - c - 1)
      OBVIOUS
    <2>2. QED
      BY <2>1
  <1>2. d * n = c * n + n + e * n
    BY <1>1
  <1>3. e * n \in Nat /\ c * n \in Nat
    OBVIOUS
  <1>4. QED
    BY <1>2, <1>3

LEMMA DivisionFacts ==
  ASSUME NEW x \in Nat, NEW n \in Nat, n >= 1
  PROVE  /\ x \div n \in Nat /\ x % n \in 0..(n - 1)
         /\ x % n = x - n * (x \div n)
  <1>1. x \div n \in Nat
    OBVIOUS
  <1>2. x % n \in 0..(n - 1)
    OBVIOUS
  <1>3. x % n = x - n * (x \div n)
    OBVIOUS
  <1>4. QED
    BY <1>1, <1>2, <1>3, Zenon

\* Consecutive chunks of the sorted list: their states split the items.
LEMMA ChunkIndex ==
  ASSUME k \in 1..MaxParts, N % k = 0
  PROVE  /\ \A c \in 0..(N \div k - 1) : \A i \in 1..k : c * k + k + 1 - i \in Item
         /\ \A c, d \in 0..(N \div k - 1) : \A i, j \in 1..k :
              c * k + k + 1 - i = d * k + k + 1 - j => c = d /\ i = j
         /\ \A x \in Item : \E c \in 0..(N \div k - 1) : \E i \in 1..k :
              x = c * k + k + 1 - i
  <1>1. k \in Nat /\ k >= 1 /\ N \in Nat
    BY PartsArePositive
  <1> DEFINE q == N \div k
  <1>div. q \in Nat /\ N % k = N - k * q
    BY <1>1, DivisionFacts, Zenon
  <1> HIDE DEF q
  <1>2. q \in Nat /\ N = k * q
    BY <1>1, <1>div
  <1>3. ASSUME NEW c \in 0..(q - 1), NEW i \in 1..k
        PROVE  c * k + k + 1 - i \in Item
    <2>1. c * k + k <= q * k /\ c * k \in Nat /\ q * k = N
      BY <1>1, <1>2, MultipleOrder
    <2>2. QED
      BY <1>1, <1>2, <2>1 DEF Item
  <1>4. ASSUME NEW c \in 0..(q - 1), NEW d \in 0..(q - 1), NEW i \in 1..k, NEW j \in 1..k,
               c * k + k + 1 - i = d * k + k + 1 - j
        PROVE  c = d /\ i = j
    <2>1. c * k \in Nat /\ d * k \in Nat /\ c \in Nat /\ d \in Nat
      BY <1>1, <1>2
    <2>2. ~(c < d)
      <3>1. c < d => c * k + k <= d * k
        BY <1>1, <2>1, MultipleOrder
      <3>2. QED
        BY <1>1, <1>4, <2>1, <3>1
    <2>3. ~(d < c)
      <3>1. d < c => d * k + k <= c * k
        BY <1>1, <2>1, MultipleOrder
      <3>2. QED
        BY <1>1, <1>4, <2>1, <3>1
    <2>4. c = d
      BY <2>1, <2>2, <2>3
    <2>5. QED
      BY <1>1, <1>4, <2>1, <2>4
  <1>5. ASSUME NEW x \in Item
        PROVE  \E c \in 0..(q - 1) : \E i \in 1..k : x = c * k + k + 1 - i
    <2> DEFINE c == (x - 1) \div k
               r == (x - 1) % k
    <2>0. x - 1 \in Nat /\ x \in Nat /\ x <= q * k
      BY <1>1, <1>2 DEF Item
    <2>1. c \in Nat /\ r \in 0..(k - 1) /\ r = (x - 1) - k * c
      BY <1>1, <2>0, DivisionFacts, Zenon
    <2> HIDE DEF c, r
    <2>2. x - 1 = c * k + r /\ c * k \in Nat /\ x <= q * k
      BY <1>1, <2>0, <2>1
    <2>3. c < q
      <3>1. SUFFICES ASSUME q <= c PROVE FALSE
        BY <1>2, <2>1
      <3>2. q * k <= c * k
        <4>1. CASE q = c
          BY <1>1, <1>2, <4>1
        <4>2. CASE q < c
          BY <1>1, <1>2, <2>1, <4>2, MultipleOrder
        <4>3. QED
          BY <1>2, <2>1, <3>1, <4>1, <4>2
      <3>3. QED
        BY <1>1, <1>2, <2>1, <2>2, <3>2 DEF Item
    <2>4. c \in 0..(q - 1) /\ k - r \in 1..k
      BY <1>1, <1>2, <2>1, <2>3
    <2>5. x = c * k + k + 1 - (k - r)
      BY <1>1, <2>1, <2>2 DEF Item
    <2>6. QED
      BY <2>4, <2>5
  <1>6. QED
    BY <1>3, <1>4, <1>5 DEF q

\* The states at the start of a micro-batch call.
LEMMA SingletonInv ==
  ASSUME TypeOK, Increasing, mode = "micro_batches", states = SingletonStates
  PROVE  StatesSorted /\ SpreadBounded /\ Covered /\ Apart /\ Filled
         /\ EmptyIsZero /\ Even
  <1> DEFINE S(x) == [i \in 1..k |-> IF i = 1 THEN Single(x) ELSE Empty]
  <1>1. k \in Nat /\ k >= 1 /\ 1 \in 1..k
    BY PartsArePositive DEF TypeOK
  <1>2. \A s \in states : \E x \in Item : s = S(x)
    BY DEF SingletonStates
  <1>3. \A x \in Item : S(x) \in states
    BY DEF SingletonStates
  <1>4. ASSUME NEW x \in Item, NEW i \in 1..k
        PROVE  /\ i = 1 => S(x)[i].items = {x} /\ S(x)[i].sum = seqlen[x]
               /\ i # 1 => S(x)[i].items = {} /\ S(x)[i].sum = 0
    BY DEF Single, Empty
  <1>5. \A x \in Item : ItemsOf(S(x)) = {x}
    BY <1>1, <1>4 DEF ItemsOf
  <1>6. \A x \in Item : seqlen[x] \in Nat /\ seqlen[x] <= Longest
    BY LongestBounds DEF TypeOK
  <1>7. Longest \in Nat
    BY LongestBounds
  <1> HIDE DEF S
  <1>8. StatesSorted
    <2>1. SUFFICES ASSUME NEW x \in Item, NEW i \in 1..k, NEW j \in 1..k, i < j
                   PROVE  ~Below(S(x)[i], S(x)[j])
      BY <1>2 DEF StatesSorted, Decreasing
    <2>2. j # 1 /\ S(x)[j].items = {} /\ S(x)[j].sum = 0
      BY <1>1, <1>4, <2>1
    <2>3. S(x)[i].sum \in Nat /\ S(x)[i].items \in SUBSET Item
      BY <1>4, <1>6
    <2>4. Cardinality(S(x)[j].items) = 0 /\ Cardinality(S(x)[i].items) \in Nat
      BY <2>2, <2>3, FS_EmptySet, FiniteItems
    <2>5. QED
      BY <2>2, <2>3, <2>4 DEF Below
  <1>9. SpreadBounded
    <2>1. SUFFICES ASSUME NEW x \in Item, NEW i \in 1..k, NEW j \in 1..k
                   PROVE  S(x)[i].sum - S(x)[j].sum <= Longest
      BY <1>2 DEF SpreadBounded
    <2>2. S(x)[i].sum \in {0, seqlen[x]} /\ S(x)[j].sum \in {0, seqlen[x]}
      BY <1>4
    <2>3. QED
      BY <1>6, <1>7, <2>2
  <1>10. Covered
    BY <1>3, <1>5 DEF Covered
  <1>11. Apart
    <2>1. ASSUME NEW x \in Item, NEW i \in 1..k, NEW j \in 1..k, i # j
          PROVE  S(x)[i].items \cap S(x)[j].items = {}
      BY <1>4, <2>1
    <2>2. ASSUME NEW x \in Item, NEW y \in Item, S(x) # S(y)
          PROVE  ItemsOf(S(x)) \cap ItemsOf(S(y)) = {}
      BY <1>5, <2>2
    <2>3. QED
      BY <1>2, <2>1, <2>2 DEF Apart
  <1>12. Filled
    <2>1. SUFFICES ASSUME NEW x \in Item, NEW i \in 1..k
                   PROVE  S(x)[i].items # {} <=> i <= Cardinality(ItemsOf(S(x)))
      BY <1>2 DEF Filled
    <2>2. Cardinality(ItemsOf(S(x))) = 1
      BY <1>5, FS_Singleton
    <2>3. QED
      BY <1>1, <1>4, <2>2
  <1>13. EmptyIsZero
    BY <1>2, <1>4 DEF EmptyIsZero
  <1>14. QED
    BY <1>8, <1>9, <1>10, <1>11, <1>12, <1>13 DEF Even

\* The states at the start of an equal-size call.
LEMMA ChunkInv ==
  ASSUME TypeOK, Increasing, N % k = 0, states = ChunkStates
  PROVE  StatesSorted /\ SpreadBounded /\ Covered /\ Apart /\ Filled
         /\ EmptyIsZero /\ Even
  <1> DEFINE C == 0..(N \div k - 1)
             at(c, i) == c * k + k + 1 - i
             S(c) == [i \in 1..k |-> Single(at(c, i))]
  <1>1. k \in Nat /\ k >= 1 /\ C \subseteq Nat
    BY PartsArePositive DEF TypeOK
  <1>2. /\ \A c \in C : \A i \in 1..k : at(c, i) \in Item
        /\ \A c, d \in C : \A i, j \in 1..k : at(c, i) = at(d, j) => c = d /\ i = j
        /\ \A x \in Item : \E c \in C : \E i \in 1..k : x = at(c, i)
    BY ChunkIndex DEF TypeOK
  <1>3. /\ \A s \in states : \E c \in C : s = S(c)
        /\ \A c \in C : S(c) \in states
    BY DEF ChunkStates
  <1>4. \A c \in C : \A i \in 1..k :
          S(c)[i].items = {at(c, i)} /\ S(c)[i].sum = seqlen[at(c, i)]
    BY DEF Single
  <1>5. \A c \in C : \A i, j \in 1..k : i < j => at(c, j) < at(c, i)
    <2>1. \A c \in C : c * k \in Nat
      BY <1>1
    <2>2. QED
      BY <1>1, <2>1
  <1>6. \A x \in Item : seqlen[x] \in Nat /\ seqlen[x] <= Longest
    BY LongestBounds DEF TypeOK
  <1>7. Longest \in Nat
    BY LongestBounds
  <1> HIDE DEF C, at, S
  <1>8. ASSUME NEW c \in C, NEW i \in 1..k
        PROVE  Cardinality(S(c)[i].items) = 1
    <2>1. Cardinality({at(c, i)}) = 1
      BY FS_Singleton
    <2>2. QED
      BY <1>4, <2>1
  <1>9. ASSUME NEW c \in C PROVE Cardinality(ItemsOf(S(c))) = k
    <2> DEFINE g == [i \in 1..k |-> at(c, i)]
    <2>1. ItemsOf(S(c)) = {at(c, i) : i \in 1..k}
      BY <1>4 DEF ItemsOf
    <2>2. g \in Bijection(1..k, ItemsOf(S(c)))
      BY <1>2, <2>1 DEF Bijection, Injection, Surjection, IsInjective
    <2>3. ExistsBijection(1..k, ItemsOf(S(c)))
      BY <2>2 DEF ExistsBijection
    <2>4. QED
      BY <1>1, <2>3, FS_CountingElements
  <1>10. StatesSorted
    <2>1. SUFFICES ASSUME NEW c \in C, NEW i \in 1..k, NEW j \in 1..k, i < j
                   PROVE  ~Below(S(c)[i], S(c)[j])
      BY <1>3 DEF StatesSorted, Decreasing
    <2>2. seqlen[at(c, j)] <= seqlen[at(c, i)]
      BY <1>2, <1>5, <2>1 DEF Increasing
    <2>3. QED
      BY <1>2, <1>4, <1>6, <1>8, <2>2 DEF Below
  <1>11. SpreadBounded
    <2>1. SUFFICES ASSUME NEW c \in C, NEW i \in 1..k, NEW j \in 1..k
                   PROVE  S(c)[i].sum - S(c)[j].sum <= Longest
      BY <1>3 DEF SpreadBounded
    <2>2. at(c, i) \in Item /\ at(c, j) \in Item
      BY <1>2
    <2>3. QED
      BY <1>4, <1>6, <1>7, <2>2
  <1>12. Covered
    BY <1>2, <1>3, <1>4 DEF Covered, ItemsOf
  <1>13. Apart
    <2>1. ASSUME NEW c \in C, NEW i \in 1..k, NEW j \in 1..k, i # j
          PROVE  S(c)[i].items \cap S(c)[j].items = {}
      BY <1>2, <1>4, <2>1
    <2>2. ASSUME NEW c \in C, NEW d \in C, c # d
          PROVE  ItemsOf(S(c)) \cap ItemsOf(S(d)) = {}
      BY <1>2, <1>4, <2>2 DEF ItemsOf
    <2>3. QED
      BY <1>3, <2>1, <2>2 DEF Apart
  <1>14. Filled
    <2>1. SUFFICES ASSUME NEW c \in C, NEW i \in 1..k
                   PROVE  S(c)[i].items # {} <=> i <= Cardinality(ItemsOf(S(c)))
      BY <1>3 DEF Filled
    <2>2. QED
      BY <1>1, <1>4, <1>9
  <1>15. EmptyIsZero
    BY <1>3, <1>4 DEF EmptyIsZero
  <1>16. Even
    <2>1. \A c \in C : \A i \in 1..k :
            Cardinality(ItemsOf(S(c))) = k * Cardinality(S(c)[i].items)
      BY <1>1, <1>8, <1>9
    <2>2. QED
      BY <1>3, <2>1 DEF Even
  <1>17. QED
    BY <1>10, <1>11, <1>12, <1>13, <1>14, <1>15, <1>16

\* BalanceInv holds initially and is kept by every step.
LEMMA InitBalance == Init => BalanceInv
  <1>1. SUFFICES ASSUME Init PROVE BalanceInv
    OBVIOUS
  <1>2. seqlen \in [Item -> Nat] /\ Increasing /\ pc = "merging"
    <2>1. Lengths \subseteq Nat
      BY LengthsAssumption
    <2>2. seqlen \in [Item -> Nat]
      BY <1>1, <2>1 DEF Init
    <2>3. QED
      BY <1>1, <2>2 DEF Init, Increasing
  <1>3. N \in Nat /\ N >= 1 /\ MaxParts \in 1..N
    BY NAssumption, MaxPartsAssumption
  <1>4. CASE MicroBatchCall
    <2>1. k \in 1..MaxParts
      BY <1>4 DEF MicroBatchCall
    <2>2. TypeOK
      <3>1. \A x \in Item : Single(x) \in Set
        BY <1>2 DEF Single, Set
      <3>2. Empty \in Set
        BY DEF Empty, Set
      <3>3. states \subseteq [1..k -> Set]
        BY <1>4, <3>1, <3>2 DEF MicroBatchCall, SingletonStates
      <3>4. limit \in Nat
        BY <1>4, LimitsAssumption DEF MicroBatchCall
      <3>5. QED
        BY <1>2, <1>4, <2>1, <3>3, <3>4 DEF TypeOK, MicroBatchCall
    <2>3. QED
      BY <1>2, <1>4, <2>2, SingletonInv DEF BalanceInv, AssertionsHold, MicroBatchCall
  <1>5. CASE EqualSizeCall
    <2>1. k \in 1..MaxParts
      BY <1>5 DEF EqualSizeCall
    <2>2. TypeOK
      <3>1. \A c \in 0..(N \div k - 1) : \A i \in 1..k : c * k + k + 1 - i \in Item
        BY <1>5, <2>1, ChunkIndex DEF EqualSizeCall
      <3>2. \A x \in Item : Single(x) \in Set
        BY <1>2 DEF Single, Set
      <3>3. states \subseteq [1..k -> Set]
        <4>1. states = ChunkStates
          BY <1>5 DEF EqualSizeCall
        <4>2. QED  BY ONLY <3>1, <3>2, <4>1 DEF ChunkStates
      <3>4. QED
        BY <1>2, <1>5, <2>1, <3>3 DEF TypeOK, EqualSizeCall
    <2>3. QED
      BY <1>2, <1>5, <2>2, ChunkInv DEF BalanceInv, AssertionsHold, EqualSizeCall
  <1>6. QED
    BY <1>1, <1>4, <1>5 DEF Init

LEMMA MergedInv ==
  ASSUME BalanceInv, NEW a \in states, NEW b \in states, a # b,
         NEW m \in Sorted(Joined(a, b)),
         states' = (states \ {a, b}) \cup {m},
         UNCHANGED <<mode, seqlen, limit, k, pc, parts>>
  PROVE  BalanceInv'
  <1>2. /\ TypeOK /\ Increasing /\ StatesSorted /\ SpreadBounded /\ Covered
        /\ Apart /\ Filled /\ EmptyIsZero /\ Even /\ AssertionsHold
    BY DEF BalanceInv
  <1>3. a # b /\ states' = (states \ {a, b}) \cup {m}
    OBVIOUS
  <1>4. UNCHANGED <<mode, seqlen, limit, k, pc, parts>>
    OBVIOUS
  <1>5. m \in [1..k -> Set] /\ Decreasing(m) /\ ItemsOf(m) = ItemsOf(a) \cup ItemsOf(b)
    BY <1>2, MergedState, MergedItems
  <1>6. TypeOK'
    BY <1>2, <1>3, <1>4, <1>5 DEF TypeOK
  <1>7. Increasing'
    BY <1>2, <1>4 DEF Increasing
  <1>8. StatesSorted'
    BY <1>2, <1>3, <1>4, <1>5 DEF StatesSorted, Decreasing, Below
  <1>9. SpreadBounded'
    <2>1. Longest' = Longest
      BY <1>4 DEF Longest
    <2>2. \A i, j \in 1..k : m[i].sum - m[j].sum <= Longest
      BY <1>2, MergedSpread
    <2>3. \A s \in states : \A i, j \in 1..k : s[i].sum - s[j].sum <= Longest
      BY <1>2 DEF SpreadBounded
    <2>4. QED
      BY <1>3, <1>4, <2>1, <2>2, <2>3 DEF SpreadBounded
  <1>10. \A s : ItemsOf(s)' = ItemsOf(s)
    BY <1>4 DEF ItemsOf
  <1>11. Covered'
    BY <1>2, <1>3, <1>5, <1>10 DEF Covered
  <1>12. Apart'
    <2>1. ASSUME NEW i \in 1..k, NEW j \in 1..k, i # j
          PROVE  m[i].items \cap m[j].items = {}
      <3>1. PICK p \in Orders[k] :
              /\ m = [x \in 1..k |-> Joined(a, b)[p[x]]]
              /\ m \in [1..k -> Set]
              /\ Decreasing(m)
              /\ \A x \in 1..k :
                   /\ p[x] \in 1..k
                   /\ k + 1 - p[x] \in 1..k
                   /\ m[x].items = a[p[x]].items \cup b[k + 1 - p[x]].items
                   /\ m[x].sum = a[p[x]].sum + b[k + 1 - p[x]].sum
        <4>1. \E p \in Orders[k] : Pairing(m, a, b, p)
          BY ONLY <1>2, a \in states, b \in states, m \in Sorted(Joined(a, b)), MergedPairing
        <4>2. QED  BY ONLY <4>1, Zenon DEF Pairing
      <3>2. p[i] # p[j]
        BY <1>2, <2>1, OrderIsBijection DEF TypeOK
      <3>3. k + 1 - p[i] # k + 1 - p[j]
        <4>1. p[i] \in 1..k /\ p[j] \in 1..k /\ k \in Int
          BY <1>2, <2>1, <3>1 DEF TypeOK
        <4>2. QED  BY ONLY <3>2, <4>1
      <3>4. /\ a[p[i]].items \cap a[p[j]].items = {}
            /\ b[k + 1 - p[i]].items \cap b[k + 1 - p[j]].items = {}
        BY <1>2, <3>1, <3>2, <3>3 DEF Apart
      <3>5. /\ a[p[i]].items \subseteq ItemsOf(a)
            /\ a[p[j]].items \subseteq ItemsOf(a)
            /\ b[k + 1 - p[i]].items \subseteq ItemsOf(b)
            /\ b[k + 1 - p[j]].items \subseteq ItemsOf(b)
        BY <3>1 DEF ItemsOf
      <3>6. ItemsOf(a) \cap ItemsOf(b) = {}
        BY <1>2, <1>3 DEF Apart
      <3>7. /\ m[i].items = a[p[i]].items \cup b[k + 1 - p[i]].items
            /\ m[j].items = a[p[j]].items \cup b[k + 1 - p[j]].items
        BY <3>1
      <3>8. QED
        BY <3>4, <3>5, <3>6, <3>7
    <2>2. ASSUME NEW s \in states, s # a, s # b
          PROVE  ItemsOf(s) \cap ItemsOf(m) = {}
      BY <1>2, <1>5, <2>2 DEF Apart
    <2>3. \A s \in states' : \A i, j \in 1..k :
            i # j => s[i].items \cap s[j].items = {}
      BY <1>2, <1>3, <2>1 DEF Apart
    <2>4. \A s, t \in states' : s # t => ItemsOf(s) \cap ItemsOf(t) = {}
      BY <1>2, <1>3, <2>2 DEF Apart
    <2>5. QED
      BY <1>4, <1>10, <2>3, <2>4 DEF Apart
  <1>13. Filled'
    <2>1. \A i \in 1..k : m[i].items # {} <=> i <= Cardinality(ItemsOf(m))
      BY <1>2, <1>3, MergedFilled
    <2>2. QED
      BY <1>2, <1>3, <1>4, <1>10, <2>1 DEF Filled
  <1>14. EmptyIsZero'
    <2>1. \A i \in 1..k : m[i].items = {} => m[i].sum = 0
      BY <1>2, <1>3, MergedEmpty
    <2>2. QED
      BY <1>2, <1>3, <1>4, <2>1 DEF EmptyIsZero
  <1>15. Even'
    <2>1. mode = "equal_size" =>
            \A i \in 1..k : Cardinality(ItemsOf(m)) = k * Cardinality(m[i].items)
      BY <1>2, <1>3, MergedEven
    <2>2. QED
      BY <1>2, <1>3, <1>4, <1>10, <2>1 DEF Even
  <1>16. AssertionsHold'
    BY <1>2, <1>4 DEF AssertionsHold
  <1>17. QED
    BY <1>6, <1>7, <1>8, <1>9, <1>11, <1>12, <1>13, <1>14, <1>15, <1>16 DEF BalanceInv

LEMMA MergeBalance == BalanceInv /\ Merge => BalanceInv'
  <1>1. SUFFICES ASSUME BalanceInv, Merge PROVE BalanceInv'
    OBVIOUS
  <1>2. PICK a \in Top(states) : \E b \in Top(states \ {a}) :
          \E m \in Sorted(Joined(a, b)) : states' = (states \ {a, b}) \cup {m}
    BY <1>1 DEF Merge
  <1>3. PICK b \in Top(states \ {a}) :
          \E m \in Sorted(Joined(a, b)) : states' = (states \ {a, b}) \cup {m}
    BY <1>2
  <1>4. PICK m \in Sorted(Joined(a, b)) : states' = (states \ {a, b}) \cup {m}
    BY <1>3
  <1>5. a \in states /\ b \in states /\ a # b
    BY DEF Top
  <1>6. UNCHANGED <<mode, seqlen, limit, k, pc, parts>>
    BY <1>1 DEF Merge
  <1>7. QED
    BY <1>1, <1>4, <1>5, <1>6, MergedInv

\* The last state always passes the assertions of the code.
LEMMA LastAccepted ==
  ASSUME BalanceInv, NEW s \in states, states = {s}
  PROVE  Accepted(s)
  <1>1. /\ TypeOK /\ Covered /\ Filled /\ Even
    BY DEF BalanceInv
  <1>2. ItemsOf(s) = Item
    BY <1>1, StateItems DEF Covered
  <1>3. Cardinality(Item) = N /\ N \in Nat /\ k \in 1..N
    <2>1. N \in Int /\ 1 \in Int /\ N >= 1
      BY NAssumption
    <2>2. Cardinality(1..N) = N
      BY <2>1, FS_Interval
    <2>3. QED
      BY <1>1, <2>1, <2>2, PartsArePositive DEF Item, TypeOK
  <1>4. \A i \in 1..k : s[i].items # {}
    BY <1>1, <1>2, <1>3 DEF Filled
  <1>5. UNION {s[i].items : i \in 1..k} = Item
    BY <1>2 DEF ItemsOf
  <1>6. mode = "equal_size" => \A i \in 1..k : Cardinality(s[i].items) * k = N
    <2>1. SUFFICES ASSUME mode = "equal_size", NEW i \in 1..k
                   PROVE  Cardinality(s[i].items) * k = N
      OBVIOUS
    <2>2. N = k * Cardinality(s[i].items)
      BY <1>1, <1>2, <1>3, <2>1 DEF Even
    <2>3. Cardinality(s[i].items) \in Nat /\ k \in Nat
      BY <1>1, <1>3, StateItems, FiniteItems
    <2>4. QED
      BY <2>2, <2>3
  <1>7. QED
    BY <1>4, <1>5, <1>6 DEF Accepted

\* The inductive invariant does not depend on the parts returned.
LEMMA SameStates ==
  ASSUME BalanceInv, UNCHANGED <<mode, seqlen, limit, k, states>>,
         pc' \in {pc, "returned"}
  PROVE  BalanceInv'
  <1>1. TypeOK' /\ Increasing' /\ AssertionsHold'
    BY DEF BalanceInv, TypeOK, Increasing, AssertionsHold
  <1>2. StatesSorted' /\ SpreadBounded' /\ EmptyIsZero'
    BY DEF BalanceInv, StatesSorted, Decreasing, SpreadBounded, Longest, EmptyIsZero
  <1>3. Covered' /\ Apart' /\ Filled' /\ Even'
    BY DEF BalanceInv, Covered, Apart, Filled, Even, ItemsOf
  <1>4. QED
    BY <1>1, <1>2, <1>3 DEF BalanceInv

LEMMA ReturnBalance == BalanceInv /\ Return => BalanceInv'
  <1>1. SUFFICES ASSUME BalanceInv, Return PROVE BalanceInv'
    OBVIOUS
  <1>2. PICK s \in states :
          /\ states = {s}
          /\ IF Accepted(s) THEN pc' = "returned" ELSE pc' = "failed"
    BY <1>1 DEF Return
  <1>3. pc' = "returned"
    BY <1>1, <1>2, LastAccepted
  <1>4. UNCHANGED <<mode, seqlen, limit, k, states>>
    BY <1>1 DEF Return
  <1>5. QED
    BY <1>1, <1>3, <1>4, SameStates

LEMMA BalanceInvariant == Spec => []BalanceInv
  <1>1. BalanceInv /\ [Next]_vars => BalanceInv'
    <2>1. BalanceInv /\ UNCHANGED vars => BalanceInv'
      BY SameStates DEF vars
    <2>2. QED
      BY <2>1, MergeBalance, ReturnBalance DEF Next
  <1>2. QED
    BY <1>1, InitBalance, PTL DEF Spec

\* Every state of the heap is a list of k sets of items with their sums.
THEOREM BalanceTypeCorrect == Spec => []TypeOK
  <1>1. BalanceInv => TypeOK
    BY DEF BalanceInv
  <1>2. QED
    BY <1>1, BalanceInvariant, PTL

\* The assertions of karmarkar_karp and _check_and_sort_partitions never fail,
\* for any number of sequences, parts, lengths and limits.
THEOREM AssertionsNeverFail == Spec => []AssertionsHold
  <1>1. BalanceInv => AssertionsHold
    BY DEF BalanceInv
  <1>2. QED
    BY <1>1, BalanceInvariant, PTL

\* No two parts ever differ by more than the longest sequence.
THEOREM SpreadAlwaysBounded == Spec => []SpreadBounded
  <1>1. BalanceInv => SpreadBounded
    BY DEF BalanceInv
  <1>2. QED
    BY <1>1, BalanceInvariant, PTL



\* The sums of lengths that SumsExact speaks of.
LEMMA LengthsOfItems ==
  ASSUME TypeOK
  PROVE  /\ IsFiniteSet(Item) /\ \A x \in Item : seqlen[x] \in Nat
         /\ SumFunctionOnSet(seqlen, {}) = 0
         /\ \A x \in Item : SumFunctionOnSet(seqlen, {x}) = seqlen[x]
         /\ \A S \in SUBSET Item : SumFunctionOnSet(seqlen, S) \in Nat
         /\ \A S, T \in SUBSET Item : S \cap T = {} =>
              SumFunctionOnSet(seqlen, S \cup T)
                = SumFunctionOnSet(seqlen, S) + SumFunctionOnSet(seqlen, T)
<1>1. IsFiniteSet(Item) /\ \A x \in Item : seqlen[x] \in Nat
  BY FiniteItems DEF TypeOK
<1>2. \A S \in SUBSET Item : SumFunctionOnSet(seqlen, S) = SumOver(seqlen, S)
  <2>1. \A S \in SUBSET Item : IsFiniteSet(S)
    BY <1>1, FS_Subset
  <2>2. QED  BY <2>1, PartialSumIsFold
<1>3. SumOver(seqlen, {}) = 0 /\ \A S \in SUBSET Item : SumOver(seqlen, S) \in Nat
  BY <1>1, SumBasics
<1>4. ASSUME NEW x \in Item  PROVE SumOver(seqlen, {x}) = seqlen[x]
  <2>1. SumOver(seqlen, {} \cup {x}) = seqlen[x] + SumOver(seqlen, {})
    BY <1>1, SumBasics
  <2>2. {} \cup {x} = {x}
    OBVIOUS
  <2>3. QED  BY <1>1, <1>3, <2>1, <2>2
<1>5. ASSUME NEW S \in SUBSET Item, NEW T \in SUBSET Item, S \cap T = {}
      PROVE  SumOver(seqlen, S \cup T) = SumOver(seqlen, S) + SumOver(seqlen, T)
  BY <1>1, <1>5, SumUnion
<1>6. \A S, T \in SUBSET Item : S \cup T \in SUBSET Item
  OBVIOUS
<1>7. {} \in SUBSET Item /\ \A x \in Item : {x} \in SUBSET Item
  OBVIOUS
<1>8. \A S, T \in SUBSET Item : S \cap T = {} =>
         SumFunctionOnSet(seqlen, S \cup T)
           = SumFunctionOnSet(seqlen, S) + SumFunctionOnSet(seqlen, T)
  BY ONLY <1>2, <1>5, <1>6
<1>9. /\ SumFunctionOnSet(seqlen, {}) = 0
      /\ \A x \in Item : SumFunctionOnSet(seqlen, {x}) = seqlen[x]
      /\ \A S \in SUBSET Item : SumFunctionOnSet(seqlen, S) \in Nat
  BY ONLY <1>2, <1>3, <1>4, <1>7
<1>10. QED  BY ONLY <1>1, <1>8, <1>9

\* SumsExact holds initially and is kept by every step.
LEMMA InitSums == Init => SumsExact
<1> SUFFICES ASSUME Init  PROVE SumsExact
  OBVIOUS
<1>1. TypeOK
  BY InitBalance DEF BalanceInv
<1>2. \A x \in Item : Single(x).sum = SumFunctionOnSet(seqlen, Single(x).items)
  BY <1>1, LengthsOfItems DEF Single
<1>3. Empty.sum = SumFunctionOnSet(seqlen, Empty.items)
  BY <1>1, LengthsOfItems DEF Empty
<1>4. CASE MicroBatchCall
  <2> SUFFICES ASSUME NEW x \in Item, NEW i \in 1..k,
                      NEW s, s = [j \in 1..k |-> IF j = 1 THEN Single(x) ELSE Empty]
               PROVE  s[i].sum = SumFunctionOnSet(seqlen, s[i].items)
    BY <1>4 DEF MicroBatchCall, SingletonStates, SumsExact
  <2>1. s[i] = Single(x) \/ s[i] = Empty
    OBVIOUS
  <2>2. QED  BY <1>2, <1>3, <2>1
<1>5. CASE EqualSizeCall
  <2>1. \A c \in 0..(N \div k - 1) : \A i \in 1..k : c * k + k + 1 - i \in Item
    BY <1>1, <1>5, ChunkIndex DEF EqualSizeCall
  <2> SUFFICES ASSUME NEW c \in 0..(N \div k - 1), NEW i \in 1..k,
                      NEW s, s = [j \in 1..k |-> Single(c * k + k + 1 - j)]
               PROVE  s[i].sum = SumFunctionOnSet(seqlen, s[i].items)
    BY <1>5 DEF EqualSizeCall, ChunkStates, SumsExact
  <2>2. s[i] = Single(c * k + k + 1 - i)
    OBVIOUS
  <2>3. QED  BY <1>2, <2>1, <2>2
<1>6. QED  BY <1>4, <1>5 DEF Init

LEMMA MergeSums == BalanceInv /\ SumsExact /\ Merge => SumsExact'
<1> SUFFICES ASSUME BalanceInv, SumsExact, Merge  PROVE SumsExact'
  OBVIOUS
<1>1. PICK a \in Top(states) : \E b \in Top(states \ {a}) :
        \E m \in Sorted(Joined(a, b)) : states' = (states \ {a, b}) \cup {m}
  BY DEF Merge
<1>2. PICK b \in Top(states \ {a}) :
        \E m \in Sorted(Joined(a, b)) : states' = (states \ {a, b}) \cup {m}
  BY <1>1
<1>3. PICK m \in Sorted(Joined(a, b)) : states' = (states \ {a, b}) \cup {m}
  BY <1>2
<1>4. a \in states /\ b \in states /\ a # b /\ seqlen' = seqlen /\ k' = k /\ TypeOK /\ Apart
  BY DEF Top, Merge, BalanceInv
<1>5. PICK p \in Orders[k] :
        /\ m = [i \in 1..k |-> Joined(a, b)[p[i]]]
        /\ m \in [1..k -> Set]
        /\ Decreasing(m)
        /\ \A i \in 1..k :
             /\ p[i] \in 1..k
             /\ k + 1 - p[i] \in 1..k
             /\ m[i].items = a[p[i]].items \cup b[k + 1 - p[i]].items
             /\ m[i].sum = a[p[i]].sum + b[k + 1 - p[i]].sum
  BY <1>4, MergedState
<1>6. ASSUME NEW i \in 1..k
      PROVE  m[i].sum = SumFunctionOnSet(seqlen, m[i].items)
  <2> DEFINE A == a[p[i]]
             B == b[k + 1 - p[i]]
  <2>1. /\ m[i].items = A.items \cup B.items /\ m[i].sum = A.sum + B.sum
        /\ A.sum = SumFunctionOnSet(seqlen, A.items) /\ B.sum = SumFunctionOnSet(seqlen, B.items)
    BY <1>4, <1>5 DEF SumsExact
  <2>2. A.items \subseteq ItemsOf(a) /\ B.items \subseteq ItemsOf(b) /\ ItemsOf(a) \cap ItemsOf(b) = {}
    <3>1. A.items \subseteq ItemsOf(a)
      BY <1>5 DEF ItemsOf
    <3>2. B.items \subseteq ItemsOf(b)
      BY <1>5 DEF ItemsOf
    <3>3. ItemsOf(a) \cap ItemsOf(b) = {}
      BY <1>4 DEF Apart
    <3>4. QED  BY <3>1, <3>2, <3>3
  <2>3. A.items \subseteq Item /\ B.items \subseteq Item
    BY <1>4, <1>5 DEF TypeOK, Set
  <2> HIDE DEF A, B
  <2>4. A.items \cap B.items = {}
    BY <2>2
  <2>5. QED  BY <1>4, <2>1, <2>3, <2>4, LengthsOfItems
<1>7. ASSUME NEW s \in states', NEW i \in 1..k
      PROVE  s[i].sum = SumFunctionOnSet(seqlen, s[i].items)
  BY <1>3, <1>6 DEF SumsExact
<1>8. QED  BY <1>4, <1>7 DEF SumsExact

\* The call fixes the number of micro-batches from the total and the limit.
CallInv ==
  mode = "micro_batches" =>
    /\ limit >= 1
    /\ \A x \in Item : seqlen[x] <= limit
    /\ OwnCount <= k

\* What is returned is the one state left.
PartsInv ==
  pc = "returned" =>
    \E s \in states : states = {s} /\ parts = [i \in 1..k |-> Ascending(Scheduled(s)[i])]

\* So do CallInv and PartsInv.
LEMMA InitCall == Init => CallInv /\ PartsInv
<1> SUFFICES ASSUME Init  PROVE CallInv /\ PartsInv
  OBVIOUS
<1>1. PartsInv
  BY DEF Init, PartsInv
<1>2. CASE MicroBatchCall
  <2>1. limit >= 1
    BY <1>2, LimitsAssumption DEF MicroBatchCall
  <2>2. QED  BY <1>1, <1>2, <2>1 DEF CallInv, MicroBatchCall
<1>3. CASE EqualSizeCall
  BY <1>1, <1>3 DEF CallInv, EqualSizeCall
<1>4. QED  BY <1>2, <1>3 DEF Init

LEMMA NextCall == CallInv /\ [Next]_vars => CallInv'
BY DEF CallInv, Next, vars, Merge, Return, OwnCount, Total, CeilDiv

LEMMA NextParts == BalanceInv /\ PartsInv /\ [Next]_vars => PartsInv'
<1> SUFFICES ASSUME BalanceInv, PartsInv, [Next]_vars  PROVE PartsInv'
  OBVIOUS
<1>1. CASE Merge
  BY <1>1 DEF Merge, PartsInv
<1>2. CASE Return
  <2>1. PICK s \in states :
          /\ states = {s}
          /\ Accepted(s) =>
               parts' = LET sched == Scheduled(s) IN [i \in 1..k |-> Ascending(sched[i])]
    BY <1>2 DEF Return
  <2>2. UNCHANGED <<mode, seqlen, limit, k, states>>
    BY <1>2 DEF Return
  <2>3. Accepted(s)
    BY <2>1, LastAccepted
  <2>4. parts' = [i \in 1..k |-> Ascending(Scheduled(s)[i])]
    BY <2>1, <2>3
  <2>5. Scheduled(s)' = Scheduled(s)
    BY <2>2 DEF Scheduled, Heavier, Workload, Listed
  <2>6. QED  BY <2>1, <2>2, <2>4, <2>5 DEF PartsInv
<1>3. CASE UNCHANGED vars
  <2>1. UNCHANGED <<mode, seqlen, limit, k, states, pc, parts>>
    BY <1>3 DEF vars
  <2>2. \A s : Scheduled(s)' = Scheduled(s)
    BY <2>1 DEF Scheduled, Heavier, Workload, Listed
  <2>3. QED  BY <2>1, <2>2 DEF PartsInv
<1>4. QED  BY <1>1, <1>2, <1>3 DEF Next

\* The tokens of a part are the lengths of the items it lists.
LEMMA TokensOfPart ==
  ASSUME TypeOK, NEW S \in SUBSET Item
  PROVE  Tokens(Ascending(S)) = SumFunctionOnSet(seqlen, S)
<1> DEFINE b == Ascending(S)
           n == Cardinality(S)
           D == 1..n
           f == [j \in D |-> seqlen[b[j]]]
<1>1. IsFiniteSet(S) /\ S \subseteq Nat /\ \A x \in Item : seqlen[x] \in Nat
  <2>1. IsFiniteSet(Item) /\ \A x \in Item : seqlen[x] \in Nat
    BY LengthsOfItems
  <2>2. Item \subseteq Nat
    BY NAssumption DEF Item
  <2>3. IsFiniteSet(S)
    BY <2>1, FS_Subset
  <2>4. QED  BY <2>1, <2>2, <2>3
<1>2. /\ n \in Nat /\ b \in [D -> S]
      /\ \A i, j \in D : b[i] = b[j] => i = j
      /\ \A x \in S : \E i \in D : b[i] = x
  BY <1>1, AscendingIsBijection
<1>3. IsFiniteSet(D)
  <2> HIDE DEF n
  <2> QED BY <1>2, FS_Interval
<1>4. Tokens(b) = SumFunction(f)
  <2>1. DOMAIN b = D
    BY <1>2
  <2> HIDE DEF b, D
  <2>2. QED  BY <2>1 DEF Tokens
<1>5. \A j \in D : f[j] \in Nat /\ seqlen[b[j]] = f[j]
  BY <1>1, <1>2
<1>6. S = {b[j] : j \in D} /\ DOMAIN f = D
  BY <1>2
<1> HIDE DEF b, D, f
<1>7. SumOver(seqlen, {b[j] : j \in D}) = SumOver(f, D)
  BY <1>2, <1>3, <1>5, SumRenamed
<1>8. SumFunction(f) = SumOver(f, D) /\ SumFunctionOnSet(seqlen, S) = SumOver(seqlen, S)
  BY <1>1, <1>3, <1>6, WholeSumIsFold, PartialSumIsFold
<1>9. QED  BY <1>4, <1>6, <1>7, <1>8 DEF b

\* The order of the micro-batches is an order of numbers.
LEMMA WorkloadNat ==
  ASSUME TypeOK, NEW S \in SUBSET Item
  PROVE  Workload(S) \in Nat
<1> DEFINE f == [i \in S |-> seqlen[i] * seqlen[i]]
<1>1. IsFiniteSet(S) /\ \A x \in S : seqlen[x] \in Nat
  BY LengthsOfItems, FS_Subset
<1>2. \A a \in Nat : a * a \in Nat
  OBVIOUS
<1>3. DOMAIN f = S /\ \A x \in S : f[x] \in Nat
  BY <1>1, <1>2
<1>4. Workload(S) = SumFunction(f)
  BY DEF Workload
<1> HIDE DEF f
<1>5. SumOver(f, S) \in Nat
  BY <1>1, <1>3, SumBasics
<1>6. QED  BY <1>1, <1>3, <1>4, <1>5, WholeSumIsFold

\* The parts that are returned are the sets of the last state, all of them.
LEMMA ScheduledParts ==
  ASSUME BalanceInv, NEW s \in states, states = {s}
  PROVE  /\ Scheduled(s) \in [1..k -> SUBSET Item]
         /\ \A i \in 1..k : \E j \in 1..k : Scheduled(s)[i] = s[j].items
         /\ \A j \in 1..k : \E i \in 1..k : Scheduled(s)[i] = s[j].items
         /\ \A i, j \in 1..k : i # j => Scheduled(s)[i] \cap Scheduled(s)[j] = {}
<1> DEFINE W == {s[i].items : i \in 1..k}
           R == {e \in W \X W : Heavier(e[1], e[2])}
<1>1. /\ TypeOK /\ k \in 1..N /\ N \in Nat
      /\ \A i \in 1..k : s[i].items # {} /\ s[i].items \in SUBSET Item
      /\ \A i, j \in 1..k : i # j => s[i].items \cap s[j].items = {}
  <2>1. TypeOK /\ Apart /\ Accepted(s)
    BY LastAccepted DEF BalanceInv
  <2>2. k \in 1..N /\ N \in Nat
    BY <2>1, NAssumption, MaxPartsAssumption DEF TypeOK
  <2>3. \A i \in 1..k : s[i].items # {}
    BY <2>1 DEF Accepted
  <2>4. \A i \in 1..k : s[i].items \in SUBSET Item
    BY <2>1 DEF TypeOK, Set
  <2>5. \A i, j \in 1..k : i # j => s[i].items \cap s[j].items = {}
    BY <2>1 DEF Apart
  <2>6. QED  BY <2>1, <2>2, <2>3, <2>4, <2>5
<1>2. CASE mode = "micro_batches"
  <2>1. W \subseteq SUBSET Item /\ {} \notin W /\ \A S, T \in W : S # T => S \cap T = {}
    BY <1>1
  <2>2. IsFiniteSet(W) /\ Cardinality(W) = k
    <3> DEFINE c == [i \in 1..k |-> s[i].items]
    <3>1. IsFiniteSet(1..k) /\ Cardinality(1..k) = k
      <4>1. 1 \in Int /\ k \in Int /\ k >= 1
        BY <1>1
      <4>2. QED  BY <4>1, FS_Interval
    <3>2. c \in Surjection(1..k, W)
      BY DEF Surjection
    <3>3. c \in Injection(1..k, W)
      <4>1. c \in [1..k -> W] /\ \A i, j \in 1..k : c[i] = c[j] => i = j
        BY <1>1
      <4>2. QED  BY <4>1 DEF Injection, IsInjective
    <3> HIDE DEF c, W
    <3>4. QED  BY <3>1, <3>2, <3>3, FS_Surjection
  <2> HIDE DEF W
  <2>3. \A S, T \in W : <<S, T>> \in R <=> Heavier(S, T)
    OBVIOUS
  <2> HIDE DEF R
  <2>4. \A S \in W : Workload(S) \in Nat
    BY <1>1, <2>1, WorkloadNat
  <2>5. \A S \in W : Min(S) \in S /\ Min(S) \in Nat
    <3>1. \A S \in W : S \subseteq Nat /\ S # {}
      BY <2>1, NAssumption DEF Item
    <3>2. QED  BY <3>1, SmallestOf
  <2>6. \A S, T \in W : S # T => Min(S) # Min(T)
    BY <2>1, <2>5
  <2>7. \A S \in W : <<S, S>> \notin R
    BY <2>3, <2>4, <2>5 DEF Heavier
  <2>8. \A S, T, V \in W : <<S, T>> \in R /\ <<T, V>> \in R => <<S, V>> \in R
    BY <2>3, <2>4, <2>5 DEF Heavier
  <2>9. \A S, T \in W : S # T => <<S, T>> \in R \/ <<T, S>> \in R
    BY <2>3, <2>4, <2>5, <2>6 DEF Heavier
  <2>10. Scheduled(s) = Listed(W, R)
    BY <1>2 DEF Scheduled, W, R
  <2>11. /\ Scheduled(s) \in [1..k -> W]
         /\ \A i, j \in 1..k : Scheduled(s)[i] = Scheduled(s)[j] => i = j
         /\ \A S \in W : \E i \in 1..k : Scheduled(s)[i] = S
    BY <2>2, <2>7, <2>8, <2>9, <2>10, ListedIsBijection
  <2>12. \A i \in 1..k : \E j \in 1..k : Scheduled(s)[i] = s[j].items
    BY <2>11 DEF W
  <2>13. \A j \in 1..k : \E i \in 1..k : Scheduled(s)[i] = s[j].items
    BY <2>11 DEF W
  <2>14. Scheduled(s) \in [1..k -> SUBSET Item]
    BY <2>1, <2>11
  <2>15. \A i, j \in 1..k : i # j => Scheduled(s)[i] \cap Scheduled(s)[j] = {}
    <3> SUFFICES ASSUME NEW i \in 1..k, NEW j \in 1..k, i # j
                 PROVE  Scheduled(s)[i] \cap Scheduled(s)[j] = {}
      OBVIOUS
    <3>1. Scheduled(s)[i] \in W /\ Scheduled(s)[j] \in W /\ Scheduled(s)[i] # Scheduled(s)[j]
      BY <2>11
    <3>2. QED  BY <2>1, <3>1
  <2>16. QED  BY <2>12, <2>13, <2>14, <2>15
<1>3. CASE mode # "micro_batches"
  <2>1. Scheduled(s) = [i \in 1..k |-> s[i].items]
    BY <1>3 DEF Scheduled
  <2>2. QED  BY <1>1, <2>1
<1>4. QED  BY <1>2, <1>3

\* All parts of the invariant together.
LEMMA KeptSums == SumsExact /\ UNCHANGED <<seqlen, k, states>> => SumsExact'
BY DEF SumsExact

LEMMA NextSums == BalanceInv /\ SumsExact /\ [Next]_vars => SumsExact'
<1>1. Return => UNCHANGED <<seqlen, k, states>>
  BY DEF Return
<1>2. UNCHANGED vars => UNCHANGED <<seqlen, k, states>>
  BY DEF vars
<1>3. QED  BY <1>1, <1>2, MergeSums, KeptSums DEF Next

CompleteInv == BalanceInv /\ SumsExact /\ CallInv /\ PartsInv

LEMMA NextBalance == BalanceInv /\ [Next]_vars => BalanceInv'
<1>1. BalanceInv /\ UNCHANGED vars => BalanceInv'
  BY SameStates DEF vars
<1>2. QED  BY <1>1, MergeBalance, ReturnBalance DEF Next

LEMMA CompleteInvariant == Spec => []CompleteInv
<1>1. Init => CompleteInv
  BY InitBalance, InitSums, InitCall DEF CompleteInv
<1>2. CompleteInv /\ [Next]_vars => CompleteInv'
  BY NextBalance, NextSums, NextCall, NextParts DEF CompleteInv
<1>3. QED  BY <1>1, <1>2, PTL DEF Spec

\* All the tokens fit in as many micro-batches of the limit as there are.
LEMMA RoundedUp ==
  ASSUME NEW a \in Nat, NEW m \in Nat \ {0}
  PROVE  CeilDiv(a, m) \in Nat /\ a <= m * CeilDiv(a, m)
<1> DEFINE q == (a + m - 1) \div m
<1>1. a + m - 1 \in Nat
  OBVIOUS
<1>2. q \in Nat /\ a + m - 1 = m * q + ((a + m - 1) % m) /\ ((a + m - 1) % m) < m /\ ((a + m - 1) % m) \in Nat
  BY <1>1
<1>3. a <= m * q
  <2> DEFINE p == m * q
  <2>1. p \in Int
    BY <1>2
  <2> HIDE DEF p
  <2>2. QED  BY <1>2, <2>1 DEF p
<1>4. QED  BY <1>2, <1>3 DEF CeilDiv

\* The batch fits in k micro-batches of the limit.
LEMMA TotalFits ==
  ASSUME TypeOK, CallInv, mode = "micro_batches"
  PROVE  Total \in Nat /\ Total <= k * limit
<1>1. /\ IsFiniteSet(Item) /\ (\A x \in Item : seqlen[x] \in Nat /\ seqlen[x] <= limit)
      /\ limit \in Nat \ {0} /\ k \in Nat /\ N \in Nat /\ OwnCount <= k
      /\ DOMAIN seqlen = Item
  <2>1. k \in Nat /\ N \in Nat
    BY PartsArePositive DEF TypeOK
  <2>2. limit \in Nat \ {0} /\ OwnCount <= k /\ \A x \in Item : seqlen[x] <= limit
    BY DEF TypeOK, CallInv
  <2>3. DOMAIN seqlen = Item
    BY DEF TypeOK
  <2>4. QED  BY <2>1, <2>2, <2>3, LengthsOfItems
<1>2. Total = SumOver(seqlen, Item) /\ Total \in Nat
  BY <1>1, WholeSumIsFold, SumBasics DEF Total
<1>3. \A a \in Nat : a <= k => limit * a <= k * limit
  <2> SUFFICES ASSUME NEW a \in Nat, a <= k  PROVE limit * a <= k * limit
    OBVIOUS
  <2>1. k - a \in Nat
    BY <1>1
  <2>2. \A x, y \in Nat : x * y >= 0
    OBVIOUS
  <2>3. (k - a) * limit >= 0
    BY <1>1, <2>1, <2>2
  <2>4. (k - a) * limit = k * limit - limit * a
    BY <1>1
  <2>5. QED  BY <1>1, <2>3, <2>4
<1>4. CASE CeilDiv(Total, limit) < N
  <2>1. CeilDiv(Total, limit) <= k
    BY <1>1, <1>4 DEF OwnCount
  <2>2. CeilDiv(Total, limit) \in Nat /\ Total <= limit * CeilDiv(Total, limit)
    BY <1>1, <1>2, RoundedUp
  <2>3. limit * CeilDiv(Total, limit) <= k * limit
    BY <1>3, <2>1, <2>2
  <2> DEFINE t == limit * CeilDiv(Total, limit)
             u == k * limit
  <2>4. t \in Int /\ u \in Int
    BY <1>1, <2>2
  <2>5. Total <= t /\ t <= u
    BY <2>2, <2>3
  <2> HIDE DEF t, u
  <2>6. Total <= u
    BY <1>2, <2>4, <2>5
  <2>7. QED  BY <1>2, <2>6 DEF u
<1>5. CASE ~(CeilDiv(Total, limit) < N)
  <2>1. N <= k
    BY <1>1, <1>5 DEF OwnCount
  <2>2. Cardinality(Item) = N
    <3>1. 1 \in Int /\ N \in Int /\ N >= 1
      BY NAssumption
    <3>2. QED  BY <3>1, FS_Interval DEF Item
  <2> DEFINE c == [x \in Item |-> limit]
  <2>3. \A x \in Item : c[x] = limit /\ c[x] \in Nat /\ seqlen[x] <= c[x]
    BY <1>1
  <2> HIDE DEF c
  <2>4. SumOver(seqlen, Item) <= SumOver(c, Item)
    BY <1>1, <2>3, SumMonotone
  <2>5. SumOver(c, Item) = limit * N
    BY <1>1, <2>2, <2>3, SumConstant
  <2>6. limit * N <= k * limit
    BY <1>1, <1>3, <2>1
  <2> DEFINE t == limit * N
             u == k * limit
  <2>7. t \in Int /\ u \in Int
    BY <1>1
  <2> HIDE DEF t, u
  <2>8. Total <= t /\ t <= u
    BY <1>2, <2>4, <2>5, <2>6 DEF t, u
  <2>9. Total <= u
    BY <1>2, <2>7, <2>8
  <2>10. QED  BY <1>2, <2>9 DEF u
<1>6. QED  BY <1>4, <1>5

\* The sums of the last state add up to the tokens of the batch.
LEMMA LastSums ==
  ASSUME BalanceInv, SumsExact, NEW s \in states, states = {s}
  PROVE  SumOver([i \in 1..k |-> s[i].sum], 1..k) = Total
<1> DEFINE T == [i \in 1..k |-> s[i].items]
           f == [i \in 1..k |-> SumOver(seqlen, T[i])]
           g == [i \in 1..k |-> s[i].sum]
<1>1. /\ TypeOK /\ Apart /\ Accepted(s) /\ k \in Nat
      /\ IsFiniteSet(Item) /\ \A x \in Item : seqlen[x] \in Nat
  <2>1. TypeOK /\ Apart /\ Accepted(s)
    BY LastAccepted DEF BalanceInv
  <2>2. k \in Nat
    BY <2>1, PartsArePositive DEF TypeOK
  <2>3. QED  BY <2>1, <2>2, LengthsOfItems
<1>2. IsFiniteSet(1..k)
  <2>1. 1 \in Int /\ k \in Int
    BY <1>1
  <2>2. QED  BY <2>1, FS_Interval
<1>3. \A i \in 1..k : T[i] \in SUBSET Item
  BY <1>1 DEF TypeOK, Set
<1>4. \A i, j \in 1..k : i # j => T[i] \cap T[j] = {}
  BY <1>1 DEF Apart
<1>5. UNION {T[i] : i \in 1..k} = Item
  BY <1>1 DEF Accepted
<1>6. \A i \in 1..k : g[i] = f[i]
  <2> SUFFICES ASSUME NEW i \in 1..k  PROVE s[i].sum = SumOver(seqlen, s[i].items)
    OBVIOUS
  <2>1. s[i].sum = SumFunctionOnSet(seqlen, s[i].items)
    BY DEF SumsExact
  <2>2. IsFiniteSet(s[i].items)
    BY <1>1, <1>3, FS_Subset
  <2>3. QED  BY <2>1, <2>2, PartialSumIsFold
<1>7. g = f
  BY <1>6
<1>8. DOMAIN seqlen = Item
  BY <1>1 DEF TypeOK
<1> HIDE DEF T, g
<1>9. SumOver(f, 1..k) = SumOver(seqlen, UNION {T[i] : i \in 1..k})
  BY <1>1, <1>2, <1>3, <1>4, SumOfParts
<1>10. Total = SumOver(seqlen, Item)
  BY <1>1, <1>8, WholeSumIsFold DEF Total
<1> HIDE DEF f
<1>11. QED  BY <1>5, <1>7, <1>9, <1>10 DEF g

\* The overshoot of a part, from the spread of the last state.
LEMMA CompleteBounds == CompleteInv => OvershootBounded
<1> SUFFICES ASSUME CompleteInv, pc = "returned", mode = "micro_batches", NEW i \in 1..k
             PROVE  k * (Tokens(parts[i]) - limit) <= (k - 1) * Longest
  BY DEF OvershootBounded
<1>1. BalanceInv /\ SumsExact /\ CallInv /\ PartsInv /\ TypeOK /\ SpreadBounded /\ Increasing
  BY DEF CompleteInv, BalanceInv
<1>2. PICK s \in states : states = {s} /\ parts = [j \in 1..k |-> Ascending(Scheduled(s)[j])]
  BY <1>1 DEF PartsInv
<1>3. PICK j \in 1..k : Scheduled(s)[i] = s[j].items
  BY <1>1, <1>2, ScheduledParts
<1>4. Tokens(parts[i]) = s[j].sum
  <2>1. parts[i] = Ascending(s[j].items)
    BY <1>2, <1>3
  <2>2. s[j].items \in SUBSET Item
    BY <1>1 DEF TypeOK, Set
  <2>3. Tokens(Ascending(s[j].items)) = SumFunctionOnSet(seqlen, s[j].items)
    BY <1>1, <2>2, TokensOfPart
  <2>4. QED  BY <1>1, <2>1, <2>3 DEF SumsExact
<1> DEFINE f == [h \in 1..k |-> s[h].sum]
<1>5. k \in Nat \ {0} /\ Longest \in Nat /\ limit \in Nat
  BY <1>1, PartsArePositive, LongestBounds DEF TypeOK
<1>6. \A h \in 1..k : f[h] \in Nat
  BY <1>1 DEF TypeOK, Set
<1>7. \A g, h \in 1..k : f[g] - f[h] <= Longest
  BY <1>1 DEF SpreadBounded
<1>8. SumOver(f, 1..k) = Total
  BY <1>1, <1>2, LastSums
<1>9. f[j] = s[j].sum
  OBVIOUS
<1> HIDE DEF f
<1>10. k * f[j] <= SumOver(f, 1..k) + (k - 1) * Longest
  BY <1>5, <1>6, <1>7, MeanBound
<1>11. Total \in Nat /\ Total <= k * limit
  BY <1>1, TotalFits
<1> DEFINE a == k * f[j]
           b == k * limit
           c == (k - 1) * Longest
<1>12. a \in Int /\ b \in Int /\ c \in Int /\ f[j] \in Nat
  BY <1>5, <1>6
<1>13. k * (f[j] - limit) = a - b
  BY <1>5, <1>12
<1>14. a <= Total + c /\ Total <= b
  BY <1>8, <1>10, <1>11
<1> HIDE DEF a, b, c
<1>15. a - b <= c
  BY <1>11, <1>12, <1>14
<1>16. QED  BY <1>4, <1>9, <1>13, <1>15 DEF c

\* The flattened parts list every item once, so the reverse index restores them.
LEMMA CompleteRestores == CompleteInv => RestoresOrder
<1> SUFFICES ASSUME CompleteInv, pc = "returned"
             PROVE  /\ Len(FlattenSeq(parts)) = N
                    /\ \A j \in Item : Restored(FlattenSeq(parts))[j] = j
  BY DEF RestoresOrder
<1>1. BalanceInv /\ PartsInv /\ TypeOK
  BY DEF CompleteInv, BalanceInv
<1>2. PICK s \in states : states = {s} /\ parts = [j \in 1..k |-> Ascending(Scheduled(s)[j])]
  BY <1>1 DEF PartsInv
<1> DEFINE T == Scheduled(s)
           l == [i \in 1..k |-> Len(parts[i])]
           rows == FlattenSeq(parts)
<1>3. /\ T \in [1..k -> SUBSET Item]
      /\ \A i, j \in 1..k : i # j => T[i] \cap T[j] = {}
      /\ \A j \in 1..k : \E i \in 1..k : T[i] = s[j].items
  BY <1>1, <1>2, ScheduledParts
<1>4. UNION {s[i].items : i \in 1..k} = Item
  BY <1>1, <1>2, LastAccepted DEF Accepted
<1>5. UNION {T[i] : i \in 1..k} = Item
  BY <1>3, <1>4
<1>6. k \in Nat \ {0} /\ N \in Nat /\ IsFiniteSet(Item) /\ Item \subseteq Nat /\ Cardinality(Item) = N
  <2>1. k \in Nat \ {0} /\ N \in Nat
    BY <1>1, PartsArePositive DEF TypeOK
  <2>2. Item \subseteq Nat
    BY NAssumption DEF Item
  <2>3. IsFiniteSet(Item) /\ Cardinality(Item) = N
    <3>1. 1 \in Int /\ N \in Int /\ N >= 1
      BY NAssumption
    <3>2. QED  BY <3>1, FS_Interval DEF Item
  <2>4. QED  BY <2>1, <2>2, <2>3
<1>7. ASSUME NEW i \in 1..k
      PROVE  /\ parts[i] \in Seq(Nat) /\ Len(parts[i]) = Cardinality(T[i])
             /\ \A x \in T[i] : \E j \in 1..Len(parts[i]) : parts[i][j] = x
  <2>1. parts[i] = Ascending(T[i])
    BY <1>2
  <2>2. T[i] \subseteq Nat /\ IsFiniteSet(T[i])
    BY <1>3, <1>6, FS_Subset
  <2>3. /\ Cardinality(T[i]) \in Nat
        /\ Ascending(T[i]) \in [1..Cardinality(T[i]) -> T[i]]
        /\ \A x \in T[i] : \E j \in 1..Cardinality(T[i]) : Ascending(T[i])[j] = x
    BY <2>2, AscendingIsBijection
  <2> DEFINE n == Cardinality(T[i])
  <2> HIDE DEF T, n
  <2>4. parts[i] \in [1..n -> Nat] /\ n \in Nat
    BY <2>1, <2>2, <2>3 DEF n
  <2>5. parts[i] \in Seq(Nat) /\ Len(parts[i]) = n
    BY <2>4
  <2>6. QED  BY <2>1, <2>3, <2>5 DEF n
<1>8. parts \in Seq(Seq(Nat)) /\ Len(parts) = k
  <2>1. parts \in [1..k -> Seq(Nat)]
    BY <1>2, <1>7
  <2>2. QED  BY <1>6, <2>1
<1>9. \A i \in 1..k : l[i] = Len(parts[i])
  OBVIOUS
<1>15. \A i \in 1..k : l[i] = Cardinality(T[i])
  BY <1>7
<1> HIDE DEF T, l
<1>10. /\ rows \in Seq(Nat) /\ Len(rows) = SumOver(l, 1..k)
       /\ \A i \in 1..k : \A j \in 1..Len(parts[i]) : \E p \in 1..Len(rows) : rows[p] = parts[i][j]
  <2>1. /\ k \in Nat \ {0} /\ Len(parts) = k
        /\ \A i \in 1..k : parts[i] \in Seq(Nat)
        /\ \A i \in 1..k : l[i] = Len(parts[i])
    BY ONLY <1>6, <1>7, <1>8, <1>9
  <2>2. rows \in Seq(Nat) /\ Flattened(parts, l, rows, k)
    BY ONLY <2>1, FlattenHolds
  <2> HIDE DEF rows
  <2>3. ASSUME NEW i \in 1..k, NEW j \in 1..Len(parts[i])
        PROVE  \E p \in 1..Len(rows) : rows[p] = parts[i][j]
    <3> DEFINE o == Offset(l, i, j)
    <3>1. o \in 1..Len(rows) /\ rows[o] = parts[i][j]
      BY <2>2 DEF Flattened
    <3> HIDE DEF o
    <3>2. QED  BY ONLY <3>1
  <2>4. Len(rows) = SumOver(l, 1..k)
    BY <2>2 DEF Flattened
  <2>5. QED  BY ONLY <2>2, <2>3, <2>4
<1>11. SumOver(l, 1..k) = N
  <2>1. IsFiniteSet(1..k)
    <3>1. 1 \in Int /\ k \in Int
      BY <1>6
    <3>2. QED  BY <3>1, FS_Interval
  <2>2. \A i \in 1..k : T[i] \in SUBSET Item
    BY <1>3
  <2> DEFINE D == 1..k
  <2>5. /\ IsFiniteSet(D) /\ \A i \in D : T[i] \in SUBSET Item
        /\ \A i, j \in D : i # j => T[i] \cap T[j] = {}
        /\ UNION {T[i] : i \in D} = Item /\ \A i \in D : l[i] = Cardinality(T[i])
    BY <1>3, <1>5, <1>15, <2>1, <2>2
  <2> HIDE DEF D
  <2>3. SumOver(l, D) = Cardinality(Item)
    BY <1>6, <2>5, PartSizes
  <2>4. QED  BY <1>6, <2>3 DEF D
<1>12. DOMAIN rows = 1..N /\ Len(rows) = N
  BY <1>6, <1>10, <1>11
<1>13. ASSUME NEW x \in Item  PROVE Restored(rows)[x] = x
  <2>1. PICK i \in 1..k : x \in T[i]
    BY <1>5
  <2>2. PICK j \in 1..Len(parts[i]) : parts[i][j] = x
    BY <1>7, <2>1
  <2>3. PICK p \in 1..N : rows[p] = x
    BY <1>10, <1>12, <2>2
  <2> DEFINE S == {q \in 1..N : rows[q] = x}
  <2>4. S \subseteq Nat /\ S # {} /\ IsFiniteSet(S)
    <3>1. S \in SUBSET Item
      BY DEF Item
    <3>2. p \in S
      BY <2>3
    <3> HIDE DEF S
    <3>3. QED  BY <1>6, <3>1, <3>2, FS_Subset
  <2>5. Max(S) \in S
    <3> HIDE DEF S
    <3> QED BY <2>4, LargestIn
  <2>6. x \in DOMAIN rows /\ \E q \in DOMAIN rows : rows[q] = x
    BY <1>12, <2>3 DEF Item
  <2> HIDE DEF rows
  <2>7. ReverseIdx(rows)[x] = Max(S)
    BY <1>12, <2>6 DEF ReverseIdx
  <2>8. Restored(rows)[x] = rows[Max(S)]
    BY <2>6, <2>7 DEF Restored
  <2>9. QED  BY <2>5, <2>8
<1>14. QED  BY <1>12, <1>13

\* The sum kept with a set is the length of its sequences, and every sequence is in one set.
THEOREM PartsStayExact == Spec => []PartsExact
<1>1. CompleteInv => PartsExact
  BY DEF CompleteInv, BalanceInv, PartsExact
<1>2. QED  BY <1>1, CompleteInvariant, PTL

\* A micro-batch exceeds max_token_len by less than the longest sequence
\* (rearrange_micro_batches, seqlen_balancing.py).
THEOREM OvershootAlwaysBounded == Spec => []OvershootBounded
BY CompleteInvariant, CompleteBounds, PTL

\* restore_dynamic_batch puts every row back where it came from.
THEOREM OrderRestored == Spec => []RestoresOrder
BY CompleteInvariant, CompleteRestores, PTL
=============================================================================
