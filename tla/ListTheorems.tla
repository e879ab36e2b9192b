---------------------------- MODULE ListTheorems ----------------------------
(* Facts about sums, sorted lists and flattened sequences that the proofs of  *)
(* several modules use. A sum is a recursive function over the subsets of its *)
(* domain, and a flattened sequence one over its parts. The induction rules   *)
(* take a set where a predicate would be expected, so that a statement is     *)
(* proved for all elements by defining the set of those that satisfy it.      *)
EXTENDS Listing, Integers, Sequences, FiniteSets, FiniteSetsExt, Functions,
        SequencesExt, FiniteSetTheorems, WellFoundedInduction, TLAPS

\* A nonempty set of natural numbers has a smallest element.
LEMMA SmallestIn ==
  ASSUME NEW T, T \subseteq Nat, T # {}
  PROVE  \E x \in T : \A y \in T : x <= y
<1>1. \E x \in T : \A y \in T : ~ (<<y, x>> \in OpToRel(<, Nat))
  <2> DEFINE R == OpToRel(<, Nat)
  <2>1. IsWellFoundedOn(R, Nat)
    BY NatLessThanWellFounded
  <2> HIDE DEF R
  <2>2. \E x \in T : \A y \in T : ~ (<<y, x>> \in R)
    BY <2>1, WFMin
  <2> QED BY <2>2 DEF R
<1>2. \A x, y \in Nat : y < x => <<y, x>> \in OpToRel(<, Nat)
  BY DEF OpToRel
<1>3. \A x, y \in Nat : x <= y \/ y < x OBVIOUS
<1>4. QED BY <1>1, <1>2, <1>3

\* Induction over the natural numbers, the statement seen as a set.
LEMMA SetInduction ==
  ASSUME NEW S, 0 \in S, \A n \in Nat : n \in S => n + 1 \in S
  PROVE  Nat \subseteq S
<1> DEFINE T == {n \in Nat : n \notin S}
<1> SUFFICES ASSUME T # {} PROVE FALSE
  OBVIOUS
<1>1. PICK x \in T : \A y \in T : x <= y
  <2> HIDE DEF T
  <2>1. T \subseteq Nat BY DEF T
  <2> QED BY <2>1, SmallestIn
<1>2. x # 0 BY <1>1
<1>3. x - 1 \in Nat /\ x - 1 \notin T BY <1>1, <1>2
<1>4. QED BY <1>1, <1>3

(* Induction over the subsets of a finite set, each seen as a set of such subsets. *)
LEMMA SubsetInduction ==
  ASSUME NEW D, IsFiniteSet(D), NEW P, {} \in P,
         \A T \in SUBSET D : T \in P => \A x \in D \ T : T \cup {x} \in P
  PROVE  SUBSET D \subseteq P
<1> DEFINE Q == {n \in Nat : \A T \in SUBSET D : Cardinality(T) = n => T \in P}
<1>1. \A T \in SUBSET D : IsFiniteSet(T) /\ Cardinality(T) \in Nat
  BY FS_Subset, FS_CardinalityType
<1>2. 0 \in Q
  BY <1>1, FS_EmptySet
<1>3. ASSUME NEW n \in Nat, n \in Q  PROVE n + 1 \in Q
  <2> SUFFICES ASSUME NEW T \in SUBSET D, Cardinality(T) = n + 1  PROVE T \in P
    OBVIOUS
  <2>1. T # {}
    <3>1. Cardinality({}) = 0
      BY FS_EmptySet
    <3>2. n + 1 # 0
      OBVIOUS
    <3>3. QED  BY <3>1, <3>2
  <2>2. PICK x \in T : TRUE
    BY <2>1
  <2> DEFINE U == T \ {x}
  <2>3. Cardinality(U) = n
    <3>1. IsFiniteSet(T)
      BY <1>1
    <3>2. Cardinality(U) = Cardinality(T) - 1
      BY <3>1, <2>2, FS_RemoveElement
    <3>3. QED BY <3>2
  <2>4. U \in P
    BY <2>3, <1>3
  <2>5. x \in D \ U /\ U \in SUBSET D /\ U \cup {x} = T
    BY <2>2
  <2> HIDE DEF U
  <2>6. QED  BY <2>4, <2>5
<1> HIDE DEF Q
<1>4. Nat \subseteq Q
  BY <1>2, <1>3, SetInduction
<1>5. QED
  BY <1>1, <1>4 DEF Q

(* Sums and products over the elements of a finite set. *)
Neutral(o) == IF o = "sum" THEN 0 ELSE 1
Combined(o, a, b) == IF o = "sum" THEN a + b ELSE a * b
Pick(S) == CHOOSE x \in S : TRUE

Over(o, f, S) ==
  MapThenFoldSet(LAMBDA a, b : Combined(o, a, b), Neutral(o),
                 LAMBDA x : f[x], LAMBDA s : CHOOSE x \in s : TRUE, S)

Step(o, f, h, s) ==
  IF s = {} THEN Neutral(o) ELSE Combined(o, f[Pick(s)], h[s \ {Pick(s)}])

(* The recursion of a fold over S. *)
IsFold(o, f, h, S) == h = [s \in SUBSET S |-> Step(o, f, h, s)]

\* A fold is the value at S of a function that satisfies the recursion.
LEMMA FoldIsChosen ==
  ASSUME NEW o, NEW f, NEW S
  PROVE  Over(o, f, S) = (CHOOSE h : IsFold(o, f, h, S))[S]
BY DEF Over, MapThenFoldSet, IsFold, Step, Pick

(* There is one: it is built up by the size of the sets. *)
LEMMA FoldExists ==
  ASSUME NEW S, IsFiniteSet(S), NEW o, NEW f
  PROVE  \E h : IsFold(o, f, h, S)
<1> DEFINE Small(n) == {s \in SUBSET S : Cardinality(s) <= n}
           Q == {n \in Nat : \E h : h = [s \in Small(n) |-> Step(o, f, h, s)]}
<1>1. \A s \in SUBSET S : IsFiniteSet(s) /\ Cardinality(s) \in Nat
  BY FS_Subset, FS_CardinalityType
<1>2. \A s \in SUBSET S : s # {} => Pick(s) \in s
  BY DEF Pick
<1>3. ASSUME NEW s \in SUBSET S, s # {}
      PROVE  Cardinality(s \ {Pick(s)}) = Cardinality(s) - 1
  <2>1. IsFiniteSet(s) /\ Pick(s) \in s
    BY <1>1, <1>2, <1>3
  <2>2. QED  BY <2>1, FS_RemoveElement
<1>4. \A s \in SUBSET S : Cardinality(s) = 0 <=> s = {}
  BY <1>1, FS_EmptySet
<1>5. 0 \in Q
  <2> DEFINE h == [s \in Small(0) |-> Neutral(o)]
  <2>1. h = [s \in Small(0) |-> Step(o, f, h, s)]
    BY <1>1, <1>4 DEF Step
  <2>2. QED  BY <2>1
<1>6. ASSUME NEW n \in Nat, n \in Q  PROVE n + 1 \in Q
  <2>1. PICK g : g = [s \in Small(n) |-> Step(o, f, g, s)]
    BY <1>6
  <2> DEFINE h == [s \in Small(n + 1) |-> Step(o, f, g, s)]
  <2>2. ASSUME NEW s \in Small(n + 1)  PROVE Step(o, f, g, s) = Step(o, f, h, s)
    <3>1. CASE s = {}
      BY <3>1 DEF Step
    <3>2. CASE s # {}
      <4> DEFINE t == s \ {Pick(s)}
      <4>1. t \in Small(n) /\ t \in Small(n + 1)
        BY <1>1, <1>3, <3>2
      <4>2. g[t] = Step(o, f, g, t) /\ h[t] = Step(o, f, g, t)
        <5> HIDE DEF t, Small
        <5> QED BY <2>1, <4>1
      <4>3. QED  BY <3>2, <4>2 DEF Step
    <3>3. QED  BY <3>1, <3>2
  <2>3. h = [s \in Small(n + 1) |-> Step(o, f, h, s)]
    BY <2>2
  <2> HIDE DEF h, Small
  <2>4. \E e : e = [s \in Small(n + 1) |-> Step(o, f, e, s)]
    BY <2>3
  <2>5. QED  BY <2>4
<1> HIDE DEF Q
<1>7. Cardinality(S) \in Q
  BY <1>1, <1>5, <1>6, SetInduction
<1>8. Small(Cardinality(S)) = SUBSET S
  <2>1. ASSUME NEW s \in SUBSET S  PROVE Cardinality(s) <= Cardinality(S)
    BY FS_Subset
  <2>2. QED  BY <2>1
<1>9. QED  BY <1>7, <1>8 DEF Q, IsFold

\* So a fold does satisfy its recursion.
LEMMA FoldIsOne ==
  ASSUME NEW o, NEW f, NEW S, IsFiniteSet(S)
  PROVE  \E h : IsFold(o, f, h, S) /\ Over(o, f, S) = h[S]
BY FoldIsChosen, FoldExists

(* And there is only one. *)
LEMMA FoldUnique ==
  ASSUME NEW o, NEW f, NEW S, IsFiniteSet(S), NEW T \in SUBSET S,
         NEW g, IsFold(o, f, g, S), NEW h, IsFold(o, f, h, T)
  PROVE  \A s \in SUBSET T : g[s] = h[s]
<1> DEFINE Q == {n \in Nat : \A s \in SUBSET T : Cardinality(s) = n => g[s] = h[s]}
<1>1. \A s \in SUBSET T : IsFiniteSet(s) /\ Cardinality(s) \in Nat
  BY FS_Subset, FS_CardinalityType
<1>2. \A s \in SUBSET T : g[s] = Step(o, f, g, s) /\ h[s] = Step(o, f, h, s)
  BY DEF IsFold
<1>3. ASSUME NEW s \in SUBSET T, s # {}
      PROVE  s \ {Pick(s)} \in SUBSET T /\ Cardinality(s \ {Pick(s)}) = Cardinality(s) - 1
  <2>1. IsFiniteSet(s) /\ Pick(s) \in s
    BY <1>1, <1>3 DEF Pick
  <2>2. QED  BY <2>1, FS_RemoveElement
<1>4. 0 \in Q
  <2>1. \A s \in SUBSET T : Cardinality(s) = 0 => s = {}
    BY <1>1, FS_EmptySet
  <2>2. QED  BY <1>2, <2>1 DEF Step
<1>5. ASSUME NEW n \in Nat, n \in Q  PROVE n + 1 \in Q
  <2> SUFFICES ASSUME NEW s \in SUBSET T, Cardinality(s) = n + 1  PROVE g[s] = h[s]
    OBVIOUS
  <2>1. CASE s = {}
    BY <1>2, <2>1 DEF Step
  <2>2. CASE s # {}
    <3>1. g[s \ {Pick(s)}] = h[s \ {Pick(s)}]
      BY <1>3, <1>5, <2>2
    <3>2. QED  BY <1>2, <2>2, <3>1 DEF Step
  <2>3. QED  BY <2>1, <2>2
<1> HIDE DEF Q
<1>6. Nat \subseteq Q
  BY <1>4, <1>5, SetInduction
<1>7. QED  BY <1>1, <1>6 DEF Q

(* The recursion of Sum itself. *)
LEMMA FoldRecursion ==
  ASSUME NEW o, NEW f, NEW S, IsFiniteSet(S)
  PROVE  /\ S = {} => Over(o, f, S) = Neutral(o)
         /\ S # {} => Pick(S) \in S /\ Over(o, f, S) = Combined(o, f[Pick(S)], Over(o, f, S \ {Pick(S)}))
<1>1. PICK g : IsFold(o, f, g, S) /\ Over(o, f, S) = g[S]
  BY FoldIsOne
<1>2. g[S] = Step(o, f, g, S)
  BY <1>1 DEF IsFold
<1>3. ASSUME S # {}
      PROVE  Pick(S) \in S /\ g[S \ {Pick(S)}] = Over(o, f, S \ {Pick(S)})
  <2> DEFINE T == S \ {Pick(S)}
  <2>1. Pick(S) \in S
    BY <1>3 DEF Pick
  <2>2. T \in SUBSET S /\ IsFiniteSet(T)
    BY FS_Subset
  <2> HIDE DEF T
  <2>3. PICK h : IsFold(o, f, h, T) /\ Over(o, f, T) = h[T]
    BY <2>2, FoldIsOne
  <2>4. g[T] = h[T]
    BY <1>1, <2>2, <2>3, FoldUnique
  <2>5. QED  BY <2>1, <2>3, <2>4 DEF T
<1>4. QED  BY <1>1, <1>2, <1>3 DEF Step

\* What folds combine are natural numbers, in any order.
LEMMA CombinedNat ==
  ASSUME NEW o, NEW a \in Nat, NEW b \in Nat
  PROVE  Combined(o, a, b) \in Nat /\ Combined(o, a, Neutral(o)) = a /\ Combined(o, Neutral(o), a) = a
BY DEF Combined, Neutral

LEMMA CombinedSwap ==
  ASSUME NEW o, NEW a \in Nat, NEW b \in Nat, NEW c \in Nat
  PROVE  /\ Combined(o, a, Combined(o, b, c)) = Combined(o, b, Combined(o, a, c))
         /\ Combined(o, Combined(o, a, b), c) = Combined(o, a, Combined(o, b, c))
<1>1. CASE o = "sum"
  BY <1>1 DEF Combined
<1>2. CASE o # "sum"
  <2>1. a * (b * c) = b * (a * c) /\ (a * b) * c = a * (b * c)
    OBVIOUS
  <2>2. QED  BY <1>2, <2>1 DEF Combined
<1>3. QED  BY <1>1, <1>2

(* Smaller than S by one. *)
LEMMA OneLess ==
  ASSUME NEW D, IsFiniteSet(D), NEW S \in SUBSET D, NEW n \in Nat, Cardinality(S) = n + 1
  PROVE  S # {} /\ \A x \in S : S \ {x} \in SUBSET D /\ Cardinality(S \ {x}) = n
<1>1. IsFiniteSet(S) /\ n + 1 # 0
  BY FS_Subset
<1>2. \A x \in S : Cardinality(S \ {x}) = Cardinality(S) - 1
  BY <1>1, FS_RemoveElement
<1>3. QED  BY <1>1, <1>2, FS_EmptySet

\* Folds of natural numbers are natural numbers.
LEMMA FoldNat ==
  ASSUME NEW o, NEW D, IsFiniteSet(D), NEW f, \A x \in D : f[x] \in Nat
  PROVE  \A S \in SUBSET D : Over(o, f, S) \in Nat
<1> DEFINE Q == {n \in Nat : \A S \in SUBSET D : Cardinality(S) = n => Over(o, f, S) \in Nat}
<1>1. \A S \in SUBSET D : IsFiniteSet(S) /\ Cardinality(S) \in Nat /\ (Cardinality(S) = 0 => S = {})
  BY FS_Subset, FS_CardinalityType, FS_EmptySet
<1>2. 0 \in Q
  <2> SUFFICES ASSUME NEW S \in SUBSET D, Cardinality(S) = 0  PROVE Over(o, f, S) \in Nat
    OBVIOUS
  <2>1. S = {} /\ Over(o, f, S) = Neutral(o)
    BY <1>1, FoldRecursion
  <2>2. QED  BY <2>1 DEF Neutral
<1>3. ASSUME NEW n \in Nat, n \in Q  PROVE n + 1 \in Q
  <2> SUFFICES ASSUME NEW S \in SUBSET D, Cardinality(S) = n + 1  PROVE Over(o, f, S) \in Nat
    OBVIOUS
  <2>1. S # {} /\ \A x \in S : Over(o, f, S \ {x}) \in Nat
    BY <1>3, OneLess
  <2>2. Pick(S) \in S /\ Over(o, f, S) = Combined(o, f[Pick(S)], Over(o, f, S \ {Pick(S)}))
    BY <1>1, <2>1, FoldRecursion
  <2> DEFINE a == f[Pick(S)]
             b == Over(o, f, S \ {Pick(S)})
  <2>3. a \in Nat /\ b \in Nat
    BY <2>1, <2>2
  <2> HIDE DEF a, b
  <2>4. Combined(o, a, b) \in Nat
    BY ONLY <2>3, CombinedNat
  <2>5. QED  BY ONLY <2>2, <2>4 DEF a, b
<1> HIDE DEF Q
<1>4. Nat \subseteq Q
  BY <1>2, <1>3, SetInduction
<1>5. QED  BY <1>1, <1>4 DEF Q

(* The order of the elements does not matter. *)
LEMMA FoldTakes ==
  ASSUME NEW o, NEW D, IsFiniteSet(D), NEW f, \A x \in D : f[x] \in Nat
  PROVE  \A S \in SUBSET D : \A x \in S :
           Over(o, f, S) = Combined(o, f[x], Over(o, f, S \ {x}))
<1> DEFINE Q == {n \in Nat : \A S \in SUBSET D : Cardinality(S) = n =>
                   \A x \in S : Over(o, f, S) = Combined(o, f[x], Over(o, f, S \ {x}))}
<1>1. \A S \in SUBSET D : IsFiniteSet(S) /\ Cardinality(S) \in Nat /\ (Cardinality(S) = 0 => S = {})
  BY FS_Subset, FS_CardinalityType, FS_EmptySet
<1>2. 0 \in Q
  BY <1>1
<1>3. ASSUME NEW n \in Nat, n \in Q  PROVE n + 1 \in Q
  <2> SUFFICES ASSUME NEW S \in SUBSET D, Cardinality(S) = n + 1, NEW x \in S
               PROVE  Over(o, f, S) = Combined(o, f[x], Over(o, f, S \ {x}))
    OBVIOUS
  <2> DEFINE p == Pick(S)
             R == (S \ {p}) \ {x}
  <2>1. p \in S /\ Over(o, f, S) = Combined(o, f[p], Over(o, f, S \ {p}))
    BY <1>1, OneLess, FoldRecursion
  <2> HIDE DEF p
  <2>2. CASE x = p
    BY <2>1, <2>2
  <2>3. CASE x # p
    <3>1. R = (S \ {x}) \ {p} /\ R \in SUBSET D /\ x \in S \ {p} /\ p \in S \ {x}
      BY <2>1, <2>3
    <3>2. \A y \in S : \A z \in S \ {y} :
            Over(o, f, S \ {y}) = Combined(o, f[z], Over(o, f, (S \ {y}) \ {z}))
      BY <1>3, OneLess
    <3>3. Over(o, f, S \ {p}) = Combined(o, f[x], Over(o, f, R))
      BY <2>1, <3>1, <3>2
    <3>4. Over(o, f, S \ {x}) = Combined(o, f[p], Over(o, f, R))
      BY <2>1, <3>1, <3>2
    <3>5. Over(o, f, R) \in Nat /\ f[x] \in Nat /\ f[p] \in Nat
      BY <2>1, <3>1, FoldNat
    <3> HIDE DEF R
    <3>6. Combined(o, f[p], Combined(o, f[x], Over(o, f, R)))
          = Combined(o, f[x], Combined(o, f[p], Over(o, f, R)))
      BY <3>5, CombinedSwap
    <3>7. QED  BY <2>1, <3>3, <3>4, <3>6
  <2>4. QED  BY <2>2, <2>3
<1> HIDE DEF Q
<1>4. Nat \subseteq Q
  BY <1>2, <1>3, SetInduction
<1>5. QED  BY <1>1, <1>4 DEF Q

(* The folds of the community modules that the specifications use. *)
SumStep(f, h, s) == IF s = {} THEN 0 ELSE f[Pick(s)] + h[s \ {Pick(s)}]

\* The fold by which the community modules define SumFunction.
LEMMA SumsAreFolds ==
  ASSUME NEW f, NEW S, IsFiniteSet(S)
  PROVE  MapThenFoldSet(+, 0, LAMBDA x : f[x], LAMBDA s : CHOOSE x \in s : TRUE, S) = Over("sum", f, S)
<1> DEFINE P(h) == h = [s \in SUBSET S |-> SumStep(f, h, s)]
           c == CHOOSE h : P(h)
<1>1. MapThenFoldSet(+, 0, LAMBDA x : f[x], LAMBDA s : CHOOSE x \in s : TRUE, S) = c[S]
  BY DEF MapThenFoldSet, SumStep, Pick
<1>2. ASSUME NEW h  PROVE P(h) <=> IsFold("sum", f, h, S)
  BY DEF IsFold, Step, SumStep, Combined, Neutral
<1>3. PICK h : IsFold("sum", f, h, S) /\ Over("sum", f, S) = h[S]
  BY FoldIsOne
<1>4. P(c)
  <2>1. \E g : P(g)
    BY <1>2, <1>3
  <2> HIDE DEF P
  <2>2. QED  BY <2>1
<1>5. IsFold("sum", f, c, S)
  <2> HIDE DEF c, P
  <2> QED BY <1>2, <1>4
<1> HIDE DEF c, P
<1>6. c[S] = h[S]
  BY <1>3, <1>5, FoldUnique
<1>7. QED  BY <1>1, <1>3, <1>6

SumOver(f, S) == Over("sum", f, S)

\* A sum is a natural number, and any term can be taken out or put in.
LEMMA SumBasics ==
  ASSUME NEW D, IsFiniteSet(D), NEW f, \A x \in D : f[x] \in Nat
  PROVE  /\ SumOver(f, {}) = 0
         /\ \A S \in SUBSET D : SumOver(f, S) \in Nat
         /\ \A S \in SUBSET D : \A x \in S : SumOver(f, S) = f[x] + SumOver(f, S \ {x})
         /\ \A S \in SUBSET D : \A x \in D \ S : SumOver(f, S \cup {x}) = f[x] + SumOver(f, S)
<1>1. SumOver(f, {}) = 0
  BY FS_EmptySet, FoldRecursion DEF SumOver, Neutral
<1>2. \A S \in SUBSET D : SumOver(f, S) \in Nat
  BY FoldNat DEF SumOver
<1>3. \A S \in SUBSET D : \A x \in S : SumOver(f, S) = f[x] + SumOver(f, S \ {x})
  <2> SUFFICES ASSUME NEW S \in SUBSET D, NEW x \in S
               PROVE  SumOver(f, S) = f[x] + SumOver(f, S \ {x})
    OBVIOUS
  <2>1. Over("sum", f, S) = Combined("sum", f[x], Over("sum", f, S \ {x}))
    BY FoldTakes
  <2>2. QED  BY <2>1 DEF SumOver, Combined
<1>4. \A S \in SUBSET D : \A x \in D \ S : SumOver(f, S \cup {x}) = f[x] + SumOver(f, S)
  <2> SUFFICES ASSUME NEW S \in SUBSET D, NEW x \in D \ S
               PROVE  SumOver(f, S \cup {x}) = f[x] + SumOver(f, S)
    OBVIOUS
  <2>1. S \cup {x} \in SUBSET D /\ x \in S \cup {x} /\ (S \cup {x}) \ {x} = S
    OBVIOUS
  <2>2. QED  BY <1>3, <2>1
<1>5. QED  BY <1>1, <1>2, <1>3, <1>4

\* Larger terms, a larger sum.
LEMMA SumMonotone ==
  ASSUME NEW D, IsFiniteSet(D), NEW f, NEW g,
         \A x \in D : f[x] \in Nat /\ g[x] \in Nat /\ f[x] <= g[x]
  PROVE  \A S \in SUBSET D : SumOver(f, S) <= SumOver(g, S)
<1> DEFINE P == {S \in SUBSET D : SumOver(f, S) <= SumOver(g, S)}
<1>1. {} \in P
  BY SumBasics
<1>2. ASSUME NEW T \in SUBSET D, T \in P, NEW x \in D \ T  PROVE T \cup {x} \in P
  <2>1. /\ SumOver(f, T \cup {x}) = f[x] + SumOver(f, T)
        /\ SumOver(g, T \cup {x}) = g[x] + SumOver(g, T)
        /\ SumOver(f, T) \in Nat /\ SumOver(g, T) \in Nat
    BY SumBasics
  <2>2. f[x] \in Nat /\ g[x] \in Nat /\ f[x] <= g[x] /\ SumOver(f, T) <= SumOver(g, T)
    BY <1>2
  <2>3. QED  BY <2>1, <2>2
<1> HIDE DEF P
<1>3. SUBSET D \subseteq P
  BY <1>1, <1>2, SubsetInduction
<1>4. QED  BY <1>3 DEF P

\* Equal terms, an equal sum.
LEMMA SumEqual ==
  ASSUME NEW D, IsFiniteSet(D), NEW f, NEW g,
         \A x \in D : f[x] \in Nat /\ g[x] = f[x]
  PROVE  SumOver(g, D) = SumOver(f, D)
<1>1. SumOver(f, D) <= SumOver(g, D) /\ SumOver(g, D) <= SumOver(f, D)
  BY SumMonotone
<1>2. SumOver(f, D) \in Nat /\ SumOver(g, D) \in Nat
  BY SumBasics
<1>3. QED  BY <1>1, <1>2

(* Of two functions one of which is never above the other, equal sums make *)
(* equal functions.                                                        *)
LEMMA SumRigid ==
  ASSUME NEW D, IsFiniteSet(D), NEW f, NEW g,
         \A x \in D : f[x] \in Nat /\ g[x] \in Nat /\ f[x] <= g[x],
         SumOver(g, D) <= SumOver(f, D)
  PROVE  \A x \in D : f[x] = g[x]
<1> SUFFICES ASSUME NEW x \in D  PROVE f[x] = g[x]
  OBVIOUS
<1>1. /\ SumOver(f, D) = f[x] + SumOver(f, D \ {x})
      /\ SumOver(g, D) = g[x] + SumOver(g, D \ {x})
      /\ SumOver(f, D \ {x}) \in Nat /\ SumOver(g, D \ {x}) \in Nat
  BY SumBasics
<1>2. SumOver(f, D \ {x}) <= SumOver(g, D \ {x})
  BY SumMonotone
<1>3. f[x] \in Nat /\ g[x] \in Nat /\ f[x] <= g[x]
  OBVIOUS
<1>4. QED  BY <1>1, <1>2, <1>3

\* The sum of linear terms.
LEMMA SumLinear ==
  ASSUME NEW D, IsFiniteSet(D), NEW f, NEW g, NEW h, NEW l \in Nat,
         \A x \in D : f[x] \in Nat /\ g[x] \in Nat /\ h[x] = f[x] + l * g[x]
  PROVE  SumOver(h, D) = SumOver(f, D) + l * SumOver(g, D)
<1> DEFINE P == {S \in SUBSET D : SumOver(h, S) = SumOver(f, S) + l * SumOver(g, S)}
<1>0. \A x \in D : h[x] \in Nat
  OBVIOUS
<1>1. {} \in P
  BY <1>0, SumBasics
<1>2. ASSUME NEW T \in SUBSET D, T \in P, NEW x \in D \ T  PROVE T \cup {x} \in P
  <2>1. /\ SumOver(f, T \cup {x}) = f[x] + SumOver(f, T)
        /\ SumOver(g, T \cup {x}) = g[x] + SumOver(g, T)
        /\ SumOver(f, T) \in Nat /\ SumOver(g, T) \in Nat
    BY SumBasics
  <2>2. SumOver(h, T \cup {x}) = h[x] + SumOver(h, T)
    BY <1>0, SumBasics
  <2>3. f[x] \in Nat /\ g[x] \in Nat /\ h[x] = f[x] + l * g[x]
        /\ SumOver(h, T) = SumOver(f, T) + l * SumOver(g, T)
    BY <1>2
  <2>4. l * (g[x] + SumOver(g, T)) = l * g[x] + l * SumOver(g, T)
    BY <2>1, <2>3
  <2>5. l * g[x] \in Nat /\ l * SumOver(g, T) \in Nat
    BY <2>1, <2>3
  <2>6. QED  BY <2>1, <2>2, <2>3, <2>4, <2>5
<1> HIDE DEF P
<1>3. D \in P
  BY <1>1, <1>2, SubsetInduction
<1>4. QED  BY <1>3 DEF P

\* The sum over two sets that share nothing.
LEMMA SumUnion ==
  ASSUME NEW D, IsFiniteSet(D), NEW f, \A x \in D : f[x] \in Nat,
         NEW S \in SUBSET D
  PROVE  \A T \in SUBSET D : S \cap T = {} => SumOver(f, S \cup T) = SumOver(f, S) + SumOver(f, T)
<1> DEFINE P == {T \in SUBSET D : S \cap T = {} => SumOver(f, S \cup T) = SumOver(f, S) + SumOver(f, T)}
<1>1. {} \in P
  <2>1. S \cup {} = S /\ SumOver(f, {}) = 0 /\ SumOver(f, S) \in Nat
    BY SumBasics
  <2>2. QED  BY <2>1
<1>2. ASSUME NEW T \in SUBSET D, T \in P, NEW x \in D \ T  PROVE T \cup {x} \in P
  <2> SUFFICES ASSUME S \cap (T \cup {x}) = {}
               PROVE  SumOver(f, S \cup (T \cup {x})) = SumOver(f, S) + SumOver(f, T \cup {x})
    OBVIOUS
  <2>1. /\ S \cap T = {} /\ S \cup (T \cup {x}) = (S \cup T) \cup {x}
        /\ x \in D \ (S \cup T) /\ S \cup T \in SUBSET D
    OBVIOUS
  <2>2. /\ SumOver(f, (S \cup T) \cup {x}) = f[x] + SumOver(f, S \cup T)
        /\ SumOver(f, T \cup {x}) = f[x] + SumOver(f, T)
        /\ SumOver(f, T) \in Nat /\ SumOver(f, S) \in Nat /\ SumOver(f, S \cup T) \in Nat
    BY <2>1, SumBasics
  <2>3. SumOver(f, S \cup T) = SumOver(f, S) + SumOver(f, T) /\ f[x] \in Nat
    BY <1>2, <2>1
  <2>4. SumOver(f, S \cup (T \cup {x})) = f[x] + (SumOver(f, S) + SumOver(f, T))
    BY <2>1, <2>2, <2>3
  <2>5. QED  BY <2>2, <2>3, <2>4
<1> HIDE DEF P
<1>3. SUBSET D \subseteq P
  BY <1>1, <1>2, SubsetInduction
<1>4. QED  BY <1>3 DEF P

\* The sum of one constant.
LEMMA SumConstant ==
  ASSUME NEW D, IsFiniteSet(D), NEW c \in Nat, NEW f, \A x \in D : f[x] = c
  PROVE  \A S \in SUBSET D : SumOver(f, S) = c * Cardinality(S)
<1> DEFINE P == {S \in SUBSET D : SumOver(f, S) = c * Cardinality(S)}
<1>1. {} \in P
  BY SumBasics, FS_EmptySet
<1>2. ASSUME NEW T \in SUBSET D, T \in P, NEW x \in D \ T  PROVE T \cup {x} \in P
  <2>1. SumOver(f, T \cup {x}) = f[x] + SumOver(f, T)
    BY SumBasics
  <2>2. IsFiniteSet(T) /\ Cardinality(T) \in Nat
    BY FS_Subset, FS_CardinalityType
  <2>3. Cardinality(T \cup {x}) = Cardinality(T) + 1
    BY <2>2, FS_AddElement
  <2>4. c * (Cardinality(T) + 1) = c * Cardinality(T) + c /\ c * Cardinality(T) \in Nat
    BY <2>2
  <2>5. QED  BY <1>2, <2>1, <2>3, <2>4
<1> HIDE DEF P
<1>3. SUBSET D \subseteq P
  BY <1>1, <1>2, SubsetInduction
<1>4. QED  BY <1>3 DEF P

(* A sum does not depend on the names of its terms. *)
LEMMA SumRenamed ==
  ASSUME NEW D, IsFiniteSet(D), NEW f, NEW g, NEW b,
         \A x \in D : f[x] \in Nat /\ g[b[x]] = f[x],
         \A x, y \in D : b[x] = b[y] => x = y
  PROVE  SumOver(g, {b[x] : x \in D}) = SumOver(f, D)
<1> DEFINE I(S) == {b[x] : x \in S}
           P == {S \in SUBSET D : SumOver(g, I(S)) = SumOver(f, S)}
<1>0. IsFiniteSet(I(D)) /\ \A y \in I(D) : g[y] \in Nat
  <2>1. IsFiniteSet(I(D))
    <3> DEFINE h == [x \in D |-> b[x]]
    <3>1. h \in Surjection(D, I(D))
      BY DEF Surjection
    <3> HIDE DEF h, I
    <3>2. QED  BY <3>1, FS_Surjection
  <2>2. QED  BY <2>1
<1>1. {} \in P
  <2>1. I({}) = {} /\ SumOver(f, {}) = 0
    BY SumBasics
  <2>2. SumOver(g, {}) = 0
    <3> HIDE DEF I
    <3> QED BY <1>0, SumBasics
  <2>3. QED  BY <2>1, <2>2
<1>2. ASSUME NEW T \in SUBSET D, T \in P, NEW x \in D \ T  PROVE T \cup {x} \in P
  <2>1. /\ I(T \cup {x}) = I(T) \cup {b[x]} /\ I(T) \in SUBSET I(D)
        /\ b[x] \in I(D) \ I(T)
    OBVIOUS
  <2>2. SumOver(f, T \cup {x}) = f[x] + SumOver(f, T)
    BY SumBasics
  <2>3. SumOver(g, I(T) \cup {b[x]}) = g[b[x]] + SumOver(g, I(T))
    <3> HIDE DEF I
    <3> QED BY <1>0, <2>1, SumBasics
  <2>4. SumOver(g, I(T)) = SumOver(f, T) /\ g[b[x]] = f[x]
    BY <1>2
  <2>5. QED  BY <2>1, <2>2, <2>3, <2>4
<1> HIDE DEF P
<1>3. D \in P
  BY <1>1, <1>2, SubsetInduction
<1>4. QED  BY <1>3 DEF P

\* The sums of the models are the sums of this module.
LEMMA PartialSumIsFold ==
  ASSUME NEW f, NEW S, IsFiniteSet(S)
  PROVE  SumFunctionOnSet(f, S) = SumOver(f, S)
BY SumsAreFolds DEF SumFunctionOnSet, FoldFunctionOnSet, SumOver

LEMMA WholeSumIsFold ==
  ASSUME NEW f, IsFiniteSet(DOMAIN f)
  PROVE  SumFunction(f) = SumOver(f, DOMAIN f)
BY PartialSumIsFold DEF SumFunction

\* One term of a sum, and the others.
LEMMA SumWithout ==
  ASSUME NEW D, IsFiniteSet(D), NEW f, \A x \in D : f[x] \in Nat, NEW y \in D
  PROVE  SumOver(f, D) = f[y] + SumOver(f, D \ {y}) /\ SumOver(f, D \ {y}) \in Nat
BY SumBasics

LEMMA SumAdds ==
  ASSUME NEW D, IsFiniteSet(D), NEW f, \A x \in D : f[x] \in Nat, NEW S \in SUBSET D, NEW y \in D \ S
  PROVE  SumOver(f, S \cup {y}) = f[y] + SumOver(f, S) /\ SumOver(f, S) \in Nat
BY SumBasics

\* The same constant added to every term.
LEMMA SumShifted ==
  ASSUME NEW D, IsFiniteSet(D), NEW c \in Nat, NEW f, NEW h,
         \A x \in D : f[x] \in Nat /\ h[x] = f[x] + c
  PROVE  SumOver(h, D) = SumOver(f, D) + c * Cardinality(D)
<1> DEFINE g == [x \in D |-> c]
           P == {S \in SUBSET D : SumOver(h, S) = SumOver(f, S) + SumOver(g, S)}
<1>0. \A x \in D : h[x] \in Nat /\ g[x] = c /\ g[x] \in Nat
  OBVIOUS
<1> HIDE DEF g
<1>1. {} \in P
  BY <1>0, SumBasics
<1>2. ASSUME NEW T \in SUBSET D, T \in P, NEW x \in D \ T  PROVE T \cup {x} \in P
  <2>1. /\ SumOver(f, T \cup {x}) = f[x] + SumOver(f, T) /\ SumOver(f, T) \in Nat
        /\ SumOver(g, T \cup {x}) = g[x] + SumOver(g, T) /\ SumOver(g, T) \in Nat
        /\ SumOver(h, T \cup {x}) = h[x] + SumOver(h, T) /\ SumOver(h, T) \in Nat
    <3>1. SumOver(f, T \cup {x}) = f[x] + SumOver(f, T) /\ SumOver(f, T) \in Nat
      BY SumBasics
    <3>2. SumOver(g, T \cup {x}) = g[x] + SumOver(g, T) /\ SumOver(g, T) \in Nat
      BY <1>0, SumBasics
    <3>3. SumOver(h, T \cup {x}) = h[x] + SumOver(h, T) /\ SumOver(h, T) \in Nat
      BY <1>0, SumBasics
    <3>4. QED  BY <3>1, <3>2, <3>3
  <2>2. SumOver(h, T \cup {x}) = SumOver(f, T \cup {x}) + SumOver(g, T \cup {x})
    BY <1>0, <1>2, <2>1
  <2>3. QED  BY <2>2
<1> HIDE DEF P
<1>3. D \in P
  BY <1>1, <1>2, SubsetInduction
<1>4. SumOver(h, D) = SumOver(f, D) + SumOver(g, D)
  BY <1>3 DEF P
<1>5. SumOver(g, D) = c * Cardinality(D)
  <2>1. D \in SUBSET D /\ \A x \in D : g[x] = c
    BY <1>0
  <2>2. \A S \in SUBSET D : SumOver(g, S) = c * Cardinality(S)
    BY <2>1, SumConstant
  <2>3. QED  BY <2>1, <2>2
<1>6. QED  BY <1>4, <1>5

\* A sum over parts that share nothing.
LEMMA SumOfParts ==
  ASSUME NEW E, IsFiniteSet(E), NEW f, \A x \in E : f[x] \in Nat,
         NEW D, IsFiniteSet(D), NEW T, \A i \in D : T[i] \in SUBSET E,
         \A i, j \in D : i # j => T[i] \cap T[j] = {}
  PROVE  SumOver([i \in D |-> SumOver(f, T[i])], D) = SumOver(f, UNION {T[i] : i \in D})
<1> DEFINE g == [i \in D |-> SumOver(f, T[i])]
           U(S) == UNION {T[i] : i \in S}
           P == {S \in SUBSET D : SumOver(g, S) = SumOver(f, U(S))}
<1>1. \A i \in D : g[i] = SumOver(f, T[i]) /\ g[i] \in Nat
  BY SumBasics
<1>2. {} \in P
  <2>1. U({}) = {} /\ SumOver(f, {}) = 0
    BY SumBasics
  <2>2. SumOver(g, {}) = 0
    <3> HIDE DEF g
    <3> QED BY <1>1, SumBasics
  <2>3. QED  BY <2>1, <2>2
<1>3. ASSUME NEW S \in SUBSET D, S \in P, NEW i \in D \ S  PROVE S \cup {i} \in P
  <2>1. U(S \cup {i}) = U(S) \cup T[i] /\ U(S) \cap T[i] = {} /\ U(S) \in SUBSET E
    OBVIOUS
  <2>2. SumOver(f, U(S) \cup T[i]) = SumOver(f, U(S)) + SumOver(f, T[i])
    <3> HIDE DEF U
    <3> QED BY <2>1, SumUnion
  <2>3. SumOver(g, S \cup {i}) = g[i] + SumOver(g, S) /\ SumOver(g, S) \in Nat
    <3> HIDE DEF g
    <3> QED BY <1>1, SumBasics
  <2>4. SumOver(g, S) = SumOver(f, U(S)) /\ g[i] = SumOver(f, T[i]) /\ g[i] \in Nat
    BY <1>1, <1>3
  <2> HIDE DEF g, U
  <2>5. SumOver(g, S \cup {i}) = SumOver(f, U(S \cup {i}))
    <3> DEFINE x == SumOver(f, U(S))
               y == SumOver(f, T[i])
    <3>1. x \in Nat /\ y \in Nat
      BY <2>3, <2>4
    <3>2. SumOver(g, S \cup {i}) = y + x
      BY <2>3, <2>4
    <3>3. SumOver(f, U(S \cup {i})) = x + y
      BY <2>1, <2>2
    <3> HIDE DEF x, y
    <3>4. QED  BY <3>1, <3>2, <3>3
  <2>6. QED  BY <2>5
<1> HIDE DEF P
<1>4. D \in P
  BY <1>2, <1>3, SubsetInduction
<1>5. QED  BY <1>4 DEF P

\* Cardinalities are sums of ones.
LEMMA PartSizes ==
  ASSUME NEW E, IsFiniteSet(E), NEW D, IsFiniteSet(D), NEW T, \A i \in D : T[i] \in SUBSET E,
         \A i, j \in D : i # j => T[i] \cap T[j] = {}, UNION {T[i] : i \in D} = E,
         NEW l, \A i \in D : l[i] = Cardinality(T[i])
  PROVE  SumOver(l, D) = Cardinality(E)
<1> DEFINE f == [x \in E |-> 1]
           g == [i \in D |-> SumOver(f, T[i])]
<1>1. \A x \in E : f[x] = 1 /\ f[x] \in Nat
  OBVIOUS
<1>2. \A S \in SUBSET E : SumOver(f, S) = Cardinality(S)
  <2>1. \A x \in E : f[x] = 1
    OBVIOUS
  <2> HIDE DEF f
  <2>2. \A S \in SUBSET E : SumOver(f, S) = 1 * Cardinality(S)
    BY <2>1, SumConstant
  <2>3. \A S \in SUBSET E : Cardinality(S) \in Nat
    BY FS_Subset, FS_CardinalityType
  <2>4. QED  BY <2>2, <2>3
<1>3. SumOver(g, D) = SumOver(f, UNION {T[i] : i \in D})
  <2> HIDE DEF f
  <2> QED BY <1>1, SumOfParts
<1>4. \A i \in D : g[i] \in Nat /\ l[i] = g[i]
  <2>1. \A i \in D : Cardinality(T[i]) \in Nat
    BY FS_Subset, FS_CardinalityType
  <2>2. QED  BY <1>2, <2>1
<1> HIDE DEF g
<1>5. SumOver(l, D) = SumOver(g, D)
  BY <1>4, SumEqual
<1>6. QED  BY <1>2, <1>3, <1>5

\* Parts that differ by at most l are above their mean by less than l.
LEMMA MeanBound ==
  ASSUME NEW n \in Nat \ {0}, NEW f, \A i \in 1..n : f[i] \in Nat, NEW l \in Nat,
         \A i, j \in 1..n : f[i] - f[j] <= l, NEW j \in 1..n
  PROVE  n * f[j] <= SumOver(f, 1..n) + (n - 1) * l
<1> DEFINE D == 1..n
           E == D \ {j}
           c == [i \in D |-> f[j]]
           h == [i \in D |-> f[i] + l]
<1>1. IsFiniteSet(D) /\ Cardinality(D) = n /\ IsFiniteSet(E) /\ Cardinality(E) = n - 1
  <2>1. IsFiniteSet(D) /\ Cardinality(D) = n
    <3>1. 1 \in Int /\ n \in Int /\ n >= 1
      OBVIOUS
    <3>2. QED  BY <3>1, FS_Interval
  <2>2. IsFiniteSet(E) /\ Cardinality(E) = Cardinality(D) - 1
    <3>1. j \in D
      OBVIOUS
    <3> HIDE DEF D
    <3>2. QED  BY <2>1, <3>1, FS_RemoveElement
  <2>3. QED  BY <2>1, <2>2
<1>2. \A i \in E : f[i] \in Nat /\ c[i] = f[j] /\ h[i] = f[i] + l
  OBVIOUS
<1>3. \A i \in E : c[i] \in Nat /\ h[i] \in Nat /\ c[i] <= h[i]
  OBVIOUS
<1>4. \A i \in D : f[i] \in Nat
  OBVIOUS
<1>5. SumOver(f, D) = f[j] + SumOver(f, E) /\ SumOver(f, E) \in Nat /\ f[j] \in Nat
  <2>1. j \in D
    OBVIOUS
  <2> HIDE DEF D
  <2>2. QED  BY <1>1, <1>4, <2>1, SumWithout
<1> HIDE DEF D, E, c, h
<1>6. SumOver(c, E) <= SumOver(h, E)
  BY <1>1, <1>3, SumMonotone
<1>7. SumOver(h, E) = SumOver(f, E) + l * (n - 1)
  <2>1. l \in Nat
    OBVIOUS
  <2>2. (\A i \in E : f[i] \in Nat) /\ \A i \in E : h[i] = f[i] + l
    BY ONLY <1>2
  <2>3. SumOver(h, E) = SumOver(f, E) + l * Cardinality(E)
    BY ONLY <1>1, <2>1, <2>2, SumShifted
  <2>4. QED  BY ONLY <1>1, <2>3
<1>8. SumOver(c, E) = f[j] * (n - 1)
  <2> DEFINE a == f[j]
  <2>1. a \in Nat /\ E \in SUBSET E /\ \A i \in E : c[i] = a
    BY <1>2, <1>5
  <2> HIDE DEF a
  <2>2. SumOver(c, E) = a * Cardinality(E)
    BY <1>1, <2>1, SumConstant
  <2>3. QED  BY <1>1, <2>2 DEF a
<1> DEFINE x == f[j]
           s == SumOver(f, E)
<1>9. x * (n - 1) <= s + l * (n - 1) /\ SumOver(f, D) = x + s /\ s \in Nat /\ x \in Nat
  BY <1>5, <1>6, <1>7, <1>8
<1>10. n * x <= SumOver(f, D) + (n - 1) * l
  <2> HIDE DEF x, s
  <2>1. n * x = x * (n - 1) + x
    BY <1>9
  <2>2. (n - 1) * l = l * (n - 1)
    OBVIOUS
  <2>3. QED  BY <1>9, <2>1, <2>2
<1>11. QED  BY <1>10 DEF D, x

\* The sum over an interval, from the one before.
LEMMA SumFirst ==
  ASSUME NEW n \in Nat, NEW l, \A i \in 1..n : l[i] \in Nat, NEW m \in Nat, NEW x, x = m + 1, x <= n
  PROVE  SumOver(l, 1..x) = l[x] + SumOver(l, 1..m) /\ SumOver(l, 1..m) \in Nat
<1> DEFINE S == 1..m
           D == 1..n
<1>1. S \cup {x} = 1..x /\ S \in SUBSET D /\ x \in D \ S
  OBVIOUS
<1>2. IsFiniteSet(D)
  <2>1. 1 \in Int /\ n \in Int
    OBVIOUS
  <2>2. QED  BY <2>1, FS_Interval
<1>3. \A i \in D : l[i] \in Nat
  OBVIOUS
<1> HIDE DEF S, D
<1>4. SumOver(l, S \cup {x}) = l[x] + SumOver(l, S)
  BY ONLY <1>1, <1>2, <1>3, SumAdds
<1>5. SumOver(l, S) \in Nat
  BY ONLY <1>1, <1>2, <1>3, SumAdds
<1>6. QED  BY <1>1, <1>4, <1>5 DEF S

\* Max returns the largest element.
LEMMA LargestIn ==
  ASSUME NEW D, IsFiniteSet(D), D \subseteq Nat, D # {}
  PROVE  Max(D) \in D /\ \A y \in D : y <= Max(D)
<1> DEFINE P == {T \in SUBSET D : T # {} => \E x \in T : \A y \in T : x >= y}
<1>1. {} \in P
  OBVIOUS
<1>2. ASSUME NEW T \in SUBSET D, T \in P, NEW x \in D \ T  PROVE T \cup {x} \in P
  <2>1. CASE T = {}
    BY <2>1
  <2>2. CASE T # {}
    <3>1. PICK m \in T : \A y \in T : m >= y
      BY <1>2, <2>2
    <3>2. CASE m >= x
      BY <3>1, <3>2
    <3>3. CASE ~ (m >= x)
      <4>1. x \in T \cup {x} /\ \A y \in T \cup {x} : x >= y
        BY <3>1, <3>3
      <4>2. QED  BY <4>1
    <3>4. QED  BY <3>2, <3>3
  <2>3. QED  BY <2>1, <2>2
<1> HIDE DEF P
<1>3. D \in P
  BY <1>1, <1>2, SubsetInduction
<1>4. QED  BY <1>3 DEF P, Max

\* Min returns an element.
LEMMA SmallestOf ==
  ASSUME NEW S, S \subseteq Nat, S # {}
  PROVE  Min(S) \in S
<1>1. \E x \in S : \A y \in S : x =< y
  BY SmallestIn
<1>2. QED  BY <1>1 DEF Min

\* Listing by a strict total order names every element once.
LEMMA ListedIsBijection ==
  ASSUME NEW S, IsFiniteSet(S), NEW R,
         \A x \in S : <<x, x>> \notin R,
         \A x, y, z \in S : <<x, y>> \in R /\ <<y, z>> \in R => <<x, z>> \in R,
         \A x, y \in S : x # y => <<x, y>> \in R \/ <<y, x>> \in R
  PROVE  /\ Cardinality(S) \in Nat
         /\ Listed(S, R) \in [1..Cardinality(S) -> S]
         /\ \A i, j \in 1..Cardinality(S) : Listed(S, R)[i] = Listed(S, R)[j] => i = j
         /\ \A x \in S : \E i \in 1..Cardinality(S) : Listed(S, R)[i] = x
<1> DEFINE n == Cardinality(S)
           B(x) == {y \in S : <<y, x>> \in R}
           rank == [x \in S |-> Cardinality(B(x)) + 1]
<1>1. n \in Nat /\ IsFiniteSet(1..n) /\ Cardinality(1..n) = n
  <2>1. n \in Nat
    BY FS_CardinalityType
  <2>2. IsFiniteSet(1..n) /\ Cardinality(1..n) = (IF 1 > n THEN 0 ELSE n - 1 + 1)
    <3>1. 1 \in Int /\ n \in Int
      BY <2>1
    <3>2. QED  BY <3>1, FS_Interval
  <2>3. QED  BY <2>1, <2>2
<1>2. ASSUME NEW x \in S
      PROVE  IsFiniteSet(B(x)) /\ Cardinality(B(x)) \in Nat /\ Cardinality(B(x)) < n
  <2>1. B(x) \subseteq S /\ B(x) # S
    OBVIOUS
  <2> HIDE DEF B
  <2>2. IsFiniteSet(B(x)) /\ Cardinality(B(x)) <= n /\ (Cardinality(B(x)) = n => B(x) = S)
    BY <2>1, FS_Subset
  <2>3. Cardinality(B(x)) \in Nat
    BY <2>2, FS_CardinalityType
  <2>4. QED  BY <1>1, <2>1, <2>2, <2>3
<1>3. ASSUME NEW x \in S, NEW y \in S, <<x, y>> \in R
      PROVE  Cardinality(B(x)) < Cardinality(B(y))
  <2>1. B(x) \subseteq B(y) /\ x \in B(y) /\ x \notin B(x)
    BY <1>3
  <2>2. IsFiniteSet(B(y)) /\ Cardinality(B(y)) \in Nat /\ Cardinality(B(x)) \in Nat
    BY <1>2
  <2> HIDE DEF B
  <2>3. Cardinality(B(x)) <= Cardinality(B(y)) /\ (Cardinality(B(x)) = Cardinality(B(y)) => B(x) = B(y))
    BY <2>1, <2>2, FS_Subset
  <2>4. QED  BY <2>1, <2>2, <2>3
<1>4. rank \in [S -> 1..n]
  <2>1. \A x \in S : Cardinality(B(x)) + 1 \in 1..n
    <3> HIDE DEF B, n
    <3> QED BY <1>1, <1>2
  <2>2. QED  BY <2>1
<1>5. \A x, y \in S : rank[x] = rank[y] => x = y
  <2> SUFFICES ASSUME NEW x \in S, NEW y \in S, x # y  PROVE rank[x] # rank[y]
    OBVIOUS
  <2>1. Cardinality(B(x)) \in Nat /\ Cardinality(B(y)) \in Nat
    BY <1>2
  <2>2. Cardinality(B(x)) < Cardinality(B(y)) \/ Cardinality(B(y)) < Cardinality(B(x))
    <3>1. <<x, y>> \in R \/ <<y, x>> \in R
      OBVIOUS
    <3> HIDE DEF B
    <3>2. QED  BY ONLY <1>3, <3>1, x \in S, y \in S
  <2>3. rank[x] = Cardinality(B(x)) + 1 /\ rank[y] = Cardinality(B(y)) + 1
    OBVIOUS
  <2> HIDE DEF B, rank
  <2>4. QED  BY <2>1, <2>2, <2>3
<1>6. \A i \in 1..n : \E x \in S : rank[x] = i
  <2>1. rank \in Injection(S, 1..n)
    BY <1>4, <1>5 DEF Injection, IsInjective
  <2> HIDE DEF rank
  <2>2. rank \in Surjection(S, 1..n)
    BY <1>1, <2>1, FS_Injection
  <2>3. QED  BY <2>2 DEF Surjection
<1>7. ASSUME NEW i \in 1..n
      PROVE  Listed(S, R)[i] \in S /\ rank[Listed(S, R)[i]] = i
  <2>1. Listed(S, R)[i] = CHOOSE x \in S : Cardinality(B(x)) = i - 1
    BY DEF Listed
  <2>2. \E x \in S : Cardinality(B(x)) = i - 1
    <3>1. PICK x \in S : rank[x] = i
      BY <1>6
    <3>2. Cardinality(B(x)) + 1 = i /\ Cardinality(B(x)) \in Nat
      BY <1>2, <3>1
    <3> HIDE DEF B
    <3>3. QED  BY <3>2
  <2> DEFINE l == Listed(S, R)[i]
  <2>3. l \in S /\ Cardinality(B(l)) = i - 1
    <3> HIDE DEF B
    <3> QED BY <2>1, <2>2
  <2>4. rank[l] = (i - 1) + 1
    <3> HIDE DEF l
    <3> QED BY <2>3
  <2>5. QED  BY <1>1, <2>3, <2>4
<1>8. Listed(S, R) \in [1..n -> S]
  <2> DEFINE e(i) == CHOOSE x \in S : Cardinality(B(x)) = i - 1
  <2>1. Listed(S, R) = [i \in 1..n |-> e(i)]
    BY DEF Listed
  <2>2. \A i \in 1..n : e(i) \in S
    <3> HIDE DEF e
    <3> QED BY <1>7, <2>1
  <2> HIDE DEF e
  <2>3. QED  BY <2>1, <2>2
<1>9. \A x \in S : rank[x] \in 1..n /\ Listed(S, R)[rank[x]] = x
  <2> HIDE DEF rank, n
  <2>1. \A x \in S : rank[x] \in 1..n
    BY <1>4
  <2>2. QED  BY <1>5, <1>7, <2>1
<1> HIDE DEF rank
<1>10. QED  BY <1>1, <1>7, <1>8, <1>9

LEMMA AscendingIsBijection ==
  ASSUME NEW S, IsFiniteSet(S), S \subseteq Nat
  PROVE  /\ Cardinality(S) \in Nat
         /\ Ascending(S) \in [1..Cardinality(S) -> S]
         /\ \A i, j \in 1..Cardinality(S) : Ascending(S)[i] = Ascending(S)[j] => i = j
         /\ \A x \in S : \E i \in 1..Cardinality(S) : Ascending(S)[i] = x
<1> DEFINE R == {e \in S \X S : e[1] < e[2]}
<1>1. \A x, y \in S : <<x, y>> \in R <=> x < y
  OBVIOUS
<1>2. \A x \in S : <<x, x>> \notin R
  BY <1>1
<1>3. \A x, y, z \in S : <<x, y>> \in R /\ <<y, z>> \in R => <<x, z>> \in R
  BY <1>1
<1>4. \A x, y \in S : x # y => <<x, y>> \in R \/ <<y, x>> \in R
  BY <1>1
<1>5. Ascending(S) = Listed(S, R)
  <2> DEFINE A(x) == {y \in S : y < x}
             B(x) == {y \in S : <<y, x>> \in R}
             a(i) == CHOOSE x \in S : Cardinality(A(x)) = i - 1
             b(i) == CHOOSE x \in S : Cardinality(B(x)) = i - 1
  <2>1. Ascending(S) = [i \in 1..Cardinality(S) |-> a(i)]
    BY DEF Ascending
  <2>2. Listed(S, R) = [i \in 1..Cardinality(S) |-> b(i)]
    BY DEF Listed
  <2>3. \A x \in S : A(x) = B(x)
    BY <1>1
  <2>4. ASSUME NEW i  PROVE a(i) = b(i)
    <3> HIDE DEF A, B
    <3> QED BY ONLY <2>3, Zenon DEF a, b
  <2> HIDE DEF a, b
  <2>5. QED  BY ONLY <2>1, <2>2, <2>4
<1> HIDE DEF R
<1>6. /\ Cardinality(S) \in Nat
      /\ Listed(S, R) \in [1..Cardinality(S) -> S]
      /\ \A i, j \in 1..Cardinality(S) : Listed(S, R)[i] = Listed(S, R)[j] => i = j
      /\ \A x \in S : \E i \in 1..Cardinality(S) : Listed(S, R)[i] = x
  BY <1>2, <1>3, <1>4, ListedIsBijection
<1>7. QED  BY <1>5, <1>6

Flattening(s, h, m) ==
  h = [i \in 1..m |-> IF i = 1 THEN s[i] ELSE h[i - 1] \o s[i]]

\* The recursion of FlattenSeq, step by step, and that something satisfies it.
LEMMA FlattenAt ==
  ASSUME NEW s, NEW n \in Nat, NEW h, Flattening(s, h, n), NEW i \in 1..n
  PROVE  h[i] = IF i = 1 THEN s[i] ELSE h[i - 1] \o s[i]
<1> DEFINE e(j) == IF j = 1 THEN s[j] ELSE h[j - 1] \o s[j]
<1>1. h = [j \in 1..n |-> e(j)]
  BY DEF Flattening
<1> HIDE DEF e
<1>2. h[i] = e(i)
  BY <1>1
<1>3. QED  BY <1>2 DEF e

LEMMA FlattenExists ==
  ASSUME NEW s, NEW n \in Nat
  PROVE  \E h : Flattening(s, h, n)
<1> DEFINE P == {m \in Nat : \E h : Flattening(s, h, m)}
<1>1. 0 \in P
  <2>1. Flattening(s, <<>>, 0)
    BY DEF Flattening
  <2>2. QED  BY <2>1
<1>2. ASSUME NEW m \in Nat, m \in P  PROVE m + 1 \in P
  <2>1. PICK h : Flattening(s, h, m)
    BY <1>2
  <2> DEFINE g == [i \in 1..(m + 1) |-> IF i = 1 THEN s[i] ELSE h[i - 1] \o s[i]]
  <2>2. \A i \in 1..m : g[i] = h[i]
    <3>1. ASSUME NEW i \in 1..m  PROVE h[i] = IF i = 1 THEN s[i] ELSE h[i - 1] \o s[i]
      BY ONLY <1>2, <2>1, <3>1, FlattenAt
    <3>2. \A i \in 1..m : i \in 1..(m + 1)
      OBVIOUS
    <3>3. QED  BY <3>1, <3>2
  <2>3. \A i \in 1..(m + 1) : i # 1 => i - 1 \in 1..m
    OBVIOUS
  <2>4. g = [i \in 1..(m + 1) |-> IF i = 1 THEN s[i] ELSE g[i - 1] \o s[i]]
    <3>1. \A i \in 1..(m + 1) : i # 1 => g[i - 1] = h[i - 1]
      BY <2>2, <2>3
    <3> DEFINE e(i) == IF i = 1 THEN s[i] ELSE h[i - 1] \o s[i]
               d(i) == IF i = 1 THEN s[i] ELSE g[i - 1] \o s[i]
    <3>2. \A i \in 1..(m + 1) : e(i) = d(i)
      BY <3>1
    <3>3. g = [i \in 1..(m + 1) |-> e(i)]
      OBVIOUS
    <3> HIDE DEF e, d, g
    <3>4. g = [i \in 1..(m + 1) |-> d(i)]
      BY <3>2, <3>3
    <3>5. QED  BY <3>4 DEF d
  <2>5. Flattening(s, g, m + 1)
    BY <2>4 DEF Flattening
  <2>6. QED  BY <2>5
<1> HIDE DEF P
<1>3. Nat \subseteq P
  BY <1>1, <1>2, SetInduction
<1>4. QED  BY <1>3 DEF P

\* FlattenSeq is the last of the partial concatenations.
Appending(s, n, h) ==
  /\ FlattenSeq(s) = h[n]
  /\ h[1] = s[1]
  /\ \A i \in 1..n : i > 1 => h[i] = h[i - 1] \o s[i]

LEMMA FlattenSteps ==
  ASSUME NEW n \in Nat \ {0}, NEW s, Len(s) = n
  PROVE  \E h : Appending(s, n, h)
<1> DEFINE c == CHOOSE h : h = [i \in 1..Len(s) |-> IF i = 1 THEN s[i] ELSE h[i - 1] \o s[i]]
<1>1. FlattenSeq(s) = c[n]
  BY DEF FlattenSeq
<1>2. \E h : h = [i \in 1..Len(s) |-> IF i = 1 THEN s[i] ELSE h[i - 1] \o s[i]]
  BY FlattenExists DEF Flattening
<1>3. Flattening(s, c, n)
  BY <1>2 DEF Flattening
<1> HIDE DEF c
<1>4. ASSUME NEW i \in 1..n  PROVE c[i] = IF i = 1 THEN s[i] ELSE c[i - 1] \o s[i]
  <2>1. n \in Nat
    OBVIOUS
  <2>2. QED  BY ONLY <1>3, <1>4, <2>1, FlattenAt
<1>5. c[1] = s[1]
  BY <1>4
<1>6. \A i \in 1..n : i > 1 => i # 1
  OBVIOUS
<1>7. QED  BY <1>1, <1>4, <1>5, <1>6 DEF Appending

\* Where the elements of a concatenation are.
Concatenated(E, a, b, c) ==
  /\ c \in Seq(E) /\ Len(c) = Len(a) + Len(b)
  /\ Len(a) \in Nat /\ Len(b) \in Nat
  /\ \A p \in 1..Len(a) : p \in 1..Len(c) /\ c[p] = a[p]
  /\ \A p \in 1..Len(b) : Len(a) + p \in 1..Len(c) /\ c[Len(a) + p] = b[p]
  /\ \A p \in 1..Len(c) : p \in 1..Len(a) \/ \E q \in 1..Len(b) : p = Len(a) + q

LEMMA ConcatFacts ==
  ASSUME NEW E, NEW a \in Seq(E), NEW b \in Seq(E)
  PROVE  Concatenated(E, a, b, a \o b)
<1>1. Len(a) \in Nat /\ Len(b) \in Nat /\ a \o b \in Seq(E) /\ Len(a \o b) = Len(a) + Len(b)
  OBVIOUS
<1>2. \A p \in 1..Len(a) : p \in 1..Len(a \o b) /\ (a \o b)[p] = a[p]
  BY <1>1
<1>3. \A p \in 1..Len(b) : Len(a) + p \in 1..Len(a \o b) /\ (a \o b)[Len(a) + p] = b[p]
  BY <1>1
<1>4. ASSUME NEW p \in 1..Len(a \o b), p \notin 1..Len(a)  PROVE \E q \in 1..Len(b) : p = Len(a) + q
  <2>1. p - Len(a) \in 1..Len(b) /\ p = Len(a) + (p - Len(a))
    BY <1>1, <1>4
  <2>2. QED  BY <2>1
<1>5. QED  BY <1>1, <1>2, <1>3, <1>4 DEF Concatenated

\* The position of the j-th element of the i-th part, when l are the lengths.
Offset(l, i, j) == SumOver(l, 1..(i - 1)) + j

\* t holds the first m parts of s, one after another.
Flattened(s, l, t, m) ==
  /\ Len(t) = SumOver(l, 1..m)
  /\ \A i \in 1..m : \A j \in 1..Len(s[i]) :
       Offset(l, i, j) \in 1..Len(t) /\ t[Offset(l, i, j)] = s[i][j]
  /\ \A p \in 1..Len(t) : \E i \in 1..m : \E j \in 1..Len(s[i]) : p = Offset(l, i, j)

\* By induction over the parts: the partial concatenations keep every element and no more.
LEMMA FlattenedOne ==
  ASSUME NEW E, NEW n \in Nat \ {0}, NEW s, \A i \in 1..n : s[i] \in Seq(E),
         NEW l, \A i \in 1..n : l[i] = Len(s[i])
  PROVE  Flattened(s, l, s[1], 1)
<1>1. \A i \in 1..n : l[i] \in Nat
  OBVIOUS
<1>2. 1 \in 1..n /\ l[1] = Len(s[1]) /\ l[1] \in Nat
  BY <1>1
<1>3. SumOver(l, 1..1) = l[1] + SumOver(l, 1..0)
  <2>1. n \in Nat /\ 1 = 0 + 1 /\ 1 <= n
    OBVIOUS
  <2> SUFFICES ASSUME NEW x, x = 0 + 1, NEW z, z = 0
               PROVE  SumOver(l, 1..x) = l[x] + SumOver(l, 1..z)
    BY <2>1
  <2>2. n \in Nat /\ z \in Nat /\ x = z + 1 /\ x <= n
    BY <2>1
  <2>3. QED  BY ONLY <1>1, <2>2, SumFirst
<1>4. SumOver(l, 1..0) = 0
  <2>1. 1..0 = {} /\ IsFiniteSet({}) /\ \A i \in {} : l[i] \in Nat
    BY FS_EmptySet
  <2>2. SumOver(l, {}) = 0
    BY ONLY <2>1, SumBasics
  <2>3. QED  BY <2>1, <2>2
<1>5. \A j \in 1..Len(s[1]) : Offset(l, 1, j) = j
  BY <1>2, <1>4 DEF Offset
<1>6. Len(s[1]) = SumOver(l, 1..1)
  BY <1>2, <1>3, <1>4
<1>7. \A i \in 1..1 : i = 1
  OBVIOUS
<1>8. QED  BY <1>5, <1>6, <1>7 DEF Flattened

LEMMA FlattenedMore ==
  ASSUME NEW E, NEW n \in Nat, NEW s, \A i \in 1..n : s[i] \in Seq(E),
         NEW l, \A i \in 1..n : l[i] = Len(s[i]),
         NEW m \in Nat, NEW x, x = m + 1, x <= n, NEW t \in Seq(E), Flattened(s, l, t, m)
  PROVE  t \o s[x] \in Seq(E) /\ Flattened(s, l, t \o s[x], x)
<1> DEFINE b == s[x]
           c == t \o b
<1>1. Len(t) = SumOver(l, 1..m) /\ b \in Seq(E) /\ l[x] = Len(b)
  <2>1. x \in 1..n
    OBVIOUS
  <2>2. QED  BY <2>1 DEF Flattened
<1>2. /\ c \in Seq(E) /\ Len(c) = Len(t) + Len(b)
      /\ Len(t) \in Nat /\ Len(b) \in Nat
      /\ \A p \in 1..Len(t) : p \in 1..Len(c) /\ c[p] = t[p]
      /\ \A p \in 1..Len(b) : Len(t) + p \in 1..Len(c) /\ c[Len(t) + p] = b[p]
      /\ \A p \in 1..Len(c) : p \in 1..Len(t) \/ \E q \in 1..Len(b) : p = Len(t) + q
  <2>1. t \in Seq(E)
    OBVIOUS
  <2> HIDE DEF b
  <2>2. Concatenated(E, t, b, c)
    BY ONLY <1>1, <2>1, ConcatFacts
  <2> HIDE DEF c
  <2>3. QED  BY ONLY <2>2 DEF Concatenated
<1>3. Len(c) = SumOver(l, 1..x)
  <2>1. \A i \in 1..n : l[i] \in Nat
    OBVIOUS
  <2>2. n \in Nat /\ m \in Nat /\ x = m + 1 /\ x <= n
    OBVIOUS
  <2>3. SumOver(l, 1..x) = l[x] + SumOver(l, 1..m)
    BY ONLY <2>1, <2>2, SumFirst
  <2> HIDE DEF c, b
  <2>4. QED  BY <1>1, <1>2, <2>3
<1>4. \A j : Offset(l, x, j) = Len(t) + j
  <2>1. x - 1 = m
    OBVIOUS
  <2>2. QED  BY <1>1, <2>1 DEF Offset
<1>5. ASSUME NEW i \in 1..x, NEW j \in 1..Len(s[i])
      PROVE  Offset(l, i, j) \in 1..Len(c) /\ c[Offset(l, i, j)] = s[i][j]
  <2>1. CASE i = x
    <3>1. j \in 1..Len(b) /\ b[j] = s[i][j] /\ Offset(l, i, j) = Len(t) + j
      BY <1>4, <2>1
    <3> HIDE DEF b, c
    <3>2. Len(t) + j \in 1..Len(c) /\ c[Len(t) + j] = b[j]
      BY ONLY <1>2, <3>1
    <3>3. QED  BY ONLY <3>1, <3>2
  <2>2. CASE i # x
    <3>1. i \in 1..m
      BY <2>2
    <3>2. Offset(l, i, j) \in 1..Len(t) /\ t[Offset(l, i, j)] = s[i][j]
      BY <3>1 DEF Flattened
    <3> DEFINE o == Offset(l, i, j)
    <3> HIDE DEF b, c, o
    <3>3. o \in 1..Len(t) /\ t[o] = s[i][j]
      BY ONLY <3>2 DEF o
    <3>4. o \in 1..Len(c) /\ c[o] = t[o]
      BY ONLY <1>2, <3>3
    <3>5. QED  BY ONLY <3>3, <3>4 DEF o
  <2>3. QED  BY <2>1, <2>2
<1>6. ASSUME NEW p \in 1..Len(c)
      PROVE  \E i \in 1..x : \E j \in 1..Len(s[i]) : p = Offset(l, i, j)
  <2>1. CASE p \in 1..Len(t)
    <3>1. \E i \in 1..m : \E j \in 1..Len(s[i]) : p = Offset(l, i, j)
      BY <2>1 DEF Flattened
    <3>2. \A i \in 1..m : i \in 1..x
      OBVIOUS
    <3>3. QED  BY ONLY <3>1, <3>2
  <2>2. CASE p \notin 1..Len(t)
    <3>1. PICK j \in 1..Len(b) : p = Len(t) + j
      <4> HIDE DEF b, c
      <4> QED BY <1>2, <2>2
    <3>2. x \in 1..x /\ j \in 1..Len(s[x]) /\ p = Offset(l, x, j)
      BY <1>4, <3>1
    <3>3. QED  BY <3>2
  <2>3. QED  BY <2>1, <2>2
<1> HIDE DEF c
<1>7. c \in Seq(E) /\ Flattened(s, l, c, x)
  BY <1>2, <1>3, <1>5, <1>6 DEF Flattened
<1>8. QED  BY <1>7 DEF c

\* Flattening keeps every element of every part in its place, and its length is the sum of theirs.
LEMMA FlattenHolds ==
  ASSUME NEW E, NEW n \in Nat \ {0}, NEW s, Len(s) = n, \A i \in 1..n : s[i] \in Seq(E),
         NEW l, \A i \in 1..n : l[i] = Len(s[i])
  PROVE  FlattenSeq(s) \in Seq(E) /\ Flattened(s, l, FlattenSeq(s), n)
<1>0. n \in Nat \ {0} /\ Len(s) = n
  OBVIOUS
<1>a. PICK h : Appending(s, n, h)
  BY ONLY <1>0, FlattenSteps
<1>1. /\ FlattenSeq(s) = h[n]
      /\ h[1] = s[1]
      /\ \A i \in 1..n : i > 1 => h[i] = h[i - 1] \o s[i]
  BY ONLY <1>a DEF Appending
<1> DEFINE P == {m \in Nat : m \in 1..n => h[m] \in Seq(E) /\ Flattened(s, l, h[m], m)}
<1>2. (\A i \in 1..n : s[i] \in Seq(E)) /\ \A i \in 1..n : l[i] = Len(s[i])
  OBVIOUS
<1>3. 0 \in P
  OBVIOUS
<1>4. ASSUME NEW m \in Nat, m \in P  PROVE m + 1 \in P
  <2> SUFFICES ASSUME NEW x, x = m + 1, x \in 1..n  PROVE h[x] \in Seq(E) /\ Flattened(s, l, h[x], x)
    OBVIOUS
  <2>1. CASE m = 0
    <3>1. Flattened(s, l, s[1], 1)
      BY ONLY <1>0, <1>2, FlattenedOne
    <3>2. s[1] \in Seq(E)
      BY <1>2
    <3>3. QED  BY <1>1, <2>1, <3>1, <3>2
  <2>2. CASE m # 0
    <3>1. m \in 1..n /\ m \in Nat /\ n \in Nat /\ x > 1 /\ x - 1 = m /\ x <= n /\ x = m + 1
      BY <2>2
    <3>2. h[m] \in Seq(E) /\ Flattened(s, l, h[m], m)
      BY <1>4, <3>1
    <3>3. h[m] \o s[x] \in Seq(E) /\ Flattened(s, l, h[m] \o s[x], x)
      BY ONLY <1>2, <3>1, <3>2, FlattenedMore
    <3>4. h[x] = h[m] \o s[x]
      BY <1>1, <3>1
    <3>5. QED  BY <3>3, <3>4
  <2>3. QED  BY <2>1, <2>2
<1> HIDE DEF P
<1>5. Nat \subseteq P
  BY <1>3, <1>4, SetInduction
<1>6. n \in P /\ n \in 1..n
  BY <1>5
<1>7. QED  BY <1>1, <1>6 DEF P

\* Factors that are not zero cancel.
LEMMA Cancels ==
  ASSUME NEW a \in Int, NEW b \in Int, NEW m \in Nat \ {0}, a * m <= b * m
  PROVE  a <= b
<1>1. (b - a) * m >= 0
  <2>1. (b - a) * m = b * m - a * m
    OBVIOUS
  <2>2. QED  BY <2>1
<1>2. CASE b < a
  <2>1. \A x \in Nat, y \in Nat : x >= 1 /\ y >= 1 => x * y >= 1
    OBVIOUS
  <2>2. (a - b) * m >= 1
    BY <1>2, <2>1
  <2>3. (b - a) * m = 0 - (a - b) * m /\ (a - b) * m \in Int
    OBVIOUS
  <2>4. QED  BY <1>1, <2>2, <2>3
<1>3. QED  BY <1>2

\* Inequalities may be multiplied by a natural number.
LEMMA Scales ==
  ASSUME NEW a \in Int, NEW b \in Int, NEW m \in Nat, a <= b
  PROVE  a * m <= b * m /\ m * a <= m * b
<1>1. (b - a) * m >= 0
  <2>1. b - a \in Nat
    OBVIOUS
  <2>2. \A x \in Nat, y \in Nat : x * y \in Nat
    OBVIOUS
  <2>3. QED  BY <2>1, <2>2
<1>2. (b - a) * m = b * m - a * m /\ m * a = a * m /\ m * b = b * m
  OBVIOUS
<1>3. a * m \in Int /\ b * m \in Int
  OBVIOUS
<1>4. QED  BY <1>1, <1>2, <1>3

LEMMA DivisionExact ==
  ASSUME NEW m \in Nat \ {0}, NEW q \in Nat
  PROVE  (m * q) \div m = q
OBVIOUS

\* One factor or term of a fold, and the others.
LEMMA FoldTakesOne ==
  ASSUME NEW o, NEW D, IsFiniteSet(D), NEW f, \A x \in D : f[x] \in Nat, NEW x \in D
  PROVE  /\ Over(o, f, D) = Combined(o, f[x], Over(o, f, D \ {x}))
         /\ Over(o, f, D \ {x}) \in Nat /\ Over(o, f, D) \in Nat
<1>1. D \in SUBSET D /\ D \ {x} \in SUBSET D
  OBVIOUS
<1>2. \A S \in SUBSET D : Over(o, f, S) \in Nat
  BY FoldNat
<1>3. Over(o, f, D) = Combined(o, f[x], Over(o, f, D \ {x}))
  BY <1>1, FoldTakes
<1>4. QED  BY <1>1, <1>2, <1>3

\* The quotient and the remainder.
LEMMA Division ==
  ASSUME NEW a \in Nat, NEW b \in Nat \ {0}
  PROVE  /\ a \div b \in Nat /\ a % b \in 0..(b - 1)
         /\ a = (a \div b) * b + (a % b)
         /\ (a \div b) * b <= a /\ a < (a \div b) * b + b
OBVIOUS

\* Only one multiple of b is within reach of a number.
LEMMA QuotientUnique ==
  ASSUME NEW b \in Nat \ {0}, NEW p \in Int, NEW q \in Int, NEW x \in 0..(b - 1), NEW y \in 0..(b - 1),
         p * b + x = q * b + y
  PROVE  p = q /\ x = y
<1>1. p <= q
  <2> SUFFICES ASSUME p >= q + 1  PROVE FALSE
    OBVIOUS
  <2>1. (q + 1) * b <= p * b
    <3>1. b \in Nat /\ q + 1 \in Int /\ q + 1 <= p
      OBVIOUS
    <3>2. QED  BY ONLY <3>1, p \in Int, Scales
  <2>2. (q + 1) * b = q * b + b
    OBVIOUS
  <2>3. QED  BY <2>1, <2>2
<1>2. q <= p
  <2> SUFFICES ASSUME q >= p + 1  PROVE FALSE
    OBVIOUS
  <2>1. (p + 1) * b <= q * b
    <3>1. b \in Nat /\ p + 1 \in Int /\ p + 1 <= q
      OBVIOUS
    <3>2. QED  BY ONLY <3>1, q \in Int, Scales
  <2>2. (p + 1) * b = p * b + b
    OBVIOUS
  <2>3. QED  BY <2>1, <2>2
<1>3. p = q
  BY <1>1, <1>2
<1>4. QED  BY <1>3

LEMMA QuotientOf ==
  ASSUME NEW b \in Nat \ {0}, NEW q \in Nat, NEW x \in 0..(b - 1), NEW a, a = q * b + x
  PROVE  a \in Nat /\ a \div b = q /\ a % b = x
<1>1. q * b \in Nat /\ x \in Nat
  OBVIOUS
<1>2. a \in Nat
  BY <1>1
<1> DEFINE p == a \div b
           y == a % b
<1>3. p \in Nat /\ y \in 0..(b - 1) /\ a = p * b + y
  BY <1>2, Division
<1> HIDE DEF p, y
<1>4. p \in Int /\ q \in Int /\ p * b + y = q * b + x
  BY <1>3
<1>5. p = q /\ x = y
  BY ONLY b \in Nat \ {0}, x \in 0..(b - 1), <1>3, <1>4, QuotientUnique
<1>6. QED  BY <1>2, <1>5 DEF p, y

\* The ascending list of an interval.
LEMMA AscendingInterval ==
  ASSUME NEW a \in Nat, NEW c \in Nat
  PROVE  Ascending((a + 1)..(a + c)) = [i \in 1..c |-> a + i]
<1> DEFINE S == (a + 1)..(a + c)
           B(x) == {y \in S : y < x}
<1>1. Cardinality(S) = c
  <2>1. a + 1 \in Int /\ a + c \in Int
    OBVIOUS
  <2>2. Cardinality(S) = IF a + 1 > a + c THEN 0 ELSE (a + c) - (a + 1) + 1
    BY ONLY <2>1, FS_Interval
  <2> HIDE DEF S
  <2>3. QED  BY <2>2
<1>2. ASSUME NEW x \in S  PROVE Cardinality(B(x)) = x - a - 1
  <2>1. B(x) = (a + 1)..(x - 1)
    OBVIOUS
  <2>2. a + 1 \in Int /\ x - 1 \in Int /\ x >= a + 1 /\ a \in Int /\ x \in Int
    OBVIOUS
  <2> HIDE DEF B, S
  <2>3. Cardinality(B(x)) = IF a + 1 > x - 1 THEN 0 ELSE (x - 1) - (a + 1) + 1
    BY ONLY <2>1, <2>2, FS_Interval
  <2>4. QED  BY ONLY <2>2, <2>3
<1>3. ASSUME NEW i \in 1..c  PROVE (CHOOSE x \in S : Cardinality(B(x)) = i - 1) = a + i
  <2>1. a + i \in S /\ \A x \in S : x - a - 1 = i - 1 => x = a + i
    OBVIOUS
  <2>2. Cardinality(B(a + i)) = i - 1
    <3>1. (a + i) - a - 1 = i - 1
      OBVIOUS
    <3> HIDE DEF B, S
    <3>2. QED  BY <1>2, <2>1, <3>1
  <2>3. \A x \in S : Cardinality(B(x)) = i - 1 => x = a + i
    <3> HIDE DEF B, S
    <3>1. QED  BY <1>2, <2>1
  <2> HIDE DEF B, S
  <2>4. QED  BY <2>1, <2>2, <2>3
<1> DEFINE e(i) == CHOOSE x \in S : Cardinality(B(x)) = i - 1
<1>4. Ascending(S) = [i \in 1..c |-> e(i)]
  BY <1>1 DEF Ascending
<1> HIDE DEF S, e
<1>5. \A i \in 1..c : e(i) = a + i
  BY <1>3 DEF e
<1>6. [i \in 1..c |-> e(i)] = [i \in 1..c |-> a + i]
  BY <1>5
<1>7. QED  BY <1>4, <1>6 DEF S
=============================================================================
