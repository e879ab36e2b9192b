-------------------------- MODULE LogicalUpdateProofs --------------------------
(* Proofs about one actor update (LogicalUpdate), for any reservation, batch *)
(* sizes, ranks, epochs and micro-batch limits.                              *)
(*                                                                           *)
(* The first part follows the rows: what padding makes of a batch, where a   *)
(* row of it is dealt to, what a rank selects again from its chunk, and that *)
(* all ranks therefore step through the same plan. The second part says what *)
(* either split of a mini-batch keeps. The third is the inductive invariant  *)
(* UpdateInv, one lemma for each action, and the last its consequences: the  *)
(* safety properties, and the refinement of SingleRankUpdate.                *)
EXTENDS LogicalUpdate, ListTheorems, TLAPS

\* The reservation is one that may be made.
Given == slots \in Reservations /\ useMask \in BOOLEAN

AnyRow == [slot : Nat, batch : Nat]

-----------------------------------------------------------------------------
\* The slots of a batch are slots of the reservation, and their counts are numbers.
LEMMA SlotsFacts ==
  ASSUME Given, NEW k \in 1..Batches
  PROVE  /\ SlotsOf(k) \subseteq Slot /\ RowsOf(k) \subseteq SlotsOf(k)
         /\ RowsOf(k) \subseteq Nat \ {0} /\ IsFiniteSet(RowsOf(k)) /\ IsFiniteSet(SlotsOf(k))
         /\ \A s \in Slot : Tokens(s) \in Nat
<1>1. Mini \in Nat \ {0} /\ Batches \in Nat \ {0}
  BY SizesAssumption
<1>2. 0 <= (k - 1) * Mini /\ k * Mini <= Batches * Mini /\ (k - 1) * Mini \in Int /\ k * Mini \in Int
  <2>1. 0 \in Int /\ k - 1 \in Int /\ k \in Int /\ Batches \in Int /\ Mini \in Nat /\ 0 <= k - 1 /\ k <= Batches
    BY <1>1
  <2>2. 0 * Mini <= (k - 1) * Mini
    BY ONLY <2>1, Scales
  <2>3. k * Mini <= Batches * Mini
    BY ONLY <2>1, Scales
  <2>4. QED  BY <2>1, <2>2, <2>3
<1> DEFINE a == (k - 1) * Mini
           b == k * Mini
           c == Batches * Mini
<1>3. SlotsOf(k) = (a + 1)..b /\ Slot = 1..c
  BY DEF SlotsOf, Slot
<1>4. a \in Int /\ b \in Int /\ c \in Int /\ 0 <= a /\ b <= c
  BY <1>1, <1>2
<1> HIDE DEF a, b, c
<1>5. SlotsOf(k) \subseteq Slot /\ SlotsOf(k) \subseteq Nat \ {0}
  BY ONLY <1>3, <1>4
<1>6. IsFiniteSet(SlotsOf(k))
  <2>1. a + 1 \in Int /\ b \in Int
    BY <1>4
  <2>2. QED  BY ONLY <1>3, <2>1, FS_Interval
<1>7. RowsOf(k) \subseteq SlotsOf(k)
  BY DEF RowsOf
<1>8. IsFiniteSet(RowsOf(k))
  BY ONLY <1>6, <1>7, FS_Subset
<1>9. ASSUME NEW s \in Slot  PROVE Tokens(s) \in Nat
  <2>1. slots[s] \in [ledger : BOOLEAN, resp : Nat \ {0}, mask : Nat]
    BY ReservationsAssumption DEF Given
  <2>2. QED  BY <2>1 DEF Tokens, Given
<1>10. QED  BY <1>5, <1>6, <1>7, <1>8, <1>9

\* Division rounded up.
LEMMA CeilDivFacts ==
  ASSUME NEW a \in Nat, NEW b \in Nat \ {0}
  PROVE  /\ CeilDiv(a, b) \in Nat /\ a <= CeilDiv(a, b) * b
         /\ a >= 1 => CeilDiv(a, b) >= 1 /\ (CeilDiv(a, b) - 1) * b < a
<1> DEFINE x == a + b - 1
           q == x \div b
<1>1. x \in Nat
  OBVIOUS
<1>2. q \in Nat /\ q * b <= x /\ x < q * b + b
  <2> HIDE DEF x
  <2> QED BY <1>1, Division
<1>3. a >= 1 => q >= 1
  <2> SUFFICES ASSUME a >= 1, q = 0  PROVE FALSE
    BY <1>2
  <2>1. q * b = 0
    OBVIOUS
  <2> HIDE DEF q
  <2>2. QED  BY <1>2, <2>1
<1>4. (q - 1) * b = q * b - b
  <2> HIDE DEF q
  <2> QED BY <1>2
<1>5. CeilDiv(a, b) = q
  BY DEF CeilDiv
<1> DEFINE m == q * b
<1>6. m \in Int
  BY <1>2
<1> HIDE DEF m
<1>7. m <= x /\ x < m + b /\ (q - 1) * b = m - b
  BY <1>2, <1>4 DEF m
<1>8. a <= m /\ (a >= 1 => m - b < a)
  BY <1>6, <1>7
<1> HIDE DEF q
<1>9. QED  BY ONLY <1>2, <1>3, <1>5, <1>7, <1>8 DEF m

\* The rows of a batch that every rank gets, dummies included.
Wide(k) == CeilDiv(Cardinality(RowsOf(k)), DP)

\* There is room for all its rows, and a trainable batch has some.
LEMMA WideFacts ==
  ASSUME Given, NEW k \in 1..Batches
  PROVE  /\ Cardinality(RowsOf(k)) \in Nat /\ Wide(k) \in Nat
         /\ Cardinality(RowsOf(k)) <= Wide(k) * DP
         /\ k \in Trainable => Cardinality(RowsOf(k)) >= 1 /\ Wide(k) >= 1
<1>1. IsFiniteSet(RowsOf(k))
  BY SlotsFacts
<1>2. Cardinality(RowsOf(k)) \in Nat /\ (RowsOf(k) # {} => Cardinality(RowsOf(k)) # 0)
  BY ONLY <1>1, FS_CardinalityType, FS_EmptySet
<1>3. DP \in Nat \ {0}
  BY SizesAssumption
<1>4. k \in Trainable => RowsOf(k) # {}
  BY DEF Trainable, Status
<1> DEFINE n == Cardinality(RowsOf(k))
<1> HIDE DEF n
<1>5. n \in Nat /\ (k \in Trainable => n >= 1)
  BY <1>2, <1>4 DEF n
<1>6. CeilDiv(n, DP) \in Nat /\ n <= CeilDiv(n, DP) * DP /\ (n >= 1 => CeilDiv(n, DP) >= 1)
  BY ONLY <1>3, <1>5, CeilDivFacts
<1>7. QED  BY ONLY <1>5, <1>6 DEF n, Wide

\* A batch padded to DP times as many rows as a rank gets.
LEMMA PaddedFacts ==
  ASSUME Given, NEW k \in 1..Batches
  PROVE  /\ Wide(k) * DP \in Nat /\ Len(Padded(k)) = Wide(k) * DP
         /\ \A x \in 1..(Wide(k) * DP) :
              Padded(k)[x] = IF x <= Cardinality(RowsOf(k))
                             THEN Row(Ascending(RowsOf(k))[x], k) ELSE Dummy(k)
<1> DEFINE real == Ascending(RowsOf(k))
           n == Cardinality(RowsOf(k))
<1>1. IsFiniteSet(RowsOf(k)) /\ RowsOf(k) \subseteq Nat
  BY SlotsFacts
<1>2. n \in Nat /\ real \in [1..n -> RowsOf(k)]
  BY ONLY <1>1, AscendingIsBijection
<1>3. Len(real) = n
  <2> HIDE DEF real, n
  <2> QED BY ONLY <1>2
<1>4. Wide(k) * DP \in Nat
  BY WideFacts, SizesAssumption
<1> DEFINE w == Wide(k) * DP
           e(x) == IF x <= n THEN Row(real[x], k) ELSE Dummy(k)
<1>5. Padded(k) = [x \in 1..w |-> e(x)]
  BY <1>3 DEF Padded, Wide
<1>6. w \in Nat
  BY <1>4
<1> HIDE DEF w, e
<1>7. Len(Padded(k)) = w /\ \A x \in 1..w : Padded(k)[x] = e(x)
  BY ONLY <1>5, <1>6
<1>8. QED  BY <1>4, <1>7 DEF w, e

\* Where a row that rank r gets as its j-th is in the padded batch.
LEMMA ShareFacts ==
  ASSUME Given, NEW k \in 1..Batches, NEW r \in Rank
  PROVE  /\ Len(Share(k, r)) = Wide(k)
         /\ \A j \in 1..Wide(k) :
              /\ (j - 1) * DP + r \in 1..(Wide(k) * DP)
              /\ Share(k, r)[j] = Padded(k)[(j - 1) * DP + r]
<1>1. DP \in Nat \ {0} /\ r \in 1..DP
  BY SizesAssumption DEF Rank
<1>2. Wide(k) \in Nat
  BY WideFacts
<1>3. Len(Padded(k)) = Wide(k) * DP
  BY PaddedFacts
<1> DEFINE w == Wide(k)
<1>4. (Len(Padded(k)) - r + DP) \div DP = w
  <2> DEFINE x == DP - r
             a == w * DP + x
  <2>1. x \in 0..(DP - 1) /\ w \in Nat
    BY <1>1, <1>2
  <2>2. a \div DP = w
    <3> HIDE DEF x, w
    <3> QED BY ONLY <1>1, <2>1, QuotientOf
  <2>3. Len(Padded(k)) - r + DP = a
    <3> DEFINE v == w * DP
    <3>1. v \in Int
      BY <1>1, <1>2
    <3> HIDE DEF v, w
    <3>2. v - r + DP = v + (DP - r)
      BY <1>1, <3>1
    <3>3. QED  BY <1>3, <3>2 DEF v, w
  <2> HIDE DEF a
  <2>4. QED  BY <2>2, <2>3
<1> DEFINE p == Padded(k)
<1>5. Share(k, r) = [j \in 1..w |-> p[(j - 1) * DP + r]]
  BY <1>4 DEF Share
<1> HIDE DEF p
<1>6. Len(Share(k, r)) = w /\ \A j \in 1..w : Share(k, r)[j] = p[(j - 1) * DP + r]
  <2> HIDE DEF w
  <2> QED BY <1>2, <1>5 DEF w
<1>7. ASSUME NEW j \in 1..w  PROVE (j - 1) * DP + r \in 1..(w * DP)
  <2> HIDE DEF w
  <2>1. j - 1 \in Nat /\ w \in Int /\ (j - 1) + 1 <= w
    BY <1>2 DEF w
  <2> DEFINE u == j - 1
             m == u * DP
             v == w * DP
  <2>2. (u + 1) * DP <= w * DP
    BY <1>1, <2>1, Scales
  <2>3. (u + 1) * DP = m + DP /\ m \in Nat /\ v \in Int
    BY <1>1, <2>1
  <2> HIDE DEF m, v, u
  <2>4. m + DP <= v
    BY <2>2, <2>3 DEF v
  <2>5. m + r \in 1..v
    BY <1>1, <2>3, <2>4
  <2>6. QED  BY <2>5 DEF m, v, u
<1>8. QED  BY <1>6, <1>7 DEF p

\* A share is made of rows of the batch and dummies.
LEMMA ShareRows ==
  ASSUME Given, NEW k \in 1..Batches, NEW r \in Rank
  PROVE  /\ Share(k, r) \in Seq(AnyRow)
         /\ \A j \in 1..Wide(k) :
              Share(k, r)[j].batch = k /\ Share(k, r)[j].slot \in RowsOf(k) \cup {0}
<1> DEFINE n == Cardinality(RowsOf(k))
           real == Ascending(RowsOf(k))
           sh == Share(k, r)
<1>1. IsFiniteSet(RowsOf(k)) /\ RowsOf(k) \subseteq Nat
  BY SlotsFacts
<1>2. n \in Nat /\ real \in [1..n -> RowsOf(k)]
  BY ONLY <1>1, AscendingIsBijection
<1>3. ASSUME NEW j \in 1..Wide(k)
      PROVE  sh[j] \in AnyRow /\ sh[j].batch = k /\ sh[j].slot \in RowsOf(k) \cup {0}
  <2> DEFINE x == (j - 1) * DP + r
  <2>1. x \in 1..(Wide(k) * DP) /\ sh[j] = Padded(k)[x]
    BY ShareFacts
  <2> HIDE DEF x, sh
  <2>2. sh[j] = IF x <= n THEN Row(real[x], k) ELSE Dummy(k)
    BY <2>1, PaddedFacts
  <2>3. x <= n => real[x] \in RowsOf(k)
    <3>1. x \in Nat /\ x >= 1
      BY <2>1, PaddedFacts
    <3> HIDE DEF n, real
    <3>2. QED  BY ONLY <1>2, <3>1
  <2> HIDE DEF n, real
  <2>4. CASE x <= n
    <3>1. sh[j] = [slot |-> real[x], batch |-> k]
      BY <2>2, <2>4 DEF Row
    <3>2. real[x] \in RowsOf(k) /\ real[x] \in Nat /\ k \in Nat
      BY <1>1, <2>3, <2>4
    <3>3. QED  BY ONLY <3>1, <3>2 DEF AnyRow
  <2>5. CASE ~(x <= n)
    <3>1. sh[j] = [slot |-> 0, batch |-> k]
      BY <2>2, <2>5 DEF Row, Dummy
    <3>2. k \in Nat
      OBVIOUS
    <3>3. QED  BY ONLY <3>1, <3>2 DEF AnyRow
  <2>6. QED  BY <2>4, <2>5
<1>4. sh = [j \in 1..Len(sh) |-> sh[j]] /\ Len(sh) = Wide(k) /\ Wide(k) \in Nat
  <2>1. Len(sh) = Wide(k) /\ Wide(k) \in Nat
    BY ShareFacts, WideFacts
  <2>2. \E S, e : sh = [j \in 1..S |-> e[j]] /\ S \in Nat
    <3> DEFINE p == Padded(k)
               S == (Len(p) - r + DP) \div DP
    <3>1. sh = [j \in 1..S |-> p[(j - 1) * DP + r]]
      BY DEF Share
    <3>2. S \in Nat
      <4>1. Len(p) = Wide(k) * DP /\ Wide(k) * DP \in Nat /\ DP \in Nat \ {0} /\ r \in 1..DP
        BY PaddedFacts, SizesAssumption DEF Rank
      <4> HIDE DEF p
      <4>2. Len(p) - r + DP \in Nat
        BY ONLY <4>1
      <4>3. QED  BY ONLY <4>1, <4>2, Division
    <3> HIDE DEF S, p, sh
    <3>3. sh = [j \in 1..S |-> sh[j]]
      BY ONLY <3>1
    <3>4. QED  BY <3>2, <3>3
  <2> HIDE DEF sh
  <2>3. QED  BY ONLY <2>1, <2>2
<1> HIDE DEF sh
<1>5. sh \in Seq(AnyRow)
  BY ONLY <1>3, <1>4
<1>6. QED  BY <1>3, <1>5 DEF sh

\* Every row of a batch goes to a rank.
LEMMA RowGoesSomewhere ==
  ASSUME Given, NEW k \in 1..Batches, NEW s \in RowsOf(k)
  PROVE  \E r \in Rank : \E j \in 1..Wide(k) : Share(k, r)[j].slot = s
<1> DEFINE n == Cardinality(RowsOf(k))
           real == Ascending(RowsOf(k))
<1>1. IsFiniteSet(RowsOf(k)) /\ RowsOf(k) \subseteq Nat
  BY SlotsFacts
<1>2. n \in Nat /\ \E x \in 1..n : real[x] = s
  BY ONLY <1>1, s \in RowsOf(k), AscendingIsBijection
<1>3. PICK x \in 1..n : real[x] = s
  BY <1>2
<1>4. DP \in Nat \ {0} /\ n <= Wide(k) * DP /\ Wide(k) * DP \in Nat /\ Wide(k) \in Nat
  BY SizesAssumption, WideFacts, PaddedFacts
<1> HIDE DEF real, n
<1> DEFINE u == (x - 1) \div DP
           v == (x - 1) % DP
<1>5. u \in Nat /\ v \in 0..(DP - 1) /\ x - 1 = u * DP + v /\ u * DP <= x - 1
  <2>1. x - 1 \in Nat
    BY <1>2
  <2>2. QED  BY ONLY <1>4, <2>1, Division
<1> DEFINE r == v + 1
           j == u + 1
<1>6. r \in Rank
  <2> HIDE DEF v
  <2> QED BY <1>4, <1>5 DEF Rank
<1>7. j \in 1..Wide(k)
  <2>1. u < Wide(k)
    <3> SUFFICES ASSUME Wide(k) <= u  PROVE FALSE
      BY <1>4, <1>5
    <3>1. Wide(k) * DP <= u * DP
      <4>1. Wide(k) \in Int /\ u \in Int /\ DP \in Nat /\ Wide(k) <= u
        BY <1>4, <1>5
      <4> HIDE DEF u
      <4>2. QED  BY ONLY <4>1, Scales
    <3> DEFINE m == u * DP
               z == Wide(k) * DP
    <3>2. m \in Int /\ z \in Int
      BY <1>4, <1>5
    <3> HIDE DEF m, z, u, v
    <3>3. z <= m /\ m <= x - 1 /\ x <= n /\ n <= z
      BY <1>3, <1>4, <1>5, <3>1 DEF m, z
    <3>4. QED  BY <1>2, <3>2, <3>3
  <2> HIDE DEF u
  <2>2. QED  BY <1>4, <1>5, <2>1
<1>8. (j - 1) * DP + r = x
  <2>1. j - 1 = u
    BY <1>5
  <2> DEFINE m == u * DP
  <2>2. m \in Int
    BY <1>4, <1>5
  <2> HIDE DEF m, u, v, j
  <2>3. m + (v + 1) = x
    <3>1. x \in Int /\ x - 1 = m + v /\ v \in Int
      BY <1>2, <1>5 DEF m
    <3>2. QED  BY ONLY <2>2, <3>1
  <2>4. QED  BY <2>1, <2>3 DEF m
<1> HIDE DEF r, j
<1>9. Share(k, r)[j] = Padded(k)[x] /\ x \in 1..(Wide(k) * DP)
  BY <1>6, <1>7, <1>8, ShareFacts
<1>10. Padded(k)[x] = Row(s, k)
  <2>1. x <= Cardinality(RowsOf(k)) /\ Ascending(RowsOf(k))[x] = s
    BY <1>3 DEF n, real
  <2>2. QED  BY <1>9, <2>1, PaddedFacts
<1>11. Share(k, r)[j].slot = s
  BY <1>9, <1>10 DEF Row
<1>12. QED  BY <1>6, <1>7, <1>11

\* And it goes there once.
LEMMA RowGoesOnce ==
  ASSUME Given, NEW k \in 1..Batches, NEW q \in Rank, NEW r \in Rank,
         NEW i \in 1..Wide(k), NEW j \in 1..Wide(k), NEW s \in Slot,
         Share(k, q)[i].slot = s, Share(k, r)[j].slot = s
  PROVE  q = r /\ i = j
<1> DEFINE n == Cardinality(RowsOf(k))
           real == Ascending(RowsOf(k))
           x == (i - 1) * DP + q
           y == (j - 1) * DP + r
<1>1. IsFiniteSet(RowsOf(k)) /\ RowsOf(k) \subseteq Nat
  BY SlotsFacts
<1>2. n \in Nat /\ \A a, b \in 1..n : real[a] = real[b] => a = b
  BY ONLY <1>1, AscendingIsBijection
<1>3. /\ x \in 1..(Wide(k) * DP) /\ Share(k, q)[i] = Padded(k)[x]
      /\ y \in 1..(Wide(k) * DP) /\ Share(k, r)[j] = Padded(k)[y]
  BY ShareFacts
<1>4. s # 0
  BY SizesAssumption DEF Slot
<1>5. DP \in Nat \ {0} /\ Wide(k) * DP \in Nat
  BY SizesAssumption, PaddedFacts
<1> HIDE DEF x, y
<1>6. ASSUME NEW z \in 1..(Wide(k) * DP), Padded(k)[z].slot = s  PROVE z \in 1..n /\ real[z] = s
  <2>1. Padded(k)[z] = IF z <= n THEN Row(real[z], k) ELSE Dummy(k)
    BY PaddedFacts
  <2> HIDE DEF n, real
  <2>2. CASE z <= n
    BY <1>2, <1>5, <1>6, <2>1, <2>2 DEF Row
  <2>3. CASE ~(z <= n)
    BY <1>4, <1>6, <2>1, <2>3 DEF Row, Dummy
  <2>4. QED  BY <2>2, <2>3
<1>7. x = y
  <2>1. x \in 1..n /\ y \in 1..n /\ real[x] = real[y]
    BY <1>3, <1>6
  <2> HIDE DEF n, real
  <2>2. QED  BY <1>2, <2>1
<1>8. (i - 1) * DP + (q - 1) = (j - 1) * DP + (r - 1)
  <2> DEFINE u == (i - 1) * DP
             v == (j - 1) * DP
  <2>1. u \in Int /\ v \in Int /\ q \in Int /\ r \in Int
    BY <1>5 DEF Rank
  <2>2. u + q = v + r
    BY <1>7 DEF x, y
  <2> HIDE DEF u, v
  <2>3. u + (q - 1) = v + (r - 1)
    BY <2>1, <2>2
  <2>4. QED  BY <2>3 DEF u, v
<1>9. i - 1 \in Int /\ j - 1 \in Int /\ q - 1 \in 0..(DP - 1) /\ r - 1 \in 0..(DP - 1)
  <2>1. i \in Int /\ j \in Int
    BY WideFacts
  <2>2. q \in 1..DP /\ r \in 1..DP
    BY DEF Rank
  <2>3. QED  BY ONLY <1>5, <2>1, <2>2
<1>10. i - 1 = j - 1 /\ q - 1 = r - 1
  BY ONLY <1>5, <1>8, <1>9, QuotientUnique
<1>11. q \in Int /\ r \in Int /\ i \in Int /\ j \in Int
  BY WideFacts DEF Rank
<1>12. QED  BY ONLY <1>10, <1>11

\* The shares of a rank, batch by batch, and their lengths.
Parts(r) == [k \in 1..Batches |-> IF k \in Trainable THEN Share(k, r) ELSE <<>>]

Lens == [k \in 1..Batches |-> IF k \in Trainable THEN Wide(k) ELSE 0]

\* How many rows a rank has in all.
Size == SumOver(Lens, 1..Batches)

\* The lengths of the shares add up to a number.
LEMMA LensFacts ==
  ASSUME Given
  PROVE  /\ \A k \in 1..Batches : Lens[k] \in Nat
         /\ Size \in Nat
         /\ \A k \in 1..Batches : SumOver(Lens, 1..(k - 1)) \in Nat
<1>1. \A k \in 1..Batches : Lens[k] \in Nat
  BY WideFacts DEF Lens
<1>2. Batches \in Nat \ {0} /\ IsFiniteSet(1..Batches)
  <2>1. Batches \in Nat \ {0} /\ 1 \in Int /\ Batches \in Int
    BY SizesAssumption
  <2>2. QED  BY ONLY <2>1, FS_Interval
<1>3. \A S \in SUBSET (1..Batches) : SumOver(Lens, S) \in Nat
  BY ONLY <1>1, <1>2, SumBasics
<1>4. \A k \in 1..Batches : 1..(k - 1) \in SUBSET (1..Batches)
  BY <1>2
<1>5. QED  BY <1>1, <1>3, <1>4 DEF Size

\* Every rank has equally many rows, the shares one after the other.
LEMMA RankRowsFacts ==
  ASSUME Given, NEW r \in Rank
  PROVE  /\ RankRows(r) \in Seq(AnyRow)
         /\ Len(RankRows(r)) = Size
         /\ Flattened(Parts(r), Lens, RankRows(r), Batches)
<1>1. Batches \in Nat \ {0} /\ Len(Parts(r)) = Batches
  BY SizesAssumption DEF Parts
<1>2. \A k \in 1..Batches : Parts(r)[k] \in Seq(AnyRow) /\ Lens[k] = Len(Parts(r)[k])
  <2> SUFFICES ASSUME NEW k \in 1..Batches
               PROVE  Parts(r)[k] \in Seq(AnyRow) /\ Lens[k] = Len(Parts(r)[k])
    OBVIOUS
  <2>1. Share(k, r) \in Seq(AnyRow) /\ Len(Share(k, r)) = Wide(k)
    BY ShareFacts, ShareRows
  <2>2. QED  BY <2>1 DEF Parts, Lens
<1>3. RankRows(r) = FlattenSeq(Parts(r))
  BY DEF RankRows, Parts
<1>4. (\A k \in 1..Batches : Parts(r)[k] \in Seq(AnyRow)) /\ \A k \in 1..Batches : Lens[k] = Len(Parts(r)[k])
  BY <1>2
<1>5. FlattenSeq(Parts(r)) \in Seq(AnyRow) /\ Flattened(Parts(r), Lens, FlattenSeq(Parts(r)), Batches)
  BY ONLY <1>1, <1>4, FlattenHolds
<1>6. QED  BY <1>3, <1>5 DEF Flattened, Size

\* The tensor batch is rank-major.
LEMMA OrderedFacts ==
  ASSUME Given
  PROVE  /\ Ordered \in Seq(AnyRow) /\ DP * Size \in Nat /\ Len(Ordered) = DP * Size
         /\ \A r \in Rank : \A j \in 1..Size :
              /\ (r - 1) * Size + j \in 1..(DP * Size)
              /\ Ordered[(r - 1) * Size + j] = RankRows(r)[j]
<1> DEFINE s == [r \in Rank |-> RankRows(r)]
           l == [r \in Rank |-> Size]
<1>1. DP \in Nat \ {0} /\ Size \in Nat /\ Rank = 1..DP
  BY SizesAssumption, LensFacts DEF Rank
<1>2. Len(s) = DP
  BY <1>1
<1>3. (\A r \in 1..DP : s[r] \in Seq(AnyRow)) /\ \A r \in 1..DP : l[r] = Len(s[r])
  BY <1>1, RankRowsFacts
<1>4. Ordered = FlattenSeq(s)
  BY DEF Ordered
<1>5. \A r \in 1..DP : l[r] = Size
  BY <1>1
<1>6. \A r \in Rank : s[r] = RankRows(r)
  OBVIOUS
<1> HIDE DEF s, l
<1>7. FlattenSeq(s) \in Seq(AnyRow) /\ Flattened(s, l, FlattenSeq(s), DP)
  BY ONLY <1>1, <1>2, <1>3, FlattenHolds
<1>8. IsFiniteSet(1..DP) /\ Cardinality(1..DP) = DP /\ 1..DP \in SUBSET (1..DP)
  <2>1. 1 \in Int /\ DP \in Int /\ DP >= 1
    BY <1>1
  <2>2. Cardinality(1..DP) = IF 1 > DP THEN 0 ELSE DP - 1 + 1
    BY ONLY <2>1, FS_Interval
  <2>3. IsFiniteSet(1..DP)
    BY ONLY <2>1, FS_Interval
  <2>4. QED  BY <2>1, <2>2, <2>3
<1>9. \A S \in SUBSET (1..DP) : SumOver(l, S) = Size * Cardinality(S)
  <2> DEFINE D == 1..DP
  <2>1. IsFiniteSet(D) /\ Size \in Nat /\ \A x \in D : l[x] = Size
    BY <1>1, <1>5, <1>8
  <2> HIDE DEF D
  <2>2. \A S \in SUBSET D : SumOver(l, S) = Size * Cardinality(S)
    BY ONLY <2>1, SumConstant
  <2>3. QED  BY ONLY <2>2 DEF D
<1>10. SumOver(l, 1..DP) = DP * Size /\ DP * Size \in Nat
  <2>1. SumOver(l, 1..DP) = Size * DP
    BY <1>8, <1>9
  <2>2. QED  BY ONLY <1>1, <2>1
<1>11. ASSUME NEW r \in Rank, NEW j \in 1..Size
       PROVE  /\ (r - 1) * Size + j \in 1..(DP * Size)
              /\ Ordered[(r - 1) * Size + j] = RankRows(r)[j]
  <2>1. r \in 1..DP /\ r - 1 \in Nat /\ 1..(r - 1) \in SUBSET (1..DP)
    BY <1>1
  <2>2. Cardinality(1..(r - 1)) = r - 1
    <3>1. 1 \in Int /\ r - 1 \in Int /\ r \in Int /\ r >= 1
      BY <2>1
    <3>2. Cardinality(1..(r - 1)) = IF 1 > r - 1 THEN 0 ELSE (r - 1) - 1 + 1
      BY ONLY <3>1, FS_Interval
    <3>3. QED  BY ONLY <3>1, <3>2
  <2>3. SumOver(l, 1..(r - 1)) = (r - 1) * Size
    <3>1. SumOver(l, 1..(r - 1)) = Size * (r - 1)
      BY <1>9, <2>1, <2>2
    <3>2. Size * (r - 1) = (r - 1) * Size
      BY ONLY <1>1, <2>1
    <3>3. QED  BY ONLY <3>1, <3>2
  <2>4. Offset(l, r, j) = (r - 1) * Size + j
    BY <2>3 DEF Offset
  <2>5. s[r] = RankRows(r) /\ Len(s[r]) = Size
    BY <1>3, <1>5, <1>6, <2>1
  <2>6. Offset(l, r, j) \in 1..Len(Ordered) /\ Ordered[Offset(l, r, j)] = s[r][j]
    BY <1>4, <1>7, <2>1, <2>5 DEF Flattened
  <2>7. Len(Ordered) = DP * Size
    BY <1>4, <1>7, <1>10 DEF Flattened
  <2>8. QED  BY ONLY <2>4, <2>5, <2>6, <2>7
<1>12. Len(Ordered) = DP * Size /\ Ordered \in Seq(AnyRow)
  BY <1>4, <1>7, <1>10 DEF Flattened
<1>13. QED  BY <1>10, <1>11, <1>12

\* The chunk that is dispatched to a rank has the rows that were meant for it.
LEMMA ChunkFacts ==
  ASSUME Given, rows = Ordered, NEW r \in Rank
  PROVE  Len(Chunk(r)) = Size /\ \A j \in 1..Size : Chunk(r)[j] = RankRows(r)[j]
<1>1. DP \in Nat \ {0} /\ Size \in Nat /\ r \in 1..DP
  BY SizesAssumption, LensFacts DEF Rank
<1>2. rows \in Seq(AnyRow) /\ Len(rows) = DP * Size
  BY OrderedFacts
<1>3. Len(rows) \div DP = Size
  BY ONLY <1>1, <1>2, DivisionExact
<1> DEFINE a == (r - 1) * Size
           b == r * Size
<1>4. Chunk(r) = SubSeq(rows, a + 1, b)
  BY <1>3 DEF Chunk
<1>5. a \in Nat /\ b = a + Size
  <2>1. r - 1 \in Nat /\ r \in Nat
    BY <1>1
  <2>2. (r - 1) * Size = r * Size - Size
    BY ONLY <1>1, <2>1
  <2>3. r * Size \in Int /\ (r - 1) * Size \in Nat
    BY ONLY <1>1, <2>1
  <2>4. QED  BY ONLY <1>1, <2>2, <2>3 DEF a, b
<1>6. \A j \in 1..Size : a + j \in 1..Len(rows) /\ rows[a + j] = RankRows(r)[j]
  BY <1>2, OrderedFacts
<1> HIDE DEF a, b
<1>7. SubSeq(rows, a + 1, b) = [j \in 1..(b - (a + 1) + 1) |-> rows[j + (a + 1) - 1]]
  <2>1. a + 1 \in Int /\ b \in Int
    BY ONLY <1>1, <1>5
  <2>2. QED  BY ONLY <1>2, <2>1
<1>8. b - (a + 1) + 1 = Size /\ \A j \in 1..Size : j + (a + 1) - 1 = a + j
  BY ONLY <1>1, <1>5
<1>9. Chunk(r) = [j \in 1..Size |-> rows[a + j]]
  BY <1>4, <1>7, <1>8
<1>10. QED  BY <1>1, <1>6, <1>9

\* The trainable batches are some of the batches.
LEMMA TrainableFacts ==
  /\ Trainable \subseteq 1..Batches /\ Trainable \subseteq Nat /\ IsFiniteSet(Trainable)
<1> DEFINE D == 1..Batches
<1>1. Batches \in Int /\ 1 \in Int
  BY SizesAssumption
<1>2. IsFiniteSet(D)
  BY ONLY <1>1, FS_Interval
<1>3. Trainable \in SUBSET D /\ D \subseteq Nat
  BY DEF Trainable
<1> HIDE DEF D
<1>4. IsFiniteSet(Trainable)
  BY ONLY <1>2, <1>3, FS_Subset
<1>5. QED  BY <1>3, <1>4 DEF D

\* The rows of batch k are together in the rows of a rank.
LEMMA BatchIsInterval ==
  ASSUME Given, NEW k \in Trainable, NEW r \in Rank, NEW o, o = SumOver(Lens, 1..(k - 1))
  PROVE  /\ o \in Nat
         /\ {p \in 1..Size : RankRows(r)[p].batch = k} = (o + 1)..(o + Wide(k))
         /\ \A j \in 1..Wide(k) : o + j \in 1..Size /\ RankRows(r)[o + j] = Share(k, r)[j]
<1>1. k \in 1..Batches /\ o \in Nat /\ Wide(k) \in Nat /\ Size \in Nat
  <2>1. k \in 1..Batches
    BY DEF Trainable
  <2>2. QED  BY <2>1, LensFacts, WideFacts
<1>2. Flattened(Parts(r), Lens, RankRows(r), Batches) /\ Len(RankRows(r)) = Size
  BY RankRowsFacts
<1>3. \A i \in 1..Batches : Parts(r)[i] = IF i \in Trainable THEN Share(i, r) ELSE <<>>
  BY DEF Parts
<1>4. ASSUME NEW i \in Trainable
      PROVE  i \in 1..Batches /\ Parts(r)[i] = Share(i, r) /\ Len(Parts(r)[i]) = Wide(i)
  <2>1. i \in 1..Batches
    BY DEF Trainable
  <2>2. QED  BY <1>3, <2>1, ShareFacts
<1>5. ASSUME NEW j \in 1..Wide(k)
      PROVE  o + j \in 1..Size /\ RankRows(r)[o + j] = Share(k, r)[j]
  <2>1. Offset(Lens, k, j) = o + j
    BY DEF Offset
  <2>2. /\ Offset(Lens, k, j) \in 1..Len(RankRows(r))
        /\ RankRows(r)[Offset(Lens, k, j)] = Parts(r)[k][j]
    BY <1>1, <1>2, <1>4 DEF Flattened
  <2>3. QED  BY <1>2, <1>4, <2>1, <2>2
<1>6. ASSUME NEW p \in 1..Size, RankRows(r)[p].batch = k
      PROVE  p \in (o + 1)..(o + Wide(k))
  <2>1. PICK i \in 1..Batches : \E j \in 1..Len(Parts(r)[i]) : p = Offset(Lens, i, j)
    BY <1>2 DEF Flattened
  <2>2. PICK j \in 1..Len(Parts(r)[i]) : p = Offset(Lens, i, j)
    BY <2>1
  <2>3. i \in Trainable
    <3> SUFFICES ASSUME i \notin Trainable  PROVE FALSE
      OBVIOUS
    <3>1. Parts(r)[i] = <<>>
      BY <1>3
    <3>2. QED  BY <2>2, <3>1
  <2>4. RankRows(r)[p] = Share(i, r)[j] /\ j \in 1..Wide(i)
    <3>1. RankRows(r)[Offset(Lens, i, j)] = Parts(r)[i][j]
      BY <1>2, <2>2 DEF Flattened
    <3>2. QED  BY <1>4, <2>2, <2>3, <3>1
  <2>5. Share(i, r)[j].batch = i
    BY <2>4, ShareRows
  <2>6. i = k
    BY <1>6, <2>4, <2>5
  <2>7. p = o + j /\ j \in 1..Wide(k)
    BY <2>2, <2>4, <2>6 DEF Offset
  <2>8. QED  BY <1>1, <2>7
<1>7. ASSUME NEW p \in (o + 1)..(o + Wide(k))
      PROVE  p \in 1..Size /\ RankRows(r)[p].batch = k
  <2>1. p - o \in 1..Wide(k) /\ o + (p - o) = p
    BY <1>1
  <2>2. p \in 1..Size /\ RankRows(r)[p] = Share(k, r)[p - o]
    BY <1>5, <2>1
  <2>3. Share(k, r)[p - o].batch = k
    BY <1>1, <2>1, ShareRows
  <2>4. QED  BY <2>2, <2>3
<1>8. {p \in 1..Size : RankRows(r)[p].batch = k} = (o + 1)..(o + Wide(k))
  <2> DEFINE I == (o + 1)..(o + Wide(k))
  <2>1. (\A p \in 1..Size : RankRows(r)[p].batch = k => p \in I)
        /\ \A p \in I : p \in 1..Size /\ RankRows(r)[p].batch = k
    BY <1>6, <1>7
  <2> HIDE DEF I
  <2>2. {p \in 1..Size : RankRows(r)[p].batch = k} = I
    BY ONLY <2>1
  <2>3. QED  BY <2>2 DEF I
<1>9. QED  BY <1>1, <1>5, <1>8

\* A rank finds the share that it was dealt.
LEMMA SelectedFacts ==
  ASSUME Given, rows = Ordered, NEW k \in Trainable, NEW r \in Rank
  PROVE  /\ Selected(r, k) = Share(k, r)
         /\ \E j \in 1..Len(Chunk(r)) : Chunk(r)[j].batch = k
<1>1. Len(Chunk(r)) = Size /\ \A j \in 1..Size : Chunk(r)[j] = RankRows(r)[j]
  BY ChunkFacts
<1>2. PICK o \in Nat : /\ {p \in 1..Size : RankRows(r)[p].batch = k} = (o + 1)..(o + Wide(k))
                       /\ \A j \in 1..Wide(k) : o + j \in 1..Size /\ RankRows(r)[o + j] = Share(k, r)[j]
  BY BatchIsInterval
<1>3. k \in 1..Batches
  BY DEF Trainable
<1>4. Wide(k) \in Nat /\ Wide(k) >= 1 /\ Share(k, r) \in Seq(AnyRow) /\ Len(Share(k, r)) = Wide(k)
  BY <1>3, WideFacts, ShareRows, ShareFacts
<1> DEFINE c == Chunk(r)
           I == {j \in 1..Len(c) : c[j].batch = k}
           w == Wide(k)
<1>5. I = (o + 1)..(o + w)
  <2>1. \A j \in 1..Size : c[j].batch = k <=> RankRows(r)[j].batch = k
    BY <1>1
  <2>2. I = {j \in 1..Size : RankRows(r)[j].batch = k}
    BY <1>1, <2>1
  <2>3. QED  BY <1>2, <2>2
<1>6. Ascending(I) = [i \in 1..w |-> o + i]
  <2>1. o \in Nat /\ w \in Nat
    BY <1>4
  <2> HIDE DEF I, w
  <2>2. QED  BY ONLY <1>5, <2>1, AscendingInterval
<1>7. Selected(r, k) = [i \in 1..Len(Ascending(I)) |-> c[Ascending(I)[i]]]
  BY DEF Selected
<1>8. \A i \in 1..w : c[o + i] = Share(k, r)[i]
  BY <1>1, <1>2
<1> HIDE DEF c, I, w
<1>9. Len(Ascending(I)) = w /\ \A i \in 1..w : Ascending(I)[i] = o + i
  BY <1>4, <1>6 DEF w
<1>10. Selected(r, k) = [i \in 1..w |-> Share(k, r)[i]]
  BY ONLY <1>7, <1>8, <1>9
<1>11. Share(k, r) = [i \in 1..w |-> Share(k, r)[i]]
  <2> DEFINE t == Share(k, r)
  <2>1. t \in Seq(AnyRow) /\ Len(t) = w
    BY <1>4 DEF w
  <2> HIDE DEF t
  <2>2. t = [i \in 1..w |-> t[i]]
    BY ONLY <2>1
  <2>3. QED  BY <2>2 DEF t
<1>12. \E j \in 1..Len(Chunk(r)) : Chunk(r)[j].batch = k
  <2>1. 1 \in 1..Wide(k)
    BY <1>4
  <2>2. o + 1 \in 1..Size /\ Chunk(r)[o + 1] = Share(k, r)[1]
    BY <1>1, <1>2, <2>1
  <2>3. Share(k, r)[1].batch = k
    BY <1>3, <2>1, ShareRows
  <2>4. QED  BY <1>1, <2>2, <2>3
<1>13. QED  BY <1>10, <1>11, <1>12

\* The logical batches in the order in which the optimizer steps through them.
Plan ==
  LET n == Cardinality(Trainable)
  IN  [i \in 1..(Epochs * n) |-> Ascending(Trainable)[((i - 1) % n) + 1]]

\* The mini-batch that rank r makes of batch k.
Dealt(r, k) == [rows |-> Share(k, r), over |-> Denominators(k)]

\* All ranks have the same plan.
LEMMA MinisFacts ==
  ASSUME Given, rows = Ordered, NEW r \in Rank
  PROVE  Minis(r) = Plan /\ \A k \in Trainable : MiniBatch(r, k) = Dealt(r, k)
<1>1. {k \in Trainable : \E j \in 1..Len(Chunk(r)) : Chunk(r)[j].batch = k} = Trainable
  BY SelectedFacts
<1>2. Trainable \subseteq Nat /\ IsFiniteSet(Trainable)
  BY TrainableFacts
<1> DEFINE some == Ascending(Trainable)
           n == Cardinality(Trainable)
<1>3. n \in Nat /\ some \in [1..n -> Trainable]
  BY ONLY <1>2, AscendingIsBijection
<1>4. Len(some) = n
  <2> HIDE DEF some, n
  <2> QED BY <1>3
<1>5. Minis(r) = [i \in 1..(Epochs * Len(some)) |-> some[((i - 1) % Len(some)) + 1]]
  BY <1>1 DEF Minis
<1>6. Minis(r) = Plan
  BY <1>4, <1>5 DEF Plan
<1>7. \A k \in Trainable : MiniBatch(r, k) = Dealt(r, k)
  BY SelectedFacts DEF MiniBatch, Dealt, Denominator
<1>8. QED  BY <1>6, <1>7

\* The plan is as long as the number of optimizer steps the trainer expects.
LEMMA PlanFacts ==
  ASSUME Given
  PROVE  /\ Len(Plan) = Expected /\ Len(Plan) \in Nat
         /\ \A i \in 1..Len(Plan) : Plan[i] \in Trainable
         /\ Plan \in Seq(Nat)
<1>1. Trainable \subseteq Nat /\ IsFiniteSet(Trainable)
  BY TrainableFacts
<1> DEFINE some == Ascending(Trainable)
           n == Cardinality(Trainable)
<1>2. n \in Nat /\ some \in [1..n -> Trainable]
  BY ONLY <1>1, AscendingIsBijection
<1>3. Epochs \in Nat \ {0}
  BY SizesAssumption
<1> DEFINE e(i) == some[((i - 1) % n) + 1]
           m == Epochs * n
<1>4. Plan = [i \in 1..m |-> e(i)]
  BY DEF Plan
<1>5. m \in Nat /\ m = Expected
  BY <1>2, <1>3 DEF Expected
<1>6. ASSUME NEW i \in 1..m  PROVE e(i) \in Trainable
  <2>1. n # 0
    <3> SUFFICES ASSUME n = 0  PROVE FALSE
      OBVIOUS
    <3>1. m = 0
      BY <1>3
    <3> HIDE DEF m
    <3>2. QED  BY <3>1
  <2> HIDE DEF m, n, some
  <2>2. i - 1 \in Nat /\ n \in Nat \ {0}
    BY <1>2, <1>5, <2>1
  <2>3. (i - 1) % n \in 0..(n - 1)
    BY ONLY <2>2, Division
  <2>4. ((i - 1) % n) + 1 \in 1..n
    BY ONLY <2>2, <2>3
  <2>5. QED  BY ONLY <1>2, <2>4
<1> HIDE DEF e, m
<1>7. Len(Plan) = m /\ \A i \in 1..m : Plan[i] = e(i)
  BY <1>4, <1>5
<1>8. Plan \in Seq(Nat)
  <2>1. \A i \in 1..m : e(i) \in Nat
    BY <1>1, <1>6
  <2>2. QED  BY ONLY <1>4, <1>5, <2>1
<1>9. QED  BY <1>5, <1>6, <1>7, <1>8

-----------------------------------------------------------------------------
\* The slots that have a row in a micro-batch, and in a list of rows.
Held(m) == {s \in Slot : \E row \in m : row.slot = s}

SlotsIn(list) == {s \in Slot : \E i \in 1..Len(list) : list[i].slot = s}

\* Every slot has one row at most.
Distinct(list) ==
  \A s \in Slot : \A i, j \in 1..Len(list) : list[i].slot = s /\ list[j].slot = s => i = j

\* The micro-batches u have the slots of the list, none of them twice.
Covers(u, list) ==
  /\ \A i \in 1..Len(u) : Held(u[i]) \subseteq SlotsIn(list)
  /\ \A i, j \in 1..Len(u) : i # j => Held(u[i]) \cap Held(u[j]) = {}
  /\ \A s \in SlotsIn(list) : \E i \in 1..Len(u) : s \in Held(u[i])

\* Putting row x of a list into part g[x] divides it.
LEMMA Grouping ==
  ASSUME NEW list \in Seq(AnyRow), Distinct(list), NEW n \in Nat, NEW u,
         NEW g \in [1..Len(list) -> 1..n],
         u = [j \in 1..n |-> {list[i] : i \in {x \in 1..Len(list) : g[x] = j}}]
  PROVE  u \in Seq(SUBSET AnyRow) /\ Len(u) = n /\ Covers(u, list)
<1> DEFINE L == Len(list)
           part(j) == {list[i] : i \in {x \in 1..L : g[x] = j}}
<1>1. L \in Nat /\ \A i \in 1..L : list[i] \in AnyRow
  OBVIOUS
<1>2. \A j : part(j) \in SUBSET AnyRow
  BY <1>1
<1>3. u = [j \in 1..n |-> part(j)]
  OBVIOUS
<1>4. ASSUME NEW j, NEW s  PROVE s \in Held(part(j)) <=> s \in Slot /\ \E x \in 1..L : g[x] = j /\ list[x].slot = s
  BY DEF Held
<1> HIDE DEF part
<1>5. u \in Seq(SUBSET AnyRow) /\ Len(u) = n /\ \A j \in 1..n : u[j] = part(j)
  BY ONLY n \in Nat, <1>2, <1>3
<1>6. ASSUME NEW i \in 1..n  PROVE Held(part(i)) \subseteq SlotsIn(list)
  BY <1>4 DEF SlotsIn
<1>7. ASSUME NEW i \in 1..n, NEW j \in 1..n, i # j  PROVE Held(part(i)) \cap Held(part(j)) = {}
  <2> SUFFICES ASSUME NEW s, s \in Held(part(i)), s \in Held(part(j))  PROVE FALSE
    OBVIOUS
  <2>1. PICK x \in 1..L : g[x] = i /\ list[x].slot = s
    BY <1>4
  <2>2. PICK y \in 1..L : g[y] = j /\ list[y].slot = s
    BY <1>4
  <2>3. s \in Slot
    BY <1>4
  <2>4. x = y
    BY <2>1, <2>2, <2>3 DEF Distinct
  <2>5. QED  BY <1>7, <2>1, <2>2, <2>4
<1>8. ASSUME NEW s \in SlotsIn(list)  PROVE \E i \in 1..n : s \in Held(part(i))
  <2>1. PICK x \in 1..L : list[x].slot = s /\ s \in Slot
    BY DEF SlotsIn
  <2>2. s \in Held(part(g[x])) /\ g[x] \in 1..n
    BY <1>4, <2>1
  <2>3. QED  BY <2>2
<1>9. Covers(u, list)
  <2>1. \A i \in 1..Len(u) : Held(u[i]) \subseteq SlotsIn(list)
    BY ONLY <1>5, <1>6
  <2>2. \A i, j \in 1..Len(u) : i # j => Held(u[i]) \cap Held(u[j]) = {}
    BY ONLY <1>5, <1>7
  <2>3. \A s \in SlotsIn(list) : \E i \in 1..Len(u) : s \in Held(u[i])
    BY ONLY <1>5, <1>8
  <2>4. QED  BY ONLY <2>1, <2>2, <2>3 DEF Covers
<1>10. QED  BY <1>5, <1>9

\* The share of a rank, as a list of rows.
LEMMA DealtFacts ==
  ASSUME Given, NEW k \in Trainable, NEW r \in Rank
  PROVE  /\ Dealt(r, k).rows \in Seq(AnyRow) /\ Distinct(Dealt(r, k).rows)
         /\ Len(Dealt(r, k).rows) = Wide(k) /\ Wide(k) \in Nat /\ Wide(k) >= 1
         /\ \A i \in 1..Wide(k) : Dealt(r, k).rows[i].slot \in Slot \cup {0}
         /\ Dealt(r, k).over = Denominators(k)
<1>1. k \in 1..Batches
  BY TrainableFacts
<1>2. Dealt(r, k).rows = Share(k, r) /\ Dealt(r, k).over = Denominators(k)
  BY DEF Dealt
<1>3. Share(k, r) \in Seq(AnyRow) /\ Len(Share(k, r)) = Wide(k) /\ Wide(k) \in Nat /\ Wide(k) >= 1
  BY <1>1, ShareRows, ShareFacts, WideFacts
<1>4. Distinct(Share(k, r))
  <2>1. ASSUME NEW s \in Slot, NEW i \in 1..Wide(k), NEW j \in 1..Wide(k),
               Share(k, r)[i].slot = s, Share(k, r)[j].slot = s
        PROVE  i = j
    BY ONLY Given, <1>1, r \in Rank, <2>1, RowGoesOnce
  <2>2. QED  BY <1>3, <2>1 DEF Distinct
<1>5. \A i \in 1..Wide(k) : Share(k, r)[i].slot \in Slot \cup {0}
  <2>1. \A i \in 1..Wide(k) : Share(k, r)[i].slot \in RowsOf(k) \cup {0}
    BY <1>1, ShareRows
  <2>2. RowsOf(k) \subseteq Slot
    BY <1>1, SlotsFacts
  <2>3. QED  BY <2>1, <2>2
<1>6. QED  BY <1>2, <1>3, <1>4, <1>5

\* Micro-batches of a fixed size divide a mini-batch, into as many on every rank.
LEMMA StaticSplitFacts ==
  ASSUME NEW m, m.rows \in Seq(AnyRow), Distinct(m.rows), Len(m.rows) >= 1
  PROVE  /\ StaticSplit(m) \in Seq(SUBSET AnyRow) /\ Covers(StaticSplit(m), m.rows)
         /\ Len(StaticSplit(m)) = CeilDiv(Len(m.rows), Micro)
         /\ CeilDiv(Len(m.rows), Micro) \in Nat /\ CeilDiv(Len(m.rows), Micro) >= 1
<1> DEFINE list == m.rows
           L == Len(list)
           n == CeilDiv(L, Micro)
           g == [x \in 1..L |-> ((x - 1) \div Micro) + 1]
           e(i) == IF i * Micro < L THEN i * Micro ELSE L
<1>1. L \in Nat /\ L >= 1 /\ Micro \in Nat \ {0} /\ list \in Seq(AnyRow) /\ Distinct(list)
  BY ActorAssumption
<1>2. n \in Nat /\ L <= n * Micro /\ n >= 1
  <2> HIDE DEF L
  <2> QED BY <1>1, CeilDivFacts
<1>3. ASSUME NEW x \in 1..L
      PROVE  /\ g[x] \in 1..n
             /\ \A i \in 1..n : g[x] = i <=> x \in ((i - 1) * Micro + 1)..e(i)
  <2> DEFINE q == (x - 1) \div Micro
  <2>1. q \in Nat /\ q * Micro <= x - 1 /\ x - 1 < q * Micro + Micro /\ g[x] = q + 1
    <3>1. x - 1 \in Nat
      BY <1>1
    <3>2. q \in Nat /\ q * Micro <= x - 1 /\ x - 1 < q * Micro + Micro
      BY ONLY <1>1, <3>1, Division
    <3>3. g[x] = q + 1
      OBVIOUS
    <3>4. QED  BY <3>2, <3>3
  <2> HIDE DEF q, g
  <2>2. x \in Int /\ L \in Int /\ x <= L /\ 1 <= x /\ n \in Int
    BY <1>1, <1>2
  <2>3. ASSUME NEW i \in Nat, q + 1 <= i  PROVE q * Micro + Micro <= i * Micro
    <3>1. (q + 1) * Micro <= i * Micro
      <4>1. q + 1 \in Int /\ i \in Int /\ Micro \in Nat /\ q + 1 <= i
        BY <1>1, <2>1, <2>3
      <4>2. QED  BY ONLY <4>1, Scales
    <3>2. (q + 1) * Micro = q * Micro + Micro
      BY <1>1, <2>1
    <3>3. QED  BY <3>1, <3>2
  <2>4. ASSUME NEW i \in Nat, i <= q  PROVE i * Micro <= q * Micro
    <3>1. q \in Int /\ i \in Int /\ Micro \in Nat /\ i <= q
      BY <1>1, <2>1, <2>4
    <3>2. QED  BY ONLY <3>1, Scales
  <2> DEFINE a == q * Micro
  <2>5. a \in Nat /\ a <= x - 1 /\ x - 1 < a + Micro /\ Micro \in Nat
    BY <1>1, <2>1
  <2>6. q + 1 <= n
    <3> SUFFICES ASSUME n <= q  PROVE FALSE
      BY <1>2, <2>1
    <3>1. n * Micro <= a
      BY <1>2, <2>4
    <3> DEFINE z == n * Micro
    <3>2. z \in Int /\ L <= z /\ z <= a
      BY <1>1, <1>2, <3>1
    <3> HIDE DEF z, a, L
    <3>3. QED  BY <2>2, <2>5, <3>2
  <2>7. g[x] \in 1..n
    BY <1>2, <2>1, <2>6
  <2>8. ASSUME NEW i \in 1..n
        PROVE  g[x] = i <=> x \in ((i - 1) * Micro + 1)..e(i)
    <3> DEFINE b == (i - 1) * Micro
               c == i * Micro
    <3>1. i \in Nat /\ i - 1 \in Nat /\ b \in Nat /\ c \in Nat /\ c = b + Micro
      <4>1. i \in Nat /\ i - 1 \in Nat
        BY <1>2
      <4>2. (i - 1) * Micro = i * Micro - Micro
        BY <1>1, <4>1
      <4>3. b \in Nat /\ c \in Nat
        BY <1>1, <4>1
      <4> DEFINE bb == b
                 cc == c
      <4> HIDE DEF bb, cc
      <4>4. bb \in Nat /\ cc \in Nat /\ bb = cc - Micro
        BY <4>2, <4>3 DEF bb, cc
      <4>5. cc = bb + Micro
        BY <1>1, <4>4
      <4>6. QED  BY <4>1, <4>4, <4>5 DEF bb, cc
    <3>2. e(i) = IF c < L THEN c ELSE L
      OBVIOUS
    <3>3. CASE i = q + 1
      <4>1. b = a /\ g[x] = i
        BY <2>1, <3>1, <3>3
      <4> HIDE DEF b, c, a, L, e
      <4>2. x \in (b + 1)..e(i)
        BY <2>2, <2>5, <3>1, <3>2, <4>1
      <4>3. QED  BY <4>1, <4>2 DEF b
    <3>4. CASE i > q + 1
      <4>1. a + Micro <= b
        <5>1. i - 1 \in Nat /\ q + 1 <= i - 1
          BY <2>1, <3>1, <3>4
        <5>2. QED  BY <2>3, <5>1
      <4>2. g[x] # i
        BY <2>1, <3>1, <3>4
      <4> HIDE DEF b, c, a, L, e
      <4>3. ~(b + 1 <= x)
        BY <2>2, <2>5, <3>1, <4>1
      <4>4. x \notin (b + 1)..e(i)
        BY <4>3
      <4>5. QED  BY <4>2, <4>4 DEF b
    <3>5. CASE i < q + 1
      <4>1. c <= a
        <5>1. i <= q
          BY <2>1, <3>1, <3>5
        <5>2. QED  BY <2>4, <3>1, <5>1
      <4>2. g[x] # i
        BY <2>1, <3>1, <3>5
      <4> HIDE DEF b, c, a, L, e
      <4>3. ~(x <= e(i))
        BY <2>2, <2>5, <3>1, <3>2, <4>1
      <4>4. x \notin (b + 1)..e(i)
        BY <4>3
      <4>5. QED  BY <4>2, <4>4 DEF b
    <3>6. QED  BY <2>1, <3>1, <3>3, <3>4, <3>5
  <2>9. QED  BY <2>7, <2>8
<1>4. ASSUME NEW i \in 1..n
      PROVE  Range(SubSeq(list, (i - 1) * Micro + 1, e(i)))
               = {list[x] : x \in {y \in 1..L : g[y] = i}}
  <2> DEFINE a == (i - 1) * Micro
             b == e(i)
  <2>1. a \in Nat /\ b \in Int /\ b <= L
    <3>1. i - 1 \in Nat /\ i \in Nat
      BY <1>2
    <3>2. a \in Nat /\ i * Micro \in Nat
      BY <1>1, <3>1
    <3>3. QED  BY <1>1, <3>2
  <2>2. {y \in 1..L : g[y] = i} = (a + 1)..b
    <3>1. \A y \in 1..L : g[y] = i <=> y \in (a + 1)..b
      BY <1>3
    <3>2. (a + 1)..b \subseteq 1..L
      <4> HIDE DEF a, b, L
      <4> QED BY <1>1, <2>1
    <3> HIDE DEF a, b, g, L
    <3>3. QED  BY ONLY <3>1, <3>2
  <2> HIDE DEF a, b, g, list
  <2>3. SubSeq(list, a + 1, b) = [j \in 1..(b - (a + 1) + 1) |-> list[j + (a + 1) - 1]]
    <3>1. a + 1 \in Int /\ b \in Int
      BY ONLY <2>1
    <3>2. QED  BY ONLY <1>1, <3>1
  <2>4. Range(SubSeq(list, a + 1, b)) = {list[j + (a + 1) - 1] : j \in 1..(b - (a + 1) + 1)}
    BY ONLY <2>3 DEF Range
  <2>5. {list[j + (a + 1) - 1] : j \in 1..(b - (a + 1) + 1)} = {list[x] : x \in (a + 1)..b}
    <3>1. \A j \in 1..(b - (a + 1) + 1) : j + (a + 1) - 1 \in (a + 1)..b
      BY ONLY <2>1
    <3>2. \A x \in (a + 1)..b : x - a \in 1..(b - (a + 1) + 1) /\ (x - a) + (a + 1) - 1 = x
      BY ONLY <2>1
    <3>3. QED  BY ONLY <3>1, <3>2
  <2>6. QED  BY ONLY <2>2, <2>4, <2>5 DEF a, b
<1> DEFINE u == [j \in 1..n |-> {list[i] : i \in {x \in 1..L : g[x] = j}}]
           h(i) == Range(SubSeq(list, (i - 1) * Micro + 1, e(i)))
           p(j) == {list[i] : i \in {x \in 1..L : g[x] = j}}
<1>5. StaticSplit(m) = [i \in 1..n |-> h(i)]
  BY DEF StaticSplit
<1>6. u = [j \in 1..n |-> p(j)]
  OBVIOUS
<1>7. \A i \in 1..n : h(i) = p(i)
  <2> HIDE DEF e, g, n, L, list
  <2> QED BY <1>4
<1>8. g \in [1..L -> 1..n]
  <2>1. \A x \in 1..L : g[x] \in 1..n
    BY <1>3
  <2> HIDE DEF n
  <2>2. QED  BY <2>1
<1>9. StaticSplit(m) = u
  <2> HIDE DEF h, p, u, n
  <2> QED BY ONLY <1>5, <1>6, <1>7
<1>10. u \in Seq(SUBSET AnyRow) /\ Len(u) = n /\ Covers(u, list)
  <2> HIDE DEF g, n, list
  <2> QED BY ONLY <1>1, <1>2, <1>8, Grouping DEF u, L
<1>11. QED  BY <1>2, <1>9, <1>10

\* What a rank would split its mini-batch into is between one and its rows.
LEMMA OwnCountFacts ==
  ASSUME Given, NEW k \in Trainable, NEW r \in Rank
  PROVE  OwnCount(Dealt(r, k)) \in 1..Wide(k)
<1> DEFINE list == Dealt(r, k).rows
           f == [i \in 1..Len(list) |-> Length(list[i])]
<1>1. /\ list \in Seq(AnyRow) /\ Len(list) = Wide(k) /\ Wide(k) \in Nat /\ Wide(k) >= 1
      /\ \A i \in 1..Wide(k) : list[i].slot \in Slot \cup {0}
  BY DealtFacts
<1> HIDE DEF list
<1>2. ASSUME NEW i \in 1..Wide(k)  PROVE Length(list[i]) \in Nat /\ Length(list[i]) >= 1
  <2>1. CASE list[i].slot = 0
    BY <2>1 DEF Length
  <2>2. CASE list[i].slot # 0
    <3>1. list[i].slot \in Slot
      BY <1>1, <2>2
    <3>2. slots[list[i].slot] \in [ledger : BOOLEAN, resp : Nat \ {0}, mask : Nat]
      BY <3>1, ReservationsAssumption DEF Given
    <3>3. slots[list[i].slot].resp \in Nat
      BY <3>2
    <3>4. QED  BY <2>2, <3>3 DEF Length
  <2>3. QED  BY <2>1, <2>2
<1> DEFINE D == 1..Wide(k)
<1>3. IsFiniteSet(D) /\ 1 \in D
  <2>1. 1 \in Int /\ Wide(k) \in Int
    BY <1>1
  <2>2. IsFiniteSet(D)
    BY ONLY <2>1, FS_Interval
  <2>3. QED  BY <1>1, <2>2
<1>4. DOMAIN f = D /\ \A x \in D : f[x] \in Nat /\ f[x] >= 1
  BY <1>1, <1>2
<1> HIDE DEF f, D
<1>5. SumFunction(f) = SumOver(f, D)
  BY <1>3, <1>4, WholeSumIsFold
<1>6. SumOver(f, D) = f[1] + SumOver(f, D \ {1}) /\ SumOver(f, D \ {1}) \in Nat
  <2>1. \A x \in D : f[x] \in Nat
    BY <1>4
  <2>2. QED  BY ONLY <1>3, <2>1, SumWithout
<1>7. SumFunction(f) \in Nat /\ SumFunction(f) >= 1
  <2>1. f[1] \in Nat /\ f[1] >= 1
    BY <1>3, <1>4
  <2>2. QED  BY ONLY <1>5, <1>6, <2>1
<1> DEFINE c == CeilDiv(SumFunction(f), MaxTokens)
           w == Wide(k)
<1>8. c \in Nat /\ c >= 1
  <2>1. MaxTokens \in Nat \ {0}
    BY ActorAssumption
  <2>2. QED  BY ONLY <1>7, <2>1, CeilDivFacts
<1>9. OwnCount(Dealt(r, k)) = Min({w, c})
  BY <1>1 DEF OwnCount, f, list
<1>10. w \in Nat /\ w >= 1
  BY <1>1
<1> HIDE DEF c, w
<1>11. Min({w, c}) \in {w, c} /\ \A y \in {w, c} : Min({w, c}) <= y
  <2>1. {w, c} \subseteq Nat /\ {w, c} # {}
    BY <1>8, <1>10
  <2>2. \E x \in {w, c} : \A y \in {w, c} : x <= y
    BY ONLY <2>1, SmallestIn
  <2>3. QED  BY <2>2 DEF Min
<1>12. Min({w, c}) \in 1..w
  BY ONLY <1>8, <1>10, <1>11
<1>13. QED  BY <1>9, <1>12 DEF w

\* The agreed count is one that every rank can split by.
LEMMA AgreedFacts ==
  ASSUME Given, NEW k \in Trainable, \A q \in Rank : mini[q] = Dealt(q, k), NEW r \in Rank
  PROVE  AgreedCount(r) \in 1..Wide(k)
<1> DEFINE D == {OwnCount(mini[q]) : q \in Rank}
<1>1. \A q \in Rank : OwnCount(mini[q]) \in 1..Wide(k)
  BY OwnCountFacts
<1>2. IsFiniteSet(Rank)
  <2>1. 1 \in Int /\ DP \in Int
    BY SizesAssumption
  <2>2. QED  BY ONLY <2>1, FS_Interval DEF Rank
<1>3. D \subseteq 1..Wide(k) /\ D # {}
  BY <1>1
<1>4. Wide(k) \in Nat
  BY DealtFacts
<1>5. IsFiniteSet(D)
  <2>1. IsFiniteSet(1..Wide(k))
    <3>1. 1 \in Int /\ Wide(k) \in Int
      BY <1>4
    <3>2. QED  BY ONLY <3>1, FS_Interval
  <2> HIDE DEF D
  <2>2. QED  BY ONLY <1>3, <2>1, FS_Subset
<1>6. AgreedCount(r) = Max(D)
  BY DEF AgreedCount
<1> HIDE DEF D
<1>7. D \subseteq Nat
  BY <1>3, <1>4
<1>8. Max(D) \in D
  BY ONLY <1>3, <1>5, <1>7, LargestIn
<1>9. QED  BY <1>3, <1>6, <1>8

\* What a dynamic split is.
LEMMA SplitFacts ==
  ASSUME NEW m, m.rows \in Seq(AnyRow), Distinct(m.rows), NEW n \in Nat, NEW u \in Splits(m, n)
  PROVE  u \in Seq(SUBSET AnyRow) /\ Len(u) = n /\ Covers(u, m.rows)
<1> DEFINE list == m.rows
<1>1. PICK f \in [1..Len(list) -> 1..n] :
        u = [j \in 1..n |-> {list[i] : i \in {x \in 1..Len(list) : f[x] = j}}]
  BY DEF Splits
<1>2. list \in Seq(AnyRow) /\ Distinct(list)
  OBVIOUS
<1> HIDE DEF list
<1>3. u \in Seq(SUBSET AnyRow) /\ Len(u) = n /\ Covers(u, list)
  BY ONLY <1>1, <1>2, n \in Nat, Grouping
<1>4. QED  BY <1>3 DEF list

-----------------------------------------------------------------------------
\* The slots that are still to come in a list of micro-batches.
Coming(u) == {s \in Slot : \E i \in 1..Len(u) : s \in Held(u[i])}

\* Where a rank is between taking a mini-batch and the end of its optimizer step.
Stepping == {"count", "micro", "norm"}

Entry == [Rank -> [weight : [Slot -> Nat], over : {Mini} \X Nat]] \cup {Dropped}

\* The types of the rest of the state.
Shapes ==
  /\ todo \in [Rank -> Seq(Nat)]
  /\ mini = [r \in Rank |-> mini[r]]
  /\ micros \in [Rank -> Seq(SUBSET AnyRow)]
  /\ applied \in Seq(Entry)

\* Before the dispatch nothing has happened.
Before ==
  phase \notin {"running", "done"} =>
    /\ at = [r \in Rank |-> "idle"] /\ applied = <<>> /\ lr = 0
    /\ steps = [r \in Rank |-> 0] /\ micros = [r \in Rank |-> <<>>]

\* What the trainer built, what the dispatch let through, and how it ends.
Prepared ==
  /\ phase # "crashed" /\ valid
  /\ phase \in {"built", "running", "done"} => rows = Ordered /\ Trainable # {}
  /\ phase \in {"running", "done"} => world = DP /\ \A r \in Rank : at[r] # "idle"
  /\ phase = "running" => lr = 0
  /\ phase = "done" => \A r \in Rank : at[r] = "reported"

\* A rank has as much of the plan behind it as the optimizer made steps.
Aligned(r) ==
  /\ Len(todo[r]) + Len(applied) + (IF at[r] \in Stepping THEN 1 ELSE 0) = Len(Plan)
  /\ \A i \in 1..Len(todo[r]) : todo[r][i] = Plan[Len(Plan) - Len(todo[r]) + i]
  /\ at[r] = "reported" => todo[r] = <<>>
  /\ at[r] \in Stepping => mini[r] = Dealt(r, Plan[Len(applied) + 1])
  /\ steps[r] = Len(applied)

\* In an update that was let through, all of them.
OnPlan == phase \in {"running", "done"} => \A r \in Rank : Aligned(r)

\* Which ranks can be where at the same time.
Together ==
  \A q, r \in Rank :
    /\ at[q] = "norm" => at[r] = "norm"
    /\ at[q] = "count" => at[r] \in {"next", "count"}
    /\ at[q] = "micro" => at[r] \in {"next", "micro"}
    /\ at[q] = "reported" => at[r] \in {"next", "reported"}
    /\ at[q] = "count" => dynamic
    /\ at[q] = "micro" /\ at[r] = "next" => ~dynamic
    /\ at[q] = "micro" /\ at[r] = "micro" => Len(micros[q]) = Len(micros[r])

\* The micro-batches that a rank has left hold slots of its mini-batch, each
\* once, and as long as another rank is behind they are all of them.
Divided ==
  \A r \in Rank :
    /\ at[r] # "micro" => micros[r] = <<>>
    /\ at[r] = "micro" =>
         /\ micros[r] # <<>>
         /\ \A i \in 1..Len(micros[r]) : Held(micros[r][i]) \subseteq SlotsIn(mini[r].rows)
         /\ \A i, j \in 1..Len(micros[r]) :
              i # j => Held(micros[r][i]) \cap Held(micros[r][j]) = {}
    /\ at[r] = "micro" /\ (\E q \in Rank : at[q] = "next") => micros[r] = StaticSplit(mini[r])

\* The gradient holds every slot that was in a micro-batch, once, at full weight.
Weighted ==
  \A r \in Rank :
    /\ at[r] = "count" => grad[r] = NoGrad
    /\ at[r] = "micro" /\ (\E q \in Rank : at[q] = "next") => grad[r] = NoGrad
    /\ at[r] \in {"micro", "norm"} /\ (\A q \in Rank : at[q] # "next") =>
         \A s \in Slot :
           grad[r][s] = IF \E q \in Rank : s \in SlotsIn(mini[q].rows) /\ s \notin Coming(micros[q])
                        THEN DP ELSE 0

UpdateInv ==
  /\ TypeOK /\ Shapes
  /\ Before /\ Prepared /\ OnPlan /\ Together /\ Divided /\ Weighted

-----------------------------------------------------------------------------
\* What only depends on the reservation stays as it is.
LEMMA ReservationKept ==
  ASSUME slots' = slots, useMask' = useMask
  PROVE  /\ Trainable' = Trainable /\ Plan' = Plan /\ Ordered' = Ordered
         /\ \A k, r : Dealt(r, k)' = Dealt(r, k)
<1>1. Trainable' = Trainable /\ Plan' = Plan /\ Ordered' = Ordered
  BY DEF Trainable, Plan, Ordered, RankRows, Status, Active, RowsOf, SlotsOf, Tokens,
         Share, Padded, Row, Dummy, Denominators
<1>2. ASSUME NEW k, NEW r  PROVE Dealt(r, k)' = Dealt(r, k)
  BY DEF Dealt, RowsOf, SlotsOf, Tokens, Share, Padded, Row, Dummy, Denominators
<1>3. QED  BY <1>1, <1>2

\* What the ranks hold stays as it is.
LEMMA RanksKept ==
  ASSUME Together, Divided, Weighted,
         at' = at, mini' = mini, micros' = micros, grad' = grad, dynamic' = dynamic
  PROVE  Together' /\ Divided' /\ Weighted'
BY DEF Together, Divided, Weighted

\* The ranks have left the dispatch only while the update runs.
LEMMA InTheUpdate ==
  ASSUME UpdateInv, NEW r \in Rank, at[r] \notin {"idle", "reported"}
  PROVE  /\ phase = "running" /\ rows = Ordered /\ Trainable # {} /\ world = DP /\ lr = 0
         /\ valid /\ Given /\ \A q \in Rank : Aligned(q) /\ at[q] # "idle"
<1>1. phase \in {"running", "done"}
  BY DEF UpdateInv, Before
<1>2. phase # "done"
  BY DEF UpdateInv, Prepared
<1>3. QED  BY <1>1, <1>2 DEF UpdateInv, Prepared, OnPlan, TypeOK, Given

\* The invariant holds at the start, and every action keeps it.
LEMMA InitUpdate == Init => UpdateInv
<1> SUFFICES ASSUME Init  PROVE UpdateInv
  OBVIOUS
<1>1. TypeOK
  BY DEF Init, TypeOK, NoGrad
<1>2. Shapes
  <2>1. <<>> \in Seq(Nat) /\ <<>> \in Seq(SUBSET AnyRow) /\ <<>> \in Seq(Entry)
    OBVIOUS
  <2>2. QED  BY <2>1 DEF Init, Shapes, NoMini
<1>3. Before /\ Prepared /\ OnPlan
  BY DEF Init, Before, Prepared, OnPlan
<1>4. Together /\ Divided /\ Weighted
  BY DEF Init, Together, Divided, Weighted
<1>5. QED  BY <1>1, <1>2, <1>3, <1>4 DEF UpdateInv

LEMMA BuildKeeps == ASSUME UpdateInv, Build  PROVE UpdateInv'
<1> USE DEF inputs, actorVars
<1>1. Given
  BY DEF UpdateInv, TypeOK, Given
<1>2. SharesEqual
  BY <1>1, RankRowsFacts DEF SharesEqual
<1>3. phase' = "skipped" \/ (phase' = "built" /\ rows' = Ordered /\ Trainable # {})
  BY <1>2 DEF Build
<1>4. /\ phase = "reserved" /\ UNCHANGED <<slots, useMask, world, dynamic, at, todo, mini, micros>>
      /\ UNCHANGED <<grad, steps, applied, lr, valid>>
  BY DEF Build
<1>5. TypeOK'
  BY <1>3, <1>4 DEF UpdateInv, TypeOK
<1>6. Shapes'
  BY <1>4 DEF UpdateInv, Shapes
<1>7. Before'
  BY <1>3, <1>4 DEF UpdateInv, Before
<1>8. Prepared'
  BY <1>3, <1>4, ReservationKept DEF UpdateInv, Prepared
<1>9. OnPlan'
  BY <1>3 DEF OnPlan
<1>10. (Together /\ Divided /\ Weighted)'
  BY <1>4, RanksKept DEF UpdateInv
<1>11. QED  BY <1>5, <1>6, <1>7, <1>8, <1>9, <1>10 DEF UpdateInv

LEMMA DispatchKeeps == ASSUME UpdateInv, Dispatch  PROVE UpdateInv'
<1> USE DEF inputs
<1>1. /\ phase = "built" /\ UNCHANGED <<slots, useMask, world, dynamic, rows, mini, micros>>
      /\ UNCHANGED <<grad, steps, applied, lr, valid>>
  BY DEF Dispatch
<1>2. rows = Ordered /\ Trainable # {} /\ Given /\ valid
  BY <1>1 DEF UpdateInv, Prepared, TypeOK, Given
<1>3. /\ applied = <<>> /\ lr = 0 /\ steps = [r \in Rank |-> 0] /\ micros = [r \in Rank |-> <<>>]
      /\ at = [r \in Rank |-> "idle"]
  BY <1>1 DEF UpdateInv, Before
<1>4. CASE phase' = "refused" /\ UNCHANGED <<at, todo>>
  <2>1. TypeOK' /\ Shapes' /\ Before' /\ Prepared'
    BY <1>1, <1>2, <1>4 DEF UpdateInv, TypeOK, Shapes, Before, Prepared
  <2>2. OnPlan'
    BY <1>4 DEF OnPlan
  <2>3. (Together /\ Divided /\ Weighted)'
    BY <1>1, <1>4, RanksKept DEF UpdateInv
  <2>4. QED  BY <2>1, <2>2, <2>3 DEF UpdateInv
<1>5. CASE /\ world = DP /\ phase' = "running" /\ at' = [r \in Rank |-> "next"]
           /\ todo' = [r \in Rank |-> Minis(r)]
  <2>1. todo' = [r \in Rank |-> Plan]
    BY <1>2, <1>5, MinisFacts
  <2>2. Plan \in Seq(Nat) /\ Len(Plan) \in Nat
    BY <1>2, PlanFacts
  <2>3. TypeOK'
    BY <1>1, <1>5 DEF UpdateInv, TypeOK
  <2>4. Shapes'
    BY <1>1, <2>1, <2>2 DEF UpdateInv, Shapes
  <2>5. Before'
    BY <1>5 DEF Before
  <2>6. Prepared'
    <3>1. Ordered' = Ordered /\ Trainable' = Trainable
      BY <1>1, ReservationKept
    <3>2. QED  BY <1>1, <1>2, <1>3, <1>5, <3>1 DEF Prepared
  <2>7. OnPlan'
    <3> SUFFICES ASSUME NEW r \in Rank  PROVE Aligned(r)'
      BY DEF OnPlan
    <3>1. Plan' = Plan
      BY <1>1, ReservationKept
    <3>2. at'[r] = "next" /\ todo'[r] = Plan /\ steps'[r] = 0 /\ Len(applied') = 0
      BY <1>1, <1>3, <1>5, <2>1
    <3>3. \A i \in 1..Len(Plan) : Len(Plan) - Len(Plan) + i = i
      BY <2>2
    <3>4. QED  BY <2>2, <3>1, <3>2, <3>3 DEF Aligned, Stepping
  <2>8. Together' /\ Divided' /\ Weighted'
    BY <1>1, <1>3, <1>5 DEF Together, Divided, Weighted
  <2>9. QED  BY <2>3, <2>4, <2>5, <2>6, <2>7, <2>8 DEF UpdateInv
<1>6. QED  BY <1>4, <1>5 DEF Dispatch

\* The next mini-batch of a rank is the one of the coming optimizer step.
LEMMA NextBatch ==
  ASSUME UpdateInv, NEW r \in Rank, at[r] = "next", todo[r] # <<>>, NEW k, k = Head(todo[r])
  PROVE  /\ k = Plan[Len(applied) + 1] /\ k \in Trainable
         /\ MiniBatch(r, k) = Dealt(r, k)
         /\ Len(Tail(todo[r])) + Len(applied) + 1 = Len(Plan)
         /\ \A i \in 1..Len(Tail(todo[r])) :
              Tail(todo[r])[i] = Plan[Len(Plan) - Len(Tail(todo[r])) + i]
         /\ Tail(todo[r]) \in Seq(Nat)
<1>1. rows = Ordered /\ Given /\ Aligned(r)
  BY InTheUpdate
<1> DEFINE t == todo[r]
           n == Len(Plan)
           a == Len(applied)
<1>2. t \in Seq(Nat) /\ t # <<>> /\ a \in Nat /\ n \in Nat
  BY <1>1, PlanFacts DEF UpdateInv, Shapes
<1>3. Len(t) + a = n /\ \A i \in 1..Len(t) : t[i] = Plan[n - Len(t) + i]
  <2>1. at[r] \notin Stepping
    BY DEF Stepping
  <2>2. Len(t) \in Nat
    BY ONLY <1>2
  <2>3. Len(t) + a + 0 = n /\ \A i \in 1..Len(t) : t[i] = Plan[n - Len(t) + i]
    BY ONLY <1>1, <2>1 DEF Aligned, t, a, n
  <2> HIDE DEF t, a, n
  <2>4. Len(t) + a = n
    BY ONLY <1>2, <2>2, <2>3
  <2>5. QED  BY ONLY <2>3, <2>4
<1>4. Plan = Plan /\ k = Head(t)
  OBVIOUS
<1> HIDE DEF t, n, a
<1>5. Len(t) \in Nat /\ Len(t) >= 1 /\ Head(t) = t[1]
  BY ONLY <1>2
<1>6. Tail(t) \in Seq(Nat) /\ Len(Tail(t)) = Len(t) - 1
      /\ \A i \in 1..Len(Tail(t)) : Tail(t)[i] = t[i + 1]
  BY ONLY <1>2
<1>7. k = Plan[a + 1]
  <2>0. Len(t) + a = n
    BY ONLY <1>3
  <2>1. 1 \in 1..Len(t) /\ n - Len(t) + 1 = a + 1
    BY ONLY <1>2, <1>5, <2>0
  <2>2. t[1] = Plan[n - Len(t) + 1]
    BY ONLY <1>3, <2>1
  <2>3. QED  BY ONLY <1>4, <1>5, <2>1, <2>2
<1>8. a + 1 \in 1..n
  BY ONLY <1>2, <1>3, <1>5
<1>9. k \in Trainable
  BY <1>1, <1>7, <1>8, PlanFacts DEF n
<1>10. ASSUME NEW i \in 1..Len(Tail(t))  PROVE Tail(t)[i] = Plan[n - Len(Tail(t)) + i]
  <2>1. i + 1 \in 1..Len(t) /\ n - Len(t) + (i + 1) = n - Len(Tail(t)) + i
    BY ONLY <1>2, <1>5, <1>6
  <2>2. t[i + 1] = Plan[n - Len(t) + (i + 1)]
    BY ONLY <1>3, <2>1
  <2>3. QED  BY ONLY <1>6, <2>1, <2>2
<1>11. Len(Tail(t)) + a + 1 = n
  BY ONLY <1>2, <1>3, <1>5, <1>6
<1>12. MiniBatch(r, k) = Dealt(r, k)
  BY <1>1, <1>9, MinisFacts
<1>13. QED  BY <1>6, <1>7, <1>9, <1>10, <1>11, <1>12 DEF t, n, a

\* Where the other ranks can be when one takes its next mini-batch.
LEMMA OthersBehind ==
  ASSUME UpdateInv, NEW r \in Rank, at[r] = "next", todo[r] # <<>>, NEW q \in Rank
  PROVE  /\ at[q] = "next" \/ (dynamic /\ at[q] = "count") \/ (~dynamic /\ at[q] = "micro")
<1>1. Aligned(r) /\ Aligned(q) /\ at[q] # "idle"
  BY InTheUpdate
<1>2. todo[r] \in Seq(Nat) /\ todo[q] \in Seq(Nat) /\ Len(applied) \in Nat
  BY DEF UpdateInv, Shapes
<1>3. at[q] # "reported"
  <2> SUFFICES ASSUME at[q] = "reported"  PROVE FALSE
    OBVIOUS
  <2>1. Len(todo[q]) = 0 /\ Len(todo[q]) + Len(applied) = Len(todo[r]) + Len(applied)
    BY <1>1, <1>2 DEF Aligned, Stepping
  <2>2. Len(todo[r]) = 0
    BY <1>2, <2>1
  <2>3. QED  BY <1>2, <2>2
<1>4. at[q] # "norm"
  BY DEF UpdateInv, Together
<1>5. (at[q] = "count" => dynamic) /\ (at[q] = "micro" => ~dynamic)
  BY DEF UpdateInv, Together
<1>6. at[q] \in {"idle", "next", "count", "micro", "norm", "reported"}
  BY DEF UpdateInv, TypeOK
<1>7. QED  BY <1>1, <1>3, <1>4, <1>5, <1>6

\* Ranks in the same step work on the same batch.
LEMMA SameBatch ==
  ASSUME UpdateInv, NEW r \in Rank, at[r] \in Stepping
  PROVE  /\ Plan[Len(applied) + 1] \in Trainable
         /\ \A q \in Rank : at[q] \in Stepping => mini[q] = Dealt(q, Plan[Len(applied) + 1])
         /\ Len(applied) + 1 \in 1..Len(Plan)
<1>1. Given /\ \A q \in Rank : Aligned(q)
  BY InTheUpdate DEF Stepping
<1>2. Len(todo[r]) \in Nat /\ Len(applied) \in Nat /\ Len(Plan) \in Nat
  BY <1>1, PlanFacts DEF UpdateInv, Shapes
<1>3. Len(todo[r]) + Len(applied) + 1 = Len(Plan)
  BY <1>1 DEF Aligned
<1>4. Len(applied) + 1 \in 1..Len(Plan)
  BY ONLY <1>2, <1>3
<1>5. Plan[Len(applied) + 1] \in Trainable
  BY <1>1, <1>4, PlanFacts
<1>6. QED  BY <1>1, <1>4, <1>5 DEF Aligned

LEMMA NextMiniKeeps == ASSUME UpdateInv, NEW r \in Rank, NextMini(r)  PROVE UpdateInv'
<1> USE DEF inputs
<1>1. /\ at[r] = "next" /\ todo[r] # <<>>
      /\ UNCHANGED <<slots, useMask, world, dynamic, phase, rows, steps, applied, lr, valid>>
      /\ todo' = [todo EXCEPT ![r] = Tail(@)]
      /\ at' = [at EXCEPT ![r] = IF dynamic THEN "count" ELSE "micro"]
      /\ grad' = [grad EXCEPT ![r] = NoGrad]
  BY DEF NextMini
<1>2. /\ phase = "running" /\ rows = Ordered /\ Given
      /\ \A q \in Rank : Aligned(q) /\ at[q] # "idle"
  BY <1>1, InTheUpdate
<1> DEFINE k == Plan[Len(applied) + 1]
           m == Dealt(r, k)
<1>3. /\ k = Head(todo[r]) /\ k \in Trainable
      /\ MiniBatch(r, Head(todo[r])) = m
      /\ Len(Tail(todo[r])) + Len(applied) + 1 = Len(Plan)
      /\ \A i \in 1..Len(Tail(todo[r])) :
           Tail(todo[r])[i] = Plan[Len(Plan) - Len(Tail(todo[r])) + i]
      /\ Tail(todo[r]) \in Seq(Nat)
  BY <1>1, NextBatch
<1>4. /\ mini' = [mini EXCEPT ![r] = m]
      /\ micros' = [micros EXCEPT ![r] = IF dynamic THEN <<>> ELSE StaticSplit(m)]
  BY <1>3 DEF NextMini
<1>5. /\ m.rows \in Seq(AnyRow) /\ Distinct(m.rows) /\ Len(m.rows) = Wide(k)
      /\ Wide(k) \in Nat /\ Wide(k) >= 1
  BY <1>2, <1>3, DealtFacts
<1> HIDE DEF k, m
<1>6. /\ StaticSplit(m) \in Seq(SUBSET AnyRow) /\ Covers(StaticSplit(m), m.rows)
      /\ Len(StaticSplit(m)) = CeilDiv(Wide(k), Micro)
      /\ CeilDiv(Wide(k), Micro) \in Nat /\ CeilDiv(Wide(k), Micro) >= 1
  <2>1. Len(m.rows) >= 1
    BY ONLY <1>5
  <2>2. QED  BY ONLY <1>5, <2>1, StaticSplitFacts
<1>7. /\ at \in [Rank -> {"idle", "next", "count", "micro", "norm", "reported"}]
      /\ todo \in [Rank -> Seq(Nat)] /\ mini = [q \in Rank |-> mini[q]]
      /\ micros \in [Rank -> Seq(SUBSET AnyRow)] /\ grad \in [Rank -> [Slot -> Nat]]
  BY DEF UpdateInv, TypeOK, Shapes
<1>8. /\ at'[r] = IF dynamic THEN "count" ELSE "micro"
      /\ todo'[r] = Tail(todo[r]) /\ mini'[r] = m /\ grad'[r] = NoGrad
      /\ micros'[r] = IF dynamic THEN <<>> ELSE StaticSplit(m)
  BY <1>1, <1>4, <1>7
<1>9. ASSUME NEW q \in Rank, q # r
      PROVE  /\ at'[q] = at[q] /\ todo'[q] = todo[q] /\ mini'[q] = mini[q]
             /\ grad'[q] = grad[q] /\ micros'[q] = micros[q]
  BY <1>1, <1>4, <1>7, <1>9
<1>10. ASSUME NEW q \in Rank
       PROVE  at[q] = "next" \/ (dynamic /\ at[q] = "count") \/ (~dynamic /\ at[q] = "micro")
  BY <1>1, OthersBehind
<1>11. ASSUME NEW q \in Rank, at[q] = "micro"
       PROVE  micros[q] = StaticSplit(mini[q]) /\ mini[q] = Dealt(q, k) /\ grad[q] = NoGrad
  <2>1. micros[q] = StaticSplit(mini[q]) /\ grad[q] = NoGrad
    BY <1>1, <1>11 DEF UpdateInv, Divided, Weighted
  <2>2. mini[q] = Dealt(q, k)
    BY <1>2, <1>11 DEF Aligned, Stepping, k
  <2>3. QED  BY <2>1, <2>2
<1>12. ASSUME NEW q \in Rank
       PROVE  /\ Dealt(q, k).rows \in Seq(AnyRow) /\ Distinct(Dealt(q, k).rows)
              /\ Len(Dealt(q, k).rows) = Wide(k)
              /\ StaticSplit(Dealt(q, k)) # <<>> /\ Covers(StaticSplit(Dealt(q, k)), Dealt(q, k).rows)
              /\ Len(StaticSplit(Dealt(q, k))) = CeilDiv(Wide(k), Micro)
  <2> DEFINE d == Dealt(q, k)
  <2>1. d.rows \in Seq(AnyRow) /\ Distinct(d.rows) /\ Len(d.rows) = Wide(k) /\ Len(d.rows) >= 1
    BY <1>2, <1>3, DealtFacts
  <2> HIDE DEF d
  <2>2. StaticSplit(d) \in Seq(SUBSET AnyRow) /\ Covers(StaticSplit(d), d.rows)
        /\ Len(StaticSplit(d)) = CeilDiv(Wide(k), Micro) /\ CeilDiv(Wide(k), Micro) >= 1
    <3>1. Len(StaticSplit(d)) = CeilDiv(Len(d.rows), Micro)
          /\ StaticSplit(d) \in Seq(SUBSET AnyRow) /\ Covers(StaticSplit(d), d.rows)
          /\ CeilDiv(Len(d.rows), Micro) >= 1
      BY ONLY <2>1, StaticSplitFacts
    <3>2. QED  BY <2>1, <3>1
  <2>3. StaticSplit(d) # <<>>
    BY ONLY <1>6, <2>2
  <2>4. QED  BY <2>1, <2>2, <2>3 DEF d
<1>13. TypeOK'
  <2>1. NoGrad \in [Slot -> Nat]
    BY DEF NoGrad
  <2>2. QED  BY <1>1, <2>1 DEF UpdateInv, TypeOK
<1>14. Shapes'
  <2>1. todo' \in [Rank -> Seq(Nat)]
    BY <1>1, <1>3, <1>7
  <2>2. mini' = [q \in Rank |-> mini'[q]]
    BY <1>4, <1>7
  <2>3. micros' \in [Rank -> Seq(SUBSET AnyRow)]
    <3>1. <<>> \in Seq(SUBSET AnyRow)
      OBVIOUS
    <3>2. QED  BY <1>4, <1>6, <1>7, <3>1
  <2>4. QED  BY <1>1, <2>1, <2>2, <2>3 DEF UpdateInv, Shapes
<1>15. Before'
  BY <1>1, <1>2 DEF Before
<1>16. Prepared'
  <2>1. Ordered' = Ordered /\ Trainable' = Trainable
    BY <1>1, ReservationKept
  <2>2. \A q \in Rank : at'[q] # "idle"
    BY <1>2, <1>8, <1>9
  <2>3. QED  BY <1>1, <1>2, <2>1, <2>2 DEF UpdateInv, Prepared
<1>17. OnPlan'
  <2>1. Plan' = Plan /\ \A q : Dealt(q, k)' = Dealt(q, k')
    BY <1>1, ReservationKept
  <2> SUFFICES ASSUME NEW q \in Rank  PROVE Aligned(q)'
    BY DEF OnPlan
  <2>2. /\ Plan' = Plan /\ applied' = applied /\ steps' = steps
        /\ Dealt(q, Plan[Len(applied) + 1])' = Dealt(q, Plan[Len(applied) + 1])
    <3>1. \A j, p : Dealt(p, j)' = Dealt(p, j)
      BY <1>1, ReservationKept
    <3>2. QED  BY <1>1, <2>1, <3>1
  <2>3. CASE q = r
    <3>1. at'[r] \in Stepping /\ at'[r] # "reported"
      BY <1>8 DEF Stepping
    <3>2. mini'[r] = Dealt(r, Plan[Len(applied) + 1])
      BY <1>8 DEF m, k
    <3>3. steps[r] = Len(applied)
      BY <1>2 DEF Aligned
    <3>4. QED  BY <1>3, <1>8, <2>2, <2>3, <3>1, <3>2, <3>3 DEF Aligned
  <2>4. CASE q # r
    <3>1. Aligned(q)
      BY <1>2
    <3>2. QED  BY <1>9, <2>2, <2>4, <3>1 DEF Aligned
  <2>5. QED  BY <2>3, <2>4
<1>18. Together'
  <2> SUFFICES ASSUME NEW p \in Rank, NEW q \in Rank
               PROVE  /\ at'[p] = "norm" => at'[q] = "norm"
                      /\ at'[p] = "count" => at'[q] \in {"next", "count"}
                      /\ at'[p] = "micro" => at'[q] \in {"next", "micro"}
                      /\ at'[p] = "reported" => at'[q] \in {"next", "reported"}
                      /\ at'[p] = "count" => dynamic'
                      /\ at'[p] = "micro" /\ at'[q] = "next" => ~dynamic'
                      /\ at'[p] = "micro" /\ at'[q] = "micro" => Len(micros'[p]) = Len(micros'[q])
    BY DEF Together
  <2>1. ASSUME NEW x \in Rank
        PROVE  at'[x] = "next" \/ (dynamic' /\ at'[x] = "count") \/ (~dynamic' /\ at'[x] = "micro")
    <3>1. dynamic' = dynamic /\ dynamic \in BOOLEAN
      BY <1>1 DEF UpdateInv, TypeOK
    <3>2. QED  BY <1>8, <1>9, <1>10, <3>1
  <2>2. ASSUME NEW x \in Rank, at'[x] = "micro"
        PROVE  Len(micros'[x]) = CeilDiv(Wide(k), Micro)
    <3>1. CASE x = r
      BY <1>6, <1>8, <2>2, <3>1
    <3>2. CASE x # r
      <4>1. micros'[x] = StaticSplit(Dealt(x, k))
        BY <1>9, <1>11, <2>2, <3>2
      <4>2. QED  BY <1>12, <4>1
    <3>3. QED  BY <3>1, <3>2
  <2>3. QED  BY <2>1, <2>2
<1>19. ASSUME NEW x \in Rank, at'[x] = "micro"
       PROVE  /\ mini'[x] = Dealt(x, k) /\ micros'[x] = StaticSplit(Dealt(x, k))
              /\ grad'[x] = NoGrad
  <2>1. CASE x = r
    BY <1>8, <1>19, <2>1 DEF m
  <2>2. CASE x # r
    BY <1>9, <1>11, <1>19, <2>2
  <2>3. QED  BY <2>1, <2>2
<1>20. Divided'
  <2> SUFFICES ASSUME NEW q \in Rank
               PROVE  /\ at'[q] # "micro" => micros'[q] = <<>>
                      /\ at'[q] = "micro" =>
                           /\ micros'[q] # <<>>
                           /\ \A i \in 1..Len(micros'[q]) : Held(micros'[q][i]) \subseteq SlotsIn(mini'[q].rows)
                           /\ \A i, j \in 1..Len(micros'[q]) :
                                i # j => Held(micros'[q][i]) \cap Held(micros'[q][j]) = {}
                      /\ at'[q] = "micro" => micros'[q] = StaticSplit(mini'[q])
    BY DEF Divided
  <2>1. CASE at'[q] = "micro"
    BY <1>12, <1>19, <2>1 DEF Covers
  <2>2. CASE at'[q] # "micro"
    <3>1. CASE q = r
      BY <1>8, <2>2, <3>1
    <3>2. CASE q # r
      BY <1>9, <2>2, <3>2 DEF UpdateInv, Divided
    <3>3. QED  BY <3>1, <3>2
  <2>3. QED  BY <2>1, <2>2
<1>21. Weighted'
  <2>1. ASSUME NEW q \in Rank  PROVE at'[q] = "count" => grad'[q] = NoGrad
    <3>1. CASE q = r
      BY <1>8, <3>1
    <3>2. CASE q # r
      BY <1>9, <3>2 DEF UpdateInv, Weighted
    <3>3. QED  BY <3>1, <3>2
  <2>2. \A q \in Rank : at'[q] = "micro" => grad'[q] = NoGrad
    BY <1>19
  <2>3. \A q \in Rank : at'[q] # "norm"
    BY <1>8, <1>9, <1>10
  <2>4. ASSUME NEW q \in Rank, at'[q] = "micro", \A x \in Rank : at'[x] # "next", NEW s \in Slot
        PROVE  grad'[q][s] = IF \E x \in Rank : s \in SlotsIn(mini'[x].rows) /\ s \notin Coming(micros'[x])
                             THEN DP ELSE 0
    <3>1. \A x \in Rank : at'[x] = "micro"
      <4>1. ~dynamic
        BY <1>8, <1>9, <1>10, <2>4
      <4>2. QED  BY <1>8, <1>9, <1>10, <2>4, <4>1
    <3>2. ASSUME NEW x \in Rank, s \in SlotsIn(mini'[x].rows)  PROVE s \in Coming(micros'[x])
      <4>1. mini'[x] = Dealt(x, k) /\ micros'[x] = StaticSplit(Dealt(x, k))
        BY <1>19, <3>1
      <4>2. Covers(StaticSplit(Dealt(x, k)), Dealt(x, k).rows)
        BY <1>12
      <4>3. QED  BY <3>2, <4>1, <4>2 DEF Covers, Coming
    <3>3. grad'[q][s] = 0
      BY <2>2, <2>4 DEF NoGrad
    <3>4. QED  BY <3>2, <3>3
  <2>5. QED  BY <2>1, <2>2, <2>3, <2>4 DEF Weighted
<1>22. QED  BY <1>13, <1>14, <1>15, <1>16, <1>17, <1>18, <1>20, <1>21 DEF UpdateInv

\* What was prepared stays as it is while the ranks work.
LEMMA RunningKept ==
  ASSUME UpdateInv, phase = "running", phase' = phase,
         UNCHANGED <<slots, useMask, world, dynamic, rows, lr, valid>>,
         \A q \in Rank : at'[q] # "idle"
  PROVE  Before' /\ Prepared'
<1>1. Before'
  BY DEF Before
<1>2. Ordered' = Ordered /\ Trainable' = Trainable
  BY ReservationKept
<1>3. Prepared'
  BY <1>2 DEF UpdateInv, Prepared
<1>4. QED  BY <1>1, <1>3

\* A rank that has nothing left finds the others where it is, or reported.
LEMMA AllThrough ==
  ASSUME UpdateInv, NEW r \in Rank, at[r] \in {"next", "reported"}, todo[r] = <<>>,
         \A q \in Rank : Aligned(q) /\ at[q] # "idle", Len(Plan) \in Nat
  PROVE  Len(applied) = Len(Plan) /\ \A q \in Rank : at[q] \in {"next", "reported"}
<1>1. Len(applied) \in Nat /\ todo \in [Rank -> Seq(Nat)]
  BY DEF UpdateInv, Shapes
<1>2. Len(applied) = Len(Plan)
  <2>1. Len(todo[r]) = 0 /\ at[r] \notin Stepping
    BY DEF Stepping
  <2>2. Aligned(r)
    OBVIOUS
  <2>3. Len(todo[r]) + Len(applied) + 0 = Len(Plan)
    BY ONLY <2>1, <2>2 DEF Aligned
  <2>4. QED  BY ONLY <1>1, <2>1, <2>3
<1>3. ASSUME NEW q \in Rank  PROVE at[q] \notin Stepping
  <2> SUFFICES ASSUME at[q] \in Stepping  PROVE FALSE
    OBVIOUS
  <2>1. Len(todo[q]) + Len(applied) + 1 = Len(Plan)
    BY DEF Aligned
  <2>2. Len(todo[q]) \in Nat
    BY ONLY <1>1, q \in Rank
  <2>3. QED  BY ONLY <1>1, <1>2, <2>1, <2>2
<1>4. QED  BY <1>2, <1>3 DEF UpdateInv, TypeOK, Stepping

LEMMA ReportKeeps == ASSUME UpdateInv, NEW r \in Rank, Report(r)  PROVE UpdateInv'
<1> USE DEF inputs
<1>1. /\ at[r] = "next" /\ todo[r] = <<>>
      /\ UNCHANGED <<slots, useMask, world, dynamic, phase, rows, todo, mini, micros>>
      /\ UNCHANGED <<steps, applied, lr, valid>>
      /\ at' = [at EXCEPT ![r] = "reported"]
      /\ grad' = [grad EXCEPT ![r] = NoGrad]
  BY DEF Report
<1>2. phase = "running" /\ Given /\ \A q \in Rank : Aligned(q) /\ at[q] # "idle"
  BY <1>1, InTheUpdate
<1>3. \A q \in Rank : at[q] \in {"next", "reported"}
  BY <1>1, <1>2, AllThrough, PlanFacts
<1>4. at'[r] = "reported" /\ \A q \in Rank : q # r => at'[q] = at[q]
  BY <1>1 DEF UpdateInv, TypeOK
<1>5. \A q \in Rank : at'[q] \in {"next", "reported"}
  BY <1>3, <1>4
<1>6. TypeOK'
  <2>1. NoGrad \in [Slot -> Nat]
    BY DEF NoGrad
  <2>2. QED  BY <1>1, <2>1 DEF UpdateInv, TypeOK
<1>7. Shapes'
  BY <1>1 DEF UpdateInv, Shapes
<1>8. Before' /\ Prepared'
  BY <1>1, <1>2, <1>5, RunningKept
<1>9. OnPlan'
  <2> SUFFICES ASSUME NEW q \in Rank  PROVE Aligned(q)'
    BY DEF OnPlan
  <2>1. Plan' = Plan /\ todo' = todo /\ applied' = applied /\ steps' = steps
    BY <1>1, ReservationKept
  <2>2. at[q] \notin Stepping /\ at'[q] \notin Stepping
    BY <1>3, <1>5 DEF Stepping
  <2>3. Aligned(q) /\ (at'[q] = "reported" => todo[q] = <<>>)
    BY <1>1, <1>2, <1>4 DEF Aligned
  <2>4. QED  BY <2>1, <2>2, <2>3 DEF Aligned
<1>10. Together'
  BY <1>5 DEF Together
<1>11. Divided'
  BY <1>1, <1>3, <1>5 DEF UpdateInv, Divided
<1>12. Weighted'
  BY <1>5 DEF Weighted
<1>13. QED  BY <1>6, <1>7, <1>8, <1>9, <1>10, <1>11, <1>12 DEF UpdateInv

LEMMA AgreeKeeps == ASSUME UpdateInv, Agree  PROVE UpdateInv'
<1> USE DEF inputs
<1> DEFINE k == Plan[Len(applied) + 1]
<1>1. DP \in Nat \ {0} /\ 1 \in Rank
  BY SizesAssumption DEF Rank
<1>2. \A q \in Rank : at[q] = "count"
  BY DEF Agree
<1>3. /\ phase = "running" /\ Given /\ dynamic
      /\ \A q \in Rank : Aligned(q) /\ at[q] # "idle"
  <2>1. at[1] = "count"
    BY <1>1, <1>2
  <2>2. QED  BY <1>1, <2>1, InTheUpdate DEF UpdateInv, Together
<1>4. k \in Trainable /\ \A q \in Rank : mini[q] = Dealt(q, k)
  <2>1. at[1] \in Stepping /\ \A q \in Rank : at[q] \in Stepping
    BY <1>1, <1>2 DEF Stepping
  <2>2. QED  BY <1>1, <2>1, SameBatch
<1> HIDE DEF k
<1>5. ASSUME NEW q \in Rank
      PROVE  /\ mini[q].rows \in Seq(AnyRow) /\ Distinct(mini[q].rows)
             /\ Len(mini[q].rows) = Wide(k) /\ Wide(k) \in Nat
             /\ AgreedCount(q) \in 1..Wide(k)
  <2>1. AgreedCount(q) \in 1..Wide(k)
    BY <1>3, <1>4, AgreedFacts
  <2>2. QED  BY <1>3, <1>4, <2>1, DealtFacts
<1>6. /\ UNCHANGED <<slots, useMask, world, dynamic, phase, rows, todo, mini>>
      /\ UNCHANGED <<grad, steps, applied, lr, valid>>
      /\ at' = [q \in Rank |-> "micro"]
      /\ micros' \in [Rank -> UNION {Splits(mini[q], AgreedCount(q)) : q \in Rank}]
      /\ \A q \in Rank : micros'[q] \in Splits(mini[q], AgreedCount(q))
  <2>1. ~ \E q \in Rank : AgreedCount(q) > Len(mini[q].rows)
    BY <1>5
  <2>2. QED  BY <2>1 DEF Agree
<1>7. ASSUME NEW q \in Rank
      PROVE  /\ micros'[q] \in Seq(SUBSET AnyRow) /\ Len(micros'[q]) = AgreedCount(q)
             /\ Covers(micros'[q], mini[q].rows) /\ micros'[q] # <<>>
  <2>1. AgreedCount(q) \in Nat /\ AgreedCount(q) >= 1
    BY <1>5
  <2>2. micros'[q] \in Splits(mini[q], AgreedCount(q))
    BY <1>6
  <2>3. mini[q].rows \in Seq(AnyRow) /\ Distinct(mini[q].rows)
    BY <1>5
  <2>4. /\ micros'[q] \in Seq(SUBSET AnyRow) /\ Len(micros'[q]) = AgreedCount(q)
        /\ Covers(micros'[q], mini[q].rows)
    BY ONLY <2>1, <2>2, <2>3, SplitFacts
  <2>5. QED  BY <2>1, <2>4
<1>8. \A q \in Rank : at'[q] = "micro"
  BY <1>6
<1>9. TypeOK'
  BY <1>6 DEF UpdateInv, TypeOK
<1>10. Shapes'
  <2>1. micros' \in [Rank -> Seq(SUBSET AnyRow)]
    BY <1>6, <1>7
  <2>2. QED  BY <1>6, <2>1 DEF UpdateInv, Shapes
<1>11. Before' /\ Prepared'
  BY <1>3, <1>6, <1>8, RunningKept
<1>12. OnPlan'
  <2> SUFFICES ASSUME NEW q \in Rank  PROVE Aligned(q)'
    BY DEF OnPlan
  <2>1. /\ Plan' = Plan /\ todo' = todo /\ applied' = applied /\ steps' = steps /\ mini' = mini
        /\ Dealt(q, Plan[Len(applied) + 1])' = Dealt(q, Plan[Len(applied) + 1])
    <3>1. Plan' = Plan /\ \A j, p : Dealt(p, j)' = Dealt(p, j)
      BY <1>6, ReservationKept
    <3>2. QED  BY <1>6, <3>1
  <2>2. at[q] \in Stepping /\ at'[q] \in Stepping /\ at'[q] # "reported" /\ Aligned(q)
    BY <1>2, <1>3, <1>8 DEF Stepping
  <2>3. QED  BY <2>1, <2>2 DEF Aligned
<1>13. Together'
  <2>1. ASSUME NEW p \in Rank, NEW q \in Rank  PROVE Len(micros'[p]) = Len(micros'[q])
    <3>1. AgreedCount(p) = AgreedCount(q)
      BY DEF AgreedCount
    <3>2. QED  BY <1>7, <3>1
  <2>2. QED  BY <1>8, <2>1 DEF Together
<1>14. Divided'
  BY <1>6, <1>7, <1>8 DEF Divided, Covers
<1>15. Weighted'
  <2>1. ASSUME NEW x \in Rank, NEW s \in SlotsIn(mini[x].rows)  PROVE s \in Coming(micros'[x])
    BY <1>7, <2>1 DEF Covers, Coming, SlotsIn
  <2>2. \A q \in Rank : \A s \in Slot : grad[q][s] = 0
    BY <1>2 DEF UpdateInv, Weighted, NoGrad
  <2>3. mini' = mini /\ grad' = grad
    BY <1>6
  <2>4. ASSUME NEW q \in Rank, NEW s \in Slot
        PROVE  grad'[q][s] = IF \E x \in Rank : s \in SlotsIn(mini'[x].rows) /\ s \notin Coming(micros'[x])
                             THEN DP ELSE 0
    BY <2>1, <2>2, <2>3
  <2>5. QED  BY <1>8, <2>4 DEF Weighted
<1>16. QED  BY <1>9, <1>10, <1>11, <1>12, <1>13, <1>14, <1>15 DEF UpdateInv

\* The slots of a batch are dealt to one rank each.
LEMMA OneRank ==
  ASSUME Given, NEW k \in Trainable, NEW q \in Rank, NEW r \in Rank, NEW s \in Slot,
         s \in SlotsIn(Dealt(q, k).rows), s \in SlotsIn(Dealt(r, k).rows)
  PROVE  q = r
<1>1. k \in 1..Batches /\ \A p \in Rank : Dealt(p, k).rows = Share(k, p) /\ Len(Share(k, p)) = Wide(k)
  BY TrainableFacts, ShareFacts DEF Dealt
<1>2. PICK i \in 1..Wide(k) : Share(k, q)[i].slot = s
  BY <1>1 DEF SlotsIn
<1>3. PICK j \in 1..Wide(k) : Share(k, r)[j].slot = s
  BY <1>1 DEF SlotsIn
<1>4. QED  BY ONLY Given, <1>1, <1>2, <1>3, q \in Rank, r \in Rank, s \in Slot, RowGoesOnce

\* Every slot of a batch that becomes a row is dealt to a rank, and no other slot is.
LEMMA SomeRank ==
  ASSUME Given, NEW k \in Trainable, NEW s \in Slot
  PROVE  (\E q \in Rank : s \in SlotsIn(Dealt(q, k).rows)) <=> s \in RowsOf(k)
<1>1. k \in 1..Batches /\ \A p \in Rank : Dealt(p, k).rows = Share(k, p) /\ Len(Share(k, p)) = Wide(k)
  BY TrainableFacts, ShareFacts DEF Dealt
<1>2. ASSUME s \in RowsOf(k)  PROVE \E q \in Rank : s \in SlotsIn(Dealt(q, k).rows)
  <2>1. PICK r \in Rank, j \in 1..Wide(k) : Share(k, r)[j].slot = s
    BY <1>1, <1>2, RowGoesSomewhere
  <2>2. QED  BY <1>1, <2>1 DEF SlotsIn
<1>3. ASSUME NEW q \in Rank, s \in SlotsIn(Dealt(q, k).rows)  PROVE s \in RowsOf(k)
  <2>1. PICK j \in 1..Wide(k) : Share(k, q)[j].slot = s
    BY <1>1, <1>3 DEF SlotsIn
  <2>2. Share(k, q)[j].slot \in RowsOf(k) \cup {0}
    BY <1>1, ShareRows
  <2>3. s # 0
    BY SizesAssumption DEF Slot
  <2>4. QED  BY <2>1, <2>2, <2>3
<1>4. QED  BY <1>2, <1>3

\* Taking the first micro-batch from a list that divides a mini-batch.
LEMMA TailComes ==
  ASSUME NEW u \in Seq(SUBSET AnyRow), u # <<>>,
         \A i, j \in 1..Len(u) : i # j => Held(u[i]) \cap Held(u[j]) = {}
  PROVE  /\ Coming(Tail(u)) = Coming(u) \ Held(Head(u)) /\ Held(Head(u)) \subseteq Coming(u)
         /\ Tail(u) \in Seq(SUBSET AnyRow) /\ Len(Tail(u)) = Len(u) - 1 /\ Len(u) \in Nat
         /\ \A i \in 1..Len(Tail(u)) : i + 1 \in 1..Len(u) /\ Tail(u)[i] = u[i + 1]
<1>1. Len(u) \in Nat /\ Len(u) >= 1 /\ Head(u) = u[1] /\ Tail(u) \in Seq(SUBSET AnyRow)
      /\ Len(Tail(u)) = Len(u) - 1
  OBVIOUS
<1>2. \A i \in 1..Len(Tail(u)) : i + 1 \in 1..Len(u) /\ Tail(u)[i] = u[i + 1]
  BY <1>1
<1>3. ASSUME NEW s \in Coming(Tail(u))  PROVE s \in Coming(u) /\ s \notin Held(Head(u))
  <2>1. PICK i \in 1..Len(Tail(u)) : s \in Slot /\ s \in Held(Tail(u)[i])
    BY DEF Coming
  <2>2. i + 1 \in 1..Len(u) /\ s \in Held(u[i + 1]) /\ i + 1 # 1 /\ 1 \in 1..Len(u)
    BY <1>1, <1>2, <2>1
  <2>3. Held(u[i + 1]) \cap Held(u[1]) = {}
    BY <2>2
  <2>4. s \in Coming(u)
    BY <2>1, <2>2 DEF Coming
  <2>5. QED  BY <1>1, <2>2, <2>3, <2>4
<1>4. ASSUME NEW s \in Coming(u), s \notin Held(Head(u))  PROVE s \in Coming(Tail(u))
  <2>1. PICK i \in 1..Len(u) : s \in Slot /\ s \in Held(u[i])
    BY DEF Coming
  <2>2. i # 1
    BY <1>1, <1>4, <2>1
  <2>3. i - 1 \in 1..Len(Tail(u)) /\ (i - 1) + 1 = i
    BY <1>1, <2>1, <2>2
  <2>4. s \in Held(Tail(u)[i - 1])
    BY <1>2, <2>1, <2>3
  <2>5. QED  BY <2>1, <2>3, <2>4 DEF Coming
<1>5. Held(Head(u)) \subseteq Coming(u)
  <2>1. 1 \in 1..Len(u)
    BY <1>1
  <2>2. \A s \in Held(u[1]) : s \in Slot
    BY DEF Held
  <2>3. QED  BY <1>1, <2>1, <2>2 DEF Coming
<1>6. QED  BY <1>1, <1>2, <1>3, <1>4, <1>5

\* What one backward pass adds to the gradient of a slot.
Gain(s) == LossScale * Cardinality({r \in Rank : \E row \in Head(micros[r]) : row.slot = s})

\* A backward pass adds a slot at full weight, or nothing of it.
LEMMA GainFacts ==
  ASSUME UpdateInv, \A q \in Rank : at[q] = "micro", NEW s \in Slot, world = DP,
         Given, NEW k \in Trainable, \A q \in Rank : mini[q] = Dealt(q, k)
  PROVE  Gain(s) = IF \E q \in Rank : s \in Held(Head(micros[q])) THEN DP ELSE 0
<1> DEFINE D == {r \in Rank : \E row \in Head(micros[r]) : row.slot = s}
<1>1. D = {r \in Rank : s \in Held(Head(micros[r]))}
  BY DEF Held
<1>2. Gain(s) = DP * Cardinality(D)
  BY DEF Gain, LossScale
<1> HIDE DEF D
<1>3. DP \in Nat
  BY SizesAssumption
<1>4. CASE D = {}
  <2>1. Cardinality(D) = 0
    BY ONLY <1>4, FS_EmptySet
  <2>2. QED  BY <1>1, <1>2, <1>3, <1>4, <2>1
<1>5. CASE D # {}
  <2>1. PICK q \in Rank : q \in D
    BY <1>1, <1>5
  <2>2. ASSUME NEW r \in D  PROVE s \in SlotsIn(mini[r].rows)
    <3>1. r \in Rank /\ s \in Held(Head(micros[r]))
      BY <1>1
    <3>2. /\ micros[r] \in Seq(SUBSET AnyRow) /\ micros[r] # <<>>
          /\ \A i \in 1..Len(micros[r]) : Held(micros[r][i]) \subseteq SlotsIn(mini[r].rows)
      BY <3>1 DEF UpdateInv, Shapes, Divided
    <3>3. 1 \in 1..Len(micros[r]) /\ Head(micros[r]) = micros[r][1]
      BY ONLY <3>2
    <3>4. QED  BY <3>1, <3>2, <3>3
  <2>3. \A r \in D : r = q
    BY <1>1, <2>1, <2>2, OneRank
  <2>4. D = {q}
    BY <2>1, <2>3
  <2>5. Cardinality(D) = 1
    BY ONLY <2>4, FS_Singleton
  <2>6. QED  BY <1>1, <1>2, <1>3, <2>1, <2>5
<1>6. QED  BY <1>4, <1>5

\* The backward pass of every rank adds the slots of the first micro-batches.
LEMMA BackwardWeighs ==
  ASSUME UpdateInv, \A q \in Rank : at[q] = "micro", world = DP, Given,
         NEW k \in Trainable, \A q \in Rank : mini[q] = Dealt(q, k),
         NEW r \in Rank, NEW s \in Slot
  PROVE  grad[r][s] + Gain(s) =
           IF \E q \in Rank : s \in SlotsIn(mini[q].rows) /\ s \notin Coming(Tail(micros[q]))
           THEN DP ELSE 0
<1>1. DP \in Nat
  BY SizesAssumption
<1>2. ASSUME NEW q \in Rank
      PROVE  /\ Coming(Tail(micros[q])) = Coming(micros[q]) \ Held(Head(micros[q]))
             /\ Held(Head(micros[q])) \subseteq Coming(micros[q])
             /\ Held(Head(micros[q])) \subseteq SlotsIn(mini[q].rows)
  <2>1. /\ micros[q] \in Seq(SUBSET AnyRow) /\ micros[q] # <<>>
        /\ \A i, j \in 1..Len(micros[q]) : i # j => Held(micros[q][i]) \cap Held(micros[q][j]) = {}
        /\ \A i \in 1..Len(micros[q]) : Held(micros[q][i]) \subseteq SlotsIn(mini[q].rows)
    BY DEF UpdateInv, Shapes, Divided
  <2>2. 1 \in 1..Len(micros[q]) /\ Head(micros[q]) = micros[q][1]
    BY ONLY <2>1
  <2>3. /\ Coming(Tail(micros[q])) = Coming(micros[q]) \ Held(Head(micros[q]))
        /\ Held(Head(micros[q])) \subseteq Coming(micros[q])
    BY ONLY <2>1, TailComes
  <2>4. QED  BY <2>1, <2>2, <2>3
<1>3. grad[r][s] = IF \E q \in Rank : s \in SlotsIn(mini[q].rows) /\ s \notin Coming(micros[q])
                   THEN DP ELSE 0
  BY DEF UpdateInv, Weighted
<1>4. Gain(s) = IF \E q \in Rank : s \in Held(Head(micros[q])) THEN DP ELSE 0
  BY GainFacts
<1>5. CASE \E q \in Rank : s \in Held(Head(micros[q]))
  <2>1. PICK q \in Rank : s \in Held(Head(micros[q]))
    BY <1>5
  <2>2. s \in SlotsIn(mini[q].rows) /\ s \in Coming(micros[q]) /\ s \notin Coming(Tail(micros[q]))
    BY <1>2, <2>1
  <2>3. \A p \in Rank : s \in SlotsIn(mini[p].rows) => p = q
    BY <2>2, OneRank
  <2>4. grad[r][s] = 0
    BY <1>3, <2>2, <2>3
  <2>5. QED  BY <1>1, <1>4, <1>5, <2>2, <2>4
<1>6. CASE ~ \E q \in Rank : s \in Held(Head(micros[q]))
  <2>1. \A q \in Rank : s \in Coming(micros[q]) <=> s \in Coming(Tail(micros[q]))
    BY <1>2, <1>6
  <2>2. QED  BY <1>1, <1>3, <1>4, <1>6, <2>1
<1>7. QED  BY <1>5, <1>6

LEMMA BackwardKeeps == ASSUME UpdateInv, Backward  PROVE UpdateInv'
<1> USE DEF inputs
<1> DEFINE k == Plan[Len(applied) + 1]
<1>1. DP \in Nat \ {0} /\ 1 \in Rank
  BY SizesAssumption DEF Rank
<1>2. \A q \in Rank : at[q] = "micro"
  BY DEF Backward
<1>3. /\ phase = "running" /\ Given /\ world = DP
      /\ \A q \in Rank : Aligned(q) /\ at[q] # "idle"
  <2>1. at[1] = "micro"
    BY <1>1, <1>2
  <2>2. QED  BY <1>1, <2>1, InTheUpdate
<1>4. k \in Trainable /\ \A q \in Rank : mini[q] = Dealt(q, k)
  <2>1. at[1] \in Stepping /\ \A q \in Rank : at[q] \in Stepping
    BY <1>1, <1>2 DEF Stepping
  <2>2. QED  BY <1>1, <2>1, SameBatch
<1> HIDE DEF k
<1>5. /\ UNCHANGED <<slots, useMask, world, dynamic, phase, rows, todo, mini>>
      /\ UNCHANGED <<steps, applied, lr, valid>>
      /\ micros' = [q \in Rank |-> Tail(micros[q])]
      /\ at' = [q \in Rank |-> IF Tail(micros[q]) = <<>> THEN "norm" ELSE "micro"]
  BY DEF Backward
<1>6. grad' = [q \in Rank |-> [s \in Slot |-> grad[q][s] + Gain(s)]]
  BY DEF Backward, Gain
<1>7. ASSUME NEW q \in Rank
      PROVE  /\ micros[q] \in Seq(SUBSET AnyRow) /\ micros[q] # <<>>
             /\ \A i \in 1..Len(micros[q]) : Held(micros[q][i]) \subseteq SlotsIn(mini[q].rows)
             /\ \A i, j \in 1..Len(micros[q]) : i # j => Held(micros[q][i]) \cap Held(micros[q][j]) = {}
  BY <1>2 DEF UpdateInv, Shapes, Divided
<1>8. ASSUME NEW q \in Rank
      PROVE  /\ Tail(micros[q]) \in Seq(SUBSET AnyRow) /\ Len(Tail(micros[q])) = Len(micros[q]) - 1
             /\ Len(micros[q]) \in Nat
             /\ \A i \in 1..Len(Tail(micros[q])) :
                  i + 1 \in 1..Len(micros[q]) /\ Tail(micros[q])[i] = micros[q][i + 1]
  <2> DEFINE u == micros[q]
  <2>1. /\ u \in Seq(SUBSET AnyRow) /\ u # <<>>
        /\ \A i, j \in 1..Len(u) : i # j => Held(u[i]) \cap Held(u[j]) = {}
    BY <1>7
  <2> HIDE DEF u
  <2>2. /\ Tail(u) \in Seq(SUBSET AnyRow) /\ Len(Tail(u)) = Len(u) - 1 /\ Len(u) \in Nat
        /\ \A i \in 1..Len(Tail(u)) : i + 1 \in 1..Len(u) /\ Tail(u)[i] = u[i + 1]
    BY ONLY <2>1, TailComes
  <2>3. QED  BY <2>2 DEF u
<1>9. ASSUME NEW p \in Rank, NEW q \in Rank
      PROVE  Len(Tail(micros[p])) = Len(Tail(micros[q]))
             /\ (Tail(micros[p]) = <<>> <=> Tail(micros[q]) = <<>>)
  <2>1. Len(micros[p]) = Len(micros[q])
    BY <1>2 DEF UpdateInv, Together
  <2>2. Len(Tail(micros[p])) = Len(Tail(micros[q]))
    BY <1>8, <2>1
  <2>3. Tail(micros[p]) \in Seq(SUBSET AnyRow) /\ Tail(micros[q]) \in Seq(SUBSET AnyRow)
    BY <1>8
  <2>4. QED  BY ONLY <2>2, <2>3
<1>10. \A q \in Rank : /\ at'[q] = IF Tail(micros[q]) = <<>> THEN "norm" ELSE "micro"
                       /\ micros'[q] = Tail(micros[q])
  BY <1>5
<1>11. ASSUME NEW q \in Rank, NEW s \in Slot
       PROVE  grad'[q][s] = IF \E x \in Rank : s \in SlotsIn(mini[x].rows) /\ s \notin Coming(Tail(micros[x]))
                            THEN DP ELSE 0
  <2>1. grad'[q][s] = grad[q][s] + Gain(s)
    BY <1>6
  <2>2. QED  BY <1>2, <1>3, <1>4, <2>1, BackwardWeighs
<1>12. TypeOK'
  <2>1. at' \in [Rank -> {"idle", "next", "count", "micro", "norm", "reported"}]
    BY <1>5
  <2>2. grad' \in [Rank -> [Slot -> Nat]]
    <3>1. \A q \in Rank, s \in Slot : grad'[q][s] \in Nat
      BY <1>1, <1>11
    <3>2. \A q \in Rank : grad'[q] = [s \in Slot |-> grad'[q][s]]
      BY <1>6
    <3>3. \A q \in Rank : grad'[q] \in [Slot -> Nat]
      BY <3>1, <3>2
    <3>4. QED  BY <1>6, <3>3
  <2>3. QED  BY <1>5, <2>1, <2>2 DEF UpdateInv, TypeOK
<1>13. Shapes'
  <2>1. micros' \in [Rank -> Seq(SUBSET AnyRow)]
    BY <1>5, <1>8
  <2>2. QED  BY <1>5, <2>1 DEF UpdateInv, Shapes
<1>14. Before' /\ Prepared'
  <2>1. \A q \in Rank : at'[q] # "idle"
    BY <1>10
  <2>2. QED  BY <1>3, <1>5, <2>1, RunningKept
<1>15. OnPlan'
  <2> SUFFICES ASSUME NEW q \in Rank  PROVE Aligned(q)'
    BY DEF OnPlan
  <2>1. /\ Plan' = Plan /\ todo' = todo /\ applied' = applied /\ steps' = steps /\ mini' = mini
        /\ Dealt(q, Plan[Len(applied) + 1])' = Dealt(q, Plan[Len(applied) + 1])
    <3>1. Plan' = Plan /\ \A j, p : Dealt(p, j)' = Dealt(p, j)
      BY <1>5, ReservationKept
    <3>2. QED  BY <1>5, <3>1
  <2>2. at[q] \in Stepping /\ at'[q] \in Stepping /\ at'[q] # "reported" /\ Aligned(q)
    BY <1>2, <1>3, <1>10 DEF Stepping
  <2>3. QED  BY <2>1, <2>2 DEF Aligned
<1>16. Together'
  BY <1>9, <1>10 DEF Together
<1>17. Divided'
  <2> SUFFICES ASSUME NEW q \in Rank
               PROVE  /\ at'[q] # "micro" => micros'[q] = <<>>
                      /\ at'[q] = "micro" =>
                           /\ micros'[q] # <<>>
                           /\ \A i \in 1..Len(micros'[q]) : Held(micros'[q][i]) \subseteq SlotsIn(mini'[q].rows)
                           /\ \A i, j \in 1..Len(micros'[q]) :
                                i # j => Held(micros'[q][i]) \cap Held(micros'[q][j]) = {}
    BY <1>10 DEF Divided
  <2>1. (at'[q] # "micro" => micros'[q] = <<>>) /\ (at'[q] = "micro" => micros'[q] # <<>>)
    BY <1>10
  <2>2. mini'[q] = mini[q] /\ micros'[q] = Tail(micros[q])
    BY <1>5, <1>10
  <2>3. \A i \in 1..Len(Tail(micros[q])) : Held(Tail(micros[q])[i]) \subseteq SlotsIn(mini[q].rows)
    BY <1>7, <1>8
  <2>4. ASSUME NEW i \in 1..Len(Tail(micros[q])), NEW j \in 1..Len(Tail(micros[q])), i # j
        PROVE  Held(Tail(micros[q])[i]) \cap Held(Tail(micros[q])[j]) = {}
    <3>1. /\ i + 1 \in 1..Len(micros[q]) /\ Tail(micros[q])[i] = micros[q][i + 1]
          /\ j + 1 \in 1..Len(micros[q]) /\ Tail(micros[q])[j] = micros[q][j + 1]
      BY <1>8
    <3>2. i + 1 # j + 1
      BY ONLY <2>4, <1>8
    <3>3. Held(micros[q][i + 1]) \cap Held(micros[q][j + 1]) = {}
      BY <1>7, <3>1, <3>2
    <3>4. QED  BY <3>1, <3>3
  <2>5. QED  BY <2>1, <2>2, <2>3, <2>4
<1>18. Weighted'
  <2>1. \A q \in Rank : at'[q] # "count" /\ at'[q] # "next"
    BY <1>10
  <2>2. mini' = mini
    BY <1>5
  <2>3. \A x \in Rank : micros'[x] = Tail(micros[x])
    BY <1>10
  <2>4. ASSUME NEW q \in Rank, NEW s \in Slot
        PROVE  grad'[q][s] = IF \E x \in Rank : s \in SlotsIn(mini'[x].rows) /\ s \notin Coming(micros'[x])
                             THEN DP ELSE 0
    BY <1>11, <2>2, <2>3
  <2>5. QED  BY <1>1, <2>1, <2>4 DEF Weighted
<1>19. QED  BY <1>12, <1>13, <1>14, <1>15, <1>16, <1>17, <1>18 DEF UpdateInv

\* The denominators of a batch are its slots and their tokens.
LEMMA DenominatorsFacts ==
  ASSUME Given, NEW k \in 1..Batches
  PROVE  Denominators(k) \in {Mini} \X Nat
<1> DEFINE f == [s \in SlotsOf(k) |-> Tokens(s)]
           D == SlotsOf(k)
<1>1. IsFiniteSet(D) /\ DOMAIN f = D /\ \A s \in D : f[s] \in Nat
  BY SlotsFacts
<1> HIDE DEF f, D
<1>2. SumFunction(f) = SumOver(f, D)
  BY ONLY <1>1, WholeSumIsFold
<1>3. SumOver(f, D) \in Nat
  <2>1. D \in SUBSET D
    OBVIOUS
  <2>2. \A S \in SUBSET D : SumOver(f, S) \in Nat
    BY ONLY <1>1, SumBasics
  <2>3. QED  BY ONLY <2>1, <2>2
<1>4. Denominators(k) = <<Mini, SumFunction(f)>>
  BY DEF Denominators, f
<1>5. QED  BY <1>2, <1>3, <1>4

LEMMA OptimizerStepKeeps == ASSUME UpdateInv, OptimizerStep  PROVE UpdateInv'
<1> USE DEF inputs
<1> DEFINE k == Plan[Len(applied) + 1]
<1>1. DP \in Nat \ {0} /\ 1 \in Rank
  BY SizesAssumption DEF Rank
<1>2. \A q \in Rank : at[q] = "norm"
  BY DEF OptimizerStep
<1>3. phase = "running" /\ Given /\ \A q \in Rank : Aligned(q) /\ at[q] # "idle"
  <2>1. at[1] = "norm"
    BY <1>1, <1>2
  <2>2. QED  BY <1>1, <2>1, InTheUpdate
<1>4. k \in Trainable /\ \A q \in Rank : mini[q] = Dealt(q, k)
  <2>1. at[1] \in Stepping /\ \A q \in Rank : at[q] \in Stepping
    BY <1>1, <1>2 DEF Stepping
  <2>2. QED  BY <1>1, <2>1, SameBatch
<1> HIDE DEF k
<1> DEFINE whole == [q \in Rank |-> [weight |-> grad[q], over |-> mini[q].over]]
<1>5. PICK finite \in BOOLEAN :
        /\ applied' = Append(applied, IF finite THEN whole ELSE Dropped)
        /\ grad' = IF finite THEN grad ELSE [q \in Rank |-> NoGrad]
        /\ steps' = [q \in Rank |-> steps[q] + Counted(finite)]
  BY DEF OptimizerStep
<1>6. /\ UNCHANGED <<slots, useMask, world, dynamic, phase, rows, todo, mini, micros, lr, valid>>
      /\ at' = [q \in Rank |-> "next"]
  BY DEF OptimizerStep
<1>7. whole \in Entry
  <2>1. ASSUME NEW q \in Rank  PROVE whole[q] \in [weight : [Slot -> Nat], over : {Mini} \X Nat]
    <3>1. mini[q].over = Denominators(k)
      BY <1>3, <1>4, DealtFacts
    <3>2. Denominators(k) \in {Mini} \X Nat
      BY <1>3, <1>4, TrainableFacts, DenominatorsFacts
    <3>3. grad[q] \in [Slot -> Nat]
      BY DEF UpdateInv, TypeOK
    <3>4. QED  BY <3>1, <3>2, <3>3
  <2>2. whole \in [Rank -> [weight : [Slot -> Nat], over : {Mini} \X Nat]]
    BY <2>1
  <2>3. QED  BY <2>2 DEF Entry
<1> HIDE DEF whole
<1>8. applied' \in Seq(Entry) /\ Len(applied') = Len(applied) + 1 /\ Len(applied) \in Nat
  <2>1. Dropped \in Entry
    BY DEF Entry
  <2>2. applied \in Seq(Entry)
    BY DEF UpdateInv, Shapes
  <2>3. QED  BY <1>5, <1>7, <2>1, <2>2
<1>9. \A q \in Rank : at'[q] = "next"
  BY <1>6
<1>10. TypeOK'
  <2>1. NoGrad \in [Slot -> Nat]
    BY DEF NoGrad
  <2>2. grad' \in [Rank -> [Slot -> Nat]]
    BY <1>5, <2>1 DEF UpdateInv, TypeOK
  <2>3. steps' \in [Rank -> Nat]
    BY <1>5 DEF UpdateInv, TypeOK, Counted
  <2>4. QED  BY <1>6, <2>2, <2>3 DEF UpdateInv, TypeOK
<1>11. Shapes'
  BY <1>6, <1>8 DEF UpdateInv, Shapes
<1>12. Before' /\ Prepared'
  BY <1>3, <1>6, <1>9, RunningKept
<1>13. OnPlan'
  <2> SUFFICES ASSUME NEW q \in Rank  PROVE Aligned(q)'
    BY DEF OnPlan
  <2>1. Plan' = Plan /\ todo' = todo
    BY <1>6, ReservationKept
  <2>2. at[q] \in Stepping /\ at'[q] \notin Stepping /\ at'[q] # "reported" /\ Aligned(q)
    BY <1>2, <1>3, <1>9 DEF Stepping
  <2>3. Len(todo[q]) + Len(applied) + 1 = Len(Plan) /\ steps[q] = Len(applied)
        /\ \A i \in 1..Len(todo[q]) : todo[q][i] = Plan[Len(Plan) - Len(todo[q]) + i]
    BY ONLY <2>2 DEF Aligned
  <2>4. Len(todo[q]) + Len(applied') + 0 = Len(Plan)
    <3>1. Len(todo[q]) + Len(applied) + 1 = Len(Plan)
      BY ONLY <2>3
    <3>2. Len(todo[q]) \in Nat
      BY DEF UpdateInv, Shapes
    <3>3. Len(applied') = Len(applied) + 1 /\ Len(applied) \in Nat
      BY ONLY <1>8
    <3> DEFINE l == Len(todo[q])
               a == Len(applied)
               b == Len(applied')
               n == Len(Plan)
    <3>4. l + a + 1 = n /\ l \in Nat /\ b = a + 1 /\ a \in Nat
      BY ONLY <3>1, <3>2, <3>3
    <3> HIDE DEF l, a, b, n
    <3>5. l + b + 0 = n
      BY ONLY <3>4
    <3>6. QED  BY ONLY <3>5 DEF l, b, n
  <2>5. steps'[q] = Len(applied')
    BY <1>5, <1>8, <2>3 DEF Counted
  <2>6. QED  BY ONLY <2>1, <2>2, <2>3, <2>4, <2>5 DEF Aligned
<1>14. Together' /\ Weighted'
  BY <1>9 DEF Together, Weighted
<1>15. Divided'
  BY <1>2, <1>6, <1>9 DEF UpdateInv, Divided
<1>16. QED  BY <1>10, <1>11, <1>12, <1>13, <1>14, <1>15 DEF UpdateInv

LEMMA ReturnKeeps == ASSUME UpdateInv, Return  PROVE UpdateInv'
<1> USE DEF inputs, actorVars
<1>1. DP \in Nat \ {0} /\ 1 \in Rank
  BY SizesAssumption DEF Rank
<1>2. /\ phase = "running" /\ phase' = "done" /\ lr' = lr + 1
      /\ \A q \in Rank : at[q] = "reported"
      /\ valid' = (valid /\ Max({steps[q] : q \in Rank}) = Expected)
      /\ UNCHANGED <<slots, useMask, world, dynamic, rows, at, todo, mini, micros>>
      /\ UNCHANGED <<grad, steps, applied>>
  BY DEF Return
<1>3. /\ Given /\ rows = Ordered /\ Trainable # {} /\ world = DP /\ valid /\ lr = 0
      /\ \A q \in Rank : Aligned(q) /\ at[q] # "idle"
  BY <1>2 DEF UpdateInv, Prepared, OnPlan, TypeOK, Given
<1>4. Len(applied) = Expected
  <2>1. Len(Plan) = Expected /\ Len(Plan) \in Nat
    BY <1>3, PlanFacts
  <2>2. at[1] = "reported" /\ todo[1] = <<>>
    BY <1>1, <1>2, <1>3 DEF Aligned
  <2>3. QED  BY <1>1, <1>3, <2>1, <2>2, AllThrough
<1>5. Max({steps[q] : q \in Rank}) = Expected
  <2>1. {steps[q] : q \in Rank} = {Expected}
    <3>1. \A q \in Rank : steps[q] = Expected
      BY <1>3, <1>4 DEF Aligned
    <3>2. QED  BY ONLY <1>1, <3>1
  <2>2. Expected \in Nat
    BY <1>3, PlanFacts
  <2>3. IsFiniteSet({Expected}) /\ {Expected} \subseteq Nat /\ {Expected} # {}
    BY <2>2, FS_Singleton
  <2>4. Max({Expected}) \in {Expected}
    BY ONLY <2>3, LargestIn
  <2>5. QED  BY <2>1, <2>4
<1>6. valid' = TRUE
  BY <1>2, <1>3, <1>5
<1>7. TypeOK'
  BY <1>2, <1>3, <1>6 DEF UpdateInv, TypeOK
<1>8. Shapes'
  BY <1>2 DEF UpdateInv, Shapes
<1>9. Before'
  BY <1>2 DEF Before
<1>10. Prepared'
  <2>1. Ordered' = Ordered /\ Trainable' = Trainable
    BY <1>2, ReservationKept
  <2>2. QED  BY <1>2, <1>3, <1>6, <2>1 DEF Prepared
<1>11. OnPlan'
  <2> SUFFICES ASSUME NEW q \in Rank  PROVE Aligned(q)'
    BY DEF OnPlan
  <2>1. Plan' = Plan /\ todo' = todo /\ at' = at /\ applied' = applied /\ steps' = steps
    BY <1>2, ReservationKept
  <2>2. Aligned(q) /\ at[q] \notin Stepping
    BY <1>2, <1>3 DEF Stepping
  <2>3. QED  BY <2>1, <2>2 DEF Aligned
<1>12. Together' /\ Divided' /\ Weighted'
  BY <1>2, RanksKept DEF UpdateInv
<1>13. QED  BY <1>7, <1>8, <1>9, <1>10, <1>11, <1>12 DEF UpdateInv

LEMMA StutterKeeps == ASSUME UpdateInv, UNCHANGED vars  PROVE UpdateInv'
<1>1. /\ UNCHANGED <<slots, useMask, world, dynamic, phase, rows, at, todo, mini, micros>>
      /\ UNCHANGED <<grad, steps, applied, lr, valid>>
  BY DEF vars, inputs
<1>2. Plan' = Plan /\ Ordered' = Ordered /\ Trainable' = Trainable /\ \A j, p : Dealt(p, j)' = Dealt(p, j)
  BY <1>1, ReservationKept
<1>3. TypeOK' /\ Shapes' /\ Before' /\ Prepared'
  BY <1>1, <1>2 DEF UpdateInv, TypeOK, Shapes, Before, Prepared
<1>4. OnPlan'
  <2> SUFFICES ASSUME NEW q \in Rank, phase \in {"running", "done"}  PROVE Aligned(q)'
    BY <1>1 DEF OnPlan
  <2>1. Aligned(q) /\ Dealt(q, Plan[Len(applied) + 1])' = Dealt(q, Plan[Len(applied) + 1])
    BY <1>1, <1>2 DEF UpdateInv, OnPlan
  <2>2. QED  BY <1>1, <1>2, <2>1 DEF Aligned
<1>5. Together' /\ Divided' /\ Weighted'
  BY <1>1, RanksKept DEF UpdateInv
<1>6. QED  BY <1>3, <1>4, <1>5 DEF UpdateInv

LEMMA NextKeepsUpdate == ASSUME UpdateInv, [Next]_vars  PROVE UpdateInv'
BY BuildKeeps, DispatchKeeps, NextMiniKeeps, ReportKeeps, AgreeKeeps, BackwardKeeps,
   OptimizerStepKeeps, ReturnKeeps, StutterKeeps DEF Next

\* The invariant holds in every reachable state.
LEMMA UpdateInvariant == Spec => []UpdateInv
<1>1. UpdateInv /\ [Next]_vars => UpdateInv'
  BY NextKeepsUpdate
<1>2. QED  BY <1>1, InitUpdate, PTL DEF Spec

-----------------------------------------------------------------------------
\* The types of the update (TypeOK), in every reachable state.
THEOREM UpdateTypeCorrect == Spec => []TypeOK
<1>1. UpdateInv => TypeOK
  BY DEF UpdateInv
<1>2. QED  BY <1>1, UpdateInvariant, PTL

\* The invariant keeps the ranks in step: whoever waits in a collective is
\* joined there by all the others, with as much left to do.
LEMMA InvariantInStep == UpdateInv => InStep
<1> SUFFICES ASSUME UpdateInv, NEW q \in Rank, NEW r \in Rank,
                    at[q] \in {"count", "micro", "norm", "reported"}
             PROVE  \/ at[r] = at[q] /\ Len(todo[r]) = Len(todo[q]) /\ Len(micros[r]) = Len(micros[q])
                    \/ at[r] = "next" /\ at[q] = "reported" /\ todo[r] = <<>>
                    \/ at[r] = "next" /\ at[q] \in {"count", "micro"} /\ Len(todo[r]) = Len(todo[q]) + 1
  BY DEF InStep
<1>1. phase \in {"running", "done"}
  BY DEF UpdateInv, Before
<1>2. (\A p \in Rank : Aligned(p) /\ at[p] # "idle") /\ Given
  BY <1>1 DEF UpdateInv, OnPlan, Prepared, TypeOK, Given
<1>3. /\ todo[q] \in Seq(Nat) /\ todo[r] \in Seq(Nat) /\ Len(applied) \in Nat /\ Len(Plan) \in Nat
  BY <1>2, PlanFacts DEF UpdateInv, Shapes
<1> DEFINE x == Len(todo[q])
           y == Len(todo[r])
           a == Len(applied)
           n == Len(Plan)
<1>4. x \in Nat /\ y \in Nat /\ a \in Nat /\ n \in Nat /\ (x = 0 => todo[q] = <<>>) /\ (y = 0 => todo[r] = <<>>)
  BY <1>3
<1>5. /\ x + a + (IF at[q] \in Stepping THEN 1 ELSE 0) = n
      /\ y + a + (IF at[r] \in Stepping THEN 1 ELSE 0) = n
  BY ONLY <1>2, q \in Rank, r \in Rank DEF Aligned
<1> HIDE DEF x, y, a, n
<1>6. (at[q] \in Stepping <=> at[r] \in Stepping) => x = y
  <2>1. CASE at[q] \in Stepping /\ at[r] \in Stepping
    BY ONLY <1>4, <1>5, <2>1
  <2>2. CASE at[q] \notin Stepping /\ at[r] \notin Stepping
    BY ONLY <1>4, <1>5, <2>2
  <2>3. QED  BY <2>1, <2>2
<1>7. at[q] \in Stepping /\ at[r] \notin Stepping => y = x + 1
  BY ONLY <1>4, <1>5
<1>8. \A p \in Rank : at[p] # "micro" => micros[p] = <<>>
  BY DEF UpdateInv, Divided
<1>9. CASE at[q] = "reported"
  <2>1. todo[q] = <<>>
    BY <1>2, <1>9 DEF Aligned
  <2>2. at[r] \in {"next", "reported"}
    BY <1>9 DEF UpdateInv, Together
  <2>3. x = y
    BY <1>6, <1>9, <2>2 DEF Stepping
  <2>4. x = 0
    BY <2>1 DEF x
  <2>5. todo[r] = <<>>
    BY <1>4, <2>3, <2>4
  <2>6. QED  BY <1>8, <1>9, <2>1, <2>2, <2>5
<1>10. CASE at[q] = "norm"
  <2>1. at[r] = "norm"
    BY <1>10 DEF UpdateInv, Together
  <2>2. x = y
    BY <1>6, <1>10, <2>1 DEF Stepping
  <2>3. QED  BY <1>8, <1>10, <2>1, <2>2 DEF x, y
<1>11. CASE at[q] = "count"
  <2>1. at[r] \in {"next", "count"}
    BY <1>11 DEF UpdateInv, Together
  <2>2. CASE at[r] = "next"
    <3>1. y = x + 1
      BY <1>7, <1>11, <2>2 DEF Stepping
    <3>2. QED  BY <1>11, <2>2, <3>1 DEF x, y
  <2>3. CASE at[r] = "count"
    <3>1. x = y
      BY <1>6, <1>11, <2>3 DEF Stepping
    <3>2. QED  BY <1>8, <1>11, <2>3, <3>1 DEF x, y
  <2>4. QED  BY <2>1, <2>2, <2>3
<1>12. CASE at[q] = "micro"
  <2>1. at[r] \in {"next", "micro"}
    BY <1>12 DEF UpdateInv, Together
  <2>2. CASE at[r] = "next"
    <3>1. y = x + 1
      BY <1>7, <1>12, <2>2 DEF Stepping
    <3>2. QED  BY <1>12, <2>2, <3>1 DEF x, y
  <2>3. CASE at[r] = "micro"
    <3>1. x = y
      BY <1>6, <1>12, <2>3 DEF Stepping
    <3>2. Len(micros[r]) = Len(micros[q])
      BY <1>12, <2>3 DEF UpdateInv, Together
    <3>3. QED  BY <1>12, <2>3, <3>1, <3>2 DEF x, y
  <2>4. QED  BY <2>1, <2>2, <2>3
<1>13. QED  BY <1>9, <1>10, <1>11, <1>12

\* No rank waits in a collective of update_policy for one that will not come,
\* or that comes with another number of micro-batches (InStep).
THEOREM UpdateInStep == Spec => []InStep
BY InvariantInStep, UpdateInvariant, PTL

\* The assertions on equal shares and on the number of micro-batches never
\* fail (NeverCrashes).
THEOREM UpdateNeverCrashes == Spec => []NeverCrashes
<1>1. UpdateInv => NeverCrashes
  BY DEF UpdateInv, Prepared, NeverCrashes
<1>2. QED  BY <1>1, UpdateInvariant, PTL

-----------------------------------------------------------------------------
\* Some process of a running update can go on: a rank is between mini-batches,
\* or every rank has come to the same collective and has what it takes from
\* it, or all have reported.
GroupCanGoOn ==
  \/ \E r \in Rank : at[r] = "next"
  \/ \A r \in Rank : at[r] = "count" /\ Splits(mini[r], AgreedCount(r)) # {}
  \/ \A r \in Rank : at[r] = "micro" /\ micros[r] # <<>>
  \/ \A r \in Rank : at[r] = "norm"
  \/ \A r \in Rank : at[r] = "reported"

\* Rows can be divided into as many parts as there are rows, or fewer.
LEMMA SplitsExist ==
  ASSUME NEW m, Len(m.rows) \in Nat, NEW n \in 1..Len(m.rows)
  PROVE  Splits(m, n) # {}
<1>0. Len(m.rows) \in Nat /\ n \in Nat /\ 1 <= n /\ n <= Len(m.rows)
  OBVIOUS
<1> DEFINE L == Len(m.rows)
           G == {g \in [1..L -> 1..n] : Range(g) = 1..n}
           f == [x \in 1..L |-> IF x <= n THEN x ELSE n]
<1>1. f \in [1..L -> 1..n]
  BY <1>0
<1>2. Range(f) = 1..n
  <2>1. ASSUME NEW y \in 1..n  PROVE \E x \in 1..L : f[x] = y
    <3>1. y \in 1..L /\ f[y] = y
      BY <1>0
    <3>2. QED  BY <3>1
  <2>2. Range(f) = {f[x] : x \in 1..L}
    BY DEF Range
  <2>3. \A x \in 1..L : f[x] \in 1..n
    BY <1>1
  <2> HIDE DEF f
  <2>4. QED  BY <2>1, <2>2, <2>3
<1>3. f \in G
  BY <1>1, <1>2
<1>4. [j \in 1..n |-> {m.rows[i] : i \in {x \in 1..L : f[x] = j}}] \in Splits(m, n)
  <2> HIDE DEF f
  <2> QED BY <1>3 DEF Splits
<1>5. QED  BY <1>4

\* The process group never hangs: with every rank waiting, all of them wait in
\* the same collective, whatever their shares and their micro-batches are.
THEOREM UpdateNeverHangs == Spec => [](phase = "running" => GroupCanGoOn)
<1>1. ASSUME UpdateInv, phase = "running", \A r \in Rank : at[r] # "next"  PROVE GroupCanGoOn
  <2>1. 1 \in Rank
    BY SizesAssumption DEF Rank
  <2>2. \A r \in Rank : at[r] \in {"count", "micro", "norm", "reported"}
    BY <1>1 DEF UpdateInv, TypeOK, Prepared
  <2>3. \A q, r \in Rank : at[q] = at[r]
    BY <1>1, <2>2 DEF UpdateInv, Together
  <2>4. \A r \in Rank : at[r] = "micro" => micros[r] # <<>>
    BY <1>1 DEF UpdateInv, Divided
  <2>5. ASSUME NEW r \in Rank, at[r] = "count"  PROVE Splits(mini[r], AgreedCount(r)) # {}
    <3> DEFINE k == Plan[Len(applied) + 1]
    <3>1. \A q \in Rank : at[q] \in Stepping
      BY <2>3, <2>5 DEF Stepping
    <3>2. Given /\ \A q \in Rank : Aligned(q)
      BY <1>1, <2>5, InTheUpdate
    <3>3. k \in Trainable /\ \A q \in Rank : mini[q] = Dealt(q, k)
      BY <1>1, <2>1, <3>1, <3>2, SameBatch
    <3> HIDE DEF k
    <3>4. AgreedCount(r) \in 1..Wide(k)
      BY <3>2, <3>3, AgreedFacts
    <3>5. Len(mini[r].rows) = Wide(k) /\ Wide(k) \in Nat
      BY <3>2, <3>3, DealtFacts
    <3>6. QED  BY <3>4, <3>5, SplitsExist
  <2>6. QED  BY <2>1, <2>2, <2>3, <2>4, <2>5 DEF GroupCanGoOn
<1>2. UpdateInv => (phase = "running" => GroupCanGoOn)
  BY <1>1 DEF GroupCanGoOn
<1>3. QED  BY <1>2, UpdateInvariant, PTL

\* The trainer finds as many optimizer steps as it expects, and an update that
\* was skipped or refused made none (StepsAccounted).
THEOREM UpdateStepsAccounted == Spec => []StepsAccounted
<1>1. UpdateInv => StepsAccounted
  BY DEF UpdateInv, Before, Prepared, OnPlan, Aligned, StepsAccounted
<1>2. QED  BY <1>1, UpdateInvariant, PTL

-----------------------------------------------------------------------------
\* The promise and the update read the reservation alike.
LEMMA SameReservation ==
  /\ Single!Trainable = Trainable
  /\ Single!Slot = Slot
  /\ \A k : Single!RowsOf(k) = RowsOf(k) /\ Single!Denominators(k) = Denominators(k)
  /\ \A S : Single!Cardinality(S) = Cardinality(S)
  /\ Single!StepCount = Expected
<1>1. ASSUME NEW f  PROVE Single!SumFunction(f) = SumFunction(f)
  BY DEF Single!SumFunction, SumFunction, Single!SumFunctionOnSet, SumFunctionOnSet,
         Single!FoldFunctionOnSet, FoldFunctionOnSet, Single!MapThenFoldSet, MapThenFoldSet
<1>2. \A k : Single!RowsOf(k) = RowsOf(k) /\ Single!SlotsOf(k) = SlotsOf(k)
  BY DEF Single!RowsOf, RowsOf, Single!SlotsOf, SlotsOf
<1>3. \A s : Single!Tokens(s) = Tokens(s)
  BY DEF Single!Tokens, Tokens
<1>4. ASSUME NEW k  PROVE Single!Denominators(k) = Denominators(k)
  <2>1. [s \in Single!SlotsOf(k) |-> Single!Tokens(s)] = [s \in SlotsOf(k) |-> Tokens(s)]
    BY <1>2, <1>3
  <2>2. QED  BY <1>1, <2>1 DEF Single!Denominators, Denominators
<1>5. ASSUME NEW k  PROVE Single!Status(k) = Status(k)
  <2>1. [s \in Single!RowsOf(k) |-> Single!Tokens(s)] = [s \in RowsOf(k) |-> Tokens(s)]
    BY <1>2, <1>3
  <2>2. Single!Active(k) = Active(k)
    BY <1>1, <2>1 DEF Single!Active, Active
  <2>3. QED  BY <1>2, <2>2 DEF Single!Status, Status
<1>6. Single!Trainable = Trainable
  BY <1>5 DEF Single!Trainable, Trainable
<1>7. Single!Slot = Slot
  BY DEF Single!Slot, Slot
<1>8. \A S : Single!Cardinality(S) = Cardinality(S)
  BY DEF Single!Cardinality, Cardinality, Single!ExistsBijection, ExistsBijection,
         Single!Bijection, Bijection, Single!Injection, Injection, Single!Surjection, Surjection
<1>9. Single!StepCount = Expected
  BY ONLY <1>6, <1>8 DEF Single!StepCount, Expected
<1>10. QED  BY <1>2, <1>4, <1>6, <1>7, <1>8, <1>9

\* The i-th batch of the plan is the one that the promise names.
LEMMA SamePlan ==
  ASSUME Given, NEW i \in 1..Len(Plan)
  PROVE  Single!BatchAt(i) = Plan[i] /\ Single!StepCount = Len(Plan)
<1> DEFINE T == Trainable
           n == Cardinality(T)
           x == (i - 1) % n
           e(z) == CHOOSE k \in T : Cardinality({j \in T : j < k}) = z
<1>1. Single!BatchAt(i) = e(x)
  BY SameReservation DEF Single!BatchAt
<1>2. Single!StepCount = Expected /\ Len(Plan) = Expected
  BY SameReservation, PlanFacts
<1>3. IsFiniteSet(T) /\ T \subseteq Nat /\ n \in Nat
  BY TrainableFacts, FS_CardinalityType
<1>4. Len(Plan) = Epochs * n /\ Len(Plan) \in Nat /\ Epochs \in Nat
  BY <1>2, PlanFacts, SizesAssumption DEF Expected
<1>5. n # 0
  <2> SUFFICES ASSUME n = 0  PROVE FALSE
    OBVIOUS
  <2> HIDE DEF n
  <2>1. Len(Plan) = 0
    BY <1>4
  <2>2. QED  BY <2>1
<1>6. x \in 0..(n - 1)
  <2>1. i - 1 \in Nat /\ n \in Nat \ {0}
    BY <1>3, <1>4, <1>5
  <2>2. QED  BY ONLY <2>1, Division DEF x
<1>7. Plan[i] = Ascending(T)[x + 1]
  <2>1. Plan = [y \in 1..(Epochs * n) |-> Ascending(T)[((y - 1) % n) + 1]]
    BY DEF Plan
  <2>2. i \in 1..(Epochs * n)
    BY <1>4
  <2> HIDE DEF T, n
  <2>3. QED  BY ONLY <2>1, <2>2 DEF x
<1> HIDE DEF x
<1>8. x + 1 \in 1..n /\ (x + 1) - 1 = x
  <2> HIDE DEF n
  <2> QED BY ONLY <1>3, <1>6
<1>9. Ascending(T)[x + 1] = e((x + 1) - 1)
  <2>1. Ascending(T) = [y \in 1..n |-> e(y - 1)]
    BY DEF Ascending
  <2> HIDE DEF e, n, T
  <2>2. QED  BY ONLY <1>8, <2>1
<1>10. QED  BY <1>1, <1>2, <1>7, <1>8, <1>9

\* When the ranks meet for the norm, the gradient is that of the whole batch.
LEMMA WholeGradient ==
  ASSUME UpdateInv, OptimizerStep
  PROVE  /\ phase = "running" /\ Given /\ Len(applied) + 1 \in 1..Len(Plan)
         /\ [q \in Rank |-> [weight |-> grad[q], over |-> mini[q].over]] =
              Single!Exact(Plan[Len(applied) + 1])
<1> DEFINE k == Plan[Len(applied) + 1]
<1>1. DP \in Nat \ {0} /\ 1 \in Rank
  BY SizesAssumption DEF Rank
<1>2. \A q \in Rank : at[q] = "norm"
  BY DEF OptimizerStep
<1>3. phase = "running" /\ Given
  <2>1. at[1] = "norm"
    BY <1>1, <1>2
  <2>2. QED  BY <1>1, <2>1, InTheUpdate
<1>4. /\ k \in Trainable /\ \A q \in Rank : mini[q] = Dealt(q, k)
      /\ Len(applied) + 1 \in 1..Len(Plan)
  <2>1. at[1] \in Stepping /\ \A q \in Rank : at[q] \in Stepping
    BY <1>1, <1>2 DEF Stepping
  <2>2. QED  BY <1>1, <2>1, SameBatch
<1> HIDE DEF k
<1>5. ASSUME NEW q \in Rank, NEW s \in Slot
      PROVE  grad[q][s] = IF s \in RowsOf(k) THEN DP ELSE 0
  <2>1. grad[q][s] = IF \E x \in Rank : s \in SlotsIn(mini[x].rows) /\ s \notin Coming(micros[x])
                     THEN DP ELSE 0
    BY <1>2 DEF UpdateInv, Weighted
  <2>2. ASSUME NEW x \in Rank  PROVE s \notin Coming(micros[x])
    <3>1. micros[x] = <<>>
      BY <1>2 DEF UpdateInv, Divided
    <3>2. Len(micros[x]) = 0
      BY <3>1
    <3>3. QED  BY <3>2 DEF Coming
  <2>3. (\E x \in Rank : s \in SlotsIn(mini[x].rows)) <=> s \in RowsOf(k)
    BY <1>3, <1>4, SomeRank
  <2>4. QED  BY <2>1, <2>2, <2>3
<1>6. ASSUME NEW q \in Rank
      PROVE  /\ grad[q] = [s \in Slot |-> IF s \in RowsOf(k) THEN DP ELSE 0]
             /\ mini[q].over = Denominators(k)
  <2>1. grad[q] \in [Slot -> Nat]
    BY DEF UpdateInv, TypeOK
  <2>2. QED  BY <1>3, <1>4, <1>5, <2>1, DealtFacts
<1>7. Single!Exact(k) = [q \in Rank |-> [weight |-> [s \in Slot |-> IF s \in RowsOf(k) THEN DP ELSE 0],
                                         over |-> Denominators(k)]]
  BY SameReservation DEF Single!Exact, Rank
<1>8. [q \in Rank |-> [weight |-> grad[q], over |-> mini[q].over]] = Single!Exact(k)
  BY <1>6, <1>7
<1>9. QED  BY <1>3, <1>4, <1>8 DEF k

\* A step of the update is a step of one process, or none.
LEMMA StepImplements ==
  ASSUME UpdateInv, [Next]_vars
  PROVE  [Single!SingleNext]_(Single!svars)
<1> USE DEF inputs, actorVars
<1> DEFINE sp == IF phase = "built" THEN "reserved" ELSE phase
<1>1. Single!Trainable = Trainable
  BY SameReservation
<1>2. ASSUME UNCHANGED <<slots, useMask, applied>>, sp' = sp  PROVE UNCHANGED Single!svars
  BY <1>2 DEF Single!svars
<1>3. CASE Build
  <2>1. phase = "reserved" /\ UNCHANGED <<slots, useMask, applied>>
    BY <1>3 DEF Build
  <2>2. CASE Trainable = {}
    <3>1. phase' = "skipped"
      BY <1>3, <2>2 DEF Build
    <3>2. Single!Start
      BY <1>1, <2>1, <2>2, <3>1 DEF Single!Start
    <3>3. QED  BY <3>2 DEF Single!SingleNext
  <2>3. CASE Trainable # {}
    <3>1. SharesEqual
      BY RankRowsFacts DEF SharesEqual, UpdateInv, TypeOK, Given
    <3>2. phase' = "built"
      BY <1>3, <2>3, <3>1 DEF Build
    <3>3. QED  BY <1>2, <2>1, <3>2
  <2>4. QED  BY <2>2, <2>3
<1>4. CASE Dispatch
  <2>1. phase = "built" /\ phase' \in {"running", "refused"} /\ UNCHANGED <<slots, useMask, applied>>
    BY <1>4 DEF Dispatch
  <2>2. Trainable # {}
    BY <2>1 DEF UpdateInv, Prepared
  <2>3. Single!Start
    BY <1>1, <2>1, <2>2 DEF Single!Start
  <2>4. QED  BY <2>3 DEF Single!SingleNext
<1>5. CASE \E r \in Rank : NextMini(r) \/ Report(r)
  <2>1. UNCHANGED <<slots, useMask, applied, phase>>
    BY <1>5 DEF NextMini, Report
  <2>2. QED  BY <1>2, <2>1
<1>6. CASE Agree
  <2>1. UNCHANGED <<slots, useMask, applied>>
    BY <1>6 DEF Agree
  <2>2. phase' # "crashed"
    BY <1>6, AgreeKeeps DEF UpdateInv, Prepared
  <2>3. phase' = phase
    BY <1>6, <2>2 DEF Agree
  <2>4. QED  BY <1>2, <2>1, <2>3
<1>7. CASE Backward
  <2>1. UNCHANGED <<slots, useMask, applied, phase>>
    BY <1>7 DEF Backward
  <2>2. QED  BY <1>2, <2>1
<1>8. CASE OptimizerStep
  <2> DEFINE k == Plan[Len(applied) + 1]
             whole == [q \in Rank |-> [weight |-> grad[q], over |-> mini[q].over]]
  <2>1. /\ phase = "running" /\ Given /\ Len(applied) + 1 \in 1..Len(Plan)
        /\ whole = Single!Exact(k)
    BY <1>8, WholeGradient
  <2>2. Single!BatchAt(Len(applied) + 1) = k /\ Single!StepCount = Len(Plan)
    BY <2>1, SamePlan
  <2>3. Len(applied) < Single!StepCount
    <3>1. Len(applied) \in Nat /\ Len(Plan) \in Nat
      BY <2>1, PlanFacts DEF UpdateInv, Shapes
    <3>2. Len(applied) < Len(Plan)
      BY ONLY <2>1, <3>1
    <3>3. QED  BY <2>2, <3>2
  <2>4. PICK finite \in BOOLEAN : applied' = Append(applied, IF finite THEN whole ELSE Dropped)
    BY <1>8 DEF OptimizerStep
  <2>5. UNCHANGED <<slots, useMask, phase>>
    BY <1>8 DEF OptimizerStep
  <2> HIDE DEF k, whole
  <2>6. \E e \in {Single!Exact(Single!BatchAt(Len(applied) + 1)), Single!Dropped} :
           applied' = Append(applied, e)
    BY <2>1, <2>2, <2>4 DEF Single!Dropped, Dropped
  <2>7. Single!Step
    BY <2>1, <2>3, <2>5, <2>6 DEF Single!Step
  <2>8. QED  BY <2>7 DEF Single!SingleNext
<1>9. CASE Return
  <2>1. /\ phase = "running" /\ phase' = "done" /\ UNCHANGED <<slots, useMask, applied>>
        /\ \A q \in Rank : at[q] = "reported"
    BY <1>9 DEF Return
  <2>2. Given /\ \A q \in Rank : Aligned(q) /\ at[q] # "idle"
    BY <2>1 DEF UpdateInv, OnPlan, Prepared, TypeOK, Given
  <2>3. Len(applied) = Single!StepCount
    <3>1. 1 \in Rank
      BY SizesAssumption DEF Rank
    <3>2. at[1] = "reported" /\ todo[1] = <<>>
      BY <2>1, <2>2, <3>1 DEF Aligned
    <3>3. Len(applied) = Len(Plan)
      BY <2>2, <3>1, <3>2, AllThrough, PlanFacts
    <3>4. QED  BY <2>2, <3>3, SameReservation, PlanFacts
  <2>4. Single!Finish
    BY <2>1, <2>3 DEF Single!Finish
  <2>5. QED  BY <2>4 DEF Single!SingleNext
<1>10. CASE UNCHANGED vars
  BY <1>2, <1>10 DEF vars
<1>11. QED  BY <1>3, <1>4, <1>5, <1>6, <1>7, <1>8, <1>9, <1>10 DEF Next

\* The padded, dealt, split and averaged update makes the optimizer steps of
\* one process that holds the whole batch (ImplementsSingleRank).
THEOREM UpdateImplementsSingleRank == Spec => ImplementsSingleRank
<1>1. Init => Single!SingleInit
  BY DEF Init, Single!SingleInit
<1>2. UpdateInv /\ [Next]_vars => [Single!SingleNext]_(Single!svars)
  BY StepImplements
<1>3. QED  BY <1>1, <1>2, UpdateInvariant, PTL DEF Spec, ImplementsSingleRank, Single!SingleSpec
=============================================================================
