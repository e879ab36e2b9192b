---------------------------- MODULE SeqlenBalance ----------------------------
(* Splitting sequences into parts of balanced length                         *)
(* (verl/verl/utils/seqlen_balancing.py).                                    *)
(*                                                                           *)
(* The largest differencing method keeps a heap of states. A state is a list *)
(* of k sets of items, kept in decreasing order. Merge pops the two states   *)
(* with the largest spread and joins the largest set of one to the smallest  *)
(* of the other; the last state is the result. Two callers are modelled:     *)
(* rearrange_micro_batches, which derives k from a token limit and from the  *)
(* counts of the other ranks, and the equal_size mode, which balances a      *)
(* batch over the ranks.                                                     *)
(*                                                                           *)
(* Items are named by their position in sorted_seqlen_list, so `seqlen` is   *)
(* a nondecreasing function; sets of equal sum and equal size may come in    *)
(* either order.                                                             *)
EXTENDS Integers, Sequences, FiniteSets, FiniteSetsExt, Functions, SequencesExt, Listing

CONSTANTS
  N,        \* number of sequences
  Lengths,  \* their possible lengths (attention-mask sums)
  Limits,   \* possible values of max_token_len
  MaxParts  \* bound of the instance: the largest k_partitions asked for

ASSUME NAssumption == N \in Nat \ {0}
ASSUME LengthsAssumption == Lengths \subseteq Nat \ {0}
ASSUME LimitsAssumption == Limits \subseteq Nat \ {0}
ASSUME MaxPartsAssumption == MaxParts \in 1..N

VARIABLES
  mode,    \* "micro_batches" or "equal_size": who called
  seqlen,  \* length of each sequence
  limit,   \* max_token_len
  k,       \* k_partitions
  states,  \* the heap states_pq
  pc,      \* "merging", "returned", "failed" (an assertion of the code)
  parts    \* the partitions returned, each a sorted list of items

vars == <<mode, seqlen, limit, k, states, pc, parts>>

Item == 1..N

Set == [items : SUBSET Item, sum : Nat]

Empty == [items |-> {}, sum |-> 0]

Single(i) == [items |-> {i}, sum |-> seqlen[i]]

\* Set.__lt__, up to the item lists of two sets of equal sum and size.
Below(x, y) ==
  \/ x.sum < y.sum
  \/ x.sum = y.sum /\ Cardinality(x.items) < Cardinality(y.items)

Decreasing(s) == \A i, j \in 1..k : i < j => ~Below(s[i], s[j])

\* The permutations of n positions.
Orders ==
  [n \in 1..MaxParts |-> {p \in [1..n -> 1..n] :
                          \A i, j \in 1..n : p[i] = p[j] => i = j}]

Sorted(s) ==
  {[i \in 1..k |-> s[p[i]]] :
     p \in {o \in Orders[k] : Decreasing([i \in 1..k |-> s[o[i]]])}}

Spread(s) == s[1].sum - s[k].sum

\* State.__lt__: a is popped before b.
Before(a, b) ==
  \/ Spread(a) > Spread(b)
  \/ Spread(a) = Spread(b) /\ Below(b[1], a[1])

Top(q) == {a \in q : \A b \in q : ~Before(b, a)}

\* Mutants: the sum of the other set is forgotten; the sets are joined in the
\* same order.
JoinedStaleMutant(a, b) ==
  [i \in 1..k |-> [items |-> a[i].items \cup b[k + 1 - i].items,
                   sum |-> a[i].sum]]

JoinedAlignedMutant(a, b) ==
  [i \in 1..k |-> [items |-> a[i].items \cup b[i].items,
                   sum |-> a[i].sum + b[i].sum]]

\* State.merge before its sort.
Joined(a, b) ==
  [i \in 1..k |-> [items |-> a[i].items \cup b[k + 1 - i].items,
                   sum |-> a[i].sum + b[k + 1 - i].sum]]

-----------------------------------------------------------------------------
Total == SumFunction(seqlen)

CeilDiv(a, b) == (a + b - 1) \div b

\* Mutant: the division rounds down.
OwnCountMutant == IF Total < limit THEN 1 ELSE Total \div limit

\* num_micro_batches of this rank before the all_reduce.
OwnCount == IF CeilDiv(Total, limit) < N THEN CeilDiv(Total, limit) ELSE N

\* One state per sequence, or one per k consecutive ones of the sorted list.
SingletonStates ==
  {[i \in 1..k |-> IF i = 1 THEN Single(x) ELSE Empty] : x \in Item}

\* Mutant: the loop over the sorted list stops one chunk too early.
ChunkStatesMutant ==
  {[i \in 1..k |-> Single(c * k + k + 1 - i)] : c \in 0..(N \div k - 2)}

ChunkStates ==
  {[i \in 1..k |-> Single(c * k + k + 1 - i)] : c \in 0..(N \div k - 1)}

\* rearrange_micro_batches: every length fits the limit, and the all_reduce
\* takes the largest count of all ranks, none of which exceeds its N rows.
MicroBatchCall ==
  /\ mode = "micro_batches"
  /\ limit \in Limits
  /\ \A i \in Item : seqlen[i] <= limit
  /\ k \in 1..MaxParts
  /\ OwnCount <= k
  /\ states = SingletonStates

\* equal_size requires a divisible number of sequences.
EqualSizeCall ==
  /\ mode = "equal_size"
  /\ limit = 0
  /\ k \in 1..MaxParts
  /\ N % k = 0
  /\ states = ChunkStates

Init ==
  /\ seqlen \in [Item -> Lengths]
  /\ \A i, j \in Item : i < j => seqlen[i] <= seqlen[j]
  /\ MicroBatchCall \/ EqualSizeCall
  /\ pc = "merging"
  /\ parts = <<>>

Merge ==
  /\ pc = "merging"
  /\ \E a \in Top(states) : \E b \in Top(states \ {a}) :
       \E m \in Sorted(Joined(a, b)) : states' = (states \ {a, b}) \cup {m}
  /\ UNCHANGED <<mode, seqlen, limit, k, pc, parts>>

\* Micro-batches are put in decreasing order of squared lengths.
Workload(S) == SumFunction([i \in S |-> seqlen[i] * seqlen[i]])

Heavier(S, T) ==
  \/ Workload(S) > Workload(T)
  \/ Workload(S) = Workload(T) /\ Min(S) > Min(T)

Scheduled(s) ==
  LET sets == {s[i].items : i \in 1..k}
  IN  IF mode = "micro_batches"
      THEN Listed(sets, {e \in sets \X sets : Heavier(e[1], e[2])})
      ELSE [i \in 1..k |-> s[i].items]

\* The assertions of karmarkar_karp and _check_and_sort_partitions.
Accepted(s) ==
  /\ \A i \in 1..k : s[i].items # {}
  /\ UNION {s[i].items : i \in 1..k} = Item
  /\ mode = "equal_size" => \A i \in 1..k : Cardinality(s[i].items) * k = N

Return ==
  /\ pc = "merging"
  /\ \E s \in states :
       /\ states = {s}
       /\ IF Accepted(s)
          THEN /\ pc' = "returned"
               /\ parts' = LET sched == Scheduled(s)
                           IN  [i \in 1..k |-> Ascending(sched[i])]
          ELSE /\ pc' = "failed"
               /\ UNCHANGED parts
  /\ UNCHANGED <<mode, seqlen, limit, k, states>>

Next == Merge \/ Return

Spec == Init /\ [][Next]_vars

-----------------------------------------------------------------------------
\* Mutant: the index list is used as its own reverse.
ReverseIdxMutant(idx) == idx

\* get_reverse_idx, with indices from 1.
ReverseIdx(idx) ==
  [j \in DOMAIN idx |-> IF \E i \in DOMAIN idx : idx[i] = j
                        THEN Max({i \in DOMAIN idx : idx[i] = j})
                        ELSE idx[j]]

\* restore_dynamic_batch: the rows of the parts, put back by the reverse index.
Restored(rows) == [j \in DOMAIN rows |-> rows[ReverseIdx(rows)[j]]]

-----------------------------------------------------------------------------
Longest == Max(Range(seqlen))

\* Tokens of a part that was returned.
Tokens(part) == SumFunction([j \in DOMAIN part |-> seqlen[part[j]]])

ItemsOf(s) == UNION {s[i].items : i \in 1..k}

TypeOK ==
  /\ mode \in {"micro_batches", "equal_size"}
  /\ seqlen \in [Item -> Nat]
  /\ limit \in Nat
  /\ k \in 1..MaxParts
  /\ states \subseteq [1..k -> Set]
  /\ pc \in {"merging", "returned", "failed"}

Covered == \A x \in Item : \E s \in states : x \in ItemsOf(s)

Apart ==
  /\ \A s \in states : \A i, j \in 1..k :
       i # j => s[i].items \cap s[j].items = {}
  /\ \A s, t \in states : s # t => ItemsOf(s) \cap ItemsOf(t) = {}

SumsExact ==
  \A s \in states : \A i \in 1..k :
    s[i].sum = SumFunctionOnSet(seqlen, s[i].items)

\* No sequence is lost or doubled at any point of the merging: it is in exactly
\* one set of exactly one state, and the sum kept with a set is the length of
\* the sequences in it (Set.add, Set.merge).
PartsExact == Covered /\ Apart /\ SumsExact

\* The assertions at the end never fail, whatever the lengths: no part is
\* empty, every sequence is seen, and equal_size gives every rank the same
\* number of rows. A failed assertion on one rank leaves the other ranks in
\* their collectives.
AssertionsHold == pc # "failed"

\* The parts of a state never differ by more than the longest sequence, so no
\* rank or micro-batch is starved while another one is overfull.
SpreadBounded ==
  \A s \in states : \A i, j \in 1..k : s[i].sum - s[j].sum <= Longest

\* max_token_len is only a target: the number of micro-batches is fixed from
\* the total. What memory can rely on is that a micro-batch exceeds the limit
\* by less than the longest sequence, and a single one not at all.
OvershootBounded ==
  pc = "returned" /\ mode = "micro_batches" =>
    \A i \in 1..k : k * (Tokens(parts[i]) - limit) <= (k - 1) * Longest

\* restore_dynamic_batch puts every row back where it came from: log-probs
\* computed per micro-batch land on the rows they belong to.
RestoresOrder ==
  pc = "returned" =>
    LET rows == FlattenSeq(parts)
    IN  Len(rows) = N /\ \A j \in Item : Restored(rows)[j] = j

\* The docstring of rearrange_micro_batches: "max_token_len (int): max sum of
\* attention_mask per micro-batch."
TokenLimit ==
  pc = "returned" /\ mode = "micro_batches" =>
    \A i \in 1..k : Tokens(parts[i]) <= limit
=============================================================================
