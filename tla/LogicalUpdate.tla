---------------------------- MODULE LogicalUpdate ----------------------------
(* One actor update of the canonical objectives, from the reservation to the *)
(* accounting of its optimizer steps (tree_data.build_logical_update_batch,  *)
(* gear_ray_trainer._edges_to_update_batch, dp_actor.update_policy).         *)
(*                                                                           *)
(* The trainer pads every trainable logical batch to a multiple of dp_size,  *)
(* deals its rows to the ranks and concatenates the shares. Each rank of the *)
(* actor selects the rows of its chunk batch by batch, splits them into      *)
(* micro-batches, and meets the other ranks in collectives: the maximum of   *)
(* the micro-batch counts (dynamic batch size only), the reduction of the    *)
(* gradients of each micro-batch, and the gradient norm of the step. A       *)
(* collective happens only when every rank is in it.                         *)
(*                                                                           *)
(* A dynamic split is any division into the agreed number of nonempty parts: *)
(* SeqlenBalance shows that what the code chooses is one.                    *)
EXTENDS LogicalBatch, Listing

CONSTANTS
  Worlds,    \* possible numbers of processes of the actor's group
  Micro,     \* ppo_micro_batch_size_per_gpu, in rows
  MaxTokens  \* ppo_max_token_len_per_gpu

ASSUME ActorAssumption ==
  /\ Worlds \subseteq Nat \ {0}
  /\ Micro \in Nat \ {0}
  /\ MaxTokens \in Nat \ {0}
  /\ \A f \in Reservations : \A s \in Slot : f[s].resp + 1 <= MaxTokens

VARIABLES
  world,    \* torch.distributed.get_world_size()
  dynamic,  \* use_dynamic_bsz
  phase,    \* "reserved", "built", "running", or how the update ended
  rows,     \* the tensor rows, rank-major
  at,       \* where each rank is in update_policy
  todo,     \* the batches each rank has left to step through
  mini,     \* the mini-batch each rank works on
  micros,   \* the micro-batches of it that are left
  grad,     \* each rank's shard of the gradient, in units of 1 / world
  steps,    \* num_optimizer_steps of each rank
  applied,  \* what the optimizer was given, step by step
  lr,       \* steps of the learning-rate scheduler
  valid     \* optimizer_step_accounting_valid

inputs == <<slots, useMask, world, dynamic>>

vars == <<inputs, phase, rows, at, todo, mini, micros, grad, steps, applied, lr, valid>>

Rank == 1..DP

Row(s, k) == [slot |-> s, batch |-> k]

Dummy(k) == Row(0, k)

\* Tokens under the attention mask: one of the prompt, then the response.
Length(row) == IF row.slot = 0 THEN 2 ELSE slots[row.slot].resp + 1

CeilDiv(a, b) == (a + b - 1) \div b

\* Mutant: a batch is dealt as it is.
PaddedMutant(k) ==
  LET real == Ascending(RowsOf(k))
  IN  [i \in 1..Len(real) |-> Row(real[i], k)]

\* The rows of a trainable batch and the dummies that make it divisible.
Padded(k) ==
  LET real == Ascending(RowsOf(k))
  IN  [i \in 1..(CeilDiv(Len(real), DP) * DP) |->
         IF i <= Len(real) THEN Row(real[i], k) ELSE Dummy(k)]

\* Rank r takes every DP-th row, from the r-th on.
Share(k, r) ==
  LET p == Padded(k)
  IN  [j \in 1..((Len(p) - r + DP) \div DP) |-> p[(j - 1) * DP + r]]

RankRows(r) ==
  FlattenSeq([k \in 1..Batches |-> IF k \in Trainable THEN Share(k, r) ELSE <<>>])

\* Mutant: the shares are concatenated batch by batch.
OrderedMutant ==
  FlattenSeq([k \in 1..Batches |-> IF k \in Trainable THEN Padded(k) ELSE <<>>])

Ordered == FlattenSeq([r \in Rank |-> RankRows(r)])

SharesEqual == \A q, r \in Rank : Len(RankRows(q)) = Len(RankRows(r))

Expected == Epochs * Cardinality(Trainable)

-----------------------------------------------------------------------------
NoMini == [rows |-> <<>>, over |-> <<0, 0>>]

NoGrad == [s \in Slot |-> 0]

Init ==
  /\ slots \in Reservations
  /\ useMask \in BOOLEAN
  /\ world \in Worlds
  /\ dynamic \in BOOLEAN
  /\ phase = "reserved"
  /\ rows = <<>>
  /\ at = [r \in Rank |-> "idle"]
  /\ todo = [r \in Rank |-> <<>>]
  /\ mini = [r \in Rank |-> NoMini]
  /\ micros = [r \in Rank |-> <<>>]
  /\ grad = [r \in Rank |-> NoGrad]
  /\ steps = [r \in Rank |-> 0]
  /\ applied = <<>>
  /\ lr = 0
  /\ valid = TRUE

actorVars == <<at, todo, mini, micros, grad, steps, applied>>

\* build_logical_update_batch. No row at all is a skipped update.
Build ==
  /\ phase = "reserved"
  /\ IF Trainable = {}
     THEN phase' = "skipped" /\ UNCHANGED rows
     ELSE IF ~SharesEqual
     THEN phase' = "crashed" /\ UNCHANGED rows
     ELSE phase' = "built" /\ rows' = Ordered
  /\ UNCHANGED <<inputs, actorVars, lr, valid>>

Chunk(r) ==
  LET size == Len(rows) \div DP
  IN  SubSeq(rows, (r - 1) * size + 1, r * size)

\* Mutant: the lists of counts are indexed by the batches that are kept.
DenominatorMutant(k) ==
  Denominators(Cardinality({j \in Trainable : j <= k}))

Denominator(k) == Denominators(k)

\* The rows of batch k in rank r's chunk, in their order.
Selected(r, k) ==
  LET chunk == Chunk(r)
      index == Ascending({j \in 1..Len(chunk) : chunk[j].batch = k})
  IN  [i \in 1..Len(index) |-> chunk[index[i]]]

\* The batches that a chunk has rows of, once per epoch.
Minis(r) ==
  LET some == Ascending({k \in Trainable : \E j \in 1..Len(Chunk(r)) : Chunk(r)[j].batch = k})
  IN  [i \in 1..(Epochs * Len(some)) |-> some[((i - 1) % Len(some)) + 1]]

MiniBatch(r, k) == [rows |-> Selected(r, k), over |-> Denominator(k)]

\* The dispatch splits the rows into as many chunks as there are processes,
\* and every rank refuses a batch that was padded for another number.
Dispatch ==
  /\ phase = "built"
  /\ IF Len(rows) % world # 0 \/ world # DP
     THEN /\ phase' = "refused"
          /\ UNCHANGED <<at, todo>>
     ELSE /\ phase' = "running"
          /\ at' = [r \in Rank |-> "next"]
          /\ todo' = [r \in Rank |-> Minis(r)]
  /\ UNCHANGED <<inputs, rows, mini, micros, grad, steps, applied, lr, valid>>

StaticSplit(m) ==
  [i \in 1..CeilDiv(Len(m.rows), Micro) |->
     Range(SubSeq(m.rows, (i - 1) * Micro + 1,
                  IF i * Micro < Len(m.rows) THEN i * Micro ELSE Len(m.rows)))]

\* A rank takes its next mini-batch, and waits for the others' micro-batch
\* counts or for their first gradient.
NextMini(r) ==
  /\ at[r] = "next"
  /\ todo[r] # <<>>
  /\ mini' = [mini EXCEPT ![r] = MiniBatch(r, Head(todo[r]))]
  /\ todo' = [todo EXCEPT ![r] = Tail(@)]
  /\ at' = [at EXCEPT ![r] = IF dynamic THEN "count" ELSE "micro"]
  /\ micros' = [micros EXCEPT ![r] = IF dynamic THEN <<>> ELSE StaticSplit(MiniBatch(r, Head(todo[r])))]
  /\ grad' = [grad EXCEPT ![r] = NoGrad]
  /\ UNCHANGED <<inputs, phase, rows, steps, applied, lr, valid>>

\* The last zero_grad, the report, and the scheduler of the rank.
Report(r) ==
  /\ at[r] = "next"
  /\ todo[r] = <<>>
  /\ at' = [at EXCEPT ![r] = "reported"]
  /\ grad' = [grad EXCEPT ![r] = NoGrad]
  /\ UNCHANGED <<inputs, phase, rows, todo, mini, micros, steps, applied, lr, valid>>

OwnCount(m) ==
  Min({Len(m.rows),
       CeilDiv(SumFunction([i \in 1..Len(m.rows) |-> Length(m.rows[i])]), MaxTokens)})

\* Mutant: every rank splits by its own count.
AgreedCountMutant(r) == OwnCount(mini[r])

\* all_reduce with MAX.
AgreedCount(r) == Max({OwnCount(mini[q]) : q \in Rank})

\* The divisions of the rows of a mini-batch into n nonempty parts.
Splits(m, n) ==
  {[j \in 1..n |-> {m.rows[i] : i \in {x \in 1..Len(m.rows) : f[x] = j}}] :
     f \in {g \in [1..Len(m.rows) -> 1..n] : Range(g) = 1..n}}

\* prepare_dynamic_batch, with its assertion.
Agree ==
  /\ \A r \in Rank : at[r] = "count"
  /\ IF \E r \in Rank : AgreedCount(r) > Len(mini[r].rows)
     THEN phase' = "crashed" /\ UNCHANGED <<at, micros>>
     ELSE /\ micros' \in {s \in [Rank -> UNION {Splits(mini[r], AgreedCount(r)) : r \in Rank}] :
                            \A r \in Rank : s[r] \in Splits(mini[r], AgreedCount(r))}
          /\ at' = [r \in Rank |-> "micro"]
          /\ UNCHANGED phase
  /\ UNCHANGED <<inputs, rows, todo, mini, grad, steps, applied, lr, valid>>

\* loss_scale_factor: the reduction averages over the ranks.
LossScale == world

\* The backward pass of one micro-batch of every rank: each shard gets the sum
\* over the ranks. Dummy rows are masked out of the loss.
Backward ==
  /\ \A r \in Rank : at[r] = "micro"
  /\ LET heads == [r \in Rank |-> Head(micros[r])]
         gain(s) == LossScale * Cardinality(
                      {r \in Rank : \E row \in heads[r] : row.slot = s})
     IN  grad' = [r \in Rank |-> [s \in Slot |-> grad[r][s] + gain(s)]]
  /\ micros' = [r \in Rank |-> Tail(micros[r])]
  /\ at' = [r \in Rank |-> IF Tail(micros[r]) = <<>> THEN "norm" ELSE "micro"]
  /\ UNCHANGED <<inputs, phase, rows, todo, mini, steps, applied, lr, valid>>

Dropped == <<>>

\* Mutant: a dropped step is not counted.
CountedMutant(finite) == IF finite THEN 1 ELSE 0

Counted(finite) == 1

\* _optimizer_step: the norm is that of the whole gradient, and a step whose
\* norm is not finite is dropped on every rank; num_optimizer_steps counts it.
OptimizerStep ==
  /\ \A r \in Rank : at[r] = "norm"
  /\ \E finite \in BOOLEAN :
       /\ applied' = Append(applied,
                       IF finite THEN [r \in Rank |-> [weight |-> grad[r],
                                                       over |-> mini[r].over]]
                       ELSE Dropped)
       /\ grad' = IF finite THEN grad ELSE [r \in Rank |-> NoGrad]
       /\ steps' = [r \in Rank |-> steps[r] + Counted(finite)]
  /\ at' = [r \in Rank |-> "next"]
  /\ UNCHANGED <<inputs, phase, rows, todo, mini, micros, lr, valid>>

\* The trainer takes the largest count reported and compares it with the
\* trainable batches times the epochs.
Return ==
  /\ phase = "running"
  /\ \A r \in Rank : at[r] = "reported"
  /\ phase' = "done"
  /\ lr' = lr + 1
  /\ valid' = (valid /\ Max({steps[r] : r \in Rank}) = Expected)
  /\ UNCHANGED <<inputs, rows, actorVars>>

Next ==
  \/ Build
  \/ Dispatch
  \/ \E r \in Rank : NextMini(r) \/ Report(r)
  \/ Agree
  \/ Backward
  \/ OptimizerStep
  \/ Return

\* Each process of the update runs until it has to wait.
Spec == Init /\ [][Next]_vars /\ WF_vars(Next)

-----------------------------------------------------------------------------
TypeOK ==
  /\ slots \in Reservations
  /\ useMask \in BOOLEAN /\ dynamic \in BOOLEAN /\ valid \in BOOLEAN
  /\ world \in Worlds
  /\ phase \in {"reserved", "built", "running", "done",
                "skipped", "refused", "crashed"}
  /\ at \in [Rank -> {"idle", "next", "count", "micro", "norm", "reported"}]
  /\ grad \in [Rank -> [Slot -> Nat]]
  /\ steps \in [Rank -> Nat]
  /\ lr \in {0, 1}

\* No rank ever waits in a collective that another rank is not in or coming
\* to: the group would hang until its timeout. Ranks at the same collective
\* have as many micro-batches, and a rank that comes later has one
\* mini-batch more to go.
InStep ==
  \A q, r \in Rank :
    at[q] \in {"count", "micro", "norm", "reported"} =>
      \/ at[r] = at[q] /\ Len(todo[r]) = Len(todo[q]) /\ Len(micros[r]) = Len(micros[q])
      \/ at[r] = "next" /\ at[q] = "reported" /\ todo[r] = <<>>
      \/ at[r] = "next" /\ at[q] \in {"count", "micro"} /\ Len(todo[r]) = Len(todo[q]) + 1

\* The assertions on equal shares and on the number of micro-batches hold.
NeverCrashes == phase # "crashed"

\* A finished update is never accounted as a mismatch, and nothing of an
\* update that was skipped or refused reached the optimizer.
StepsAccounted ==
  /\ phase = "done" => valid /\ \A r \in Rank : steps[r] = Len(applied)
  /\ phase \in {"skipped", "refused"} => applied = <<>> /\ lr = 0

Single == INSTANCE SingleRankUpdate WITH
  phase <- IF phase = "built" THEN "reserved" ELSE phase

\* The padded, dealt, split and averaged update makes the optimizer steps of
\* one process that holds the whole batch.
ImplementsSingleRank == Single!SingleSpec

\* Every rank gets through its collectives and the update ends.
UpdateEnds == <>(phase \in {"done", "skipped", "refused"})

\* The comments in update_policy: "count actual optimizer.step() calls",
\* "expose the true optimizer-step count for this update".
CountsRealSteps ==
  phase = "done" =>
    \A r \in Rank : steps[r] = Len(SelectSeq(applied, LAMBDA e : e # Dropped))
=============================================================================
