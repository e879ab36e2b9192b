# A TLA+ verification of the gear-tree training system

The repository trains a language model with tree-shaped rollouts: for a question
a tree of reasoning segments is grown, its branch numbers are allocated from an
online budget (VDRA), every edge of the tree becomes a training record with an
advantage, the records go through a replay buffer, and an actor is updated on
samples of it.  The state that must not go wrong lives in `verl/recipe/gear_tree`
and `vdra_core`, in the parts of the vendored `verl` that the recipe runs on, and,
for the legacy trainer, in `treetune`'s policy iteration; that is what is modelled.

All paths below are relative to `src/`; `gear_tree/` stands for
`verl/recipe/gear_tree/`.  `PROJECT.json` maps each definition to the lines it
models.

## 1. Inventory

| Component | Code | State | Operations | Status |
|---|---|---|---|---|
| Replay buffer | `gear_tree/replay_buffer.py` | stored edges, reservations, counters | add, expire, sample, reserve (edges / complete trees), commit, rollback, save, load | modelled |
| Trainer loop | `gear_tree/gear_ray_trainer.py` `fit` | iteration, global step, streak, status, counters, save threshold | one iteration with each of its outcomes, livelock guard, budget, save thresholds, exits | partly |
| Trainer state and checkpoint bundle | `gear_tree/trainer_state.py`, `gear_ray_trainer.py`, verl's `ray_trainer.py`, `checkpoint_manager.py` | the files of `global_step_N`, tracker, marker, live state | save a bundle, save the live state, resume, refuse, start over | partly |
| Run manifest | `gear_tree/run_manifest.py`, `manifest_lifecycle.py` | failure counters, observation claims, verdict | generation, construction, replay-batch and update stages; merge at resume; `validate_main_run` | partly |
| Online tree builder | `gear_tree/tree_rollout.py` | coroutines, futures and expansion tasks of a tree, token budget, timeout worker | estimate, enqueue, flush, expand, join, drain, fail | partly |
| Online queue and allocation | `vdra_core/online_budget.py`, `core.py` | queues of a root, bounds and allocation of a flush | enqueue, flush by capacity / timeout / final, solve | partly |
| Async rollout workers, scorer endpoint | `gear_tree/async_tree_rollout.py`, `gear_gate.py`, `scorer_verification.py`, verl's `agent_loop.py` | weights of the servers, scorer cache of a worker process, gate of a row | fetch a weight version, wake the replicas, dispatch, build and bind a gate, fail, collect | partly |
| Tree data, logical batch, objective | `gear_tree/tree_data.py`, verl's `dp_actor.py`; `tree_advantage.py`, `policy_loss.py`, `prob_mask.py` | rows of an update, each rank's place in it, gradients, step counts | build the logical batches, dispatch, split, reduce, step, report | partly |
| Legacy `treetune` | `treetune/runtime/policy_iteration_runtime.py`, `treetune/trainers/ppo_trainer.py` | checkpoints, temporary checkpoints, episodes on disk; engines | boot, generate, load, train, save, clean, copy, finish, die | partly |
| Vendored `verl`, guidance | `verl/verl/utils/seqlen_balancing.py` and the functions named above; `guidance/` | heap of partial partitions | merge, check, restore the order | partly |
| Configuration checks | `gear_tree/config_validation.py`, `context_contract.py` | none | predicates over a configuration | not modelled (what the models need of it are assumptions) |
| Estimators, calibration, logging | `vdra_core/proxies.py`, `calibration.py`, ... | none a step depends on | real-valued estimates, reports | not modelled |
| Synchronous worker rollout | `gear_tree/gear_tree_worker.py`, ... | none | one blocking call per batch | not modelled |

**How the parts interact.** `fit` (one thread, the driver) asks the rollout
workers for the trees of a batch, checks their construction on the manifest, adds
their edges to the buffer, reserves a sample, and commits or rolls the reservation
back depending on what the actor update did.  After each iteration it saves a live
state; when a threshold is crossed, a checkpoint bundle.  A later run resumes from
the bundle the tracker names and merges the live state into it.

A generation first fetches the weight version of the rollout server, then wakes the
replicas (which loads the actor's weights) and sends the rows to worker processes.
Each row builds a gate on a scorer that all rows of the process share, and compares
the scorer's version with the one that came with the row.  Inside a row one
coroutine per tree node runs on an event loop; nodes meet in the queues of a
`RootQueueManager`, wait for futures, and are woken by the task that expands them.
A flush of a queue calls the integer allocation.

An update turns the reserved edges into logical batches, pads and deals their rows
to the data-parallel ranks, and every rank goes through its mini-batches, meeting
the others in collectives.  With a dynamic batch size each rank partitions its
mini-batch with the differencing method of `seqlen_balancing.py`.

The legacy loop is a sequence of iterations whose state is on disk: an inference
server loads the last policy, the episodes of the iteration are made of what it
samples, of what an earlier process left of the same iteration (trees, edges,
shards) and, with a hybrid generator, of edges that a replay keeps in memory; the
trainer trains on them and stores what it made, and a new process goes on from the
last checkpoint it can resume.

**What is hard.**  Exceptions between a reservation and its commit; samples that
never fill a mini-batch; crashes between any two files of a bundle and what the
surviving files make of a resume; live state of a history that a crash undid;
coroutines that all wait; a flush or a worker that dies with other nodes' futures
in its hands; shared budgets read before an `await` and charged after it; a shared
scorer whose version another row, or its thread, replaces between check and use; ranks that
must take the same number of steps through their collectives although their rows
differ; directories that a save, a cleaning or a background copy left half done.
The `hazards` of `PROJECT.json` name each at its line.

**What makes each component correct.**

- *Replay buffer*: an edge that is being trained on stays; a reservation is
  consumed or released whole, once; no edge is lost to the counters; samples keep
  the target, the per-question cap and the age limit; trees are not cut in tree mode.
- *Trainer loop*: every outcome settles its reservation and is reported as what
  it was; only whole mini-batches with a signal reach the actor; the run ends; no
  save threshold is skipped; what a run leaves behind is its last state.
- *Checkpoints*: a marker only on a whole bundle; a resume continues from one
  snapshot or refuses; edges are never younger than the clock.
- *Manifest*: a failure is never forgotten, a claim never outlives the history it
  was observed in.
- *Tree builder*: no lost wakeup, no idle full queue, nothing left when the root
  is built, failures reach the caller, the build ends, the token cap holds.
- *Allocation*: bounds, spending, and optimality of the greedy loop.
- *Rollout*: a tree samples from the weights its edges are labelled with; a strict
  run builds no tree on a scorer it did not verify; a generation ends.
- *Update*: the ranks stay in step, and together make the optimizer steps that one
  process with the whole batch would make.
- *Balancing*: every sequence in one part, no assertion fails, parts do not differ
  by more than a sequence, rows return to their places.
- *Legacy loop*: a step trains the policy of the step before, and the server that
  samples in between has loaded it; what is resumed is one policy.

## 2. Modules

| Module | Models | Composes |
|---|---|---|
| `ReplayLots` | what the buffer promises: a pool with lots consumed or released whole | |
| `ReplayBuffer` | `GearTreeReplayBuffer` with any mix of callers | refines `ReplayLots` |
| `TreeTrainer` | `RayGearTreeTrainer.fit` | extends `ReplayBuffer`: each step that touches the buffer takes one of its actions |
| `SnapshotStore` | what a checkpoint directory promises to a trainer that may die | |
| `CheckpointBundle` | files of bundles, tracker, marker, live state, crash, resume | refines `SnapshotStore` |
| `RunManifest` | counters, claims and verdict of the manifest through checkpoints and merges | |
| `ForkJoin` | what the builder of a tree promises | |
| `OnlineTree` | the coroutines of `async_build_tree_online_alloc` and its queues | refines `ForkJoin` |
| `IntegerAllocation` | `allocate_branch_factors_integer` | |
| `RolloutHandshake` | a generation between trainer, servers, workers and gates | |
| `LogicalBatch` | a reservation as logical batches: statuses and denominators | |
| `SingleRankUpdate` | what an update promises: the steps of one process | extends `LogicalBatch` |
| `LogicalUpdate` | the batch of an update, its dispatch and `update_policy` on all ranks | extends `LogicalBatch`, refines `SingleRankUpdate` |
| `SeqlenBalance` | `karmarkar_karp` and its callers | its result is what `LogicalUpdate` assumes of a dynamic split |
| `PolicyIteration` | the legacy loop on disk | |
| `Listing` | `sorted`: the elements of a set as a list in an order | used by `LogicalUpdate`, `SeqlenBalance` |
| `ListTheorems` | facts about sums over sets, sorted lists, flattened sequences and quotients | used by `SolverProofs`, `LogicalUpdateProofs` |
| `TreeTrainerProofs` | theorems about `ReplayBuffer` and `TreeTrainer` | |
| `CheckpointProofs`, `RunManifestProofs`, `PolicyIterationProofs`, `LogicalUpdateProofs` | theorems about the module of that name (`CheckpointBundle` for the first) | |
| `SolverProofs` | theorems about `IntegerAllocation` and `SeqlenBalance` | extends both: their names do not clash |
| `RolloutProofs` | theorems about `OnlineTree` and `RolloutHandshake` | extends both |
| `MC*` | values of the constants for TLC | |

Definitions named `...Mutant` are one-line bugs of the definition after them.  They
are used by no specification; replacing the definition by its mutant must break the
property paired with it in `PROJECT.json`.

### How state and actions correspond to the code

**ReplayBuffer.**  `edges` is `_edges` reduced to the generation iteration of each
stored id, `reserved` is `_reserved`, `nextId` is `_next_reservation_id`, `handles`
are the `ReplayReservation` objects callers keep, also long after they were used.
One action per method.  Random choices (shuffles, the random suffix of tree ids that
decides their sort order) are existential quantifiers over the results they can
have; expiry is part of every sampling, as in the code.  A call that raises before
it changes anything is a disabled action; `ReserveRaises` is the one that raises
after it expired edges.

**TreeTrainer.**  `pc` is the place in the loop, `reservation` the local variable,
`count`, `streak`, `globalStep`, `nextSave` the trainer's counters, `status` and
`accounting` the manifest's fields, `bundles` the checkpoints by step with the
content that matters.  `Start` above 0 is a run that resumes a legacy checkpoint: it
has no trainer state, so counters, streak and buffer start empty
(`gear_ray_trainer.py:331-347`); a resume that restores them is in `CheckpointBundle`.
Every exit from an iteration is an action: nothing sampled,
postponed, batch rejected, zero signal, actor failed, actor succeeded.  `touched` and
`lastUpdate` are history variables.

**CheckpointBundle.**  A file holds the state it was written from or `None`; each
write is a step of its own, in the order of `_save_vdra_checkpoint_bundle`, the
tracker being truncated and written in two.  `Crash` may come between any two steps,
with or without the exception handler that saves the live state.  `Restart` is the
whole of the startup: `Refused` collects what raises, `Mergeable` decides about the
live state, `Scratch` and `Restored` are what the run continues with.

**RunManifest.**  `mem`, `ckpt` and `live` are the manifest in memory, in the
checkpoint a resume loads, and its fields in the live state: counters, the set of
claims that are true, whether the logical denominator was observed.  `seen` (the
events of the iterations the manifest stands for) and `model` (which update made the
model) are history variables.  An iteration is cut where the manifest is written.
The live state is one this code wrote: an older file without the booleans of the
claims, for which `trainer_state.py:186-204` skips the conjunction, is left out.
A resume without a manifest file only happens to non-canonical runs and is left out.

**OnlineTree.**  A node is its path from the root.  `at` is where the coroutine
`_process_expandable` of a node is suspended, `expansion` where `_expand_parent` is;
a step runs from one `await` to the next.  The root-level builder, its final drain
and the timeout worker are actions.  A flush gives every item any branch number or
raises, each queue emptied before it is allocated.  A node's children that are final
are graded where they are generated and need no step.

**IntegerAllocation.**  One behaviour is one call: bounds, repair, one action per
branch given.  Gains are compared as exact fractions.

**RolloutHandshake.**  Weights are named by the number of actor updates they have
seen: `actor`, `served` (the hybrid rollout replica), `external` (a separate scorer,
reloaded by whoever runs it).  `request` is what the trainer attaches to the rows,
`scorer` the entry of `_SCORER_CACHE` in each worker process, `gate` what
`bind_snapshot` left on the row's own gate.  The trainer's actions are the stages of
`_generate_tree_edges` and `generate_sequences`.  A row probes its server when it
constructs its loop, or, if its endpoint had to be deferred, later in a thread; the
probe and the write of what it brought (`answer`) are two steps, so a late write may
be older than a reload or than another row's version.  `CheckScorer`, `RepairScorer`
and `Bind` are the three looks that `run` takes at the shared version before the tree
is built in one step (`OnlineTree` is that step in detail).  Rows of a worker share
an event loop: `LoopFree` keeps them apart where the code does not await, which is
while a loop is constructed and from the check to the binding, and keeps no thread
out.  `config` ranges over the ways the endpoints and the reported versions can be
set up and over whether the rollout server may be too busy to answer for its
endpoint, which is what defers one.  A probe may be lost at any fetch.

**LogicalBatch, LogicalUpdate.**  A slot is a reserved edge: whether its advantage is
zero (then it is kept for the denominators only), its response tokens and those its
mask keeps.  `rows` is the tensor batch, rank-major, dummy rows being slot 0.  `at`,
`todo`, `mini`, `micros`, `grad`, `steps` are the local state of `update_policy` on
each rank; the three collectives (`Agree`, `Backward`, `OptimizerStep`) are joint
actions that need every rank.  A gradient is the weight of each slot in the loss.
`Minis` lists the batches that a rank steps through, epoch by epoch, and `MiniBatch`
selects the rows of one when its turn comes; the code selects them all before the
first, from a tensor that does not change.
`applied` records what the optimizer was given.  A dynamic split is any division into
the agreed number of parts.

**SeqlenBalance.**  One behaviour is one call, for micro-batches (`k` at least the
rank's own count, as the maximum over the ranks) or for ranks (`equal_size`).
`states` is the heap; `Merge` pops the two states of the largest spread, ties in any
order; `Return` is the checks and the sort of the parts.

**PolicyIteration.**  A policy is a number, fresh for every training step; each part
of a checkpoint (trainer state, inference weights, actor, critic) is named by the
policy it came from, or is missing, removed by a cut removal, torn, or bare (an
engine directory stripped to its model).  `loop` and `state` are the two iteration
counters, `load` and `hf` the paths the trainer and the runtime keep.  Each part of a
save is a step, the background `cp` copies in any order and leaves a part torn until
all of it is there, `Crash` may cut a write, a removal (also that of an older
directory of the name to be written) or a stripping short.  `Sampled` is what the
inference server loads.  `results` is what an iteration leaves in `temp_episodes`,
`buffer` the edges of a hybrid generator's replay with the iteration they were added
in, and the episodes of an iteration are named by all the policies that theirs come
from: any part of what was sampled, of what was left over and of what the replay
keeps for as many iterations as `setup.replay` says.  An iteration's number stands for the name of its
checkpoint; the name has the epoch and the global step too, so two directories of
one iteration, when it was trained twice with different numbers of steps, are one here.

## 3. What the runs check

Deadlock checking is off everywhere: training runs, builds and calls end, a model
whose bounds are used up stops, and where ending is the point (`Terminates`,
`BuildEnds`, `UpdateEnds`, `GenerationEnds`) it is stated as liveness.

| Run | Question | Shows |
|---|---|---|
| `replay` | any mix of callers of the buffer, stale handles included | `HoldsAccounted` (held edges are stored, under one handle, all or nothing, none orphaned), `CountersBalance`, `ReservationsLawful` (target, caps, freshness), refinement of `ReplayLots` |
| `trainer_guard` | edge mode, livelock guard of 2, no budget | `ReservationsOwned` (settled whatever raises, the one held is the trainer's), status and accounting honest, updates exact, the run ends |
| `trainer_budget` | a run resumed from a legacy checkpoint, in tree mode, budget, saves every 2 steps | trees stay whole; `SavesComplete` (no threshold skipped, a normal exit is saved) |
| `ckpt_canonical` | canonical run, a crash anywhere, two restarts | markers tell the truth; `RestartsOneHistory` (ages not negative, the merged live state is of this model); refinement of `SnapshotStore` |
| `manifest` | canonical run with strict weight versions and counting (not raising) group checks, live state may fail to be saved, two restarts | failures disqualify for good, a valid verdict rests on observations of its own history, no restart makes a manifest valid |
| `tree` | three siblings, two queues of two, a token cap, any failure | `QueuesAttended` (no lost wakeup, no idle full queue), `ReturnedWhole` (nothing left, no fallback), the build ends, refinement of `ForkJoin` |
| `allocation` | three nodes, all modes and policies | `AllocationLawful` (bounds, redundancy), `SolvedExactly` (spends what it can, optimal) |
| `balance` | six sequences, up to four parts, both callers | parts exact, assertions hold, spread and overshoot bounded, order restored |
| `update` | two logical batches, two ranks, two epochs, static and dynamic | ranks in step, no assertion fails, steps accounted, refinement of `SingleRankUpdate`, the update ends |
| `rollout` | three rows on two workers, two generations, one update, lost probes, endpoints resolved in threads, failures | labels honest, strict runs verified, lost probes forgiven when no row is in a thread, generations end |
| `rollout_stale` | what a comment says of the gate | violated, see section 5 |
| `policy` | three iterations, three processes, three setups: cached engines with a critic, the same with a replay of edges, engines that are rebuilt, with a hybrid generator | counters agree, steps chain, what is resumed is one policy |

**Bounds and why they are enough.**

- *replay*: five edges, two questions, three trees of which one has two parent
  groups (so that a tree can be complete in one group and cut in another), two
  reservations and two iterations with `MaxAge = 2`: an edge can be held past its
  age, released, expired and its id added again, and one handle can go stale while
  the other is in force.  `Target` 3 and `Cap` 2 make both limits bite, and a tree of
  three is larger than the cap.
- *trainer*: a sample can be empty, indivisible, silent, mixed or exact; `Limit = 2`
  needs two iterations without progress in a row, of any two kinds; `Total = 3` (two
  updates from step 3 in the resumed run) lets an update come before and after them.
  `e6` belongs to the parent group of `e5` and no rollout delivers it, so a tree
  reservation can fail its parent-group assertion.  `MaxIteration`,
  `MaxReservations` and `MaxAdded` are above what a run can reach before it ends.
- *checkpoint*: two steps, four iterations and two restarts: a crash during a save
  of a new step, during a repeated save of an old one, a merge, a crash after it, and
  a second resume all fit.
- *manifest*: three iterations over all restarts and two restarts: an update that is
  checkpointed, one that a crash undoes with its live state surviving, and one that
  replaces it.
- *tree*: three siblings over two queues of two fill one queue while another times
  out, and two levels let a failure travel through a join while a sibling's subtree
  goes on; the cap is that of a uniform tree, which the queues can overrun.  Three
  levels with one queue are within the model (`MaxDepth = 3`, `QueueCount = 1`) and
  have no run of their own.
- *allocation*: dispersions include 0 and ties, budgets lie below, between and above
  the bounds, and `RepairK > MaxK`.
- *balance*: six sequences of lengths 2, 6 and 7 have an even and an odd number of
  parts, ties, parts over the limit, and for four parts a heap that merges unequal
  numbers of sequences.
- *update*: slots are ledger slots, rows whose mask keeps nothing, and rows with
  tokens; with three slots to a batch and two ranks a batch needs a dummy row or
  none, can be skipped for either reason before or after one that is not, and the
  ranks' own micro-batch counts differ (`MaxTokens = 4`, a row has up to four).  The
  slots of the second batch come in one order of their kinds only.  A group of three
  processes is one the batch was not padded for.
- *rollout*: two rows share a worker, so that one can replace the shared version
  between the other's construction and its binding, and a third row is elsewhere;
  two generations around one update give weights, fingerprints and a shared version
  of the generation before.
- *policy*: `KeepSteps = 2` keeps one old checkpoint and removes another; with three
  processes a crash during a save or a cleaning can be followed by a resume, a
  second crash and a second resume.  With cached engines the replay keeps an edge for 2
  iterations where the code has 8, so that one can be replayed and be too old; with
  rebuilt ones the hybrid generator is there for the iterations it skips and keeps
  edges for the current iteration only.  Rebuilt engines with a critic are left to the
  theorems: their parts and copies make the instance too large.

**Fairness.**  `TreeTrainer` has weak fairness of its next-state relation: the
driver is one thread, and each call it makes returns or raises.  Nothing is assumed
about which outcome.  `OnlineTree` has weak fairness of each node's coroutine, of the
timeout of each queue and of the builder: asyncio runs every ready task, the
inference engine answers or fails every request, and the worker's polling flushes a
queue that has waited for the timeout (configurations of the online mode require a
positive one).  `LogicalUpdate` has weak fairness of its next-state relation: each
process runs until it waits in a collective, and an update with steps left always
has a rank that can move.  `RolloutHandshake` has weak fairness of the trainer and of
each row: worker processes run every row they were given, and requests are answered
or time out.  There is no fairness on failures or on lost probes.  The other
specifications have no liveness properties.

## 4. What is proved

The theorems hold for every value of the constants that satisfies the named
assumptions of the modules (`EdgeAssumption`, `LimitAssumption`, `TrainerAssumption`,
`CheckpointAssumption`, `CallAssumption`, `ManifestAssumption`, `NAssumption`,
`LengthsAssumption`, `LimitsAssumption`, `MaxPartsAssumption`, `HandshakeAssumption`,
`IterationAssumption`, `OnlineTreeAssumption`, `SizesAssumption`,
`ReservationsAssumption`, `ActorAssumption`), with no bound on sizes.  Every
invariant that a passing run checks, every action property and every refinement is
among them; what remains for the model checker alone is liveness.

- **`TreeTrainerProofs`**, the buffer: type, `HoldsAccounted`, `ReservationsLawful`,
  `CountersBalance`, and that the buffer implements `ReplayLots`.  The inductive
  invariant `Inv` adds two facts: ids of handles and holds are below `nextId`
  (otherwise a new reservation could revive an old handle, which is what the
  all-edges check of `commit` relies on not happening), and no stored edge was born
  after the current iteration.  `CountersBalance` needs `Inv` because a commit counts
  the handle's edges while the buffer loses those it stores, and only an active
  handle makes them the same.  `TreesStayWhole`, if the reservation unit is
  `complete_tree`: each set an action adds, expires, reserves or releases is closed
  under being added together with an edge of the same tree.
- **`TreeTrainerProofs`**, the trainer: each behaviour of the trainer is one of the buffer's
  specification, so the buffer's theorems carry over, the refinement of `ReplayLots`
  included, and `TreesStayWhole`; `ReservationsOwned`; type; updates exact; streak
  bounded; accounting honest; `StatusHonest`; `SavesComplete`.  `SafetyInv` says in
  addition that the reservation in hand is one of the buffer's handles; `StreakInv`,
  `AccountingInv` and `StatusInv` extend the properties to the places inside an
  iteration.  `ScheduleInv` says that the next threshold is the smallest multiple of
  the interval above the steps that have passed their save, which makes the rounding
  in `fit` skip none.
- **`CheckpointProofs`**: type, `MarkedIsWhole`, and, if every restart resumes
  (section 5 shows why that is assumed), `AgesNonNegative`; `RestartsOneHistory`, if
  live states can be written; and `ImplementsStore`, the whole refinement of
  `SnapshotStore`, for canonical runs.  `SaveInv` says which files
  a save has written at each of its steps and that the directory being written is not
  marked.  `AgeInv` relates the files: a directory with edges has the trainer state
  written before them, its edges are not younger than that state, directories are
  not ahead of the trainer or the tracker.  `LiveInv` says that the live state of the
  tracker's step has that checkpoint's model although the step may have been reached
  several times: a trainer is never behind its tracker, whoever reaches the step again
  overwrites the live state before it saves, and at step 0 there is one model.  For
  the refinement, `KeptForm` reduces what a restart would read to the marked bundle of
  the tracker; its own assumption in `CheckpointAssumption`, that `None` and `Torn`
  are no snapshots, keeps the three cases apart.
- **`RolloutProofs`**, `OnlineTree`: type; `QueuesAttended`; `ReturnedWhole`; and that
  the builder implements `ForkJoin`.  `Stage` relates the three variables that say
  where a node is (coroutine, expansion, future), `Family` a node and its children,
  `Lineage` a node and everything above it, `Queued` the queues (which are disjoint,
  hold waiting nodes only and are within their capacity) and `Ending` the builder and
  the timeout worker.  `Lineage` is what makes a finished root mean something: a node
  that was expanded is done only after its children are, so that nothing below a node
  that is done can still wait.
  `OnlineTreeNeverStuck`, if queues time out: until the builder has answered, the
  guard of some step holds.  A failure travels up (the highest node that failed has a
  parent that can join or wake), and without one the lowest node that waits is in a
  queue, whose worker is alive.
- **`SolverProofs`**, `IntegerAllocation`: `AllocationLawful`, `GreedyChoice` (no branch
  given is worth less than one that could be given instead) and `SolvedExactly`, the
  optimality of the result.  `GreedyChoice` yields a price that no branch given saves
  less than and no branch still open saves more than.  At that price each node has
  the number of branches that is best for it alone; sums over the nodes compare term
  by term, and an allocation that spends as much pays the same price in total.
- **`RunManifestProofs`**: `FailuresDisqualify`, `ClaimsObserved` and
  `RestartsNeverHeal`, for any flaws, strictness and unreliability of the live state.
  `VerdictInv` says of the manifest in memory, of the checkpoint's and of the live
  state's that each counts the failures and has seen the claims of its own history
  (`Faithful`), and orders them: manifests with the same model are moments of one
  history (`Ordered`).  Without the order a merge that the code skips because the live
  state is older could lose a failure; that models are made at distinct times
  (`Clocked`) is what an update needs to keep it.
- **`SolverProofs`**, `SeqlenBalance`: type; `PartsExact` (each sequence is in exactly
  one set, and the sum kept with a set is the length of its sequences);
  `AssertionsHold`; `SpreadBounded`; `OvershootBounded`; `RestoresOrder`.  `BalanceInv`
  makes them inductive: each state is in decreasing order, its spread is at most the
  longest sequence, and the sets that are empty are those its number of sequences
  leaves (for `equal_size`: all sets have the same number).  That a merge keeps the
  spread is the argument of the differencing method: the largest set of one state
  meets the smallest of the other.  The overshoot follows from the spread, because
  the sums of all parts add up to the length of all sequences, and the number of
  parts was chosen for the limit.  The order is restored because the parts, flattened,
  are a permutation, whose inverse the code applies.
- **`LogicalUpdateProofs`**: type; `InStep`; `NeverCrashes`; `StepsAccounted`; and that
  the update implements `SingleRankUpdate`.  A first part is about the data: padding
  gives every rank `Wide(k)` rows of batch `k`; every row of a batch is dealt to one
  rank and to one place there (`RowGoesSomewhere`, `RowGoesOnce`); the chunk that the
  dispatch cuts for a rank is the list that the trainer wrote for it, although the two
  never exchange more than the number of ranks; and in a chunk the rows of a batch are
  consecutive, so that selecting them gives the share back.  So all ranks have one
  `Plan`.  `UpdateInv` says that each rank has as much of the plan behind it as
  the optimizer made steps (`OnPlan`), which ranks can be where together (`Together`),
  that the micro-batches left divide what is left of a mini-batch (`Divided`), and that
  the gradient has at full weight the slots that were in a micro-batch of any
  rank, and nothing else (`Weighted`).  `Weighted` is where the scaling by the number
  of ranks meets the average of the reduction: since a row has one place on one rank,
  a backward pass adds it once or not at all.  At the gradient norm no
  micro-batch is left, and the gradient is that of the whole batch.
  `UpdateNeverHangs`: while the update runs, a rank is between mini-batches, or all
  are in one collective, with a split of their rows to agree on.
- **`RolloutProofs`**, `RolloutHandshake`: type; `SnapshotHonest` under `FreeCacheEngine`
  (without it the replicas are never loaded again, section 5); `StrictMeansVerified`;
  `LostProbesForgiven`, for servers that are not busy, so that no endpoint is deferred
  to a thread (section 5 shows why that is assumed).  The last two need what binding
  leaves behind to survive other
  rows: a gate keeps its own verdict while the shared scorer changes, and with a
  version that does not depend on the weights every version in sight is that one or none.
  For `LostProbesForgiven` the invariant says in addition that while a row is between
  its check and its binding no other row of its worker is on the event loop, so the
  version it checked or repaired is the one it binds.
- **`PolicyIterationProofs`**: type; `IterationsAgree`; `StepsChain` and
  `ResumesOnePolicy`.  `Chain` says at each place of an iteration where the last policy
  is: in the engines, in the part of the temporary checkpoint already written, on the
  path kept for the next step, from which the inference server loads too.  Where the
  episodes come from does not matter to the chain, and nothing is claimed of it
  (section 5).  `NoCopies` (no background copy with cached engines)
  keeps other writers out of the directory being saved.  `Sound` says that
  every permanent checkpoint has parts of one policy, and engines only beside the
  trainer state and weights that are written before them; cleanings, whole or cut,
  only take parts away.

Parts of these are theorems of their own (`HeldEdgesStored`, `HandleAllOrNothing`,
`NoOrphanHold`, `WithinLimits`, `FreshWhenReserved`, `StreakBounded`, `WithinBounds`,
`RedundancyRespected`).

**How sums and lists are handled.**  The operators of the community modules for sums
(`SumFunction`) and flattening (`FlattenSeq`) are recursive functions over sets and
numbers.  `ListTheorems` proves that a function with such an equation exists and is
unique on finite sets, and from that the usual laws (one term apart, monotone, linear,
over a disjoint union, under a renaming), each by induction on subsets in a form that
takes a set for its predicate.  Sorted lists are defined in `Listing` by rank instead
of with `SortSeq`, whose recursion the proofs cannot look into; TLC evaluates the same
definitions.

**Only model-checked.**  Liveness (`Terminates`, `BuildEnds`, `UpdateEnds`,
`GenerationEnds`): the prover has no fairness and no `ENABLED`.  What is proved of
`BuildEnds` and `UpdateEnds` is that nothing is ever stuck, with the guards written out
(`OnlineTreeNeverStuck`, `UpdateNeverHangs`).  `rollout_stale` is a counterexample
and needs no proof.

## 5. Where the code and its documentation disagree

`rollout_stale`: the trainer fetches the version of the rollout server before
`generate_sequences` wakes the replicas and loads the actor's weights.  After an
update the version is that of the old weights, and a separate scorer that still
holds them passes the strict gate while the tree is sampled with the new ones,
against the comment at `gear_ray_trainer.py:583-588`.

The following have a definition in a module and no run; adding it to the cfg named
shows the counterexample:

- `AgesNonNegative` in `MCCheckpoint` with `Canonical = FALSE` and `ResumeModes =
  {"auto", "disable"}`: with `resume_mode: disable` in a directory that has a
  `global_step_0` bundle, the replay is loaded but the rollout counter starts at 0, so
  ages are negative (`gear_ray_trainer.py:386`), against the comments at 399-401 and
  `trainer_state.py:157-158`.
- `TrackerNamesWhole` in `MCCheckpoint_canonical.cfg`: the tracker is rewritten in
  place before the files the gear-tree trainer adds, so a crash leaves it empty or
  naming a bundle that a canonical resume refuses; the comment at
  `verl/verl/trainer/ppo/ray_trainer.py:831` calls it "for atomic usage".
- `RestartsOneHistory` in the same cfg with `LiveMayFail = TRUE`: when the best-effort
  live state cannot be written, an older one of lost updates may be merged, which
  `ClaimsObserved` shows to be harmless to the verdict.
- `ProbesRedundant` in `MCRollout_generations.cfg`: a row whose endpoint was deferred
  rebuilds its gate in an executor thread, under a lock that is its own.  When its
  probe is lost it writes `None` to the scorer that all rows of the process share
  (`async_tree_rollout.py:1065-1066`), also between another row's repair of that
  version (833-841) and the read in `bind_snapshot` (`gear_gate.py:219-221`); the
  strict gate then refuses a row whose own probe the comment at 826-830 calls
  redundant, although the docstring at 675 says that the lock serializes the callers.
- `FromScratch` in `MCPolicy_restarts.cfg`: strategies that may cache their trees
  (`no_cache` is off by default and in the shipped `spo_tree` configurations; the
  shipped PPO and `spo_chain` ones set it) take a question's tree from what a killed
  process left of the iteration (`tree_inference_strategy.py:199-208`,
  `hybrid_inference_strategy.py:242-253`).  When the restart redoes an earlier
  iteration first, those trees are of a policy that no longer exists, although the
  generators log "Always generating from scratch"
  (`math_episode_generator_with_group_advantages.py:66`,
  `hybrid_episode_generator.py:154`) before they sample "from the current policy".  A
  process without edges or episodes of its own hands on the `edges_ds_temp` or shard
  it left, with the same effect (`hybrid_episode_generator.py:1001-1015`,
  `on_policy_episode_generator.py:380-420`).
- `UnderCap` in `MCOnlineTree_tree.cfg`: the shared token cap is read before an
  `await` and charged after it (`tree_rollout.py:971`); the tree spends more than the cap.
- `CappedNodesGraded` in the same cfg: a node whose estimate used up the cap gets no
  branch and no grade.
- `CountsRealSteps` in `MCLogicalUpdate_ranks.cfg`: a step dropped because its norm is
  not finite is counted (`dp_actor.py:789`), although the comments at 555-556 and 793
  speak of actual optimizer steps.
- `TokenLimit` in `MCSeqlenBalance_parts.cfg`: a micro-batch may exceed
  `max_token_len`, which the docstring of `rearrange_micro_batches` calls the maximum;
  `OvershootBounded` says by how much.
- `StateInitial` in `MCPolicy_restarts.cfg`: without cached engines an iteration
  without data may leave a step with nothing to load and a state that is not the
  initial one; the assertion at `ppo_trainer.py:419-421` then ends the run.

Observed while modelling, each a behaviour of the model that no property forbids:

- Rollout: in same-server mode with servers that report their weights, a strict gate
  refuses the first generation after an update, because the version was fetched before
  the load.  With `strict_vdra` off, a row whose scorer is silent is marked verified,
  a setup with only a scorer compares it with itself, and the manifest's bit is
  overwritten by each generation, so one unverified generation is forgotten
  (`gear_ray_trainer.py:592`), although `run_manifest.py:252` calls such a run invalid.
  With `free_cache_engine` off the replicas never load the actor's weights again.
- Legacy loop: a hybrid generator stamps edges with the iteration that reads their
  tree (`hybrid_episode_generator.py:31-35`), so the age limit of its replay does not
  count the time a leftover tree lay on disk; the replay itself is lost with the
  process.  Old checkpoints are cleaned before the new one is saved, so a crash in
  between leaves none that can be resumed; a removal or a save that was cut short can
  leave a directory that counts as resumable without its trainer state, and every
  later start fails on it (likewise a torn directory of episodes); the background
  `cp` may find its temporary source cleaned and leave a partial permanent
  checkpoint; the final checkpoint may name such a one, or fail when there is none.
- `core.py:318-324` says that the policy `error` falls back to what is feasible, the
  code raises; `online_budget.py:239-241` calls the spending exact where the solver
  reports slack; `_finalize_successful_actor_update` sets
  `segment_count_invariants_passed` from the group counter alone although
  `manifest_lifecycle.py:227-236` ties it to construction facts (the failure counter
  still disqualifies the run, as `FailuresDisqualify` shows); edges that a zero-signal
  skip consumed after the checkpoint are in the replay again after a resume
  (`gear_ray_trainer.py:1181`).

## 6. What is not modelled

Most of the repository's lines are code that a transition system adds nothing to:
tensor kernels, model definitions, engines and workers of the vendored `verl` and
`guidance` that the recipe does not run, the other trainers of `treetune`, evaluation
scripts and configurations.  They are left out on purpose; mapping them would mean
renaming arithmetic.

In the recipe: contents of records and tensors, advantages and losses, real-valued
estimates, report writing, configuration parsing and evaluation.  In the modelled
parts: resuming from a named path, HDFS, deletion of old actor files;
`weighted_reuse` expansion, the depth-batch and uniform tree builders; the unused
reserve pool and the direct solver; floating-point rounding of gains; the manifest's
configuration fields and the node-balanced ablation; the retries inside a request to
an inference server; entropy and KL terms of an update, and its other
objectives; two rows of a process that both find no cached scorer and make one each,
which leaves them less to share; live states of older code.  In the legacy loop:
the off-policy replay buffer, which no configuration names;
early stopping (it acts like a smaller number of iterations), evaluation, several
processes at a barrier (one stands for all), the inference servers, and
`get_episodes_w_actor_logps`'s second use of the checkpoint to load.

## 7. Plan

Done, in this order: the buffer and its contract; the trainer over it; the
checkpoint files and their contract; the tree builder and its contract; the integer
allocation; the manifest; the rollout handshake; the logical update and its contract;
sequence balancing; the legacy policy iteration.  Next:

1. The depth-batch builder, against the same `ForkJoin`.
2. Proofs: the converse of the findings of section 5, that is, the weakest
   assumptions under which the properties listed there hold (`UnderCap` with one
   node at a time, `TrackerNamesWhole` without a crash in a save).
