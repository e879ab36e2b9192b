------------------------------ MODULE TreeTrainer ------------------------------
(***************************************************************************)
(* RayGearTreeTrainer.fit (verl/recipe/gear_tree/gear_ray_trainer.py): one *)
(* rollout iteration generates edges, puts them into the replay buffer,    *)
(* reserves some of them, and either updates the actor on the reservation  *)
(* or records why it made no progress.  The buffer is the module           *)
(* ReplayBuffer; every trainer step that touches it takes one of its       *)
(* actions.  `iteration` of the buffer is the trainer's rollout_iteration, *)
(* `pc` the place in the loop.  A handler that raises ends the run.        *)
(* Definitions named ...Mutant are one-line bugs of the definition that    *)
(* follows; they show that a property notices them and are used nowhere.   *)
(***************************************************************************)
EXTENDS ReplayBuffer

CONSTANTS
  Unit,       \* replay_sampling_unit of the configuration
  Silent,     \* edges without a learning signal (zero advantage, no token)
  MiniBatch,  \* ppo_mini_batch_size
  Total,      \* total_training_steps
  Start,      \* the global step the run starts from (0, or a legacy checkpoint's)
  SaveFreq,   \* save_freq; <= 0 disables periodic checkpoints
  Limit,      \* max_consecutive_nonprogress_iterations; 0 disables the guard
  Budget      \* max_rollout_iterations; 0 disables it

ASSUME TrainerAssumption ==
  /\ Unit \in Units
  /\ Silent \subseteq Edge
  /\ MiniBatch \in Nat \ {0} /\ Target % MiniBatch = 0  \* _validate_replay_startup
  /\ Total \in Nat /\ Start \in Nat /\ SaveFreq \in Int
  /\ Limit \in Nat /\ Budget \in Nat

NoReservation == [id |-> 0, ids |-> {}, unit |-> Unit]

VARIABLES
  pc,           \* loop, generate, reserve, decide, updated, done, raised
  status,       \* run_manifest.last_iteration_status
  globalStep,   \* global_steps
  count,        \* successful_actor_updates, postponed, failed, skipped
  streak,       \* consecutive_nonprogress_iterations
  reservation,  \* the ReplayReservation of this iteration
  nextSave,     \* next_save_step
  bundles,      \* complete checkpoint bundles by global step
  accounting,   \* optimizer-step accounting of the manifest
  touched,      \* history: update_actor was called in this iteration
  lastUpdate    \* history: the iteration of the last successful update

trainerVars == <<pc, status, globalStep, count, streak, reservation, nextSave,
                 bundles, accounting, touched, lastUpdate>>
fitVars == <<vars, trainerVars>>

-----------------------------------------------------------------------------
(* initial_next_threshold and advance_past_thresholds; a run whose          *)
(* thresholds are disabled keeps 0 for None.                                *)
FirstThreshold(step) == IF SaveFreq <= 0 THEN 0 ELSE (step \div SaveFreq + 1) * SaveFreq

CrossedMutant(before, now) ==  \* a threshold that is hit exactly is missed
  IF SaveFreq <= 0 THEN {}
  ELSE {k \in nextSave .. now - 1 : before < k /\ (k - nextSave) % SaveFreq = 0}

Crossed(before, now) ==
  IF SaveFreq <= 0 THEN {}
  ELSE {k \in nextSave .. now : before < k /\ (k - nextSave) % SaveFreq = 0}

(* _save_vdra_checkpoint_bundle, the files aside: module CheckpointBundle.  *)
SaveBundle ==
  bundles' = [s \in DOMAIN bundles \cup {globalStep} |->
                IF s = globalStep
                  THEN [iteration |-> iteration', edges |-> edges', streak |-> streak']
                  ELSE bundles[s]]

BudgetSpentMutant == FALSE  \* the configured budget is ignored
BudgetSpent == Budget > 0 /\ iteration >= Budget
Running == globalStep < Total /\ ~BudgetSpent

(* A fresh run, or one that resumes a legacy checkpoint, which has a global  *)
(* step but no trainer state: _load_checkpoint leaves iteration and counters *)
(* at zero and the buffer is reset.  What a canonical resume restores is     *)
(* module CheckpointBundle.                                                  *)
TrainerInit ==
  /\ Init
  /\ pc = "loop"
  /\ status = "NOT_STARTED"
  /\ globalStep = Start
  /\ count = [updated |-> 0, postponed |-> 0, failed |-> 0, skipped |-> 0]
  /\ streak = 0
  /\ reservation = NoReservation
  /\ nextSave = FirstThreshold(Start)
  /\ bundles = [s \in {} |-> 0]
  /\ accounting = [observed |-> 0, failures |-> 0, unverifiable |-> 0, valid |-> FALSE]
  /\ touched = FALSE
  /\ lastUpdate = 0

-----------------------------------------------------------------------------
StartIteration ==
  /\ pc = "loop" /\ Running
  /\ NextIteration
  /\ pc' = "generate"
  /\ status' = "RUNNING"
  /\ touched' = FALSE
  /\ reservation' = NoReservation
  /\ UNCHANGED <<globalStep, count, streak, nextSave, bundles, accounting, lastUpdate>>

(* The loop ends: the final bundle is saved, or saving it raises. *)
Finish ==
  /\ pc = "loop" /\ ~Running
  /\ UNCHANGED <<vars, status, globalStep, count, streak, reservation, nextSave,
                 accounting, touched, lastUpdate>>
  /\ \/ pc' = "done" /\ SaveBundle
     \/ pc' = "raised" /\ UNCHANGED bundles

(* Rollout, construction validation and replay_buffer.add. *)
Generate ==
  /\ pc = "generate"
  /\ \E B \in Batches : Add(B)
  /\ pc' = "reserve"
  /\ UNCHANGED <<status, globalStep, count, streak, reservation, nextSave, bundles,
                 accounting, touched, lastUpdate>>

(* Any of them raises; fit's handler turns RUNNING into a failure. *)
Fail(newStatus) ==
  /\ pc' = "raised"
  /\ status' = newStatus
  /\ UNCHANGED <<globalStep, streak, reservation, nextSave, bundles, accounting,
                 lastUpdate>>

GenerateRaises ==
  /\ pc = "generate"
  /\ Fail("FAILED_BEFORE_ACTOR")
  /\ UNCHANGED <<vars, count, touched>>

ReserveEdges ==
  /\ pc = "reserve"
  /\ \E S \in SUBSET Free :
       /\ Reserve(Unit, S)
       /\ reservation' = [id |-> nextId, ids |-> S, unit |-> Unit]
  /\ pc' = "decide"
  /\ UNCHANGED <<status, globalStep, count, streak, nextSave, bundles, accounting,
                 touched, lastUpdate>>

ReservingRaises ==
  /\ pc = "reserve" /\ Unit = "complete_tree"
  /\ ReserveRaises
  /\ Fail("FAILED_BEFORE_ACTOR")
  /\ UNCHANGED <<count, touched>>

NonProgressCountMutant(newStatus) ==  \* a NO_SAMPLE iteration is not counted
  /\ status' = newStatus
  /\ streak' = streak + (IF newStatus = "NO_SAMPLE" THEN 0 ELSE 1)
  /\ UNCHANGED <<accounting, bundles, globalStep, reservation, nextSave, touched, lastUpdate>>
  /\ pc' = IF Limit > 0 /\ streak + 1 >= Limit THEN "raised" ELSE "loop"

NonProgressGuardMutant(newStatus) ==  \* the guard forgets what it counted
  /\ status' = newStatus
  /\ streak' = 0
  /\ UNCHANGED <<accounting, bundles, globalStep, reservation, nextSave, touched, lastUpdate>>
  /\ pc' = IF Limit > 0 /\ streak + 1 >= Limit THEN "raised" ELSE "loop"

(* _record_nonprogress_iteration and _enforce_livelock_guards: at the limit *)
(* the bundle is saved if it can be, and the run aborts.                    *)
NonProgress(newStatus) ==
  /\ status' = newStatus
  /\ streak' = streak + 1
  /\ accounting' = [accounting EXCEPT !.valid = @ /\ accounting.observed > 0]
  /\ IF Limit > 0 /\ streak + 1 >= Limit
       THEN pc' = "raised" /\ (SaveBundle \/ UNCHANGED bundles)
       ELSE pc' = "loop" /\ UNCHANGED bundles
  /\ UNCHANGED <<globalStep, reservation, nextSave, touched, lastUpdate>>

(* An empty reservation is neither committed nor rolled back. *)
NoSample ==
  /\ pc = "decide" /\ reservation.ids = {}
  /\ UNCHANGED <<vars, count>>
  /\ NonProgress("NO_SAMPLE")

IndivisibleMutant == FALSE  \* a tail batch is trained on

(* should_postpone_sampled_update, postpone_until_divisible. *)
Indivisible == Cardinality(reservation.ids) % MiniBatch # 0
Proceeds == pc = "decide" /\ reservation.ids # {} /\ ~Indivisible

PostponeMutant ==  \* the reservation is forgotten
  /\ pc = "decide" /\ Indivisible
  /\ UNCHANGED vars
  /\ count' = [count EXCEPT !.postponed = @ + 1]
  /\ NonProgress("POSTPONED")

Postpone ==
  /\ pc = "decide" /\ Indivisible
  /\ Rollback(reservation)
  /\ count' = [count EXCEPT !.postponed = @ + 1]
  /\ NonProgress("POSTPONED")

(* Replay validation or tensorization raises. *)
BatchRejected ==
  /\ Proceeds
  /\ Rollback(reservation)
  /\ Fail("FAILED_BEFORE_ACTOR")
  /\ UNCHANGED <<count, touched>>

SkipZeroSignalMutant ==  \* a status outside the taxonomy
  /\ Proceeds /\ reservation.ids \subseteq Silent
  /\ Commit(reservation)
  /\ count' = [count EXCEPT !.skipped = @ + 1]
  /\ NonProgress("SKIPPED")

(* No logical batch has a signal: the edges are consumed without the actor. *)
SkipZeroSignal ==
  /\ Proceeds /\ reservation.ids \subseteq Silent
  /\ Commit(reservation)
  /\ count' = [count EXCEPT !.skipped = @ + 1]
  /\ NonProgress("ZERO_SIGNAL_SKIPPED")

ActorFailsHoldMutant ==  \* no rollback
  /\ Proceeds /\ ~(reservation.ids \subseteq Silent)
  /\ UNCHANGED vars
  /\ count' = [count EXCEPT !.failed = @ + 1]
  /\ touched' = TRUE
  /\ Fail("ACTOR_FAILED")

ActorFailsStatusMutant ==  \* reported like a failure of the rollout
  /\ Proceeds /\ ~(reservation.ids \subseteq Silent)
  /\ Rollback(reservation)
  /\ count' = [count EXCEPT !.failed = @ + 1]
  /\ touched' = TRUE
  /\ Fail("FAILED_BEFORE_ACTOR")

(* update_actor raises: the model may have changed, the edges return. *)
ActorFails ==
  /\ Proceeds /\ ~(reservation.ids \subseteq Silent)
  /\ Rollback(reservation)
  /\ count' = [count EXCEPT !.failed = @ + 1]
  /\ touched' = TRUE
  /\ Fail("ACTOR_FAILED")

AccountMutant(report) ==  \* a later good report hides an unparsed one
  LET a == accounting
      seen == a.observed + (IF report = "unparsed" THEN 0 ELSE 1)
      bad  == a.failures + (IF report = "mismatch" THEN 1 ELSE 0)
  IN [observed |-> seen, failures |-> bad,
      unverifiable |-> a.unverifiable + (IF report = "unparsed" THEN 1 ELSE 0),
      valid |-> report # "unparsed" /\ bad = 0]

(* _finalize_successful_actor_update.  The actor reports the expected       *)
(* number of optimizer steps, another number, or nothing that parses.       *)
Account(report) ==
  LET a == accounting
      seen == a.observed + (IF report = "unparsed" THEN 0 ELSE 1)
      bad  == a.failures + (IF report = "mismatch" THEN 1 ELSE 0)
      lost == a.unverifiable + (IF report = "unparsed" THEN 1 ELSE 0)
  IN [observed |-> seen, failures |-> bad, unverifiable |-> lost,
      valid |-> IF report = "unparsed" THEN FALSE
                ELSE seen > 0 /\ bad = 0 /\ lost = 0]

ActorSucceeds(report) ==
  /\ Proceeds /\ ~(reservation.ids \subseteq Silent)
  /\ Commit(reservation)
  /\ pc' = "updated"
  /\ status' = "UPDATED"
  /\ streak' = 0
  /\ count' = [count EXCEPT !.updated = @ + 1]
  /\ globalStep' = globalStep + 1
  /\ accounting' = Account(report)
  /\ touched' = TRUE
  /\ lastUpdate' = iteration
  /\ UNCHANGED <<reservation, nextSave, bundles>>

AfterUpdateMutant ==  \* the last step is saved only when it crosses a threshold
  /\ pc = "updated"
  /\ UNCHANGED <<vars, status, globalStep, count, streak, reservation, accounting,
                 touched, lastUpdate>>
  /\ LET crossed == Crossed(globalStep - 1, globalStep)
     IN /\ nextSave' = nextSave + Cardinality(crossed) * SaveFreq
        /\ pc' = IF globalStep >= Total THEN "done" ELSE "loop"
        /\ IF crossed # {} THEN SaveBundle ELSE UNCHANGED bundles

(* Thresholds are advanced, a crossed one or the last step saves a bundle,  *)
(* and the last step leaves fit without passing the loop's end.  Validating *)
(* the model or saving it may raise.                                        *)
AfterUpdate ==
  /\ pc = "updated"
  /\ UNCHANGED <<vars, status, globalStep, count, streak, reservation, accounting,
                 touched, lastUpdate>>
  /\ LET crossed == Crossed(globalStep - 1, globalStep)
         last == globalStep >= Total
     IN /\ nextSave' = nextSave + Cardinality(crossed) * SaveFreq
        /\ \/ pc' = "raised" /\ UNCHANGED bundles
           \/ /\ pc' = IF last THEN "done" ELSE "loop"
              /\ IF SaveFreq > 0 /\ (crossed # {} \/ last)
                   THEN SaveBundle ELSE UNCHANGED bundles

TrainerNext ==
  \/ StartIteration
  \/ Finish
  \/ Generate
  \/ GenerateRaises
  \/ ReserveEdges
  \/ ReservingRaises
  \/ NoSample
  \/ Postpone
  \/ BatchRejected
  \/ SkipZeroSignal
  \/ ActorFails
  \/ \E report \in {"expected", "mismatch", "unparsed"} : ActorSucceeds(report)
  \/ AfterUpdate

TrainerSpec == TrainerInit /\ [][TrainerNext]_fitVars

(* The driver is one thread: it goes on unless a call never returns. *)
FairTrainerSpec == TrainerSpec /\ WF_fitVars(TrainerNext)

-----------------------------------------------------------------------------
TrainerTypeOK ==
  /\ TypeOK
  /\ pc \in {"loop", "generate", "reserve", "decide", "updated", "done", "raised"}
  /\ status \in {"NOT_STARTED", "RUNNING", "UPDATED", "NO_SAMPLE", "POSTPONED",
                 "ZERO_SIGNAL_SKIPPED", "FAILED_BEFORE_ACTOR", "ACTOR_FAILED"}
  /\ globalStep \in Nat /\ streak \in Nat /\ nextSave \in Int /\ lastUpdate \in Nat
  /\ count \in [{"updated", "postponed", "failed", "skipped"} -> Nat]
  /\ reservation \in [id : Nat, ids : SUBSET Edge, unit : {Unit}]
  /\ DOMAIN bundles \subseteq Nat
  /\ accounting \in [observed : Nat, failures : Nat, unverifiable : Nat, valid : BOOLEAN]
  /\ touched \in BOOLEAN

(* Whatever raised and wherever, an edge is held only while an iteration    *)
(* decides about it: the loop, a checkpoint, a normal or an aborted end of  *)
(* the run find nothing held (the buffer does not save its reservations).   *)
ReservationsSettled == pc # "decide" => Held = {}

(* While the trainer decides, exactly its own reservation is held. *)
ReservationInHand == pc = "decide" => Held = reservation.ids /\ Active(reservation)

(* The buffer holds the reservation the trainer decides about, whole, and   *)
(* nothing else: no outcome leaks edges into the next iteration.            *)
ReservationsOwned == ReservationsSettled /\ ReservationInHand

(* The livelock guard counts the iterations since the last actor update,    *)
(* whatever they were, and the loop never goes on at the limit.             *)
StreakBounded ==
  pc = "loop" =>
    /\ streak = iteration - lastUpdate
    /\ Limit > 0 => streak < Limit

(* The status a run leaves behind says what happened to the model and to    *)
(* the reserved edges.                                                      *)
StatusHonest ==
  /\ pc \in {"loop", "updated", "done", "raised"} => status # "RUNNING"
  /\ status = "UPDATED" => streak = 0 /\ reservation.ids \cap Stored = {}
  /\ pc = "raised" =>
       CASE status = "FAILED_BEFORE_ACTOR" -> ~touched
         [] status = "ACTOR_FAILED" -> touched /\ reservation.ids \subseteq Stored
         [] status \in {"NO_SAMPLE", "POSTPONED", "ZERO_SIGNAL_SKIPPED"} ->
              ~touched /\ (Running => Limit > 0 /\ streak >= Limit)
         [] OTHER -> TRUE

(* Every successful update is accounted for once, and the accounting is     *)
(* valid only if each of them reported the expected number of steps.        *)
AccountingHonest ==
  /\ accounting.observed + accounting.unverifiable = count.updated
  /\ accounting.valid =>
       accounting.failures = 0 /\ accounting.unverifiable = 0 /\ count.updated > 0

(* No save_freq threshold is skipped: a run that goes on has a bundle of    *)
(* every multiple it passed, and waits for the first one above.             *)
SaveOnSchedule ==
  pc = "loop" /\ SaveFreq > 0 =>
    /\ \A k \in Start + 1 .. globalStep : k % SaveFreq = 0 => k \in DOMAIN bundles
    /\ nextSave = FirstThreshold(globalStep)

(* A run that ends normally leaves a bundle of its last state (one that     *)
(* reaches the last step with checkpoints disabled does not).               *)
ExitIsSaved ==
  pc = "done" /\ (SaveFreq > 0 \/ globalStep < Total) =>
    /\ globalStep \in DOMAIN bundles
    /\ bundles[globalStep] = [iteration |-> iteration, edges |-> edges, streak |-> streak]

(* No state that the configuration asks to save is lost, on the way or at   *)
(* the end.                                                                 *)
SavesComplete == SaveOnSchedule /\ ExitIsSaved

(* A step of the actor consumes a non-empty whole number of mini-batches of *)
(* unexpired edges, at least one with a signal: no tail optimizer batch.    *)
UpdatesExact ==
  [][globalStep' # globalStep =>
       LET used == Stored \ DOMAIN edges'
       IN /\ globalStep' = globalStep + 1
          /\ Cardinality(used) \in 1 .. Target
          /\ Cardinality(used) % MiniBatch = 0
          /\ ~(used \subseteq Silent)
          /\ \A e \in used : iteration - edges[e] < MaxAge]_fitVars

(* With the guard or the budget set, the run ends, however edges, failures  *)
(* and zero-signal batches fall.                                            *)
Terminates == <>(pc \in {"done", "raised"})
===============================================================================
