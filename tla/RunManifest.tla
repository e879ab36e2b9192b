------------------------------ MODULE RunManifest ------------------------------
(***************************************************************************)
(* The manifest a gear-tree run carries beside its metrics, and its verdict*)
(* (run_manifest.py, manifest_lifecycle.py and the places of               *)
(* gear_ray_trainer.py that write it).  Failures are counted, observations *)
(* are latched, and both must survive checkpoints, crashes and the merge   *)
(* of the live state.  An iteration is cut into the steps that write the   *)
(* manifest; what else it does is module TreeTrainer, and a checkpoint is  *)
(* the whole snapshot that module CheckpointBundle shows a resume finds.   *)
(* The configuration is a canonical one: its fields never refuse a run.    *)
(* Definitions named ...Mutant are one-line bugs of the definition that    *)
(* follows; they show that a property notices them and are used nowhere.   *)
(***************************************************************************)
EXTENDS Naturals, FiniteSets

CONSTANTS
  StrictVdra,    \* gear.strict_vdra: no generation without a weight version
  StrictGroups,  \* tree_policy.strict_group_integrity: a failed check raises
  LiveMayFail,   \* whether _save_live_state_best_effort may fail
  Findings,      \* sets of flaws a generated batch may have
  MaxWork,       \* bound on iterations over all restarts
  MaxRestart,    \* bound on restarts
  None           \* no checkpoint, no live state

(* What the construction checks may find wrong with a generated batch.      *)
(* Rows: unrealized allocations, missing or duplicate ids, pruned rows.     *)
Flaws == {"group", "queue", "identity", "rows"}

ASSUME ManifestAssumption ==
  /\ Findings \subseteq SUBSET Flaws
  /\ StrictVdra \in BOOLEAN /\ StrictGroups \in BOOLEAN /\ LiveMayFail \in BOOLEAN
  /\ MaxWork \in Nat /\ MaxRestart \in Nat

(* What a history may contain. *)
Events == Flaws \cup {"batch", "tensorized", "update", "stored"}

Failures == {"integrity", "segments", "batches"}
Claims == {"claimed", "stored", "verified", "whole", "stamped", "identified"}

VARIABLES
  mem,      \* the manifest in memory
  pc,       \* the place in an iteration, or "down"
  ckpt,     \* the manifest of the checkpoint a resume would load
  live,     \* the manifest fields of the live state
  work,     \* iterations so far, over all restarts
  restarts

vars == <<mem, pc, ckpt, live, work, restarts>>

(* count: group_integrity, segment_count and replay_batch failures.         *)
(* true: the claims that are set: segment_count_invariants_passed,          *)
(* stored_old_log_probs_used, rollout_scorer_weights_verified,              *)
(* no_truncation, replay_age_uses_rollout_iteration,                        *)
(* unique_tree_ids_verified.  denominator: observed_logical_denominator.    *)
(* seen and model are history: the events of the iterations the manifest    *)
(* stands for, and when the model was made (by an update or a fresh start). *)
Fresh == [count |-> [f \in Failures |-> 0], true |-> {}, denominator |-> FALSE,
          step |-> 0, iteration |-> 0, model |-> 0, seen |-> {}]

Init ==
  /\ mem = Fresh
  /\ pc = "idle"
  /\ ckpt = None
  /\ live = None
  /\ work = 0
  /\ restarts = 0

disk == <<ckpt, live, restarts>>

(* Grows with every iteration and every restart. *)
Now == work + restarts

(* validate_main_run. *)
Valid(m) ==
  /\ m.step >= 1
  /\ \A f \in Failures : m.count[f] = 0
  /\ m.true = Claims
  /\ m.denominator

-----------------------------------------------------------------------------
Set(claim, holds) == IF holds THEN mem.true \cup {claim} ELSE mem.true \ {claim}

(* The rollout server's weight version is fetched before the generation;    *)
(* without one a strict run raises.                                         *)
Fetch(ok) ==
  /\ pc = "idle" /\ work < MaxWork
  /\ work' = work + 1
  /\ mem' = [mem EXCEPT !.iteration = @ + 1,
                        !.true = IF StrictVdra /\ ~ok THEN @ ELSE Set("verified", ok)]
  /\ pc' = IF StrictVdra /\ ~ok THEN "raising" ELSE "generated"
  /\ UNCHANGED disk

One(condition) == IF condition THEN 1 ELSE 0

(* update_manifest_from_generated_edges with the flaws it finds.  A strict  *)
(* check that raises counts one failure of either kind before it does.      *)
Construct(F) ==
  LET raised == StrictGroups /\ F \ {"identity"} # {}
      integrity == IF raised THEN 1 ELSE One("group" \in F) + One("identity" \in F)
      segments == IF raised THEN 1 ELSE One("queue" \in F)
      raises == StrictGroups /\ F # {}
  IN /\ pc = "generated"
     /\ mem' = [mem EXCEPT
          !.count.integrity = @ + integrity,
          !.count.segments = @ + segments,
          !.true = IF raised THEN @
                   ELSE Set("identified", "identity" \notin F) \cup
                        (IF raises \/ F \cap {"queue", "rows"} # {} THEN {} ELSE {"claimed"}),
          !.seen = @ \cup F]
     /\ pc' = IF raises THEN "raising" ELSE "constructed"
     /\ UNCHANGED <<disk, work>>

(* A rollout without a tree is not checked. *)
EmptyRollout ==
  /\ pc = "generated"
  /\ pc' = "constructed"
  /\ UNCHANGED <<mem, disk, work>>

(* The rollout, the buffer, a reservation, the tensorization or the actor.  *)
Raise ==
  /\ pc \in {"generated", "constructed", "sampled", "tensorized"}
  /\ pc' = "raising"
  /\ UNCHANGED <<mem, disk, work>>

NoProgress ==
  /\ pc = "constructed"
  /\ pc' = "ended"
  /\ UNCHANGED <<mem, disk, work>>

(* update_manifest_from_replay_batch: a bad batch is counted, and trained   *)
(* on unless the run is strict.                                             *)
Sample(bad) ==
  LET raises == bad /\ StrictGroups
  IN /\ pc = "constructed"
     /\ mem' = [mem EXCEPT !.count.batches = @ + One(bad),
                           !.true = IF raises THEN @ ELSE @ \cup {"stamped"},
                           !.seen = IF bad THEN @ \cup {"batch"} ELSE @]
     /\ pc' = IF raises THEN "raising" ELSE "sampled"
     /\ UNCHANGED <<disk, work>>

(* _edges_to_update_batch: a batch without a signal never becomes a tensor. *)
SkipZeroSignal ==
  /\ pc = "sampled"
  /\ mem' = [mem EXCEPT !.denominator = TRUE]
  /\ pc' = "ended"
  /\ UNCHANGED <<disk, work>>

Tensorize ==
  /\ pc = "sampled"
  /\ mem' = [mem EXCEPT !.denominator = TRUE, !.true = @ \cup {"whole"},
                        !.seen = @ \cup {"tensorized"}]
  /\ pc' = "tensorized"
  /\ UNCHANGED <<disk, work>>

(* _finalize_successful_actor_update; the actor's metrics may not parse.    *)
Update(parsed) ==
  /\ pc = "tensorized"
  /\ mem' = [mem EXCEPT
       !.step = @ + 1,
       !.model = Now,
       !.true = @ \cup (IF parsed THEN {"stored"} ELSE {})
                  \cup (IF mem.count.integrity = 0 THEN {"claimed"} ELSE {}),
       !.seen = @ \cup {"update"} \cup (IF parsed THEN {"stored"} ELSE {})]
  /\ pc' = "updated"
  /\ UNCHANGED <<disk, work>>

-----------------------------------------------------------------------------
(* The live state, best effort, after every iteration and every exception.  *)
SaveLive == live' \in {mem} \cup (IF LiveMayFail THEN {live} ELSE {})

(* After an update a threshold may save a bundle; without one the livelock  *)
(* guard may abort the run, saving what it can.                             *)
EndIteration ==
  /\ pc \in {"ended", "updated"}
  /\ SaveLive
  /\ \/ pc' = "idle" /\ UNCHANGED ckpt
     \/ pc = "updated" /\ pc' = "idle" /\ ckpt' = mem
     \/ pc = "ended" /\ pc' = "down" /\ ckpt' \in {ckpt, mem}
  /\ UNCHANGED <<mem, work, restarts>>

EndRun ==
  /\ pc \in {"idle", "raising"}
  /\ SaveLive
  /\ pc' = "down"
  /\ ckpt' = IF pc = "idle" THEN mem ELSE ckpt
  /\ UNCHANGED <<mem, work, restarts>>

Crash ==
  /\ pc # "down"
  /\ pc' = "down"
  /\ UNCHANGED <<mem, disk, work>>

(* _load_checkpoint keeps a live state of the checkpoint's step that is not *)
(* older than it for _merge_pending_live_state.                             *)
Mergeable ==
  /\ live # None
  /\ live.step = ckpt.step
  /\ live.iteration >= ckpt.iteration

Larger(j, k) == IF j < k THEN k ELSE j

(* The events a resumed run stands for: those of the checkpoint, and those  *)
(* of the iterations with the same model that the live state reports.       *)
Lineage ==
  ckpt.seen \cup (IF live # None /\ live.model = ckpt.model THEN live.seen ELSE {})

MergedMutant ==  \* the live state's counters are not merged
  [ckpt EXCEPT !.true = IF Mergeable THEN @ \cap live.true ELSE @,
               !.iteration = IF Mergeable THEN live.iteration ELSE @,
               !.seen = Lineage]

MergedClaimsMutant ==  \* a claim of either one stands
  [ckpt EXCEPT !.count = [f \in Failures |->
                            IF Mergeable THEN Larger(@[f], live.count[f]) ELSE @[f]],
               !.true = IF Mergeable THEN @ \cup live.true ELSE @,
               !.iteration = IF Mergeable THEN live.iteration ELSE @,
               !.seen = Lineage]

(* _merge_live_manifest_provenance, of a live state that this code wrote: it *)
(* has the claims, which an older file may lack (_provenance_booleans_       *)
(* present), and then the checkpoint's claims would stand.                   *)
Merged ==
  [ckpt EXCEPT !.count = [f \in Failures |->
                            IF Mergeable THEN Larger(@[f], live.count[f]) ELSE @[f]],
               !.true = IF Mergeable THEN @ \cap live.true ELSE @,
               !.iteration = IF Mergeable THEN live.iteration ELSE @,
               !.seen = Lineage]

Restart ==
  /\ pc = "down" /\ restarts < MaxRestart
  /\ restarts' = restarts + 1
  /\ mem' = IF ckpt = None THEN [Fresh EXCEPT !.model = Now + 1] ELSE Merged
  /\ pc' = "idle"
  /\ UNCHANGED <<ckpt, live, work>>

Next ==
  \/ \E ok \in BOOLEAN : Fetch(ok)
  \/ \E F \in Findings : Construct(F)
  \/ EmptyRollout
  \/ Raise
  \/ NoProgress
  \/ \E bad \in BOOLEAN : Sample(bad)
  \/ SkipZeroSignal
  \/ Tensorize
  \/ \E parsed \in BOOLEAN : Update(parsed)
  \/ EndIteration
  \/ EndRun
  \/ Crash
  \/ Restart

Spec == Init /\ [][Next]_vars

-----------------------------------------------------------------------------
(* A failure that the run stands for keeps it invalid for good, whatever    *)
(* later iterations, checkpoints, crashes and restarts do.                  *)
FailuresDisqualify ==
  mem.seen \cap {"group", "queue", "identity", "batch"} # {} => ~Valid(mem)

(* A valid verdict rests on observations of this very history: an update,   *)
(* a batch that was not truncated, and an actor that reported that it used  *)
(* the stored log-probabilities.  Claims of a history that a crash undid    *)
(* are not taken over with its live state.                                  *)
ClaimsObserved ==
  Valid(mem) => {"update", "tensorized", "stored"} \subseteq mem.seen

(* No restart heals a manifest: it is valid after the merge only if the     *)
(* checkpoint's was, and if the live state it merged had seen no failure    *)
(* and lost no claim.                                                       *)
RestartsNeverHeal ==
  [][pc = "down" /\ Valid(mem') =>
       /\ Valid(ckpt)
       /\ Mergeable => /\ \A f \in Failures : live.count[f] = 0
                       /\ live.true = Claims]_vars
===============================================================================
