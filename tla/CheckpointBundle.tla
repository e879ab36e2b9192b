---------------------------- MODULE CheckpointBundle ----------------------------
(***************************************************************************)
(* Checkpoints of the gear-tree trainer: the files of a bundle in the      *)
(* order _save_vdra_checkpoint_bundle writes them, the live state written  *)
(* after every iteration, a crash between any two steps, and what          *)
(* _load_checkpoint, _restore_or_init_replay_buffer,                       *)
(* _load_or_build_run_manifest and _merge_pending_live_state make of the   *)
(* files.  A file holds the trainer state it was written from; what an     *)
(* iteration does is module TreeTrainer, here only its outcome.            *)
(* Definitions named ...Mutant are one-line bugs of the definition that    *)
(* follows; they show that a property notices them and are used nowhere.   *)
(***************************************************************************)
EXTENDS Integers, FiniteSets

CONSTANTS
  Canonical,     \* _is_canonical_aggregation(): a resume needs the marker
  ResumeModes,   \* trainer.resume_mode values restarts use: auto, disable
  LiveMayFail,   \* whether _save_live_state_best_effort may fail
  MaxStep,       \* bound on global_step
  MaxWork,       \* bound on iterations over all runs
  MaxRestart,    \* bound on restarts
  None,          \* an absent file
  Torn           \* a truncated tracker; a checkpoint no restart accepts

Steps == 0 .. MaxStep

(* What a trainer has in memory, and what a file was written from. *)
State == [step : Steps, iteration : Nat, model : Nat,
          replay : SUBSET [id : Nat, born : Nat]]

ASSUME CheckpointAssumption ==
  /\ Canonical \in BOOLEAN /\ LiveMayFail \in BOOLEAN
  /\ ResumeModes \subseteq {"auto", "disable"}
  /\ MaxStep \in Nat /\ MaxWork \in Nat /\ MaxRestart \in Nat
  /\ None \notin State \cup Nat /\ Torn \notin Nat /\ None # Torn
  /\ \A absent \in {None, Torn} :  \* neither is a snapshot, see Kept
       absent \notin [state : [step : Steps, model : Nat, replay : SUBSET [id : Nat, born : Nat]],
                      rollout : Nat]

Files == {"actor", "data", "state", "manifest", "edges", "meta"}

VARIABLES
  mem,       \* the trainer: global_step, rollout_iteration, model, replay
  pc,        \* run, live, the next write of a save, down, refused
  updated,   \* the last iteration updated the actor
  next,      \* where a save returns to: run, or down
  dirs,      \* the global_step_N directories
  marked,    \* those with the completeness marker
  sealed,    \* those whose replay meta has its segment_length
  tracker,   \* latest_checkpointed_iteration.txt: a step, None or Torn
  live,      \* the live-state file
  work,      \* iterations so far; numbers models and edges
  restarts

vars == <<mem, pc, updated, next, dirs, marked, sealed, tracker, live, work, restarts>>

Fresh == [step |-> 0, iteration |-> 0, model |-> 0, replay |-> {}]

Init ==
  /\ mem = Fresh
  /\ pc = "run"
  /\ updated = FALSE
  /\ next = "run"
  /\ dirs = [s \in Steps |-> [f \in Files |-> None]]
  /\ marked = {}
  /\ sealed = {}
  /\ tracker = None
  /\ live = None
  /\ work = 0
  /\ restarts = 0

disk == <<dirs, marked, sealed, tracker>>

-----------------------------------------------------------------------------
(* One rollout iteration: new edges arrive, some edges leave (consumed or   *)
(* expired), and the actor was updated or not.                              *)
Iterate(update) ==
  /\ pc = "run" /\ work < MaxWork
  /\ update => mem.step < MaxStep
  /\ LET i == mem.iteration + 1
         stored == mem.replay \cup {[id |-> work + 1, born |-> i]}
     IN \E left \in SUBSET stored :
          mem' = [step |-> mem.step + IF update THEN 1 ELSE 0, iteration |-> i,
                  model |-> IF update THEN work + 1 ELSE mem.model,
                  replay |-> stored \ left]
  /\ updated' = update
  /\ work' = work + 1
  /\ pc' = "live"
  /\ UNCHANGED <<next, disk, live, restarts>>

SaveLiveMutant ==  \* only after iterations without an update
  /\ pc = "live"
  /\ live' = IF updated THEN live ELSE mem
  /\ pc' = "run"
  /\ UNCHANGED <<mem, updated, next, disk, work, restarts>>

SaveLive ==
  /\ pc = "live"
  /\ live' \in {mem} \cup (IF LiveMayFail THEN {live} ELSE {})
  /\ pc' = "run"
  /\ UNCHANGED <<mem, updated, next, disk, work, restarts>>

BeginSaveMutant(after) ==  \* the old marker stays while the files change
  /\ pc = "run"
  /\ after = "run" => updated
  /\ next' = after
  /\ pc' = "actor"
  /\ UNCHANGED <<mem, updated, dirs, marked, sealed, tracker, live, work, restarts>>

(* A threshold after an update, a livelock abort, or the end of the loop:   *)
(* only the first goes on training.  The marker goes first.                 *)
BeginSave(after) ==
  /\ pc = "run"
  /\ after = "run" => updated
  /\ marked' = marked \ {mem.step}
  /\ next' = after
  /\ pc' = "actor"
  /\ UNCHANGED <<mem, updated, dirs, sealed, tracker, live, work, restarts>>

Write(f, then) ==
  /\ pc = f
  /\ dirs' = [dirs EXCEPT ![mem.step][f] = mem]
  /\ sealed' = IF f = "meta" THEN sealed \ {mem.step} ELSE sealed
  /\ pc' = then
  /\ UNCHANGED <<mem, updated, next, marked, tracker, live, work, restarts>>

(* The base trainer truncates the tracker and writes it again, before any   *)
(* of the files the gear-tree trainer adds.                                 *)
OpenTracker ==
  /\ pc = "open_tracker"
  /\ tracker' = Torn
  /\ pc' = "tracker"
  /\ UNCHANGED <<mem, updated, next, dirs, marked, sealed, live, work, restarts>>

WriteTrackerMutant ==  \* names the next step
  /\ pc = "tracker"
  /\ tracker' = mem.step + 1
  /\ pc' = "state"
  /\ UNCHANGED <<mem, updated, next, dirs, marked, sealed, live, work, restarts>>

WriteTracker ==
  /\ pc = "tracker"
  /\ tracker' = mem.step
  /\ pc' = "state"
  /\ UNCHANGED <<mem, updated, next, dirs, marked, sealed, live, work, restarts>>

(* The meta file is written again with the segment length. *)
SealMeta ==
  /\ pc = "seal"
  /\ sealed' = sealed \cup {mem.step}
  /\ pc' = "mark"
  /\ UNCHANGED <<mem, updated, next, dirs, marked, tracker, live, work, restarts>>

Mark ==
  /\ pc = "mark"
  /\ marked' = marked \cup {mem.step}
  /\ updated' = FALSE
  /\ pc' = next
  /\ UNCHANGED <<mem, next, dirs, sealed, tracker, live, work, restarts>>

SaveStep ==
  \/ Write("actor", "data")
  \/ Write("data", "open_tracker")
  \/ OpenTracker
  \/ WriteTracker
  \/ Write("state", "manifest")
  \/ Write("manifest", "edges")
  \/ Write("edges", "meta")
  \/ Write("meta", "seal")
  \/ SealMeta
  \/ Mark

(* The process dies; if an exception ends it, fit saves the live state. *)
Crash ==
  /\ pc \notin {"down", "refused"}
  /\ pc' = "down"
  /\ live' \in {live, mem}
  /\ UNCHANGED <<mem, updated, next, disk, work, restarts>>

(* An iteration that raises has counted itself, and nothing else. *)
IterationFails ==
  /\ pc = "run" /\ work < MaxWork
  /\ work' = work + 1
  /\ mem' = [mem EXCEPT !.iteration = @ + 1]
  /\ live' = mem'
  /\ pc' = "down"
  /\ UNCHANGED <<updated, next, disk, restarts>>

-----------------------------------------------------------------------------
Dir == dirs[tracker]

(* find_latest_ckpt_path, unless resume_mode is disable. *)
Resuming(mode) == mode = "auto" /\ tracker # None

(* What makes startup raise. *)
Refused(mode) ==
  /\ Resuming(mode)
  /\ \/ tracker = Torn
     \/ Canonical /\ tracker \notin marked
     \/ tracker \in marked /\ \E f \in Files \ {"actor", "data"} : Dir[f] = None
     \/ /\ Dir["state"] # None /\ Dir["manifest"] # None
        /\ \/ Dir["manifest"].iteration # Dir["state"].iteration
           \/ Dir["meta"] # None /\ tracker \notin sealed

(* Live state of the checkpoint's step that is not older than it. *)
Mergeable ==
  /\ live # None /\ Dir["state"] # None
  /\ live.step = tracker
  /\ live.iteration >= Dir["state"].iteration

ReplayOf(d) == IF d["meta"] = None \/ d["edges"] = None THEN {} ELSE d["edges"].replay

RestoredCounterMutant ==  \* iterations counted as steps
  [step |-> tracker, iteration |-> tracker,
   model |-> Dir["actor"].model, replay |-> ReplayOf(Dir)]

RestoredReplayMutant ==  \* the replay starts over
  [step |-> tracker,
   iteration |-> IF Mergeable THEN live.iteration ELSE Dir["state"].iteration,
   model |-> Dir["actor"].model, replay |-> {}]

(* A checkpoint without trainer state is a legacy one: the replay and the   *)
(* rollout counter start over.                                              *)
Restored ==
  LET state == Dir["state"]
      legacy == state = None
  IN [step |-> tracker,
      iteration |-> IF legacy THEN 0
                    ELSE IF Mergeable THEN live.iteration ELSE state.iteration,
      model |-> Dir["actor"].model,
      replay |-> IF legacy THEN {} ELSE ReplayOf(Dir)]

(* A run from scratch takes the replay of a global_step_0 directory that    *)
(* has a trainer state.                                                     *)
Scratch ==
  [Fresh EXCEPT !.replay = IF dirs[0]["state"] = None THEN {} ELSE ReplayOf(dirs[0])]

Restart(mode) ==
  /\ pc = "down" /\ restarts < MaxRestart
  /\ restarts' = restarts + 1
  /\ updated' = FALSE
  /\ IF Refused(mode)
       THEN pc' = "refused" /\ UNCHANGED mem
       ELSE /\ pc' = "run"
            /\ mem' = IF Resuming(mode) THEN Restored ELSE Scratch
  /\ UNCHANGED <<next, disk, live, work>>

Next ==
  \/ \E update \in BOOLEAN : Iterate(update)
  \/ SaveLive
  \/ \E after \in {"run", "down"} : BeginSave(after)
  \/ SaveStep
  \/ Crash
  \/ IterationFails
  \/ \E mode \in ResumeModes : Restart(mode)

Spec == Init /\ [][Next]_vars

-----------------------------------------------------------------------------
TypeOK ==
  /\ mem \in State
  /\ pc \in {"run", "live", "open_tracker", "tracker", "seal", "mark", "down", "refused"}
           \cup Files
  /\ updated \in BOOLEAN /\ next \in {"run", "down"}
  /\ dirs \in [Steps -> [Files -> State \cup {None}]]
  /\ marked \subseteq Steps /\ sealed \subseteq Steps
  /\ tracker \in Steps \cup {None, Torn}
  /\ live \in State \cup {None}
  /\ work \in 0 .. MaxWork /\ restarts \in 0 .. MaxRestart

(* The completeness marker tells the truth at every moment: the files of a  *)
(* marked bundle are all there and were all written by one save.            *)
MarkedIsWhole ==
  \A s \in marked :
    /\ s \in sealed
    /\ \A f \in Files : dirs[s][f] # None /\ dirs[s][f] = dirs[s]["actor"]
    /\ dirs[s]["actor"].step = s

(* No edge of the replay buffer is younger than the rollout counter, so     *)
(* ages never go negative, whatever was restored and merged.                *)
AgesNonNegative == \A e \in mem.replay : e.born <= mem.iteration

(* Live state that a restart merges into a checkpoint was written by a run  *)
(* that had that checkpoint's model, not by one whose updates were lost.    *)
LiveOfThisModel ==
  pc = "down" /\ Resuming("auto") /\ ~Refused("auto") /\ Mergeable =>
    live.model = Dir["actor"].model

(* What a restart puts together from a bundle and a live state is of one    *)
(* history: the counter belongs to the edges and the live state to the model. *)
RestartsOneHistory == AgesNonNegative /\ LiveOfThisModel

(* A crash never costs the last complete checkpoint: the one the tracker    *)
(* names can be resumed from ("for atomic usage", ray_trainer.py).          *)
TrackerNamesWhole == pc = "down" /\ tracker # None => ~Refused("auto")

(* Restarts of a canonical run continue from one whole snapshot or refuse.  *)
Content(m) == [step |-> m.step, model |-> m.model, replay |-> m.replay]
Kept ==
  IF tracker = None THEN None
  ELSE IF Refused("auto") THEN Torn
  ELSE [state |-> Content([Dir["state"] EXCEPT !.model = Dir["actor"].model,
                                               !.replay = Dir["edges"].replay]),
        rollout |-> Dir["manifest"].iteration]

Store == INSTANCE SnapshotStore
           WITH Blank <- Content(Fresh), Nothing <- None, Unusable <- Torn,
                current <- Content(mem), rollout <- mem.iteration, kept <- Kept

ImplementsStore == Store!Spec
===============================================================================
