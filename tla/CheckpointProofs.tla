--------------------------- MODULE CheckpointProofs ---------------------------
(* Proofs about CheckpointBundle, for any number of steps, iterations and *)
(* restarts, canonical or not, whether or not live state can be lost.     *)
EXTENDS CheckpointBundle, TLAPS

(***************************************************************************)
(* The inductive invariant of a save: while one is under way its bundle is *)
(* unmarked, the tracker names it from WriteTracker on, and each file      *)
(* passed so far was written from the present state.                       *)
(***************************************************************************)
Saving == Files \cup {"open_tracker", "tracker", "seal", "mark"}

Past(f) ==
  CASE f = "actor"    -> Saving \ {"actor"}
    [] f = "data"     -> Saving \ {"actor", "data"}
    [] f = "state"    -> {"manifest", "edges", "meta", "seal", "mark"}
    [] f = "manifest" -> {"edges", "meta", "seal", "mark"}
    [] f = "edges"    -> {"meta", "seal", "mark"}
    [] f = "meta"     -> {"seal", "mark"}

SaveInv ==
  /\ TypeOK
  /\ pc \in Saving => mem.step \notin marked
  /\ pc \in {"state"} \cup Past("state") => tracker = mem.step
  /\ pc = "mark" => mem.step \in sealed
  /\ \A f \in Files : pc \in Past(f) => dirs[mem.step][f] = mem
  /\ tracker \in Steps => dirs[tracker]["actor"] # None

LEMMA StateFields ==
  ASSUME NEW m \in State
  PROVE  /\ m.step \in Steps /\ m.iteration \in Nat /\ m.model \in Nat
         /\ m.replay \in SUBSET [id : Nat, born : Nat]
         /\ m # None
BY CheckpointAssumption DEF State

LEMMA PastIsSaving == \A f \in Files : Past(f) \subseteq Saving
BY DEF Past, Saving, Files

LEMMA InitSave == Init => SaveInv
<1> SUFFICES ASSUME Init  PROVE SaveInv
  OBVIOUS
<1>1. mem \in State
  BY CheckpointAssumption DEF Init, Fresh, State, Steps
<1>2. TypeOK
  <2>1. dirs \in [Steps -> [Files -> State \cup {None}]]
    BY DEF Init
  <2>2. work \in 0 .. MaxWork /\ restarts \in 0 .. MaxRestart
    BY CheckpointAssumption DEF Init
  <2>3. QED
    BY <1>1, <2>1, <2>2 DEF Init, TypeOK
<1>3. tracker \notin Steps
  BY CheckpointAssumption DEF Init, Steps
<1>4. pc \notin Saving \cup {"state"} /\ \A f \in Files : pc \notin Past(f)
  BY PastIsSaving DEF Init, Saving, Files
<1>5. Past("state") \subseteq Saving
  BY PastIsSaving DEF Files
<1>6. QED
  BY <1>2, <1>3, <1>4, <1>5 DEF SaveInv, Saving

LEMMA IterateSave ==
  ASSUME SaveInv, NEW update \in BOOLEAN, Iterate(update)
  PROVE  SaveInv'
<1> DEFINE i == mem.iteration + 1
           stored == mem.replay \cup {[id |-> work + 1, born |-> i]}
<1>1. PICK left \in SUBSET stored :
        mem' = [step |-> mem.step + IF update THEN 1 ELSE 0, iteration |-> i,
                model |-> IF update THEN work + 1 ELSE mem.model, replay |-> stored \ left]
  BY DEF Iterate
<1>2. mem \in State /\ work \in Nat /\ MaxStep \in Nat /\ MaxWork \in Nat
  BY CheckpointAssumption DEF SaveInv, TypeOK
<1>3. /\ mem.step \in Nat /\ mem.step <= MaxStep /\ mem.iteration \in Nat /\ mem.model \in Nat
      /\ mem.replay \in SUBSET [id : Nat, born : Nat]
  BY <1>2, StateFields DEF Steps
<1>4. (mem.step + IF update THEN 1 ELSE 0) \in Steps
  BY <1>2, <1>3 DEF Iterate, Steps
<1>5. stored \ left \in SUBSET [id : Nat, born : Nat]
  BY <1>2, <1>3
<1>6. (IF update THEN work + 1 ELSE mem.model) \in Nat /\ i \in Nat
  BY <1>2, <1>3
<1> HIDE DEF i, stored
<1>7. mem' \in State
  BY <1>1, <1>4, <1>5, <1>6 DEF State
<1>8. TypeOK'
  BY <1>2, <1>7 DEF Iterate, SaveInv, TypeOK, disk
<1>9. QED
  BY <1>8 DEF Iterate, SaveInv, Saving, Past, Files, disk

LEMMA WriteSave ==
  ASSUME SaveInv, NEW f \in Files, NEW then \in Saving, Write(f, then),
         \A g \in Files : then \in Past(g) => g = f \/ f \in Past(g),
         then # "mark",
         then \in {"state"} \cup Past("state") => f \in {"state"} \cup Past("state")
  PROVE  SaveInv'
<1>1. mem \in State /\ mem.step \in Steps /\ mem # None
  BY StateFields DEF SaveInv, TypeOK
<1>2. dirs' = [dirs EXCEPT ![mem.step][f] = mem] /\ pc = f /\ pc' = then /\ f \in Saving
  BY DEF Write, Saving
<1>3. TypeOK'
  <2>1. dirs' \in [Steps -> [Files -> State \cup {None}]]
    BY <1>1, <1>2 DEF SaveInv, TypeOK
  <2>2. sealed' \subseteq Steps
    BY DEF Write, SaveInv, TypeOK
  <2>3. QED  BY <1>2, <2>1, <2>2 DEF Write, SaveInv, TypeOK, Saving
<1>4. \A g \in Files : dirs'[mem.step][g] = IF g = f THEN mem ELSE dirs[mem.step][g]
  BY <1>1, <1>2 DEF SaveInv, TypeOK
<1>5. \A g \in Files : pc' \in Past(g) => dirs'[mem'.step][g] = mem'
  BY <1>2, <1>4 DEF SaveInv, Write
<1>6. tracker' \in Steps => dirs'[tracker']["actor"] # None
  BY <1>1, <1>2 DEF SaveInv, TypeOK, Write, Files
<1>7. mem'.step \notin marked'
  BY <1>2 DEF SaveInv, Write
<1>8. pc' \in {"state"} \cup Past("state") => tracker' = mem'.step
  BY <1>2 DEF SaveInv, Write
<1>9. QED
  BY <1>2, <1>3, <1>5, <1>6, <1>7, <1>8 DEF SaveInv, Write

(* The states between saves: nothing of SaveInv but types and the tracker. *)
LEMMA QuietSave ==
  ASSUME TypeOK', pc' \notin Saving, tracker' \in Steps => dirs'[tracker']["actor"] # None
  PROVE  SaveInv'
<1>1. \A f \in Files : pc' \notin Past(f)
  BY PastIsSaving
<1>2. pc' \notin {"state"} \cup Past("state") /\ pc' # "mark"
  BY PastIsSaving DEF Files, Saving
<1>3. QED
  BY <1>1, <1>2 DEF SaveInv

LEMMA BeginSaveSave ==
  ASSUME SaveInv, NEW after \in {"run", "down"}, BeginSave(after)
  PROVE  SaveInv'
<1>1. mem.step \in Steps
  BY StateFields DEF SaveInv, TypeOK
<1>2. TypeOK'
  BY DEF BeginSave, SaveInv, TypeOK, Files
<1>3. "actor" \notin {"state"} \cup Past("state") /\ \A f \in Files : "actor" \notin Past(f)
  BY DEF Past, Saving, Files
<1>4. QED
  BY <1>2, <1>3 DEF BeginSave, SaveInv

LEMMA TrackerSave ==
  ASSUME SaveInv, OpenTracker \/ WriteTracker
  PROVE  SaveInv'
<1>1. mem \in State /\ mem.step \in Steps /\ mem # None
  BY StateFields DEF SaveInv, TypeOK
<1>2. TypeOK'
  BY <1>1 DEF OpenTracker, WriteTracker, SaveInv, TypeOK, Files
<1>3. \A f \in Files : pc' \in Past(f) => pc \in Past(f)
  BY DEF OpenTracker, WriteTracker, Past, Saving, Files
<1>4. dirs[mem.step]["actor"] = mem
  BY DEF OpenTracker, WriteTracker, SaveInv, Past, Saving, Files
<1>5. tracker' \in Steps => dirs'[tracker']["actor"] # None
  BY <1>1, <1>4, CheckpointAssumption DEF OpenTracker, WriteTracker, Steps
<1>6. pc' \in {"state"} \cup Past("state") => tracker' = mem'.step
  BY DEF OpenTracker, WriteTracker, Past, Files
<1>7. pc \in Saving /\ pc' # "mark"
  BY DEF OpenTracker, WriteTracker, Saving
<1>8. QED
  BY <1>2, <1>3, <1>5, <1>6, <1>7 DEF OpenTracker, WriteTracker, SaveInv

LEMMA SealMetaSave ==
  ASSUME SaveInv, SealMeta
  PROVE  SaveInv'
<1>1. mem.step \in Steps
  BY StateFields DEF SaveInv, TypeOK
<1>2. TypeOK'
  BY <1>1 DEF SealMeta, SaveInv, TypeOK, Files
<1>3. \A f \in Files : pc \in Past(f)
  BY DEF SealMeta, Past, Saving, Files
<1>4. pc \in Saving
  BY DEF SealMeta, Saving
<1>5. "state" \in Files
  BY DEF Files
<1>6. QED
  BY <1>2, <1>3, <1>4, <1>5 DEF SealMeta, SaveInv

LEMMA MarkSave ==
  ASSUME SaveInv, Mark
  PROVE  SaveInv'
<1>1. mem.step \in Steps
  BY StateFields DEF SaveInv, TypeOK
<1>2. TypeOK' /\ pc' \notin Saving
  BY <1>1 DEF Mark, SaveInv, TypeOK, Files, Saving
<1>3. QED
  BY <1>2, QuietSave DEF Mark, SaveInv

LEMMA OutsideSave ==
  ASSUME SaveInv, SaveLive \/ Crash \/ IterationFails
  PROVE  SaveInv'
<1>1. mem \in State
  BY DEF SaveInv, TypeOK
<1>2. ASSUME IterationFails  PROVE TypeOK' /\ pc' \notin Saving /\ UNCHANGED <<dirs, tracker>>
  <2>1. mem' = [mem EXCEPT !.iteration = mem.iteration + 1]
    BY <1>2 DEF IterationFails
  <2>2. mem' \in State
    BY <1>1, <2>1, StateFields DEF State
  <2>3. work + 1 \in 0 .. MaxWork
    BY <1>2, CheckpointAssumption DEF IterationFails, SaveInv, TypeOK
  <2>4. QED
    BY <1>2, <2>2, <2>3 DEF IterationFails, SaveInv, TypeOK, disk, Saving, Files
<1>3. ASSUME SaveLive \/ Crash  PROVE TypeOK' /\ pc' \notin Saving /\ UNCHANGED <<dirs, tracker>>
  BY <1>1, <1>3 DEF SaveLive, Crash, SaveInv, TypeOK, disk, Saving, Files
<1>4. QED
  BY <1>2, <1>3, QuietSave DEF SaveInv

LEMMA RestoredIsState ==
  ASSUME SaveInv, tracker \in Steps
  PROVE  Restored \in State
<1>1. dirs[tracker] \in [Files -> State \cup {None}]
  BY DEF SaveInv, TypeOK
<1>2. Dir["actor"] \in State
  BY <1>1 DEF SaveInv, Dir, Files
<1>3. Dir["state"] \in State \cup {None} /\ Dir["edges"] \in State \cup {None}
  BY <1>1 DEF Dir, Files
<1>4. ReplayOf(Dir) \in SUBSET [id : Nat, born : Nat]
  BY <1>3, StateFields DEF ReplayOf
<1>5. live \in State \cup {None}
  BY DEF SaveInv, TypeOK
<1>6. Mergeable => live.iteration \in Nat
  BY <1>5, StateFields DEF Mergeable
<1>7. Dir["state"] # None => Dir["state"].iteration \in Nat
  BY <1>3, StateFields
<1>8. Dir["actor"].model \in Nat
  BY <1>2, StateFields
<1>9. QED
  BY <1>4, <1>6, <1>7, <1>8 DEF Restored, State

LEMMA ScratchIsState == SaveInv => Scratch \in State
<1> SUFFICES ASSUME SaveInv  PROVE Scratch \in State
  OBVIOUS
<1>1. 0 \in Steps
  BY CheckpointAssumption DEF Steps
<1>2. dirs[0] \in [Files -> State \cup {None}]
  BY <1>1 DEF SaveInv, TypeOK
<1>3. ReplayOf(dirs[0]) \in SUBSET [id : Nat, born : Nat]
  BY <1>2, StateFields DEF ReplayOf, Files
<1>4. Scratch = [step |-> 0, iteration |-> 0, model |-> 0,
                 replay |-> IF dirs[0]["state"] = None THEN {} ELSE ReplayOf(dirs[0])]
  BY DEF Scratch, Fresh
<1>5. QED
  BY <1>1, <1>3, <1>4 DEF State

LEMMA RestartSave ==
  ASSUME SaveInv, NEW mode \in ResumeModes, Restart(mode)
  PROVE  SaveInv'
<1>1. ~Refused(mode) /\ Resuming(mode) => tracker \in Steps
  BY DEF Refused, Resuming, SaveInv, TypeOK
<1>2. mem' \in State
  BY <1>1, RestoredIsState, ScratchIsState DEF Restart, SaveInv, TypeOK
<1>3. restarts' \in 0 .. MaxRestart
  BY CheckpointAssumption DEF Restart, SaveInv, TypeOK
<1>4. pc' \in {"run", "refused"} /\ UNCHANGED <<next, disk, live, work>> /\ updated' = FALSE
  BY DEF Restart
<1>5. TypeOK'
  BY <1>2, <1>3, <1>4 DEF SaveInv, TypeOK, disk
<1>6. pc' \notin Saving
  BY <1>4 DEF Saving, Files
<1>7. QED
  BY <1>4, <1>5, <1>6, QuietSave DEF SaveInv, disk

LEMMA SaveStepSave == SaveInv /\ SaveStep => SaveInv'
<1> SUFFICES ASSUME SaveInv, SaveStep  PROVE SaveInv'
  OBVIOUS
<1>1. CASE Write("actor", "data")
  BY <1>1, WriteSave DEF Files, Saving, Past
<1>2. CASE Write("data", "open_tracker")
  BY <1>2, WriteSave DEF Files, Saving, Past
<1>3. CASE Write("state", "manifest")
  BY <1>3, WriteSave DEF Files, Saving, Past
<1>4. CASE Write("manifest", "edges")
  BY <1>4, WriteSave DEF Files, Saving, Past
<1>5. CASE Write("edges", "meta")
  BY <1>5, WriteSave DEF Files, Saving, Past
<1>6. CASE Write("meta", "seal")
  BY <1>6, WriteSave DEF Files, Saving, Past
<1>7. QED
  BY <1>1, <1>2, <1>3, <1>4, <1>5, <1>6, TrackerSave, SealMetaSave, MarkSave DEF SaveStep

LEMMA SaveInvInductive == SaveInv /\ [Next]_vars => SaveInv'
<1> SUFFICES ASSUME SaveInv, [Next]_vars  PROVE SaveInv'
  OBVIOUS
<1>1. CASE UNCHANGED vars
  <2>1. TypeOK'
    BY <1>1 DEF vars, SaveInv, TypeOK
  <2>2. /\ pc' = pc /\ mem' = mem /\ marked' = marked /\ sealed' = sealed
        /\ tracker' = tracker /\ dirs' = dirs
    BY <1>1 DEF vars
  <2>3. QED
    BY <2>1, <2>2 DEF SaveInv
<1>2. QED
  BY <1>1, IterateSave, BeginSaveSave, SaveStepSave, OutsideSave, RestartSave DEF Next

(***************************************************************************)
(* Type correctness: every run of the trainer, its crashes and restarts    *)
(* keep memory and files well formed.                                      *)
(***************************************************************************)
THEOREM CheckpointTypeCorrect == Spec => []TypeOK
<1>1. SaveInv => TypeOK
  BY DEF SaveInv
<1>2. QED
  BY <1>1, InitSave, SaveInvInductive, PTL DEF Spec

(* Which steps leave marked bundles as they are. *)
LEMMA MarkedUntouched ==
  ASSUME MarkedIsWhole, marked' \subseteq marked, sealed \cap marked' \subseteq sealed',
         \A s \in marked' : dirs'[s] = dirs[s]
  PROVE  MarkedIsWhole'
BY DEF MarkedIsWhole

LEMMA WriteMarked ==
  ASSUME SaveInv, MarkedIsWhole, NEW f \in Files, NEW then, Write(f, then)
  PROVE  MarkedIsWhole'
<1>1. mem.step \notin marked /\ pc = f
  BY DEF Write, SaveInv, Saving
<1>2. \A s \in marked : s \in Steps /\ s # mem.step
  BY <1>1 DEF SaveInv, TypeOK
<1>3. \A s \in marked : dirs'[s] = dirs[s]
  BY <1>2 DEF Write, SaveInv, TypeOK
<1>4. QED
  BY <1>2, <1>3, MarkedUntouched DEF Write

LEMMA MarkMarked ==
  ASSUME SaveInv, MarkedIsWhole, Mark
  PROVE  MarkedIsWhole'
<1>1. pc = "mark" /\ marked' = marked \cup {mem.step} /\ UNCHANGED <<dirs, sealed>>
  BY DEF Mark
<1>2. \A f \in Files : pc \in Past(f)
  BY <1>1 DEF Past, Saving, Files
<1>3. \A f \in Files : dirs[mem.step][f] = mem
  BY <1>2 DEF SaveInv
<1>4. mem # None /\ mem.step \in sealed /\ "actor" \in Files
  BY <1>1, StateFields DEF SaveInv, TypeOK, Files
<1>5. QED
  BY <1>1, <1>3, <1>4 DEF MarkedIsWhole

LEMMA StepMarked == SaveInv /\ MarkedIsWhole /\ [Next]_vars => MarkedIsWhole'
<1> SUFFICES ASSUME SaveInv, MarkedIsWhole, [Next]_vars  PROVE MarkedIsWhole'
  OBVIOUS
<1>1. CASE UNCHANGED vars
  BY <1>1 DEF vars, MarkedIsWhole
<1>2. ASSUME NEW update \in BOOLEAN, Iterate(update)  PROVE MarkedIsWhole'
  BY <1>2, MarkedUntouched DEF Iterate, disk
<1>3. ASSUME NEW after \in {"run", "down"}, BeginSave(after)  PROVE MarkedIsWhole'
  BY <1>3, MarkedUntouched DEF BeginSave
<1>4. CASE SaveStep
  <2>1. ASSUME NEW f \in Files, NEW then, Write(f, then)  PROVE MarkedIsWhole'
    BY <2>1, WriteMarked
  <2>2. CASE OpenTracker \/ WriteTracker \/ SealMeta
    BY <2>2, MarkedUntouched DEF OpenTracker, WriteTracker, SealMeta
  <2>3. QED
    BY <1>4, <2>1, <2>2, MarkMarked DEF SaveStep, Files
<1>5. CASE SaveLive \/ Crash \/ IterationFails
  BY <1>5, MarkedUntouched DEF SaveLive, Crash, IterationFails, disk
<1>6. ASSUME NEW mode \in ResumeModes, Restart(mode)  PROVE MarkedIsWhole'
  BY <1>6, MarkedUntouched DEF Restart, disk
<1>7. QED
  BY <1>1, <1>2, <1>3, <1>4, <1>5, <1>6 DEF Next

(***************************************************************************)
(* The completeness marker tells the truth at every moment, wherever a     *)
(* save was cut short (_save_vdra_checkpoint_bundle unmarks the bundle     *)
(* before it rewrites the first file and marks it after the last).         *)
(***************************************************************************)
THEOREM MarkerTellsTruth == Spec => []MarkedIsWhole
<1>1. Init => MarkedIsWhole
  BY DEF Init, MarkedIsWhole
<1>2. QED
  BY <1>1, InitSave, SaveInvInductive, StepMarked, PTL DEF Spec

(***************************************************************************)
(* The inductive invariant of ages.  A directory with trainer state is not *)
(* ahead of the trainer or of the tracker, its edges were stored no later  *)
(* than its state was written, and the trainer that will write over it is  *)
(* not behind it.                                                          *)
(***************************************************************************)
AgeInv ==
  /\ AgesNonNegative
  /\ \A s \in Steps : dirs[s]["state"] # None =>
       s <= mem.step /\ tracker # None /\ (tracker \in Steps => s <= tracker)
  /\ \A s \in Steps : dirs[s]["edges"] # None =>
       /\ dirs[s]["state"] # None
       /\ \A e \in dirs[s]["edges"].replay : e.born <= dirs[s]["state"].iteration
  /\ dirs[mem.step]["state"] # None =>
       dirs[mem.step]["state"].iteration <= mem.iteration

LEMMA DirFiles ==
  ASSUME SaveInv, NEW s \in Steps, NEW f \in Files
  PROVE  dirs[s][f] \in State \cup {None}
BY DEF SaveInv, TypeOK

(* Steps that write no trainer state and no edges, and do not put the      *)
(* trainer or the tracker behind them.                                     *)
LEMMA AgeKept ==
  ASSUME SaveInv, AgeInv, UNCHANGED dirs, mem' = mem,
         tracker' = tracker \/ tracker' = Torn \/ tracker' = mem.step
  PROVE  AgeInv'
<1>1. \A s \in Steps : dirs[s]["state"] # None =>
        s <= mem.step /\ tracker' # None /\ (tracker' \in Steps => s <= tracker')
  BY CheckpointAssumption, StateFields DEF AgeInv, SaveInv, TypeOK, Steps
<1>2. QED
  BY <1>1 DEF AgeInv, AgesNonNegative

LEMMA IterateAge ==
  ASSUME SaveInv, AgeInv, NEW update \in BOOLEAN, Iterate(update)
  PROVE  AgeInv'
<1> DEFINE i == mem.iteration + 1
           stored == mem.replay \cup {[id |-> work + 1, born |-> i]}
<1>1. PICK left \in SUBSET stored :
        mem' = [step |-> mem.step + IF update THEN 1 ELSE 0, iteration |-> i,
                model |-> IF update THEN work + 1 ELSE mem.model, replay |-> stored \ left]
  BY DEF Iterate
<1>2. mem.step \in Nat /\ mem.iteration \in Nat /\ mem.replay \in SUBSET [id : Nat, born : Nat]
  BY StateFields, CheckpointAssumption DEF SaveInv, TypeOK, Steps
<1>3. \A e \in stored : e.born <= i
  <2>1. \A e \in mem.replay : e.born \in Nat /\ e.born <= mem.iteration
    BY <1>2 DEF AgeInv, AgesNonNegative
  <2>2. QED  BY <1>2, <2>1
<1>4. mem'.step = mem.step + (IF update THEN 1 ELSE 0) /\ mem'.iteration = i
      /\ mem'.replay \subseteq stored
  BY <1>1
<1> HIDE DEF stored
<1>5. AgesNonNegative'
  BY <1>3, <1>4 DEF AgesNonNegative
<1>6. UNCHANGED <<dirs, tracker>>
  BY DEF Iterate, disk
<1>7. \A s \in Steps : dirs[s]["state"] # None => s <= mem'.step
  BY <1>2, <1>4 DEF AgeInv, Steps
<1>8. dirs[mem'.step]["state"] # None => dirs[mem'.step]["state"].iteration <= mem'.iteration
  <2> SUFFICES ASSUME dirs[mem'.step]["state"] # None
               PROVE  dirs[mem'.step]["state"].iteration <= mem'.iteration
    OBVIOUS
  <2>1. SaveInv'
    BY IterateSave
  <2>2. mem'.step \in Steps
    BY <2>1, StateFields DEF SaveInv, TypeOK
  <2>3. mem'.step <= mem.step
    BY <2>2 DEF AgeInv
  <2>4. mem'.step = mem.step
    BY <1>2, <1>4, <2>3
  <2>5. dirs[mem.step]["state"].iteration \in Nat
    BY <2>2, <2>4, DirFiles, StateFields DEF Files
  <2>6. QED  BY <1>2, <1>4, <2>4, <2>5 DEF AgeInv
<1>9. QED
  BY <1>5, <1>6, <1>7, <1>8 DEF AgeInv

LEMMA WriteAge ==
  ASSUME SaveInv, AgeInv, NEW f \in Files, NEW then, Write(f, then)
  PROVE  AgeInv'
<1>1. mem \in State /\ mem.step \in Steps /\ mem # None /\ mem.step <= mem.step
  BY StateFields, CheckpointAssumption DEF SaveInv, TypeOK, Steps
<1>2. pc = f /\ UNCHANGED <<mem, tracker>> /\ dirs' = [dirs EXCEPT ![mem.step][f] = mem]
  BY DEF Write
<1>3. \A s \in Steps, g \in Files :
        dirs'[s][g] = IF s = mem.step /\ g = f THEN mem ELSE dirs[s][g]
  BY <1>1, <1>2 DEF SaveInv, TypeOK
<1>4. "state" \in Files /\ "edges" \in Files /\ "state" # "edges"
  BY DEF Files
<1>5. AgesNonNegative'
  BY <1>2 DEF AgeInv, AgesNonNegative
<1>6. CASE f \notin {"state", "edges"}
  BY <1>1, <1>2, <1>3, <1>4, <1>5, <1>6 DEF AgeInv
<1>7. CASE f = "state"
  <2>1. tracker = mem.step
    BY <1>2, <1>7 DEF SaveInv
  <2>2. mem.step # None
    BY <1>1, CheckpointAssumption DEF Steps
  <2>3. \A s \in Steps : dirs'[s]["state"] # None =>
          s <= mem.step /\ tracker # None /\ (tracker \in Steps => s <= tracker)
    BY <1>1, <1>3, <1>4, <2>1, <2>2 DEF AgeInv
  <2>4. ASSUME NEW s \in Steps, dirs'[s]["edges"] # None
        PROVE  /\ dirs'[s]["state"] # None
               /\ \A e \in dirs'[s]["edges"].replay : e.born <= dirs'[s]["state"].iteration
    <3>1. dirs'[s]["edges"] = dirs[s]["edges"] /\ dirs[s]["edges"] # None
      BY <1>3, <1>4, <1>7, <2>4
    <3>2. CASE s # mem.step
      BY <1>3, <1>4, <3>1, <3>2 DEF AgeInv
    <3>3. CASE s = mem.step
      <4>1. dirs[s]["state"] # None /\ dirs[s]["state"].iteration <= mem.iteration
            /\ \A e \in dirs[s]["edges"].replay : e.born <= dirs[s]["state"].iteration
        BY <3>1, <3>3 DEF AgeInv
      <4>2. dirs[s]["state"].iteration \in Nat /\ mem.iteration \in Nat
            /\ \A e \in dirs[s]["edges"].replay : e.born \in Nat
        BY <1>1, <1>4, <3>1, <4>1, DirFiles, StateFields
      <4>3. \A e \in dirs[s]["edges"].replay : e.born <= mem.iteration
        BY <4>1, <4>2
      <4>4. dirs'[s]["state"] = mem
        BY <1>3, <1>4, <1>7, <3>3
      <4>5. QED  BY <1>1, <3>1, <4>3, <4>4
    <3>4. QED  BY <3>2, <3>3
  <2>5. dirs'[mem.step]["state"] = mem /\ mem.iteration <= mem.iteration
    BY <1>1, <1>3, <1>4, <1>7, StateFields
  <2>6. QED
    BY <1>2, <1>5, <2>3, <2>4, <2>5 DEF AgeInv
<1>8. CASE f = "edges"
  <2>1. dirs[mem.step]["state"] = mem
    BY <1>2, <1>8 DEF SaveInv, Past, Files
  <2>2. \A s \in Steps : dirs'[s]["state"] = dirs[s]["state"]
    BY <1>3, <1>4, <1>8
  <2>3. \A s \in Steps : dirs'[s]["edges"] = IF s = mem.step THEN mem ELSE dirs[s]["edges"]
    BY <1>3, <1>4, <1>8
  <2>4. \A e \in mem.replay : e.born <= mem.iteration
    BY DEF AgeInv, AgesNonNegative
  <2>5. QED
    BY <1>1, <1>2, <1>5, <2>1, <2>2, <2>3, <2>4 DEF AgeInv
<1>9. QED
  BY <1>6, <1>7, <1>8

LEMMA FailAge ==
  ASSUME SaveInv, AgeInv, IterationFails
  PROVE  AgeInv'
<1>1. mem \in State
  BY DEF SaveInv, TypeOK
<1>2. mem' = [mem EXCEPT !.iteration = mem.iteration + 1] /\ UNCHANGED <<dirs, tracker>>
  BY DEF IterationFails, disk
<1>3. mem'.step = mem.step /\ mem'.iteration = mem.iteration + 1 /\ mem'.replay = mem.replay
  BY <1>1, <1>2 DEF State
<1>4. mem.step \in Steps /\ mem.iteration \in Nat /\ mem.replay \in SUBSET [id : Nat, born : Nat]
  BY <1>1, StateFields
<1>5. AgesNonNegative'
  <2>1. \A e \in mem.replay : e.born \in Nat /\ e.born <= mem.iteration
    BY <1>4 DEF AgeInv, AgesNonNegative
  <2>2. QED  BY <1>3, <1>4, <2>1 DEF AgesNonNegative
<1>6. dirs[mem.step]["state"] # None =>
        dirs[mem.step]["state"].iteration <= mem.iteration + 1
  <2>1. dirs[mem.step]["state"] # None => dirs[mem.step]["state"].iteration \in Nat
    BY <1>4, DirFiles, StateFields DEF Files
  <2>2. QED  BY <1>4, <2>1 DEF AgeInv
<1>7. QED
  BY <1>2, <1>3, <1>5, <1>6 DEF AgeInv

LEMMA RestoredAge ==
  ASSUME SaveInv, AgeInv, tracker \in Steps
  PROVE  /\ Restored.step = tracker
         /\ \A e \in Restored.replay : e.born <= Restored.iteration
         /\ Dir["state"] # None => Dir["state"].iteration <= Restored.iteration
<1>1. Restored.step = tracker
  BY DEF Restored
<1>2. CASE Dir["state"] = None
  BY <1>1, <1>2 DEF Restored
<1>3. CASE Dir["state"] # None
  <2>1. Dir["state"].iteration \in Nat
    BY <1>3, DirFiles, StateFields DEF Dir, Files
  <2>2. Mergeable => live.iteration \in Nat /\ live.iteration >= Dir["state"].iteration
    BY StateFields DEF Mergeable, SaveInv, TypeOK
  <2>3. Restored.iteration \in Nat /\ Dir["state"].iteration <= Restored.iteration
    BY <1>3, <2>1, <2>2 DEF Restored
  <2>4. \A e \in ReplayOf(Dir) : e.born \in Nat /\ e.born <= Dir["state"].iteration
    <3>1. Dir["edges"] # None => Dir["edges"].replay \in SUBSET [id : Nat, born : Nat]
      BY DirFiles, StateFields DEF Dir, Files
    <3>2. QED  BY <3>1 DEF ReplayOf, AgeInv, Dir
  <2>5. Restored.replay = ReplayOf(Dir)
    BY <1>3 DEF Restored
  <2>6. \A e \in ReplayOf(Dir) : e.born <= Restored.iteration
    BY <2>1, <2>3, <2>4
  <2>7. QED
    BY <1>1, <2>3, <2>5, <2>6
<1>4. QED
  BY <1>2, <1>3

LEMMA RestartAge ==
  ASSUME SaveInv, AgeInv, Restart("auto")
  PROVE  AgeInv'
<1>1. UNCHANGED <<dirs, tracker>>
  BY DEF Restart, disk
<1>2. CASE Refused("auto")
  BY <1>1, <1>2, AgeKept DEF Restart
<1>3. CASE ~Refused("auto") /\ tracker # None
  <2>1. tracker \in Steps /\ mem' = Restored
    BY <1>3 DEF Restart, Refused, Resuming, SaveInv, TypeOK
  <2>2. QED
    BY <1>1, <2>1, RestoredAge DEF AgeInv, AgesNonNegative, Dir
<1>4. CASE tracker = None
  <2>1. mem' = Scratch
    BY <1>4 DEF Restart, Refused, Resuming
  <2>2. \A s \in Steps : dirs[s]["state"] = None
    BY <1>4 DEF AgeInv
  <2>3. 0 \in Steps
    BY CheckpointAssumption DEF Steps
  <2>4. Scratch.step = 0 /\ Scratch.replay = {}
    BY <2>2, <2>3 DEF Scratch, Fresh
  <2>5. QED
    BY <1>1, <2>1, <2>2, <2>3, <2>4 DEF AgeInv, AgesNonNegative
<1>5. QED
  BY <1>2, <1>3, <1>4

LEMMA StepAge ==
  ASSUME ResumeModes \subseteq {"auto"}
  PROVE  SaveInv /\ AgeInv /\ [Next]_vars => AgeInv'
<1> SUFFICES ASSUME SaveInv, AgeInv, [Next]_vars  PROVE AgeInv'
  OBVIOUS
<1>1. CASE UNCHANGED vars
  BY <1>1, AgeKept DEF vars
<1>2. CASE SaveStep
  <2>1. ASSUME NEW f \in Files, NEW then, Write(f, then)  PROVE AgeInv'
    BY <2>1, WriteAge
  <2>2. CASE OpenTracker \/ WriteTracker \/ SealMeta \/ Mark
    BY <2>2, AgeKept DEF OpenTracker, WriteTracker, SealMeta, Mark
  <2>3. QED
    BY <1>2, <2>1, <2>2 DEF SaveStep, Files
<1>3. ASSUME NEW after \in {"run", "down"}, BeginSave(after)  PROVE AgeInv'
  BY <1>3, AgeKept DEF BeginSave
<1>4. CASE SaveLive \/ Crash
  BY <1>4, AgeKept DEF SaveLive, Crash, disk
<1>5. ASSUME NEW mode \in ResumeModes, Restart(mode)  PROVE AgeInv'
  BY <1>5, RestartAge
<1>6. QED
  BY <1>1, <1>2, <1>3, <1>4, <1>5, IterateAge, FailAge DEF Next

LEMMA InitAge == Init => AgeInv
<1> SUFFICES ASSUME Init  PROVE AgeInv
  OBVIOUS
<1>1. 0 \in Steps
  BY CheckpointAssumption DEF Steps
<1>2. \A s \in Steps, f \in Files : dirs[s][f] = None
  BY DEF Init
<1>3. "state" \in Files /\ "edges" \in Files /\ mem.step = 0 /\ mem.replay = {}
  BY DEF Files, Init, Fresh
<1>4. QED
  BY <1>1, <1>2, <1>3 DEF AgeInv, AgesNonNegative

(***************************************************************************)
(* Ages never go negative when every restart resumes (resume_mode auto),   *)
(* whatever was saved halfway, restored or merged.  With resume_mode       *)
(* disable they do: see the README, section 5.                             *)
(***************************************************************************)
THEOREM AgesNeverNegative ==
  ASSUME ResumeModes \subseteq {"auto"}
  PROVE  Spec => []AgesNonNegative
<1>1. Init => AgeInv
  BY InitAge
<1>2. SaveInv /\ AgeInv /\ [Next]_vars => AgeInv'
  BY StepAge
<1>3. AgeInv => AgesNonNegative
  BY DEF AgeInv
<1>4. QED
  BY <1>1, <1>2, <1>3, InitSave, SaveInvInductive, PTL DEF Spec

(***************************************************************************)
(* The inductive invariant of live states.  The live state of the step     *)
(* that the tracker names has the model of that checkpoint, although the   *)
(* step may have been reached more than once with different models:        *)
(* whoever reaches it again has overwritten the live state before the      *)
(* bundle is saved, and a trainer is never behind its tracker.  At step 0  *)
(* there is one model.                                                     *)
(***************************************************************************)
LiveInv ==
  /\ tracker \in Steps /\ live # None /\ live.step = tracker =>
       live.model = dirs[tracker]["actor"].model
  /\ pc \in {"run"} \cup Saving /\ live # None /\ live.step = mem.step =>
       live.model = mem.model
  /\ tracker \in Steps =>
       /\ mem.step >= tracker
       /\ mem.step = tracker => mem.model = dirs[tracker]["actor"].model
       /\ tracker = 0 => dirs[tracker]["actor"].model = 0
  /\ mem.step = 0 => mem.model = 0
  /\ live # None /\ live.step = 0 => live.model = 0

(* The trainer and its live state stay, or the live state becomes the      *)
(* trainer's.                                                              *)
LEMMA LiveKept ==
  ASSUME SaveInv, LiveInv, UNCHANGED <<mem, tracker, dirs>>, live' \in {live, mem},
         pc' \in {"run"} \cup Saving => live' = mem \/ pc \in {"run"} \cup Saving
  PROVE  LiveInv'
<1>1. CASE live' = mem
  BY <1>1 DEF LiveInv
<1>2. CASE live' = live
  BY <1>2 DEF LiveInv
<1>3. QED  BY <1>1, <1>2

LEMMA IterateLive ==
  ASSUME SaveInv, LiveInv, NEW update \in BOOLEAN, Iterate(update)
  PROVE  LiveInv'
<1>1. mem \in State /\ mem.step \in Nat /\ mem.iteration \in Nat /\ work \in Nat
  BY StateFields, CheckpointAssumption DEF SaveInv, TypeOK, Steps
<1>2. /\ mem'.step = mem.step + (IF update THEN 1 ELSE 0)
      /\ mem'.model = IF update THEN work + 1 ELSE mem.model
      /\ pc' = "live" /\ UNCHANGED <<tracker, dirs, live>>
  BY DEF Iterate, disk
<1>3. pc' \notin {"run"} \cup Saving
  BY <1>2 DEF Saving, Files
<1>4. CASE ~update
  BY <1>1, <1>2, <1>3, <1>4 DEF LiveInv
<1>5. CASE update
  <2>1. mem'.step = mem.step + 1
    BY <1>2, <1>5
  <2>2. tracker \in Steps => tracker \in Nat /\ mem.step >= tracker
    BY CheckpointAssumption DEF LiveInv, Steps
  <2>3. tracker \in Steps => mem'.step >= tracker /\ mem'.step # tracker
    BY <1>1, <2>1, <2>2
  <2>4. mem'.step # 0
    BY <1>1, <2>1
  <2>5. QED  BY <1>2, <1>3, <2>3, <2>4 DEF LiveInv
<1>6. QED  BY <1>4, <1>5

LEMMA FailLive ==
  ASSUME SaveInv, LiveInv, IterationFails
  PROVE  LiveInv'
<1>1. mem \in State
  BY DEF SaveInv, TypeOK
<1>2. /\ mem'.step = mem.step /\ mem'.model = mem.model
      /\ live' = mem' /\ UNCHANGED <<tracker, dirs>>
  BY <1>1 DEF IterationFails, disk, State
<1>3. QED  BY <1>2 DEF LiveInv

LEMMA WriteLive ==
  ASSUME SaveInv, LiveInv, NEW f \in Files, NEW then \in Saving, Write(f, then)
  PROVE  LiveInv'
<1>1. mem \in State /\ mem.step \in Steps
  BY StateFields DEF SaveInv, TypeOK
<1>2. /\ pc = f /\ pc \in Saving /\ pc' \in Saving /\ UNCHANGED <<mem, tracker, live>>
      /\ dirs' = [dirs EXCEPT ![mem.step][f] = mem]
  BY DEF Write, Saving
<1>3. \A s \in Steps :
        dirs'[s]["actor"] = IF s = mem.step /\ f = "actor" THEN mem ELSE dirs[s]["actor"]
  BY <1>1, <1>2 DEF SaveInv, TypeOK, Files
<1>4. tracker \in Steps => dirs'[tracker]["actor"].model = dirs[tracker]["actor"].model
  BY <1>1, <1>3 DEF LiveInv
<1>5. QED  BY <1>2, <1>4 DEF LiveInv

LEMMA TrackerLive ==
  ASSUME SaveInv, LiveInv, OpenTracker \/ WriteTracker
  PROVE  LiveInv'
<1>1. pc \in Saving /\ pc' \in Saving /\ UNCHANGED <<mem, dirs, live>>
  BY DEF OpenTracker, WriteTracker, Saving, Files
<1>2. mem.step \in Steps /\ mem.step >= mem.step
  BY StateFields, CheckpointAssumption DEF SaveInv, TypeOK, Steps
<1>3. CASE OpenTracker
  <2>1. tracker' \notin Steps
    BY <1>3, CheckpointAssumption DEF OpenTracker, Steps
  <2>2. QED  BY <1>1, <2>1 DEF LiveInv
<1>4. CASE WriteTracker
  <2>1. tracker' = mem.step /\ dirs[mem.step]["actor"] = mem
    BY <1>4 DEF WriteTracker, SaveInv, Past, Files, Saving
  <2>2. QED  BY <1>1, <1>2, <2>1 DEF LiveInv
<1>5. QED  BY <1>3, <1>4

LEMMA RestartLive ==
  ASSUME SaveInv, AgeInv, LiveInv, Restart("auto")
  PROVE  LiveInv'
<1>1. UNCHANGED <<dirs, tracker, live>>
  BY DEF Restart, disk
<1>2. CASE Refused("auto")
  <2>1. mem' = mem /\ pc' = "refused"
    BY <1>2 DEF Restart
  <2>2. QED  BY <1>1, <2>1, LiveKept DEF Saving, Files
<1>3. CASE ~Refused("auto") /\ tracker # None
  <2>1. tracker \in Steps /\ mem' = Restored
    BY <1>3 DEF Restart, Refused, Resuming, SaveInv, TypeOK
  <2>2. mem'.step = tracker /\ mem'.model = dirs[tracker]["actor"].model
    BY <2>1 DEF Restored, Dir
  <2>3. tracker >= tracker
    BY <2>1, CheckpointAssumption DEF Steps
  <2>4. tracker = 0 => dirs[tracker]["actor"].model = 0
    BY <2>1 DEF LiveInv
  <2>5. QED  BY <1>1, <2>1, <2>2, <2>3, <2>4 DEF LiveInv
<1>4. CASE tracker = None
  <2>1. mem' = Scratch
    BY <1>4 DEF Restart, Refused, Resuming
  <2>2. mem'.step = 0 /\ mem'.model = 0
    BY <2>1 DEF Scratch, Fresh
  <2>3. tracker \notin Steps
    BY <1>4, CheckpointAssumption DEF Steps
  <2>4. QED  BY <1>1, <2>2, <2>3 DEF LiveInv
<1>5. QED  BY <1>2, <1>3, <1>4

LEMMA StepLive ==
  ASSUME ResumeModes \subseteq {"auto"}, ~LiveMayFail
  PROVE  SaveInv /\ AgeInv /\ LiveInv /\ [Next]_vars => LiveInv'
<1> SUFFICES ASSUME SaveInv, AgeInv, LiveInv, [Next]_vars  PROVE LiveInv'
  OBVIOUS
<1>1. CASE UNCHANGED vars
  BY <1>1, LiveKept DEF vars
<1>2. CASE SaveStep
  <2>1. ASSUME NEW f \in Files, NEW then \in Saving, Write(f, then)  PROVE LiveInv'
    BY <2>1, WriteLive
  <2>2. CASE SealMeta
    <3>1. pc \in Saving /\ UNCHANGED <<mem, tracker, dirs, live>>
      BY <2>2 DEF SealMeta, Saving
    <3>2. QED  BY <3>1, LiveKept
  <2>3. CASE Mark
    <3>1. pc \in Saving /\ UNCHANGED <<mem, tracker, dirs, live>>
      BY <2>3 DEF Mark, Saving
    <3>2. QED  BY <3>1, LiveKept
  <2>4. QED
    BY <1>2, <2>1, <2>2, <2>3, TrackerLive DEF SaveStep, Files, Saving
<1>3. ASSUME NEW after \in {"run", "down"}, BeginSave(after)  PROVE LiveInv'
  <2>1. pc = "run" /\ UNCHANGED <<mem, tracker, dirs, live>>
    BY <1>3 DEF BeginSave
  <2>2. QED  BY <2>1, LiveKept
<1>4. CASE SaveLive
  BY <1>4, LiveKept DEF SaveLive, disk
<1>5. CASE Crash
  <2>1. pc' \notin {"run"} \cup Saving
    BY <1>5 DEF Crash, Saving, Files
  <2>2. QED  BY <1>5, <2>1, LiveKept DEF Crash, disk
<1>6. ASSUME NEW mode \in ResumeModes, Restart(mode)  PROVE LiveInv'
  BY <1>6, RestartLive
<1>7. QED
  BY <1>1, <1>2, <1>3, <1>4, <1>5, <1>6, IterateLive, FailLive DEF Next

LEMMA InitLive == Init => LiveInv
<1> SUFFICES ASSUME Init  PROVE LiveInv
  OBVIOUS
<1>1. tracker \notin Steps /\ live = None /\ mem.model = 0
  BY CheckpointAssumption DEF Init, Steps, Fresh
<1>2. QED  BY <1>1 DEF LiveInv

(***************************************************************************)
(* What a restart puts together from a bundle and a live state is of one   *)
(* history, canonical or not, if every restart resumes and live states can *)
(* be written.                                                             *)
(***************************************************************************)
THEOREM RestartsAlwaysOneHistory ==
  ASSUME ResumeModes \subseteq {"auto"}, ~LiveMayFail
  PROVE  Spec => []RestartsOneHistory
<1>1. SaveInv /\ AgeInv /\ [Next]_vars => AgeInv'
  BY StepAge
<1>2. SaveInv /\ AgeInv /\ LiveInv /\ [Next]_vars => LiveInv'
  BY StepLive
<1>3. SaveInv /\ AgeInv /\ LiveInv => RestartsOneHistory
  <2> SUFFICES ASSUME SaveInv, AgeInv, LiveInv  PROVE RestartsOneHistory
    OBVIOUS
  <2>1. LiveOfThisModel
    <3> SUFFICES ASSUME Resuming("auto"), ~Refused("auto"), Mergeable
                 PROVE  live.model = Dir["actor"].model
      BY DEF LiveOfThisModel
    <3>1. tracker \in Steps
      BY DEF Refused, Resuming, SaveInv, TypeOK
    <3>2. QED  BY <3>1 DEF Mergeable, LiveInv, Dir
  <2>2. QED  BY <2>1 DEF RestartsOneHistory, AgeInv
<1>4. QED
  BY <1>1, <1>2, <1>3, InitSave, InitAge, InitLive, SaveInvInductive, PTL DEF Spec

(***************************************************************************)
(* The refinement.  In a canonical run a restart reads the marked bundle   *)
(* that the tracker names, and all of its files hold one state.            *)
(***************************************************************************)
Snap(m) == [state |-> Content(m), rollout |-> m.iteration]

LEMMA SnapIsSnapshot ==
  ASSUME NEW m \in State
  PROVE  /\ Snap(m).state = Content(m) /\ Snap(m).rollout = m.iteration
         /\ Snap(m) \notin {None, Torn}
<1>1. /\ m.step \in Steps /\ m.iteration \in Nat /\ m.model \in Nat
      /\ m.replay \in SUBSET [id : Nat, born : Nat]
  BY StateFields
<1>2. Snap(m) \in [state : [step : Steps, model : Nat, replay : SUBSET [id : Nat, born : Nat]],
                   rollout : Nat]
  BY <1>1 DEF Snap, Content
<1>3. QED  BY <1>2, CheckpointAssumption DEF Snap

(* A marked step has a whole bundle, and no restart refuses it. *)
LEMMA MarkedBundle ==
  ASSUME SaveInv, MarkedIsWhole, tracker \in marked
  PROVE  /\ tracker \in Steps /\ tracker # None /\ tracker # Torn
         /\ Dir["actor"] \in State /\ Dir["actor"].step = tracker
         /\ \A f \in Files : Dir[f] = Dir["actor"] /\ Dir[f] # None
         /\ ~Refused("auto")
<1>1. tracker \in Steps /\ tracker # None /\ tracker # Torn
  BY CheckpointAssumption DEF SaveInv, TypeOK, Steps
<1>2. \A f \in Files : Dir[f] = Dir["actor"] /\ Dir[f] # None
  BY DEF MarkedIsWhole, Dir
<1>3. Dir["actor"] \in State /\ Dir["actor"].step = tracker
  BY <1>1, <1>2 DEF SaveInv, TypeOK, Files, MarkedIsWhole, Dir
<1>4. tracker \in sealed
  BY DEF MarkedIsWhole
<1>5. Dir["manifest"] = Dir["state"]
  BY <1>2 DEF Files
<1>6. ~Refused("auto")
  BY <1>1, <1>2, <1>4, <1>5 DEF Refused
<1>7. QED  BY <1>1, <1>2, <1>3, <1>6

Shape ==
  IF tracker = None THEN None
  ELSE IF tracker \in marked THEN Snap(dirs[tracker]["actor"]) ELSE Torn

LEMMA KeptForm == Canonical /\ SaveInv /\ MarkedIsWhole => Kept = Shape
<1> SUFFICES ASSUME Canonical, SaveInv, MarkedIsWhole  PROVE Kept = Shape
  OBVIOUS
<1>1. CASE tracker = None
  BY <1>1 DEF Kept, Shape
<1>2. CASE tracker # None /\ tracker \notin marked
  <2>1. Refused("auto")
    BY <1>2 DEF Refused, Resuming
  <2>2. QED  BY <1>2, <2>1 DEF Kept, Shape
<1>3. CASE tracker # None /\ tracker \in marked
  <2> DEFINE m == Dir["actor"]
  <2>1. m \in State /\ Dir["state"] = m /\ Dir["edges"] = m /\ Dir["manifest"] = m
    BY <1>3, MarkedBundle DEF Files
  <2>2. Content([m EXCEPT !.model = m.model, !.replay = m.replay]) = Content(m)
    BY <2>1 DEF Content, State
  <2>3. Kept = [state |-> Content([m EXCEPT !.model = m.model, !.replay = m.replay]),
                rollout |-> m.iteration]
    BY <1>3, <2>1, MarkedBundle DEF Kept
  <2>4. QED  BY <1>3, <2>2, <2>3 DEF Snap, Shape, Dir
<1>4. QED  BY <1>1, <1>2, <1>3

LEMMA KeptFormNext == (Canonical /\ SaveInv /\ MarkedIsWhole => Kept = Shape)'
BY KeptForm, PTL

LEMMA InitStore == Init => Store!Init
BY DEF Init, Store!Init, Kept, Fresh

LEMMA WorkStore ==
  ASSUME Kept = Shape, Kept' = Shape', UNCHANGED disk,
         mem'.iteration = mem.iteration + 1
  PROVE  Store!Work
BY DEF Store!Work, disk, Shape, Snap, Content

(* Steps of a save: the bundle that the tracker names loses its marker,    *)
(* the tracker moves to a bundle without one, or the bundle is whole.      *)
LEMMA SaveStore ==
  ASSUME SaveInv, MarkedIsWhole, Kept = Shape, Kept' = Shape',
         SaveStep \/ \E after \in {"run", "down"} : BeginSave(after)
  PROVE  Store!Spoil \/ Store!Keep \/ UNCHANGED Store!vars
<1>1. mem.step \in Steps /\ mem.step # None /\ mem.step # Torn
  BY StateFields, CheckpointAssumption DEF SaveInv, TypeOK, Steps
<1>2. tracker \in marked => tracker \in Steps
  BY DEF SaveInv, TypeOK
<1>3. Torn \notin marked /\ None \notin marked /\ Torn # None
  <2>1. marked \subseteq Nat
    BY CheckpointAssumption DEF SaveInv, TypeOK, Steps
  <2>2. QED  BY <2>1, CheckpointAssumption
<1>4. ASSUME NEW after \in {"run", "down"}, BeginSave(after)
      PROVE  Store!Spoil \/ UNCHANGED Store!vars
  <2>1. UNCHANGED <<mem, dirs, tracker>> /\ marked' = marked \ {mem.step}
    BY <1>4 DEF BeginSave
  <2>2. CASE tracker = mem.step
    BY <1>1, <2>1, <2>2 DEF Store!Spoil, Shape
  <2>3. CASE tracker # mem.step
    BY <2>1, <2>3 DEF Store!vars, Shape
  <2>4. QED  BY <2>2, <2>3
<1>5. ASSUME NEW f \in Files, NEW then \in Saving, Write(f, then)
      PROVE  UNCHANGED Store!vars
  <2>1. /\ pc \in Saving /\ UNCHANGED <<mem, tracker, marked>>
        /\ dirs' = [dirs EXCEPT ![mem.step][f] = mem]
    BY <1>5 DEF Write, Saving
  <2>2. tracker \in marked => tracker # mem.step
    BY <2>1 DEF SaveInv
  <2>3. tracker \in marked => dirs'[tracker] = dirs[tracker]
    BY <1>2, <2>1, <2>2 DEF SaveInv, TypeOK
  <2>4. QED  BY <2>1, <2>3 DEF Store!vars, Shape
<1>6. ASSUME OpenTracker \/ WriteTracker  PROVE Store!Spoil
  <2>1. /\ UNCHANGED <<mem, dirs, marked>> /\ mem.step \notin marked
        /\ tracker' \in {Torn, mem.step}
    BY <1>6 DEF OpenTracker, WriteTracker, SaveInv, Saving
  <2>2. Kept' = Torn
    BY <1>1, <1>3, <2>1 DEF Shape
  <2>3. QED  BY <2>1, <2>2 DEF Store!Spoil
<1>7. ASSUME SealMeta  PROVE UNCHANGED Store!vars
  BY <1>7 DEF SealMeta, Store!vars, Shape
<1>8. ASSUME Mark  PROVE Store!Keep
  <2>1. UNCHANGED <<mem, dirs, tracker>> /\ mem.step \in marked'
    BY <1>8 DEF Mark
  <2>2. tracker = mem.step /\ dirs[mem.step]["actor"] = mem
    BY <1>8 DEF Mark, SaveInv, Past, Saving, Files
  <2>3. Kept' = Snap(mem)
    BY <1>1, <2>1, <2>2 DEF Shape, Snap, Content
  <2>4. QED  BY <2>1, <2>3 DEF Store!Keep, Snap
<1>9. QED
  BY <1>4, <1>5, <1>6, <1>7, <1>8 DEF SaveStep, Files, Saving

LEMMA RestartStore ==
  ASSUME Canonical, SaveInv, MarkedIsWhole, AgeInv, Kept = Shape, Kept' = Shape',
         Restart("auto")
  PROVE  Store!Restart \/ Store!StartOver \/ UNCHANGED Store!vars
<1>1. UNCHANGED <<dirs, tracker, marked>>
  BY DEF Restart, disk
<1>2. Kept' = Kept
  BY <1>1 DEF Shape
<1>3. CASE Refused("auto")
  BY <1>2, <1>3 DEF Restart, Store!vars
<1>4. CASE ~Refused("auto") /\ tracker # None
  <2> DEFINE m == Dir["actor"]
  <2>1. tracker \in marked /\ mem' = Restored
    BY <1>4 DEF Restart, Refused, Resuming
  <2>2. m \in State /\ m.step = tracker /\ \A f \in Files : Dir[f] = m /\ Dir[f] # None
    BY <2>1, MarkedBundle
  <2>3. Kept = Snap(m)
    BY <1>4, <2>1 DEF Shape, Dir
  <2>4. /\ Dir["state"] = m /\ Dir["meta"] # None /\ Dir["edges"] # None
        /\ Dir["edges"] = m /\ Dir["state"] # None
    BY <2>2 DEF Files
  <2>5. /\ mem'.step = m.step /\ mem'.model = m.model /\ mem'.replay = m.replay
        /\ mem'.iteration = IF Mergeable THEN live.iteration ELSE m.iteration
    BY <2>1, <2>2, <2>4 DEF Restored, ReplayOf
  <2>6. mem'.iteration >= m.iteration
    BY <2>2, <2>4, <2>5, StateFields DEF Mergeable
  <2>7. QED
    BY <1>2, <2>2, <2>3, <2>5, <2>6, SnapIsSnapshot DEF Store!Restart, Content
<1>5. CASE tracker = None
  <2>1. mem' = Scratch
    BY <1>5 DEF Restart, Refused, Resuming
  <2>2. Scratch = Fresh
    <3>1. dirs[0]["state"] = None
      BY <1>5, CheckpointAssumption DEF AgeInv, Steps
    <3>2. QED  BY <3>1 DEF Scratch, Fresh
  <2>3. QED
    BY <1>2, <1>5, <2>1, <2>2 DEF Store!StartOver, Shape, Fresh
<1>6. QED  BY <1>3, <1>4, <1>5

LEMMA StepStore ==
  ASSUME Canonical, ResumeModes \subseteq {"auto"}
  PROVE  /\ SaveInv /\ MarkedIsWhole /\ AgeInv /\ Kept = Shape /\ Kept' = Shape'
         /\ [Next]_vars
         => [Store!Next]_(Store!vars)
<1> SUFFICES ASSUME SaveInv, MarkedIsWhole, AgeInv, Kept = Shape, Kept' = Shape',
                    [Next]_vars
             PROVE  Store!Next \/ UNCHANGED Store!vars
  OBVIOUS
<1>1. CASE UNCHANGED <<mem, disk>>
  BY <1>1 DEF Store!vars, disk, Shape
<1>2. ASSUME NEW update \in BOOLEAN, Iterate(update)  PROVE Store!Work
  BY <1>2, WorkStore DEF Iterate
<1>3. CASE IterationFails
  <2>1. mem'.iteration = mem.iteration + 1 /\ UNCHANGED disk
    BY <1>3 DEF IterationFails, SaveInv, TypeOK, State
  <2>2. QED  BY <2>1, WorkStore DEF Store!Next
<1>4. CASE SaveLive \/ Crash
  BY <1>1, <1>4 DEF SaveLive, Crash
<1>5. CASE SaveStep \/ \E after \in {"run", "down"} : BeginSave(after)
  BY <1>5, SaveStore DEF Store!Next
<1>6. ASSUME NEW mode \in ResumeModes, Restart(mode)  PROVE Store!Next \/ UNCHANGED Store!vars
  BY <1>6, RestartStore DEF Store!Next
<1>7. CASE UNCHANGED vars
  BY <1>1, <1>7 DEF vars, disk
<1>8. QED
  BY <1>2, <1>3, <1>4, <1>5, <1>6, <1>7 DEF Next, Store!Next

(***************************************************************************)
(* Restarts of a canonical run that always resumes continue from one whole *)
(* snapshot or refuse: the bundle, its tracker and its marker implement    *)
(* the snapshot store.  A non-canonical run resumes from a bundle without  *)
(* a marker, and a restart that does not resume starts over although a     *)
(* snapshot is kept, so both assumptions are needed.                       *)
(***************************************************************************)
THEOREM BundleImplementsStore ==
  ASSUME Canonical, ResumeModes \subseteq {"auto"}
  PROVE  Spec => ImplementsStore
<1>1. SaveInv /\ AgeInv /\ [Next]_vars => AgeInv'
  BY StepAge
<1>2. SaveInv /\ MarkedIsWhole => Kept = Shape
  BY KeptForm
<1>3. (SaveInv /\ MarkedIsWhole => Kept = Shape)'
  BY KeptFormNext
<1>4. SaveInv /\ MarkedIsWhole /\ AgeInv /\ SaveInv' /\ MarkedIsWhole' /\ [Next]_vars
        => [Store!Next]_(Store!vars)
  BY <1>2, <1>3, StepStore
<1>5. Spec => []MarkedIsWhole
  BY MarkerTellsTruth
<1>6. QED
  BY <1>1, <1>4, <1>5, InitSave, InitAge, InitStore, SaveInvInductive, PTL
  DEF Spec, ImplementsStore, Store!Spec
===============================================================================
