--------------------------- MODULE RolloutHandshake ----------------------------
(***************************************************************************)
(* One generation of trees, from the trainer to the rollout workers and    *)
(* back, and the check that the server which samples and the server which  *)
(* scores hold the same weights (gear_ray_trainer.py, agent_loop.py,       *)
(* async_tree_rollout.py, gear_gate.py).  The trainer asks the rollout     *)
(* server for a fingerprint of its weights, then wakes it, which loads the *)
(* actor's weights, and dispatches the rows to the workers.  Each worker   *)
(* runs its rows concurrently in one process; every row builds a gate of   *)
(* its own, but all the gates of a process share one cached scorer, whose  *)
(* fingerprint each of them fetches again.  A row runs on the event loop of *)
(* its worker, which it shares, except while a deferred row resolves its   *)
(* endpoint in a thread of its own.  Weights are named by the              *)
(* number of actor updates they have seen.  The servers are a hybrid       *)
(* rollout replica and, unless they are the same, a scorer that others     *)
(* reload at will.  What a row does while it builds its tree is module     *)
(* OnlineTree, what the trainer does with the edges module TreeTrainer.    *)
(* Definitions named ...Mutant are one-line bugs of the definition that    *)
(* follows; they show that a property notices them and are used nowhere.   *)
(***************************************************************************)
EXTENDS Naturals, FiniteSets

CONSTANTS
  Rows,             \* the prompts of a generation
  Workers,          \* the agent loop worker processes
  WorkerOf,         \* DataProto.chunk: the worker that runs a row
  FreeCacheEngine,  \* rollout.free_cache_engine: sleep and wake the replicas
  Stricts,          \* the values of gear.strict_vdra to explore
  MaxUpdates,       \* bound on actor updates
  MaxGenerations,   \* bound on generations
  Build,            \* what a server that reports its software version answers
  None              \* no fingerprint

ASSUME HandshakeAssumption ==
  /\ IsFiniteSet(Rows) /\ Rows # {}
  /\ WorkerOf \in [Rows -> Workers]
  /\ FreeCacheEngine \in BOOLEAN /\ Stricts \subseteq BOOLEAN
  /\ MaxUpdates \in Nat /\ MaxGenerations \in Nat
  /\ None \notin Nat /\ Build \notin Nat /\ None # Build

VARIABLES
  config,    \* the resolved configuration and what the servers report
  actor,     \* the actor's weights
  served,    \* the weights the rollout server holds
  external,  \* the weights the separate scorer server holds
  awake,     \* whether the rollout replicas are awake
  pc,        \* where the trainer is
  request,   \* policy_snapshot_id and rollout_server_weight_version of the rows
  row,       \* where each row is
  answer,    \* what the probe of a row brought and is not written yet
  scorer,    \* _SCORER_CACHE: the scorer's server_weight_version, per worker
  gate,      \* what bind_snapshot left in the gate of each row
  work,      \* generations so far
  manifest   \* rollout_scorer_weights_verified; lapsed: a generation without

trainerVars == <<actor, pc, request, work, manifest>>
workerVars == <<row, answer, scorer, gate>>
handshakeVars == <<config, actor, served, external, awake, pc, request, row,
                   answer, scorer, gate, work, manifest>>

(* scorer_uses_rollout_server, distinct servers, or, which strict runs      *)
(* refuse, only a scorer: its address then stands for the rollout's.        *)
Endpoints == {"same", "two", "scorer_only"}
Reports == {"weights", "build", "silent"}

(* busy: a saturated rollout server may leave the probe for its endpoint    *)
(* unanswered.                                                              *)
Configs == [endpoints : Endpoints, reports : Reports, strict : Stricts, busy : BOOLEAN]

Versions == Nat \cup {Build, None}
NoGate == [verified |-> FALSE, seen |-> None]

HandshakeInit ==
  /\ config \in {c \in Configs : /\ c.strict => c.endpoints # "scorer_only"
                                /\ c.busy => c.endpoints = "same"}
  /\ actor = 0 /\ served = 0 /\ external = 0
  /\ awake = ~FreeCacheEngine
  /\ pc = "idle"
  /\ request = [snapshot |-> 0, version |-> None]
  /\ row = [r \in Rows |-> "idle"]
  /\ answer = [r \in Rows |-> None]
  /\ scorer = [w \in Workers |-> None]
  /\ gate = [r \in Rows |-> NoGate]
  /\ work = 0
  /\ manifest = [verified |-> FALSE, lapsed |-> FALSE]

(* fetch_server_weight_version: a server that holds the given weights       *)
(* reports them, its software version or nothing; a probe may be lost.      *)
Fetched(weights) ==
  {None} \cup CASE config.reports = "weights" -> {weights}
                [] config.reports = "build"   -> {Build}
                [] config.reports = "silent"  -> {}

ScorerWeights == IF config.endpoints = "same" THEN served ELSE external
FetchTarget == IF config.endpoints = "scorer_only" THEN external ELSE served

(* _attach_async_rollout_scorer_endpoint may resolve no endpoint.           *)
AttachFails ==
  /\ pc = "idle" /\ work < MaxGenerations /\ config.endpoints = "same"
  /\ pc' = "failed"
  /\ UNCHANGED <<config, actor, served, external, awake, request, work,
                 manifest, workerVars>>

(* The start of _generate_tree_edges: the fingerprint comes before the wake *)
(* up of generate_sequences.                                                *)
Answered(v) ==
  /\ pc' = "fetched"
  /\ request' = [snapshot |-> actor, version |-> v]
  /\ manifest' = [verified |-> v # None, lapsed |-> manifest.lapsed \/ v = None]
  /\ work' = work + 1

FetchVersion ==
  /\ pc = "idle" /\ work < MaxGenerations
  /\ \E v \in Fetched(FetchTarget) :
       \/ (config.strict => v # None) /\ Answered(v)
       \/ config.strict /\ v = None
          /\ pc' = "failed" /\ UNCHANGED <<request, manifest, work>>
  /\ UNCHANGED <<config, actor, served, external, awake, workerVars>>

SyncedMutant == served

(* The weights a rollout replica holds after wake_up.                       *)
Synced == IF FreeCacheEngine THEN actor ELSE served

(* AgentLoopManager.generate_sequences up to the dispatch of the chunks.    *)
Dispatch ==
  /\ pc = "fetched"
  /\ pc' = "rolling"
  /\ awake' = TRUE /\ served' = Synced
  /\ row' = [r \in Rows |-> "sent"]
  /\ gate' = [r \in Rows |-> NoGate]
  /\ UNCHANGED <<config, actor, external, request, answer, scorer, work, manifest>>

(* Where a row holds its worker's event loop: in __init__, which blocks, and *)
(* in run between the check of the scorer and the binding, without an await. *)
(* Only a thread, or another process, moves then.                            *)
OnLoop == {"constructing", "repairing", "checked"}
LoopFreeMutant(r) == row[r] \notin OnLoop  \* an await before the binding
LoopFree(r) == \A s \in Rows : WorkerOf[s] = WorkerOf[r] => row[s] \notin OnLoop

(* The answer of the scorer's server to the probe of _build_scorer.         *)
Probe(r) == \E v \in Fetched(ScorerWeights) : answer' = [answer EXCEPT ![r] = v]

(* TreeAgentLoop.__init__, one for every row, when the endpoint is known.   *)
Construct(r) ==
  /\ row[r] = "sent" /\ LoopFree(r)
  /\ Probe(r)
  /\ row' = [row EXCEPT ![r] = "constructing"]
  /\ UNCHANGED <<config, served, external, awake, scorer, gate, trainerVars>>

(* The same when the probe for the rollout endpoint times out.              *)
Defer(r) ==
  /\ row[r] = "sent" /\ LoopFree(r) /\ config.busy
  /\ row' = [row EXCEPT ![r] = "deferred"]
  /\ UNCHANGED <<config, served, external, awake, answer, scorer, gate, trainerVars>>

(* _ensure_scorer_endpoint, in a thread, from the address on the request:   *)
(* the lock it is under is the row's own.                                   *)
EnsureEndpoint(r) ==
  /\ row[r] = "deferred"
  /\ Probe(r)
  /\ row' = [row EXCEPT ![r] = "ensuring"]
  /\ UNCHANGED <<config, served, external, awake, scorer, gate, trainerVars>>

(* The end of _build_gate: the answer, or nothing, is the fingerprint of    *)
(* the process's scorer.                                                    *)
BuildGate(r) ==
  /\ row[r] \in {"constructing", "ensuring"}
  /\ scorer' = [scorer EXCEPT ![WorkerOf[r]] = answer[r]]
  /\ answer' = [answer EXCEPT ![r] = None]
  /\ row' = [row EXCEPT ![r] = "ready"]
  /\ UNCHANGED <<config, served, external, awake, gate, trainerVars>>

Reported(r) == scorer[WorkerOf[r]]

(* run, before the binding: whether the scorer has a fingerprint.           *)
Unreported(r) ==
  config.endpoints = "same" /\ request.version # None /\ Reported(r) = None

CheckScorer(r) ==
  /\ row[r] = "ready" /\ LoopFree(r)
  /\ row' = [row EXCEPT ![r] = IF Unreported(r) THEN "repairing" ELSE "checked"]
  /\ UNCHANGED <<config, served, external, awake, answer, scorer, gate, trainerVars>>

(* In same-server mode a scorer without a fingerprint takes the trainer's.  *)
RepairScorer(r) ==
  /\ row[r] = "repairing"
  /\ scorer' = [scorer EXCEPT ![WorkerOf[r]] = request.version]
  /\ row' = [row EXCEPT ![r] = "checked"]
  /\ UNCHANGED <<config, served, external, awake, answer, gate, trainerVars>>

RefusedMutant(r) ==
  /\ config.strict /\ request.version # None /\ Reported(r) # None
  /\ Reported(r) # request.version

(* bind_snapshot: what a strict gate refuses, and the flag it keeps.        *)
Refused(r) ==
  /\ config.strict /\ request.version # None
  /\ Reported(r) # request.version

Verified(r) ==
  IF request.version # None /\ Reported(r) # None
  THEN Reported(r) = request.version
  ELSE ~config.strict /\ request.version # None

(* bind_snapshot reads the fingerprint once.                                *)
Bind(r) ==
  /\ row[r] = "checked"
  /\ IF Refused(r)
     THEN row' = [row EXCEPT ![r] = "refused"] /\ UNCHANGED gate
     ELSE /\ row' = [row EXCEPT ![r] = "building"]
          /\ gate' = [gate EXCEPT ![r] = [verified |-> Verified(r), seen |-> Reported(r)]]
  /\ UNCHANGED <<config, served, external, awake, answer, scorer, trainerVars>>

FinishTree(r) ==
  /\ row[r] = "building" /\ LoopFree(r)
  /\ row' = [row EXCEPT ![r] = "done"]
  /\ UNCHANGED <<config, served, external, awake, answer, scorer, gate, trainerVars>>

(* A model id, a request field, a segment, a score or a grade that could    *)
(* not be had.                                                              *)
RowRaises(r) ==
  /\ \/ row[r] = "constructing"
     \/ row[r] \in {"sent", "ensuring", "ready", "building"} /\ LoopFree(r)
  /\ row' = [row EXCEPT ![r] = "raised"]
  /\ answer' = [answer EXCEPT ![r] = None]
  /\ UNCHANGED <<config, served, external, awake, scorer, gate, trainerVars>>

BrokenMutant == \E r \in Rows : row[r] = "raised"

(* ray.get over the workers: one exception is the generation's.             *)
Broken == \E r \in Rows : row[r] \in {"refused", "raised"}

GenerationFails ==
  /\ pc = "rolling" /\ Broken
  /\ pc' = "failed"
  /\ UNCHANGED <<config, actor, served, external, awake, request, work,
                 manifest, workerVars>>

Collect ==
  /\ pc = "rolling" /\ \A r \in Rows : row[r] = "done"
  /\ pc' = "collected"
  /\ awake' = ~FreeCacheEngine
  /\ UNCHANGED <<config, actor, served, external, request, work, manifest, workerVars>>

(* The iteration's update, or an update that was postponed.                 *)
UpdateActor ==
  /\ pc = "collected" /\ actor < MaxUpdates
  /\ pc' = "idle"
  /\ actor' = actor + 1
  /\ UNCHANGED <<config, served, external, awake, request, work, manifest, workerVars>>

Postpone ==
  /\ pc = "collected"
  /\ pc' = "idle"
  /\ UNCHANGED <<config, actor, served, external, awake, request, work,
                 manifest, workerVars>>

(* Whoever runs the separate scorer loads some checkpoint of the actor.     *)
ReloadScorer ==
  /\ config.endpoints # "same"
  /\ external' \in 0..actor /\ external' > external
  /\ UNCHANGED <<config, served, awake, trainerVars, workerVars>>

RowStep(r) ==
  \/ Construct(r) \/ Defer(r) \/ EnsureEndpoint(r) \/ BuildGate(r)
  \/ CheckScorer(r) \/ RepairScorer(r) \/ Bind(r) \/ FinishTree(r) \/ RowRaises(r)

Trainer ==
  \/ AttachFails \/ FetchVersion \/ Dispatch
  \/ GenerationFails \/ Collect \/ UpdateActor \/ Postpone

HandshakeNext == Trainer \/ ReloadScorer \/ \E r \in Rows : RowStep(r)

HandshakeFairness == WF_handshakeVars(Trainer) /\ \A r \in Rows : WF_handshakeVars(RowStep(r))

HandshakeSpec == HandshakeInit /\ [][HandshakeNext]_handshakeVars /\ HandshakeFairness
-----------------------------------------------------------------------------
Building(r) == row[r] \in {"building", "done"}

HandshakeTypeOK ==
  /\ config \in Configs
  /\ actor \in 0..MaxUpdates /\ served \in 0..actor /\ external \in 0..actor
  /\ awake \in BOOLEAN
  /\ pc \in {"idle", "fetched", "rolling", "collected", "failed"}
  /\ request \in [snapshot : 0..actor, version : Versions]
  /\ row \in [Rows -> {"idle", "sent", "constructing", "deferred", "ensuring", "ready",
                       "repairing", "checked", "building", "done", "refused", "raised"}]
  /\ answer \in [Rows -> Versions]
  /\ scorer \in [Workers -> Versions]
  /\ gate \in [Rows -> [verified : BOOLEAN, seen : Versions]]
  /\ work \in 0..MaxGenerations
  /\ manifest \in [verified : BOOLEAN, lapsed : BOOLEAN]

(* A tree under construction samples from the weights its edges are labelled *)
(* with: policy_snapshot_id names the actor of the fetch, and no update, and *)
(* no earlier generation's weights, come between it and the rollout server.  *)
SnapshotHonest ==
  pc = "rolling" =>
    \A r \in Rows : Building(r) => awake /\ served = request.snapshot

(* In a strict run every tree, whichever worker built it and however often   *)
(* the others replaced the fingerprint of the scorer they share, was let     *)
(* through on two reported fingerprints that agreed, and the manifest's bit  *)
(* is then true of every generation since the start.                         *)
StrictMeansVerified ==
  config.strict =>
    /\ pc = "rolling" => \A r \in Rows : Building(r) =>
         gate[r].verified /\ gate[r].seen = request.version /\ request.version # None
    /\ manifest.verified => ~manifest.lapsed

(* When one server does both jobs, reports a version that a weight sync does *)
(* not change and answers for its endpoint, so that no row runs in a thread, *)
(* no probe lost in a worker makes a strict gate refuse.                     *)
LostProbesForgiven ==
  config.endpoints = "same" /\ config.reports = "build" /\ ~config.busy =>
    \A r \in Rows : row[r] # "refused"

(* A generation that was dispatched comes back or ends the run, also when a  *)
(* gate refuses or a row raises.                                             *)
GenerationEnds == (pc = "rolling") ~> (pc \in {"collected", "failed"})

(* What the comment on the fetch promises, and the code does not keep: a     *)
(* strict gate refuses a separate scorer whose reported weights are not those *)
(* the rollout server samples with.                                          *)
DivergenceRefused ==
  config.strict /\ config.endpoints = "two" /\ config.reports = "weights" =>
    \A r \in Rows : row[r] = "building" => gate[r].seen = served

(* What the comment on the repair promises, and a deferred row breaks: the   *)
(* trainer's fingerprint makes the worker's own probe redundant, whichever   *)
(* thread loses one between the repair of a scorer and its binding.          *)
ProbesRedundant ==
  config.endpoints = "same" /\ config.reports = "build" =>
    \A r \in Rows : row[r] # "refused"
===============================================================================
