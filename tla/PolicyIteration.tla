---------------------------- MODULE PolicyIteration ----------------------------
(***************************************************************************)
(* The legacy trainer's loop on disk: PolicyIterationRuntime generates the *)
(* episodes of an iteration from the latest policy, PPOTrainer trains on   *)
(* them and stores what it made, and a process that dies resumes from the  *)
(* last resumable checkpoint.  With cached engines a due checkpoint is     *)
(* written in place, after the old ones were cleaned; without, every step  *)
(* writes a temporary one that the next step loads and a background cp     *)
(* makes permanent when it is due.  A policy is named by a number, 0 the   *)
(* initial one, fresh for every training step; a part of a checkpoint is   *)
(* named by the policy it comes from, the episodes of an iteration by all  *)
(* the policies that theirs come from: what a process left of an iteration *)
(* is used again, and a hybrid generator replays edges.  An iteration's    *)
(* number stands for the name of its checkpoint, with epoch and step.  One *)
(* process stands for all: they meet at barriers and only the first one    *)
(* writes.                                                                 *)
(* Definitions named ...Mutant are one-line bugs of the definition that    *)
(* follows; they show that a property notices them and are used nowhere.   *)
(***************************************************************************)
EXTENDS Naturals, Sequences, FiniteSets

CONSTANTS
  NumIterations,  \* num_iterations
  KeepSteps,      \* args.checkpoint_keep_steps, 0 for None
  Minimize,       \* APP_MINIMIZE_STORED_FILES
  Setups,         \* the configurations to explore
  MaxBoots,       \* bound on processes
  None,           \* no file
  Torn,           \* a file, or a directory, cut short by a crash
  Gone,           \* no file, since a removal that a crash cut short
  Bare            \* an engine directory that holds no more than a model

ASSUME IterationAssumption ==
  /\ {NumIterations, KeepSteps, MaxBoots} \subseteq Nat /\ Minimize \in BOOLEAN
  /\ Setups \subseteq
       [cached : BOOLEAN, critic : BOOLEAN, replay : Nat, saveSteps : Nat]
  /\ Cardinality({None, Torn, Gone, Bare}) = 4 /\ {None, Torn, Gone, Bare} \cap Nat = {}
  /\ None \notin {"store", "temp"} \X Nat

VARIABLES
  setup,     \* cache_deepspeed_engines, a critic that is trained, how many
             \* iterations a hybrid generator keeps an edge for, 0 if it is
             \* another generator, and args.save_steps with 0 for -1
  pc,        \* where the process is, or "down"
  loop,      \* iteration of run_iteration_loop, and where it started
  state,     \* trainer.state.iteration
  engine,    \* the policies in the actor and critic engines
  load,      \* checkpoint_path_to_load
  hf,        \* latest_policy_path
  todo,      \* what of a checkpoint is still to be written
  buffer,    \* replay_buffer.edges: their policies and iterations
  store,     \* checkpoints_dir
  temp,      \* temp_checkpoint_dir
  copies,    \* background cp's: what each still has to copy
  results,   \* temp_episodes: the policies of what each iteration left there
  episodes,  \* the episodes on disk
  final,     \* the file that ends a run
  made,      \* policies so far
  last,      \* history: the policy of this process's last step
  boots

memory == <<pc, loop, state, engine, load, hf, todo, buffer, last>>
disk == <<store, temp, copies, results, episodes, final>>
vars == <<setup, memory, disk, made, boots>>

cached == setup.cached
HasCritic == setup.critic
SaveSteps == setup.saveSteps
Hybrid == setup.replay # 0
Missing == {None, Gone}
Lost == Missing \cup {Torn, Bare}

(* _save_checkpoint writes these in turn.                                   *)
SaveOrderMutant ==
  IF HasCritic THEN <<"actor", "state", "hf", "critic">> ELSE <<"actor", "state", "hf">>

SaveOrder ==
  IF HasCritic THEN <<"state", "hf", "actor", "critic">> ELSE <<"state", "hf", "actor">>

Parts == {"state", "hf", "actor", "critic"}
Empty == [p \in Parts |-> None]
NoDirectory == [i \in {} |-> Empty]
Only(dir, S) == [i \in S |-> dir[i]]
Without(dir, i) == Only(dir, DOMAIN dir \ {i})
With(dir, i, ckpt) == [j \in DOMAIN dir \cup {i} |-> IF j = i THEN ckpt ELSE dir[j]]
PartOf(dir, i, p) == IF i \in DOMAIN dir THEN dir[i][p] ELSE None
IsLast(i, S) == i \in S /\ \A j \in S : j <= i

(* is_checkpoint_resumable: only that something is there is looked at.      *)
Resumable(ckpt) == ckpt["actor"] \notin Missing \cup {Bare} /\ ckpt["critic"] # Bare

Start == [at |-> 0, from |-> 0]
NewEngine == [actor |-> 0, critic |-> 0]

Init ==
  /\ setup \in Setups
  /\ pc = "down" /\ loop = Start /\ state = 0 /\ engine = NewEngine
  /\ load = None /\ hf = None /\ todo = <<>> /\ last = None /\ buffer = {}
  /\ store = NoDirectory /\ temp = NoDirectory /\ copies = NoDirectory
  /\ results = [i \in 0..NumIterations |-> {}]
  /\ episodes = [i \in 0..NumIterations |-> None]
  /\ final = None /\ made = 0 /\ boots = 0

(* An exception ends the process, and its memory is gone.                   *)
Raise ==
  /\ pc' = "down" /\ loop' = Start /\ state' = 0 /\ engine' = NewEngine
  /\ load' = None /\ hf' = None /\ todo' = <<>> /\ last' = None /\ buffer' = {}

-----------------------------------------------------------------------------
(* run_iteration_loop up to the loop.                                       *)
Found == {i \in DOMAIN store : Resumable(store[i])}

Boot ==
  /\ pc = "down" /\ boots < MaxBoots /\ final = None
  /\ boots' = boots + 1
  /\ engine' = NewEngine /\ todo' = <<>> /\ last' = None /\ buffer' = {}
  /\ \/ /\ Found = {}
        /\ pc' = "generate" /\ loop' = Start /\ state' = 0 /\ load' = None /\ hf' = None
     \/ \E i \in Found :
          /\ IsLast(i, Found)
          /\ \/ /\ store[i]["state"] \in Lost
                /\ pc' = "down" /\ UNCHANGED <<loop, state, load, hf>>
             \/ /\ store[i]["state"] \notin Lost
                /\ pc' = "generate" /\ loop' = [at |-> i, from |-> i] /\ state' = i
                /\ load' = <<"store", i>> /\ hf' = <<"store", i>>
  /\ UNCHANGED <<setup, disk, made>>

(* _generate_episodes: the first iteration of a process may find its        *)
(* episodes on disk.                                                        *)
Cached == loop.at = loop.from /\ episodes[loop.at] # None

ReadEpisodes ==
  /\ pc = "generate" /\ loop.at < NumIterations /\ Cached
  /\ IF episodes[loop.at] = Torn
     THEN Raise
     ELSE pc' = "step" /\ UNCHANGED <<loop, state, engine, load, hf, todo, buffer, last>>
  /\ UNCHANGED <<setup, disk, made, boots>>

(* The policy the inference server loads from latest_policy_path.           *)
Sampled ==
  IF hf = None THEN 0 ELSE PartOf(IF hf[1] = "temp" THEN temp ELSE store, hf[2], "hf")

(* What an iteration leaves in temp_episodes, there when it is done again:   *)
(* trees, unless no_cache is set, and the edges and shards of a process.    *)
Results == [results EXCEPT ![loop.at] = @ \cup ({Sampled} \ Lost)]

(* OnPolicyReplayBuffer.get_edges: edges age from when they were added.     *)
Recent == {e \in buffer : loop.at < e.at + setup.replay}

(* Each question takes a cached tree or a new one, and a process that gets  *)
(* no edge or episode of its own hands on the one it left; of what there    *)
(* is, with what the buffer keeps, some is sampled.                         *)
Generate ==
  /\ pc = "generate" /\ loop.at < NumIterations /\ ~Cached
  /\ \/ /\ Sampled \in Lost
        /\ Raise /\ UNCHANGED <<results, episodes>>
     \/ /\ Sampled \notin Lost
        /\ results' = Results
        /\ \E new \in SUBSET Results[loop.at] \ {{}} :
             LET pool == Recent \cup [policy : new, at : {loop.at}]
                 usable == {e.policy : e \in pool} \cup results[loop.at]
             IN  /\ \E used \in SUBSET usable \ {{}} :
                      episodes' = [episodes EXCEPT ![loop.at] = used]
                 /\ buffer' \in IF Hybrid THEN SUBSET pool ELSE {{}}
        /\ pc' = "step" /\ UNCHANGED <<loop, state, engine, load, hf, todo, last>>
  /\ UNCHANGED <<setup, store, temp, copies, final, made, boots>>

SkippedMutant == state  \* the trainer is not told of the iteration
Skipped == state + 1

(* NoTrainingDataException, which only a hybrid generator raises, when no    *)
(* tree has an edge: the iteration passes without a step.                   *)
SkipIteration ==
  /\ pc = "generate" /\ loop.at < NumIterations /\ ~Cached
  /\ Hybrid /\ Sampled \notin Lost
  /\ loop' = [loop EXCEPT !.at = @ + 1]
  /\ state' = Skipped
  /\ UNCHANGED <<setup, pc, engine, load, hf, todo, buffer, last, disk, made, boots>>

(* An engine finds nothing whole to load: it warns and stays as it is.      *)
Loaded(p, policy) ==
  LET part == PartOf(IF load[1] = "temp" THEN temp ELSE store, load[2], p)
  IN  IF part \in Lost THEN policy ELSE part

(* The start of PPOTrainer.step: engines that are not cached are new.       *)
LoadEngines ==
  LET was == IF cached THEN engine ELSE NewEngine IN
  /\ pc = "step" /\ loop.at = state
  /\ IF load = None /\ ~cached /\ state # 0
     THEN Raise                              \* "State should be INITIAL."
     ELSE /\ pc' = "train"
          /\ engine' = IF load = None THEN was
                       ELSE [actor |-> Loaded("actor", was.actor),
                             critic |-> IF HasCritic THEN Loaded("critic", was.critic)
                                        ELSE was.critic]
          /\ load' = None
          /\ UNCHANGED <<loop, state, hf, todo, buffer, last>>
  /\ UNCHANGED <<setup, disk, made, boots>>

(* _train_actor_critic                                                      *)
Train ==
  /\ pc = "train"
  /\ made' = made + 1
  /\ engine' = [actor |-> made', critic |-> IF HasCritic THEN made' ELSE engine.critic]
  /\ state' = state + 1
  /\ last' = made'
  /\ pc' = "store"
  /\ UNCHANGED <<setup, loop, load, hf, todo, buffer, disk, boots>>

Due == SaveSteps # 0 /\ state % SaveSteps = 0

(* clean_non_model_checkpoints stops, and is forgiven, at a directory       *)
(* without an actor, wherever the listing puts it.                          *)
Strip(ckpt) ==
  [ckpt EXCEPT !["actor"] = Bare, !["critic"] = IF @ \in Missing THEN @ ELSE Bare]
Stripped(dir) ==
  LET whole == {i \in DOMAIN dir : dir[i]["actor"] \notin Missing}
      sets == IF whole = DOMAIN dir THEN {whole} ELSE SUBSET whole
  IN  {[i \in DOMAIN dir |-> IF i \in S THEN Strip(dir[i]) ELSE dir[i]] : S \in sets}

(* clean_checkpoints                                                        *)
Kept == {i \in DOMAIN store : KeepSteps # 0 /\ i % KeepSteps = 0}
Cleaned == Stripped(Only(store, Kept))

(* A removal, and a stripping, that a crash cut short: directories go one   *)
(* by one, and what one holds goes one by one.                              *)
CutRemoval(ckpt) ==
  LET present == {p \in Parts : ckpt[p] \notin Missing} IN
  {[p \in Parts |-> IF p \in S THEN Gone ELSE IF p = half THEN Torn ELSE ckpt[p]] :
     S \in SUBSET present, half \in present}
Half(part) == IF part \in Missing \cup {Bare} THEN part ELSE Torn
CutStrip(ckpt) ==
  IF ckpt["actor"] \in Missing THEN {ckpt}
  ELSE {[ckpt EXCEPT !["actor"] = Half(@)],
        [ckpt EXCEPT !["actor"] = Bare, !["critic"] = Half(@)]}
Remainder(S, i, ckpt) == With(Only(store, DOMAIN store \ S), i, ckpt)
CutCleaned ==
  LET doomed == DOMAIN store \ Kept
      removing(i) ==
        {Remainder(S, i, ckpt) : S \in SUBSET doomed, ckpt \in CutRemoval(store[i])}
      stripping(i) == {With(dir, i, ckpt) : dir \in Cleaned, ckpt \in CutStrip(store[i])}
  IN  UNION ({removing(i) : i \in doomed} \cup {stripping(i) : i \in Kept})

(* _save_checkpoint removes what has the name that it will write under.     *)
Overwritten(dir) ==
  IF state \in DOMAIN dir
  THEN {dir, Without(dir, state)} \cup {With(dir, state, ckpt) : ckpt \in CutRemoval(dir[state])}
  ELSE {dir}

(* The checkpoint of this step, before anything is written into it.         *)
BeginStore ==
  /\ pc = "store"
  /\ IF cached
     THEN /\ temp' = With(temp, state, [Empty EXCEPT !["hf"] = engine.actor])
          /\ IF Due
             THEN /\ \E dir \in Cleaned : store' = With(dir, state, Empty)
                  /\ todo' = SaveOrder /\ pc' = "save"
             ELSE todo' = <<>> /\ pc' = "tidy" /\ UNCHANGED store
     ELSE /\ temp' = With(temp, state, Empty)
          /\ todo' = SaveOrder /\ pc' = "save"
          /\ UNCHANGED store
  /\ UNCHANGED <<setup, loop, state, engine, load, hf, buffer, last, copies,
                 results, episodes, final, made, boots>>

Written(dir, value) == [dir EXCEPT ![state][Head(todo)] = value]

SavePart ==
  /\ pc = "save"
  /\ LET value == IF Head(todo) = "critic" THEN engine.critic ELSE engine.actor IN
     IF cached
     THEN store' = Written(store, value) /\ UNCHANGED temp
     ELSE temp' = Written(temp, value) /\ UNCHANGED store
  /\ todo' = Tail(todo)
  /\ pc' = IF Tail(todo) = <<>> THEN "tidy" ELSE "save"
  /\ UNCHANGED <<setup, loop, state, engine, load, hf, buffer, last, copies,
                 results, episodes, final, made, boots>>

(* _clean_old_temp_checkpoints and _clean_episodes                          *)
KeptTemp == Only(temp, DOMAIN temp \cap {state})
Spared(i) == Minimize => i \in DOMAIN store \cup {0, state}
KeptEpisodes == [i \in 0..NumIterations |-> IF Spared(i) THEN episodes[i] ELSE None]
KeptResults == [i \in 0..NumIterations |-> IF Spared(i) THEN results[i] ELSE {}]

(* The checkpoint that the next step loads.                                 *)
NextLoadMutant == <<IF Due THEN "store" ELSE "temp", state>>
NextLoad == <<"temp", state>>

(* The rest of step, and of the iteration.                                  *)
EndStep ==
  /\ pc = "tidy"
  /\ load' = IF cached THEN load ELSE NextLoad
  /\ copies' = IF ~cached /\ Due THEN With(copies, state, {p \in Parts : temp[state][p] # None})
               ELSE copies
  /\ temp' = KeptTemp
  /\ episodes' = KeptEpisodes /\ results' = KeptResults
  /\ hf' = <<"temp", state>>
  /\ loop' = [loop EXCEPT !.at = @ + 1]
  /\ pc' = "generate"
  /\ UNCHANGED <<setup, state, engine, todo, buffer, last, store, final, made, boots>>

(* cp -r, in no particular order, of what the temporary checkpoint holds:   *)
(* a part is torn until all of it is copied, or for good if the cp dies.    *)
CopyPart(i, p) ==
  LET value == PartOf(temp, i, p)
      copied(part) ==
        With(store, i, [IF i \in DOMAIN store THEN store[i] ELSE Empty EXCEPT ![p] = part])
  IN
  /\ p \in copies[i]
  /\ \/ /\ value # None
        /\ store' = copied(Torn)
        /\ UNCHANGED copies
     \/ /\ copies' = IF copies[i] = {p} THEN Without(copies, i)
                     ELSE [copies EXCEPT ![i] = @ \ {p}]
        /\ store' = IF value = None THEN store ELSE copied(value)
  /\ UNCHANGED <<setup, memory, temp, results, episodes, final, made, boots>>

(* save_final_checkpoint, and the last cleaning.                            *)
Finish ==
  /\ pc = "generate" /\ loop.at = NumIterations
  /\ \/ /\ DOMAIN store = {}
        /\ Raise /\ UNCHANGED <<final, store>>
     \/ /\ \E i \in DOMAIN store : IsLast(i, DOMAIN store) /\ final' = i
        /\ pc' = "finished"
        /\ UNCHANGED <<loop, state, engine, load, hf, todo, buffer, last>>
        /\ IF Minimize THEN store' \in Stripped(store) ELSE UNCHANGED store
  /\ UNCHANGED <<setup, temp, copies, results, episodes, made, boots>>

(* The process dies: what it was writing may be cut short, and what it had  *)
(* started in the background may die with it.                               *)
Crash ==
  /\ pc \notin {"down", "finished"}
  /\ Raise
  /\ copies' \in {copies, NoDirectory}
  /\ CASE pc = "save" /\ cached -> store' \in {store, Written(store, Torn)}
       [] pc = "store" /\ cached /\ Due ->
            store' \in {store} \cup CutCleaned \cup UNION {Overwritten(dir) : dir \in Cleaned}
       [] OTHER -> UNCHANGED store
  /\ CASE pc = "save" /\ ~cached -> temp' \in {temp, Written(temp, Torn)}
       [] pc = "store" /\ ~cached -> temp' \in Overwritten(temp)
       [] OTHER -> UNCHANGED temp
  /\ IF pc = "generate" /\ loop.at < NumIterations /\ ~Cached
     THEN /\ results' \in {results, Results}
          /\ episodes' \in {episodes, [episodes EXCEPT ![loop.at] = Torn]}
     ELSE UNCHANGED <<results, episodes>>
  /\ UNCHANGED <<setup, final, made, boots>>

Next ==
  \/ Boot \/ ReadEpisodes \/ Generate \/ SkipIteration \/ LoadEngines \/ Train
  \/ BeginStore \/ SavePart \/ EndStep \/ Finish \/ Crash
  \/ \E i \in DOMAIN copies : \E p \in Parts : CopyPart(i, p)

Spec == Init /\ [][Next]_vars
-----------------------------------------------------------------------------
(* The values that every variable keeps to.                                  *)
Checkpoint == [Parts -> Nat \cup Lost]
Shelf(dir) == \A i \in DOMAIN dir : i \in Nat /\ dir[i] \in Checkpoint

TypeOK ==
  /\ setup \in Setups
  /\ pc \in {"down", "generate", "step", "train", "store", "save", "tidy", "finished"}
  /\ loop \in [at : Nat, from : Nat]
  /\ state \in Nat /\ made \in Nat
  /\ engine \in [actor : Nat, critic : Nat]
  /\ last \in Nat \cup {None}
  /\ Shelf(store) /\ Shelf(temp)
  /\ DOMAIN copies \subseteq Nat
  /\ buffer \subseteq [policy : Nat, at : Nat]
  /\ results \in [0..NumIterations -> SUBSET Nat]
  /\ episodes \in [0..NumIterations -> (SUBSET Nat) \cup Lost]

(* The trainer and the loop never disagree on the iteration, so that neither *)
(* assertion of run_iteration_loop fails: not after a resume, nor after      *)
(* iterations without data.                                                  *)
IterationsAgree ==
  /\ pc \in {"generate", "step", "train"} => state = loop.at
  /\ pc \in {"store", "save", "tidy"} => state = loop.at + 1

(* From its second step on, a process trains exactly the policy of the step  *)
(* before, actor and critic, and its inference server loads that policy to   *)
(* sample from, although the engines may be destroyed in between, their      *)
(* temporary checkpoint is one that the cleaning must spare, and iterations  *)
(* may pass without data.                                                    *)
StepsChain ==
  last # None =>
    /\ pc = "train" => engine.actor = last /\ (HasCritic => engine.critic = last)
    /\ pc = "generate" => Sampled = last

(* With cached engines, wherever a crash cut a save short, a checkpoint that *)
(* a resume accepts has the trainer state and the inference weights of one   *)
(* policy, and engines of that policy unless their own writing was cut; and  *)
(* the cut of a removal takes parts away from it but never mixes policies.   *)
ResumesOnePolicy ==
  cached => \A i \in DOMAIN store : Resumable(store[i]) =>
    \E policy \in 1..made :
      /\ store[i]["state"] \in {policy, Torn, Gone}
      /\ store[i]["hf"] \in {policy, Torn, Gone}
      /\ store[i]["actor"] \in {policy, Torn}
      /\ store[i]["critic"] \in {policy, Torn, Gone, None}

(* What the assertion in step says of engines that are not cached: without a *)
(* checkpoint to load the run is at its start.  The code does not keep it.   *)
StateInitial == pc = "step" /\ ~cached /\ load = None => state = 0

(* What a generator without a replay says it does, "always generating from   *)
(* scratch" when it samples "from the current policy", and does not do: the  *)
(* episodes that an iteration generates are all of its policy.               *)
FromScratch ==
  pc = "step" /\ ~Hybrid /\ loop.at > loop.from => episodes[loop.at] = {Sampled}
===============================================================================
