------------------------- MODULE PolicyIterationProofs -------------------------
(***************************************************************************)
(* What PolicyIteration promises, for every number of iterations and of    *)
(* processes, and every configuration of checkpoints.  Along invariants    *)
(* the loop's assertions need no help.  The chain of policies needs where  *)
(* the last policy lives between two steps: in the engines, or in the one  *)
(* temporary checkpoint that the cleaning spares.  That a resume loads one *)
(* policy needs the order in which a checkpoint's parts are written.       *)
(***************************************************************************)
EXTENDS PolicyIteration, FiniteSetTheorems, TLAPS

(* Where the policy of the last step is, at every place of the loop.       *)
Held ==
  /\ hf # None /\ hf[1] = "temp" /\ hf[2] \in DOMAIN temp /\ temp[hf[2]]["hf"] = last
  /\ cached => /\ load = None
               /\ engine.actor = last /\ (HasCritic => engine.critic = last)
  /\ ~cached => /\ load = hf /\ load # None
                /\ temp[hf[2]]["actor"] = last
                /\ HasCritic => temp[hf[2]]["critic"] = last

Fresh == engine.actor = last /\ (HasCritic => engine.critic = last) /\ last \in 1..made

(* What of the checkpoint is written, by what is still to be written.      *)
Wrote(ckpt, rest, policy, critic) ==
  /\ \/ critic /\ rest = <<"state", "hf", "actor", "critic">>
     \/ critic /\ rest = <<"hf", "actor", "critic">> /\ ckpt["state"] = policy
     \/ critic /\ rest = <<"actor", "critic">> /\ ckpt["state"] = policy /\ ckpt["hf"] = policy
     \/ /\ critic /\ rest = <<"critic">>
        /\ ckpt["state"] = policy /\ ckpt["hf"] = policy /\ ckpt["actor"] = policy
     \/ ~critic /\ rest = <<"state", "hf", "actor">>
     \/ ~critic /\ rest = <<"hf", "actor">> /\ ckpt["state"] = policy
     \/ ~critic /\ rest = <<"actor">> /\ ckpt["state"] = policy /\ ckpt["hf"] = policy
  /\ \A p \in Parts : ckpt[p] \in {None, policy}
  /\ ckpt["actor"] # None => rest = <<"critic">>

(* The end of a step finds it in the temporary checkpoint.                 *)
Complete(ckpt) ==
  /\ ckpt["hf"] = last
  /\ ~cached => ckpt["actor"] = last /\ (HasCritic => ckpt["critic"] = last)

Chain ==
  /\ pc \in {"generate", "step"} /\ last # None => Held /\ loop.at > loop.from
  /\ StepsChain
  /\ pc \notin {"down", "finished"} => loop.at >= loop.from
  /\ pc \in {"step", "train", "store", "save", "tidy"} => loop.at \in 0..NumIterations
  /\ pc \in {"train", "store", "save", "tidy"} => load = None
  /\ pc \in {"store", "save", "tidy"} => Fresh
  /\ pc \in {"save", "tidy"} => state \in DOMAIN temp
  /\ pc = "save" /\ cached => state \in DOMAIN store /\ Wrote(store[state], todo, last, HasCritic) /\ Complete(temp[state])
  /\ pc = "save" /\ ~cached => Wrote(temp[state], todo, last, HasCritic)
  /\ pc = "tidy" => Complete(temp[state])

(* A directory holds one policy, and engines only beside what precedes.    *)
OnePolicy(ckpt) ==
  /\ \E policy \in 1..made : \A p \in Parts : ckpt[p] \in {policy} \cup Lost
  /\ ckpt["actor"] \notin Missing =>
       ckpt["state"] \notin {None, Bare} /\ ckpt["hf"] \notin {None, Bare}

AllOne(dir) == \A i \in DOMAIN dir : OnePolicy(dir[i])
Sound == cached => AllOne(store)

-----------------------------------------------------------------------------
(* The four names of what is no policy differ from each other and from     *)
(* every policy.                                                            *)
LEMMA NamesDiffer ==
  /\ None # Torn /\ None # Gone /\ None # Bare /\ Torn # Gone /\ Torn # Bare /\ Gone # Bare
  /\ None \notin Nat /\ Torn \notin Nat /\ Gone \notin Nat /\ Bare \notin Nat
<1>1. Cardinality({None, Torn, Gone, Bare}) = 4
  BY IterationAssumption
<1>2. {None, Torn, Gone, Bare} \cap Nat = {}
  BY IterationAssumption
<1>3. ASSUME NEW a, NEW b, NEW c PROVE Cardinality({a, b, c}) # 4
  <2>1. IsFiniteSet({b, c}) /\ IsFiniteSet({c}) /\ IsFiniteSet({})
    BY FS_EmptySet, FS_AddElement
  <2>2. Cardinality({c}) <= 1 /\ Cardinality({c}) \in Nat
    BY <2>1, FS_Singleton
  <2>. DEFINE S == {c}
       T == {b, c}
  <2>3. T = S \cup {b} /\ {a, b, c} = T \cup {a}
    OBVIOUS
  <2>4. Cardinality(S \cup {b}) = IF b \in S THEN Cardinality(S) ELSE Cardinality(S) + 1
    BY <2>1, FS_AddElement
  <2>5. Cardinality(T \cup {a}) = IF a \in T THEN Cardinality(T) ELSE Cardinality(T) + 1
    BY <2>1, FS_AddElement
  <2>. HIDE DEF S, T
  <2>6. Cardinality(T) <= 2 /\ Cardinality(T) \in Nat
    <3>1. Cardinality(S) <= 1 /\ Cardinality(S) \in Nat
      BY <2>2 DEF S
    <3>. QED BY <3>1, <2>3, <2>4
  <2>. QED BY <2>3, <2>5, <2>6
<1>4. None # Torn /\ None # Gone /\ None # Bare
  <2>1. CASE None = Torn
    <3>1. {None, Torn, Gone, Bare} = {Torn, Gone, Bare} BY <2>1
    <3>. QED BY <3>1, <1>1, <1>3
  <2>2. CASE None = Gone
    <3>1. {None, Torn, Gone, Bare} = {Torn, Gone, Bare} BY <2>2
    <3>. QED BY <3>1, <1>1, <1>3
  <2>3. CASE None = Bare
    <3>1. {None, Torn, Gone, Bare} = {Torn, Gone, Bare} BY <2>3
    <3>. QED BY <3>1, <1>1, <1>3
  <2>. QED BY <2>1, <2>2, <2>3
<1>5. Torn # Gone /\ Torn # Bare /\ Gone # Bare
  <2>1. CASE Torn = Gone
    <3>1. {None, Torn, Gone, Bare} = {None, Gone, Bare} BY <2>1
    <3>. QED BY <3>1, <1>1, <1>3
  <2>2. CASE Torn = Bare
    <3>1. {None, Torn, Gone, Bare} = {None, Gone, Bare} BY <2>2
    <3>. QED BY <3>1, <1>1, <1>3
  <2>3. CASE Gone = Bare
    <3>1. {None, Torn, Gone, Bare} = {None, Torn, Bare} BY <2>3
    <3>. QED BY <3>1, <1>1, <1>3
  <2>. QED BY <2>1, <2>2, <2>3
<1>. QED BY <1>2, <1>4, <1>5

-----------------------------------------------------------------------------
(* What the operations on a directory keep.                                 *)
LEMMA EmptyIsOne ==
  ASSUME made \in Nat, made >= 1
  PROVE  Empty \in Checkpoint /\ OnePolicy(Empty)
BY NamesDiffer DEF Empty, Checkpoint, OnePolicy, Parts, Lost, Missing

LEMMA StripKeeps ==
  ASSUME NEW ckpt \in Checkpoint
  PROVE  /\ Strip(ckpt) \in Checkpoint
         /\ OnePolicy(ckpt) /\ ckpt["actor"] \notin Missing => OnePolicy(Strip(ckpt))
BY NamesDiffer DEF Strip, Checkpoint, OnePolicy, Parts, Lost, Missing

LEMMA StrippedKeeps ==
  ASSUME NEW dir, Shelf(dir), NEW out \in Stripped(dir)
  PROVE  DOMAIN out = DOMAIN dir /\ Shelf(out) /\ (AllOne(dir) => AllOne(out))
<1>. DEFINE whole == {i \in DOMAIN dir : dir[i]["actor"] \notin Missing}
<1>1. PICK S \in SUBSET whole :
        out = [i \in DOMAIN dir |-> IF i \in S THEN Strip(dir[i]) ELSE dir[i]]
  BY DEF Stripped
<1>2. DOMAIN out = DOMAIN dir
  BY <1>1
<1>3. ASSUME NEW i \in DOMAIN dir
      PROVE  /\ out[i] = IF i \in S THEN Strip(dir[i]) ELSE dir[i]
             /\ i \in S => dir[i]["actor"] \notin Missing
             /\ i \in Nat /\ dir[i] \in Checkpoint
  BY <1>1 DEF Shelf
<1>4. Shelf(out)
  BY <1>2, <1>3, StripKeeps DEF Shelf
<1>5. AllOne(dir) => AllOne(out)
  BY <1>2, <1>3, StripKeeps DEF AllOne
<1>. QED BY <1>2, <1>4, <1>5

LEMMA OnlyKeeps ==
  ASSUME NEW dir, Shelf(dir), NEW S \in SUBSET DOMAIN dir
  PROVE  Shelf(Only(dir, S)) /\ (AllOne(dir) => AllOne(Only(dir, S)))
BY DEF Shelf, Only, AllOne

LEMMA WithKeeps ==
  ASSUME NEW dir, Shelf(dir), NEW i \in Nat, NEW ckpt \in Checkpoint
  PROVE  /\ Shelf(With(dir, i, ckpt)) /\ With(dir, i, ckpt)[i] = ckpt
         /\ i \in DOMAIN With(dir, i, ckpt)
         /\ AllOne(dir) /\ OnePolicy(ckpt) => AllOne(With(dir, i, ckpt))
BY DEF Shelf, With, AllOne

LEMMA CleanedKeeps ==
  ASSUME Shelf(store), NEW out \in Cleaned
  PROVE  Shelf(out) /\ (AllOne(store) => AllOne(out))
<1>1. Shelf(Only(store, Kept)) /\ (AllOne(store) => AllOne(Only(store, Kept)))
  BY OnlyKeeps DEF Kept
<1>2. out \in Stripped(Only(store, Kept))
  BY DEF Cleaned
<1>. QED BY <1>1, <1>2, StrippedKeeps

LEMMA CutsKeep ==
  ASSUME NEW ckpt \in Checkpoint, NEW out \in CutRemoval(ckpt) \cup CutStrip(ckpt)
  PROVE  out \in Checkpoint /\ (OnePolicy(ckpt) => OnePolicy(out))
<1>1. CASE out \in CutRemoval(ckpt)
  <2>. DEFINE present == {p \in Parts : ckpt[p] \notin Missing}
  <2>1. PICK S \in SUBSET present, half \in present :
          out = [p \in Parts |-> IF p \in S THEN Gone ELSE IF p = half THEN Torn ELSE ckpt[p]]
    BY <1>1 DEF CutRemoval
  <2>3. \A p \in Parts : \/ out[p] \in {Gone, Torn} /\ ckpt[p] \notin Missing
                         \/ out[p] = ckpt[p]
    BY <2>1
  <2>4. out \in Checkpoint
    BY <2>1 DEF Checkpoint, Lost, Missing
  <2>5. ASSUME OnePolicy(ckpt) PROVE OnePolicy(out)
    <3>1. PICK policy \in 1..made : \A p \in Parts : ckpt[p] \in {policy} \cup Lost
      BY <2>5 DEF OnePolicy
    <3>2. \A p \in Parts : out[p] \in {policy} \cup Lost
      BY <2>3, <3>1 DEF Lost, Missing
    <3>3. \A p \in Parts : /\ out[p] \notin Missing => ckpt[p] \notin Missing
                           /\ ckpt[p] \notin {None, Bare} => out[p] \notin {None, Bare}
      BY <2>3, NamesDiffer DEF Missing
    <3>. QED BY <2>5, <3>2, <3>3 DEF OnePolicy, Parts
  <2>. QED BY <2>4, <2>5
<1>2. CASE out \in CutStrip(ckpt)
  <2>1. ckpt["actor"] \in Missing => out = ckpt
    BY <1>2 DEF CutStrip
  <2>2. ASSUME ckpt["actor"] \notin Missing
        PROVE  /\ out["state"] = ckpt["state"] /\ out["hf"] = ckpt["hf"]
               /\ out["actor"] \in {ckpt["actor"], Bare, Torn}
               /\ out["critic"] \in {ckpt["critic"], Torn}
               /\ out \in Checkpoint
    BY <1>2, <2>2 DEF CutStrip, Half, Checkpoint, Parts, Lost, Missing
  <2>3. ckpt["actor"] \notin Missing /\ OnePolicy(ckpt) => OnePolicy(out)
    BY <2>2, NamesDiffer DEF OnePolicy, Parts, Lost, Missing
  <2>. QED BY <2>1, <2>2, <2>3
<1>. QED BY <1>1, <1>2

LEMMA OverwrittenKeeps ==
  ASSUME NEW dir, Shelf(dir), state \in Nat, NEW out \in Overwritten(dir)
  PROVE  Shelf(out) /\ (AllOne(dir) => AllOne(out))
<1>1. CASE out = dir
  BY <1>1
<1>2. CASE out = Without(dir, state)
  BY <1>2, OnlyKeeps DEF Without
<1>3. ASSUME state \in DOMAIN dir, NEW ckpt \in CutRemoval(dir[state]),
             out = With(dir, state, ckpt)
      PROVE  Shelf(out) /\ (AllOne(dir) => AllOne(out))
  <2>1. dir[state] \in Checkpoint
    BY <1>3 DEF Shelf
  <2>2. ckpt \in Checkpoint /\ (OnePolicy(dir[state]) => OnePolicy(ckpt))
    BY <2>1, CutsKeep
  <2>. QED BY <1>3, <2>2, WithKeeps DEF AllOne
<1>. QED BY <1>1, <1>2, <1>3 DEF Overwritten

LEMMA CutCleanedKeeps ==
  ASSUME Shelf(store), NEW out \in CutCleaned
  PROVE  Shelf(out) /\ (AllOne(store) => AllOne(out))
<1>. DEFINE doomed == DOMAIN store \ Kept
<1>1. \A i \in DOMAIN store : i \in Nat /\ store[i] \in Checkpoint
  BY DEF Shelf
<1>2. ASSUME NEW i \in doomed, NEW S \in SUBSET doomed, NEW ckpt \in CutRemoval(store[i]),
             out = Remainder(S, i, ckpt)
      PROVE  Shelf(out) /\ (AllOne(store) => AllOne(out))
  <2>1. ckpt \in Checkpoint /\ (OnePolicy(store[i]) => OnePolicy(ckpt))
    BY <1>1, CutsKeep
  <2>2. /\ Shelf(Only(store, DOMAIN store \ S))
        /\ AllOne(store) => AllOne(Only(store, DOMAIN store \ S))
    BY OnlyKeeps
  <2>. QED BY <1>1, <1>2, <2>1, <2>2, WithKeeps DEF AllOne, Remainder
<1>3. ASSUME NEW i \in Kept, NEW dir \in Cleaned, NEW ckpt \in CutStrip(store[i]),
             out = With(dir, i, ckpt)
      PROVE  Shelf(out) /\ (AllOne(store) => AllOne(out))
  <2>1. i \in DOMAIN store
    BY DEF Kept
  <2>2. ckpt \in Checkpoint /\ (OnePolicy(store[i]) => OnePolicy(ckpt))
    BY <1>1, <2>1, CutsKeep
  <2>3. Shelf(dir) /\ (AllOne(store) => AllOne(dir))
    BY CleanedKeeps
  <2>. QED BY <1>1, <1>3, <2>1, <2>2, <2>3, WithKeeps DEF AllOne
<1>. DEFINE removing(i) == {Remainder(S, i, ckpt) : S \in SUBSET doomed, ckpt \in CutRemoval(store[i])}
            stripping(i) == {With(dir, i, ckpt) : dir \in Cleaned, ckpt \in CutStrip(store[i])}
<1>4. CutCleaned = UNION ({removing(i) : i \in doomed} \cup {stripping(i) : i \in Kept})
  BY DEF CutCleaned
<1>5. ASSUME NEW i \in doomed, out \in removing(i)
      PROVE  Shelf(out) /\ (AllOne(store) => AllOne(out))
  BY <1>2, <1>5
<1>6. ASSUME NEW i \in Kept, out \in stripping(i)
      PROVE  Shelf(out) /\ (AllOne(store) => AllOne(out))
  BY <1>3, <1>6
<1>. HIDE DEF removing, stripping, doomed
<1>7. (\E i \in doomed : out \in removing(i)) \/ (\E i \in Kept : out \in stripping(i))
  BY <1>4
<1>. QED BY <1>5, <1>6, <1>7

-----------------------------------------------------------------------------
(* Every variable keeps to its type, whatever crashes: directories appear   *)
(* under the number of an iteration and hold no more than their parts.      *)
LEMMA EngineNumbers ==
  ASSUME TypeOK, NEW p \in {"actor", "critic"}, NEW policy \in Nat, load # None
  PROVE  Loaded(p, policy) \in Nat
<1>1. \A dir, i : Shelf(dir) => PartOf(dir, i, p) \in Nat \cup Lost
  BY DEF Shelf, PartOf, Checkpoint, Parts, Lost, Missing
<1>2. Shelf(store) /\ Shelf(temp)
  BY DEF TypeOK
<1>. QED BY <1>1, <1>2 DEF Loaded

LEMMA ResultsNumbers ==
  ASSUME TypeOK
  PROVE  /\ Results \in [0..NumIterations -> SUBSET Nat]
         /\ Sampled \notin Lost => Sampled \in Nat
<1>1. Sampled \notin Lost => Sampled \in Nat
  BY NamesDiffer DEF Sampled, PartOf, TypeOK, Shelf, Checkpoint, Parts, Lost, Missing
<1>2. results \in [0..NumIterations -> SUBSET Nat] /\ {Sampled} \ Lost \subseteq Nat
  BY <1>1 DEF TypeOK
<1>. QED BY <1>1, <1>2 DEF Results

LEMMA TypeInit == Init => TypeOK
<1>1. DOMAIN NoDirectory = {} /\ Shelf(NoDirectory)
  BY DEF NoDirectory, Shelf
<1>. QED
  BY <1>1, IterationAssumption DEF Init, TypeOK, Start, NewEngine, Lost, Missing

LEMMA TypeBoot == TypeOK /\ Boot => TypeOK'
<1>. SUFFICES ASSUME TypeOK, Boot PROVE TypeOK'
  OBVIOUS
<1>1. last' \in Nat \cup {None} /\ engine' \in [actor : Nat, critic : Nat]
  BY DEF Boot, NewEngine
<1>2. UNCHANGED <<setup, store, temp, copies, results, episodes, made>> /\ buffer' = {}
  BY DEF Boot, disk
<1>3. pc' \in {"down", "generate"} /\ loop' \in [at : Nat, from : Nat] /\ state' \in Nat
  <2>1. CASE pc' = "generate" /\ loop' = Start /\ state' = 0
    BY <2>1 DEF Start
  <2>2. CASE pc' = "down" /\ UNCHANGED <<loop, state>>
    BY <2>2 DEF TypeOK
  <2>3. ASSUME NEW i \in Found, pc' = "generate", loop' = [at |-> i, from |-> i], state' = i
        PROVE  pc' = "generate" /\ loop' \in [at : Nat, from : Nat] /\ state' \in Nat
    BY <2>3 DEF TypeOK, Shelf, Found
  <2>. QED BY <2>1, <2>2, <2>3 DEF Boot
<1>. QED BY <1>1, <1>2, <1>3 DEF TypeOK, Shelf

LEMMA TypeRaise == TypeOK /\ Raise =>
  /\ pc' = "down" /\ loop' \in [at : Nat, from : Nat] /\ state' \in Nat
  /\ engine' \in [actor : Nat, critic : Nat] /\ last' = None /\ buffer' = {}
BY DEF Raise, Start, NewEngine

LEMMA TypeSave == TypeOK /\ SavePart => TypeOK'
<1>. SUFFICES ASSUME TypeOK, SavePart PROVE TypeOK'
  OBVIOUS
<1>. DEFINE value == IF Head(todo) = "critic" THEN engine.critic ELSE engine.actor
<1>1. value \in Nat
  BY DEF TypeOK
<1>2. ASSUME NEW dir, Shelf(dir), NEW v \in Nat \cup Lost PROVE Shelf(Written(dir, v))
  BY <1>2 DEF Shelf, Written, Checkpoint
<1>3. Shelf(store') /\ Shelf(temp')
  <2>1. CASE cached
    BY <2>1, <1>1, <1>2 DEF SavePart, TypeOK
  <2>2. CASE ~cached
    BY <2>2, <1>1, <1>2 DEF SavePart, TypeOK
  <2>. QED BY <2>1, <2>2
<1>. QED BY <1>3 DEF SavePart, TypeOK

LEMMA TypeBegin == TypeOK /\ BeginStore => TypeOK'
<1>. SUFFICES ASSUME TypeOK, BeginStore PROVE TypeOK'
  OBVIOUS
<1>1. Empty \in Checkpoint /\ [Empty EXCEPT !["hf"] = engine.actor] \in Checkpoint
  BY DEF TypeOK, Empty, Checkpoint, Parts, Lost, Missing
<1>2. \A dir \in Cleaned : Shelf(dir)
  BY CleanedKeeps DEF TypeOK
<1>3. state \in Nat /\ Shelf(temp) /\ Shelf(store)
  BY DEF TypeOK
<1>4. Shelf(store') /\ Shelf(temp') /\ pc' \in {"save", "tidy"}
  <2>1. CASE cached /\ Due
    BY <2>1, <1>1, <1>2, <1>3, WithKeeps DEF BeginStore
  <2>2. CASE cached /\ ~Due
    BY <2>2, <1>1, <1>3, WithKeeps DEF BeginStore
  <2>3. CASE ~cached
    BY <2>3, <1>1, <1>3, WithKeeps DEF BeginStore
  <2>. QED BY <2>1, <2>2, <2>3
<1>. QED BY <1>4 DEF BeginStore, TypeOK

LEMMA TypeEnd == TypeOK /\ EndStep => TypeOK'
<1>. SUFFICES ASSUME TypeOK, EndStep PROVE TypeOK'
  OBVIOUS
<1>1. Shelf(temp')
  BY OnlyKeeps DEF EndStep, KeptTemp, TypeOK
<1>2. /\ episodes' \in [0..NumIterations -> (SUBSET Nat) \cup Lost]
      /\ results' \in [0..NumIterations -> SUBSET Nat]
  BY DEF EndStep, KeptEpisodes, KeptResults, TypeOK, Lost, Missing
<1>3. loop' \in [at : Nat, from : Nat]
  BY DEF EndStep, TypeOK
<1>4. DOMAIN copies' \subseteq Nat
  BY DEF EndStep, TypeOK, With
<1>. QED BY <1>1, <1>2, <1>3, <1>4 DEF EndStep, TypeOK

LEMMA TypeCopy == TypeOK /\ (\E i \in DOMAIN copies : \E p \in Parts : CopyPart(i, p)) => TypeOK'
<1>. SUFFICES ASSUME TypeOK, NEW i \in DOMAIN copies, NEW p \in Parts, CopyPart(i, p)
              PROVE  TypeOK'
  OBVIOUS
<1>. DEFINE value == PartOf(temp, i, p)
            ckpt == IF i \in DOMAIN store THEN store[i] ELSE Empty
            next(part) == [ckpt EXCEPT ![p] = part]
<1>1. i \in Nat /\ Shelf(store) /\ Shelf(temp)
  BY DEF TypeOK
<1>2. value \in Nat \cup Lost /\ Torn \in Nat \cup Lost
  BY <1>1 DEF PartOf, Shelf, Checkpoint, Lost, Missing
<1>3. ckpt \in Checkpoint
  BY <1>1 DEF Shelf, Empty, Checkpoint, Lost, Missing
<1>4. ASSUME NEW part \in Nat \cup Lost PROVE next(part) \in Checkpoint
  <2>. HIDE DEF ckpt
  <2>. QED BY <1>3 DEF Checkpoint
<1>5. store' \in {store, With(store, i, next(Torn)), With(store, i, next(value))}
  BY DEF CopyPart
<1>6. Shelf(store')
  <2>. HIDE DEF next, value
  <2>. QED BY <1>1, <1>2, <1>4, <1>5, WithKeeps
<1>7. DOMAIN copies' \subseteq Nat
  BY DEF CopyPart, TypeOK, Without, Only
<1>. QED BY <1>6, <1>7 DEF CopyPart, TypeOK, memory, Shelf

LEMMA TypeCrash == TypeOK /\ Crash => TypeOK'
<1>. SUFFICES ASSUME TypeOK, Crash PROVE TypeOK'
  OBVIOUS
<1>1. ASSUME NEW dir, Shelf(dir) PROVE Shelf(Written(dir, Torn))
  BY <1>1 DEF Shelf, Written, Checkpoint, Lost
<1>2. Shelf(store)/\ Shelf(temp)
  BY DEF TypeOK
<1>3. Shelf(store')
  <2>1. CASE pc = "store" /\ cached /\ Due
    <3>1. \/ store' = store \/ store' \in CutCleaned
          \/ \E dir \in Cleaned : store' \in Overwritten(dir)
      BY <2>1 DEF Crash
    <3>2. ASSUME NEW dir \in Cleaned, store' \in Overwritten(dir) PROVE Shelf(store')
      <4>1. Shelf(dir)
        BY <1>2, CleanedKeeps
      <4>2. state \in Nat
        BY DEF TypeOK
      <4>. QED BY <3>2, <4>1, <4>2, OverwrittenKeeps
    <3>. QED BY <1>2, <3>1, <3>2, CutCleanedKeeps
  <2>2. CASE ~(pc = "store" /\ cached /\ Due)
    BY <1>1, <1>2, <2>2 DEF Crash
  <2>. QED BY <2>1, <2>2
<1>4. Shelf(temp')
  <2>1. CASE pc = "store" /\ ~cached
    <3>1. temp' \in Overwritten(temp) /\ state \in Nat
      BY <2>1 DEF Crash, TypeOK
    <3>. QED BY <1>2, <3>1, OverwrittenKeeps
  <2>2. CASE ~(pc = "store" /\ ~cached)
    BY <1>1, <1>2, <2>2 DEF Crash
  <2>. QED BY <2>1, <2>2
<1>5. DOMAIN copies' \subseteq Nat
  BY DEF Crash, NoDirectory, TypeOK
<1>6. episodes' \in [0..NumIterations -> (SUBSET Nat) \cup Lost]
  BY DEF Crash, TypeOK, Lost
<1>7. results' \in [0..NumIterations -> SUBSET Nat]
  <2>1. results' \in {results, Results}
    BY DEF Crash
  <2>. QED BY <2>1, ResultsNumbers DEF TypeOK
<1>. QED BY <1>3, <1>4, <1>5, <1>6, <1>7, TypeRaise DEF Crash, TypeOK

(* Type correctness, of every variable in every state.                      *)
THEOREM PolicyTypeCorrect == Spec => []TypeOK
<1>1. TypeOK /\ [Next]_vars => TypeOK'
  <2>. SUFFICES ASSUME TypeOK, [Next]_vars PROVE TypeOK'
    OBVIOUS
  <2>1. CASE ReadEpisodes
    BY <2>1, TypeRaise DEF ReadEpisodes, TypeOK, Shelf, disk
  <2>2. CASE Generate
    <3>1. CASE Sampled \in Lost
      BY <2>2, <3>1, TypeRaise DEF Generate, TypeOK, Shelf
    <3>2. CASE Sampled \notin Lost
      <4>1. loop.at \in 0..NumIterations
        BY <2>2, IterationAssumption DEF Generate, TypeOK
      <4>2. Results \in [0..NumIterations -> SUBSET Nat] /\ results' = Results
        BY <2>2, <3>2, ResultsNumbers DEF Generate
      <4>3. PICK new \in SUBSET Results[loop.at] :
              LET pool == Recent \cup [policy : new, at : {loop.at}]
                  usable == {e.policy : e \in pool} \cup results[loop.at]
              IN  /\ \E used \in SUBSET usable :
                       episodes' = [episodes EXCEPT ![loop.at] = used]
                  /\ buffer' \in IF Hybrid THEN SUBSET pool ELSE {{}}
        BY <2>2, <3>2 DEF Generate
      <4>. DEFINE pool == Recent \cup [policy : new, at : {loop.at}]
                  usable == {e.policy : e \in pool} \cup results[loop.at]
      <4>4. pool \subseteq [policy : Nat, at : Nat]
        <5>1. new \subseteq Nat
          BY <4>1, <4>2
        <5>. QED BY <4>1, <5>1 DEF Recent, TypeOK
      <4>5. usable \subseteq Nat
        BY <4>1, <4>4 DEF TypeOK
      <4>6. episodes' \in [0..NumIterations -> (SUBSET Nat) \cup Lost]
        <5>1. PICK used \in SUBSET usable : episodes' = [episodes EXCEPT ![loop.at] = used]
          BY <4>3
        <5>2. used \in (SUBSET Nat) \cup Lost
          BY <4>5, <5>1
        <5>. QED BY <5>1, <5>2 DEF TypeOK
      <4>7. buffer' \subseteq [policy : Nat, at : Nat]
        <5>1. buffer' \subseteq pool
          BY <4>3
        <5>. QED BY <4>4, <5>1
      <4>8. UNCHANGED <<setup, loop, state, engine, last, store, temp, copies, made>> /\ pc' = "step"
        BY <2>2, <3>2 DEF Generate
      <4>. QED BY <4>2, <4>6, <4>7, <4>8 DEF TypeOK, Shelf
    <3>. QED BY <3>1, <3>2
  <2>3. CASE SkipIteration
    BY <2>3 DEF SkipIteration, Skipped, TypeOK, Shelf, disk
  <2>4. CASE LoadEngines
    <3>1. engine' \in [actor : Nat, critic : Nat]
      <4>1. CASE load = None /\ ~cached /\ state # 0
        BY <2>4, <4>1, TypeRaise DEF LoadEngines
      <4>2. CASE load = None /\ ~(~cached /\ state # 0)
        BY <2>4, <4>2 DEF LoadEngines, TypeOK, NewEngine
      <4>3. CASE load # None
        <5>. DEFINE was == IF cached THEN engine ELSE NewEngine
        <5>1. was.actor \in Nat /\ was.critic \in Nat
          BY DEF TypeOK, NewEngine
        <5>2. Loaded("actor", was.actor) \in Nat /\ Loaded("critic", was.critic) \in Nat
          <6>. HIDE DEF was
          <6>. QED BY <4>3, <5>1, EngineNumbers
        <5>. QED BY <2>4, <4>3, <5>1, <5>2 DEF LoadEngines
      <4>. QED BY <4>1, <4>2, <4>3
    <3>2. pc' \in {"down", "train"} /\ loop' \in [at : Nat, from : Nat] /\ state' \in Nat
          /\ last' \in Nat \cup {None} /\ buffer' \subseteq [policy : Nat, at : Nat]
      <4>1. CASE Raise
        BY <4>1, TypeRaise
      <4>2. CASE ~Raise
        BY <2>4, <4>2 DEF LoadEngines, TypeOK
      <4>. QED BY <4>1, <4>2
    <3>3. UNCHANGED <<setup, store, temp, copies, results, episodes, made>>
      BY <2>4 DEF LoadEngines, disk
    <3>. QED BY <3>1, <3>2, <3>3 DEF TypeOK, Shelf
  <2>5. CASE Train
    BY <2>5 DEF Train, TypeOK, Shelf, disk
  <2>6. CASE Finish
    <3>1. Shelf(store')
      BY <2>6, StrippedKeeps DEF Finish, TypeOK
    <3>. QED BY <2>6, <3>1, TypeRaise DEF Finish, TypeOK, Shelf
  <2>7. CASE UNCHANGED vars
    BY <2>7 DEF vars, memory, disk, TypeOK, Shelf
  <2>. QED BY <2>1, <2>2, <2>3, <2>4, <2>5, <2>6, <2>7, TypeBoot, TypeBegin, TypeSave,
              TypeEnd, TypeCopy, TypeCrash DEF Next
<1>. QED BY <1>1, TypeInit, PTL DEF Spec

-----------------------------------------------------------------------------
(* The assertions of run_iteration_loop never fail: the trainer's iteration *)
(* is the loop's, after every resume and every skipped iteration.           *)
THEOREM IterationsAlwaysAgree == Spec => []IterationsAgree
<1>1. Init => IterationsAgree
  BY DEF Init, IterationsAgree
<1>2. TypeOK /\ IterationsAgree /\ [Next]_vars => IterationsAgree'
  <2>. SUFFICES ASSUME TypeOK, IterationsAgree, [Next]_vars PROVE IterationsAgree'
    OBVIOUS
  <2>. USE DEF IterationsAgree
  <2>1. CASE Boot
    BY <2>1 DEF Boot, Start
  <2>2. CASE ReadEpisodes
    BY <2>2 DEF ReadEpisodes, Raise
  <2>3. CASE Generate
    BY <2>3 DEF Generate, Raise
  <2>4. CASE SkipIteration
    BY <2>4 DEF SkipIteration, Skipped, TypeOK
  <2>5. CASE LoadEngines
    BY <2>5 DEF LoadEngines, Raise
  <2>6. CASE Train
    BY <2>6 DEF Train
  <2>7. CASE BeginStore
    BY <2>7 DEF BeginStore
  <2>8. CASE SavePart
    BY <2>8 DEF SavePart
  <2>9. CASE EndStep
    BY <2>9 DEF EndStep, TypeOK
  <2>10. CASE Finish
    BY <2>10 DEF Finish, Raise
  <2>11. CASE Crash
    BY <2>11 DEF Crash, Raise
  <2>12. CASE \E i \in DOMAIN copies : \E p \in Parts : CopyPart(i, p)
    BY <2>12 DEF CopyPart, memory
  <2>13. CASE UNCHANGED vars
    BY <2>13 DEF vars, memory
  <2>. QED BY <2>1, <2>2, <2>3, <2>4, <2>5, <2>6, <2>7, <2>8, <2>9, <2>10, <2>11, <2>12, <2>13
           DEF Next
<1>. QED BY <1>1, <1>2, PolicyTypeCorrect, PTL DEF Spec

-----------------------------------------------------------------------------
(* Between two steps the last policy is never lost.                         *)
NoCopies == cached => DOMAIN copies = {}
Inv == TypeOK /\ IterationsAgree /\ NoCopies /\ Chain

LEMMA ChainDown ==
  ASSUME pc' \in {"down", "finished"} PROVE Chain'
BY DEF Chain, StepsChain

LEMMA ChainBoot == TypeOK /\ Boot => Chain'
<1>. SUFFICES ASSUME TypeOK, Boot PROVE Chain'
  OBVIOUS
<1>1. last' = None /\ (pc' = "down" \/ (pc' = "generate" /\ loop'.at >= loop'.from))
  <2>1. CASE pc' = "generate" /\ loop' = Start
    BY <2>1 DEF Boot, Start
  <2>2. ASSUME NEW i \in Found, pc' = "generate", loop' = [at |-> i, from |-> i]
        PROVE  last' = None /\ pc' = "generate" /\ loop'.at >= loop'.from
    BY <2>2 DEF Boot, Found, TypeOK, Shelf
  <2>3. CASE pc' = "down"
    BY <2>3 DEF Boot
  <2>. QED BY <2>1, <2>2, <2>3 DEF Boot
<1>. QED BY <1>1 DEF Chain, StepsChain

LEMMA ChainGenerate == Inv /\ (ReadEpisodes \/ Generate) => Chain'
<1>. SUFFICES ASSUME Inv, ReadEpisodes \/ Generate PROVE Chain'
  OBVIOUS
<1>1. CASE Raise
  BY <1>1, ChainDown DEF Raise
<1>2. CASE ~Raise
  <2>1. /\ pc = "generate" /\ pc' = "step" /\ loop.at < NumIterations
        /\ UNCHANGED <<setup, loop, state, engine, load, hf, todo, last, temp>>
    BY <1>2 DEF ReadEpisodes, Generate, disk
  <2>2. last # None => Held' /\ loop.at > loop.from
    BY <2>1 DEF Inv, Chain, Held, cached, HasCritic
  <2>3. loop.at \in 0..NumIterations /\ loop.at >= loop.from
    BY <2>1, IterationAssumption DEF Inv, Chain, TypeOK
  <2>. QED BY <2>1, <2>2, <2>3 DEF Chain, StepsChain
<1>. QED BY <1>1, <1>2

LEMMA ChainSkip == Inv /\ SkipIteration => Chain'
<1>. SUFFICES ASSUME Inv, SkipIteration PROVE Chain'
  OBVIOUS
<1>1. /\ pc = "generate" /\ pc' = "generate" /\ loop'.at = loop.at + 1 /\ loop'.from = loop.from
      /\ UNCHANGED <<setup, engine, load, hf, last, temp>>
  BY DEF SkipIteration, disk, Inv, TypeOK
<1>2. last # None => Held' /\ loop'.at > loop'.from
  BY <1>1 DEF Inv, Chain, Held, cached, HasCritic, TypeOK
<1>3. loop'.at >= loop'.from
  BY <1>1 DEF Inv, Chain, TypeOK
<1>4. last' # None => (Sampled = last)'
  BY <1>1, <1>2 DEF Held, Sampled, PartOf
<1>. QED BY <1>1, <1>2, <1>3, <1>4 DEF Chain, StepsChain

LEMMA ChainLoad == Inv /\ LoadEngines => Chain'
<1>. SUFFICES ASSUME Inv, LoadEngines PROVE Chain'
  OBVIOUS
<1>1. CASE Raise
  BY <1>1, ChainDown DEF Raise
<1>2. CASE ~Raise
  <2>. DEFINE was == IF cached THEN engine ELSE NewEngine
  <2>1. /\ pc = "step" /\ pc' = "train" /\ load' = None
        /\ engine' = IF load = None THEN was
                     ELSE [actor |-> Loaded("actor", was.actor),
                           critic |-> IF HasCritic THEN Loaded("critic", was.critic)
                                      ELSE was.critic]
        /\ UNCHANGED <<setup, loop, last>>
    BY <1>2 DEF LoadEngines
  <2>2. ASSUME last # None
        PROVE  engine'.actor = last /\ (HasCritic => engine'.critic = last)
    <3>1. Held /\ last \in Nat
      BY <2>1, <2>2 DEF Inv, Chain, TypeOK
    <3>2. CASE cached
      <4>1. load = None /\ engine.actor = last /\ (HasCritic => engine.critic = last)
        BY <3>1, <3>2 DEF Held
      <4>2. was = engine
        BY <3>2
      <4>. HIDE DEF was
      <4>. QED BY <2>1, <4>1, <4>2
    <3>3. CASE ~cached
      <4>1. load = hf /\ load # None /\ load[1] = "temp" /\ load[2] \in DOMAIN temp
            /\ temp[load[2]]["actor"] = last /\ (HasCritic => temp[load[2]]["critic"] = last)
        BY <3>1, <3>3 DEF Held
      <4>2. last \notin Lost
        BY <3>1, NamesDiffer DEF Lost, Missing
      <4>3. \A policy : /\ Loaded("actor", policy) = last
                        /\ HasCritic => Loaded("critic", policy) = last
        BY <4>1, <4>2 DEF Loaded, PartOf
      <4>. HIDE DEF was
      <4>. QED BY <2>1, <4>1, <4>3
    <3>. QED BY <3>2, <3>3
  <2>3. loop.at \in 0..NumIterations /\ loop.at >= loop.from
    BY <2>1 DEF Inv, Chain
  <2>. HIDE DEF was
  <2>. QED BY <2>1, <2>2, <2>3 DEF Chain, StepsChain, HasCritic
<1>. QED BY <1>1, <1>2

LEMMA ChainTrain == Inv /\ Train => Chain'
<1>. SUFFICES ASSUME Inv, Train PROVE Chain'
  OBVIOUS
<1>1. /\ pc = "train" /\ pc' = "store" /\ made' \in Nat /\ made' = made + 1 /\ last' = made'
      /\ engine' = [actor |-> made', critic |-> IF HasCritic THEN made' ELSE engine.critic]
      /\ UNCHANGED <<setup, loop, load>>
  BY DEF Train, Inv, TypeOK
<1>2. last' \in 1..made'
  BY <1>1 DEF Inv, TypeOK
<1>3. Fresh'
  BY <1>1, <1>2 DEF Fresh, HasCritic
<1>4. load = None /\ loop.at \in 0..NumIterations /\ loop.at >= loop.from
  BY <1>1 DEF Inv, Chain
<1>. QED BY <1>1, <1>3, <1>4 DEF Chain, StepsChain

LEMMA WroteNothing ==
  ASSUME todo' = SaveOrder, UNCHANGED <<setup, last>>
  PROVE  Wrote(Empty, todo', last', HasCritic')
BY DEF SaveOrder, Wrote, Empty, Parts, HasCritic

LEMMA ChainBegin == Inv /\ BeginStore => Chain'
<1>. SUFFICES ASSUME Inv, BeginStore PROVE Chain'
  OBVIOUS
<1>1. /\ pc = "store" /\ state \in Nat /\ Fresh /\ load = None
      /\ loop.at \in 0..NumIterations /\ loop.at >= loop.from
      /\ Shelf(store) /\ Shelf(temp) /\ engine.actor \in Nat
  BY DEF Inv, Chain, TypeOK, BeginStore
<1>2. UNCHANGED <<setup, loop, state, engine, load, last, made>>
  BY DEF BeginStore
<1>3. Fresh' /\ load' = None /\ loop'.at \in 0..NumIterations /\ loop'.at >= loop'.from
  BY <1>1, <1>2 DEF Fresh, HasCritic
<1>. DEFINE bare == [Empty EXCEPT !["hf"] = engine.actor]
<1>4. bare["hf"] = last
  BY <1>1 DEF Fresh, Empty, Parts
<1>5. \A dir, ckpt : state \in DOMAIN With(dir, state, ckpt) /\ With(dir, state, ckpt)[state] = ckpt
  BY DEF With
<1>6. CASE cached
  <2>1. temp' = With(temp, state, bare)
    BY <1>6 DEF BeginStore
  <2>2. state' \in DOMAIN temp' /\ temp'[state'] = bare
    BY <2>1, <1>2, <1>5
  <2>3. Complete(temp[state])'
    BY <2>2, <1>2, <1>4, <1>6 DEF Complete, cached
  <2>4. CASE Due
    <3>1. pc' = "save" /\ todo' = SaveOrder /\ \E dir \in Cleaned : store' = With(dir, state, Empty)
      BY <1>6, <2>4 DEF BeginStore
    <3>2. state' \in DOMAIN store' /\ store'[state'] = Empty
      BY <3>1, <1>2, <1>5
    <3>3. Wrote(store'[state'], todo', last', HasCritic')
      BY <3>1, <3>2, <1>2, WroteNothing
    <3>. QED BY <1>3, <1>6, <1>2, <2>2, <2>3, <3>1, <3>2, <3>3 DEF Chain, StepsChain, cached
  <2>5. CASE ~Due
    <3>1. pc' = "tidy"
      BY <1>6, <2>5 DEF BeginStore
    <3>. QED BY <3>1, <1>3, <2>2, <2>3 DEF Chain, StepsChain
  <2>. QED BY <2>4, <2>5
<1>7. CASE ~cached
  <2>1. temp' = With(temp, state, Empty) /\ pc' = "save" /\ todo' = SaveOrder
    BY <1>7 DEF BeginStore
  <2>2. state' \in DOMAIN temp' /\ temp'[state'] = Empty
    BY <2>1, <1>2, <1>5
  <2>3. Wrote(temp'[state'], todo', last', HasCritic')
    BY <2>1, <2>2, <1>2, WroteNothing
  <2>. QED BY <2>1, <2>2, <2>3, <1>2, <1>3, <1>7 DEF Chain, StepsChain, cached
<1>. QED BY <1>6, <1>7

(* Writing the next part, down to a directory that is whole.                *)
Whole(ckpt, policy, critic) ==
  /\ \A p \in {"state", "hf", "actor"} : ckpt[p] = policy
  /\ critic => ckpt["critic"] = policy

LEMMA WritePart ==
  ASSUME NEW ckpt \in Checkpoint, NEW rest, NEW policy, NEW critic \in BOOLEAN,
         Wrote(ckpt, rest, policy, critic),
         NEW new, new = [ckpt EXCEPT ![Head(rest)] = policy]
  PROVE  /\ Tail(rest) # <<>> => Wrote(new, Tail(rest), policy, critic)
         /\ Tail(rest) = <<>> => Whole(new, policy, critic)
<1>1. /\ DOMAIN ckpt = Parts
      /\ \A p \in Parts : ckpt[p] \in {None, policy}
      /\ \A p \in Parts : new[p] = IF p = Head(rest) THEN policy ELSE ckpt[p]
      /\ ckpt["actor"] # None => rest = <<"critic">>
  BY DEF Wrote, Checkpoint
<1>2. CASE critic /\ rest = <<"state", "hf", "actor", "critic">>
  <2>1. Head(rest) = "state" /\ Tail(rest) = <<"hf", "actor", "critic">>
    BY <1>2
  <2>. QED BY <1>2, <2>1, <1>1 DEF Wrote, Whole, Parts
<1>3. CASE critic /\ rest = <<"hf", "actor", "critic">> /\ ckpt["state"] = policy
  <2>1. Head(rest) = "hf" /\ Tail(rest) = <<"actor", "critic">>
    BY <1>3
  <2>. QED BY <1>3, <2>1, <1>1 DEF Wrote, Whole, Parts
<1>4. CASE critic /\ rest = <<"actor", "critic">> /\ ckpt["state"] = policy /\ ckpt["hf"] = policy
  <2>1. Head(rest) = "actor" /\ Tail(rest) = <<"critic">>
    BY <1>4
  <2>. QED BY <1>4, <2>1, <1>1 DEF Wrote, Whole, Parts
<1>5. CASE critic /\ rest = <<"critic">> /\ ckpt["state"] = policy /\ ckpt["hf"] = policy /\ ckpt["actor"] = policy
  <2>1. Head(rest) = "critic" /\ Tail(rest) = <<>>
    BY <1>5
  <2>. QED BY <1>5, <2>1, <1>1 DEF Wrote, Whole, Parts
<1>6. CASE ~critic /\ rest = <<"state", "hf", "actor">>
  <2>1. Head(rest) = "state" /\ Tail(rest) = <<"hf", "actor">>
    BY <1>6
  <2>. QED BY <1>6, <2>1, <1>1 DEF Wrote, Whole, Parts
<1>7. CASE ~critic /\ rest = <<"hf", "actor">> /\ ckpt["state"] = policy
  <2>1. Head(rest) = "hf" /\ Tail(rest) = <<"actor">>
    BY <1>7
  <2>. QED BY <1>7, <2>1, <1>1 DEF Wrote, Whole, Parts
<1>8. CASE ~critic /\ rest = <<"actor">> /\ ckpt["state"] = policy /\ ckpt["hf"] = policy
  <2>1. Head(rest) = "actor" /\ Tail(rest) = <<>>
    BY <1>8
  <2>. QED BY <1>8, <2>1, <1>1 DEF Wrote, Whole, Parts
<1>. QED BY <1>2, <1>3, <1>4, <1>5, <1>6, <1>7, <1>8 DEF Wrote

LEMMA ChainSave == Inv /\ SavePart => Chain'
<1>. SUFFICES ASSUME Inv, SavePart PROVE Chain'
  OBVIOUS
<1>1. /\ pc = "save" /\ Fresh /\ load = None /\ state \in DOMAIN temp
      /\ loop.at \in 0..NumIterations /\ loop.at >= loop.from
      /\ cached => state \in DOMAIN store /\ Wrote(store[state], todo, last, HasCritic) /\ Complete(temp[state])
      /\ ~cached => Wrote(temp[state], todo, last, HasCritic)
  BY DEF Inv, Chain, SavePart
<1>2. /\ UNCHANGED <<setup, loop, state, engine, load, last, made>> /\ todo' = Tail(todo)
      /\ pc' = IF Tail(todo) = <<>> THEN "tidy" ELSE "save"
  BY DEF SavePart
<1>3. Fresh' /\ load' = None /\ loop'.at \in 0..NumIterations /\ loop'.at >= loop'.from
  BY <1>1, <1>2 DEF Fresh, HasCritic
<1>. DEFINE value == IF Head(todo) = "critic" THEN engine.critic ELSE engine.actor
<1>4. value = last
  <2>1. Head(todo) = "critic" => HasCritic
    BY <1>1 DEF Wrote
  <2>. QED BY <1>1, <2>1 DEF Fresh
<1>5. Shelf(store) /\ Shelf(temp)
  BY DEF Inv, TypeOK
<1>8. HasCritic \in BOOLEAN
  BY IterationAssumption DEF Inv, TypeOK, HasCritic
<1>6. CASE cached
  <2>. DEFINE new == [store[state] EXCEPT ![Head(todo)] = last]
  <2>1. store' = Written(store, last) /\ temp' = temp
    BY <1>4, <1>6 DEF SavePart
  <2>2. state \in DOMAIN store' /\ store'[state] = new
    <3>1. state \in DOMAIN store
      BY <1>1, <1>6
    <3>. QED BY <3>1, <2>1 DEF Written
  <2>3. Complete(temp[state])'
    <3>1. temp[state]["hf"] = last
      BY <1>1, <1>6 DEF Complete
    <3>2. temp'[state'] = temp[state] /\ last' = last /\ cached'
      BY <1>2, <1>6, <2>1 DEF cached
    <3>. QED BY <3>1, <3>2 DEF Complete
  <2>4. Tail(todo) # <<>> => Wrote(new, Tail(todo), last, HasCritic)
    <3>1. store[state] \in Checkpoint /\ Wrote(store[state], todo, last, HasCritic)
      BY <1>1, <1>5, <1>6 DEF Shelf
    <3>. QED BY <3>1, <1>8, WritePart
  <2>5. Tail(todo) # <<>> => Wrote(store'[state'], todo', last', HasCritic')
    BY <2>2, <2>4, <1>2 DEF HasCritic
  <2>. QED BY <1>1, <1>2, <1>3, <1>6, <2>1, <2>2, <2>3, <2>5 DEF Chain, StepsChain, cached
<1>7. CASE ~cached
  <2>. DEFINE new == [temp[state] EXCEPT ![Head(todo)] = last]
  <2>1. temp' = Written(temp, last)
    BY <1>4, <1>7 DEF SavePart
  <2>2. state \in DOMAIN temp' /\ temp'[state] = new
    BY <1>1, <2>1 DEF Written
  <2>3. temp[state] \in Checkpoint /\ Wrote(temp[state], todo, last, HasCritic)
    BY <1>1, <1>5, <1>7 DEF Shelf
  <2>4. (Tail(todo) # <<>> => Wrote(new, Tail(todo), last, HasCritic)) /\ (Tail(todo) = <<>> => Whole(new, last, HasCritic))
    BY <2>3, <1>8, WritePart
  <2>5. Tail(todo) # <<>> => Wrote(temp'[state'], todo', last', HasCritic')
    BY <2>2, <2>4, <1>2 DEF HasCritic
  <2>6. Tail(todo) = <<>> => Complete(temp[state])'
    BY <2>2, <2>4, <1>2 DEF Whole, Complete, HasCritic
  <2>. QED BY <1>2, <1>3, <1>7, <2>2, <2>5, <2>6 DEF Chain, StepsChain, cached
<1>. QED BY <1>6, <1>7

LEMMA ChainEnd == Inv /\ EndStep => Chain'
<1>. SUFFICES ASSUME Inv, EndStep PROVE Chain'
  OBVIOUS
<1>1. /\ pc = "tidy" /\ Fresh /\ load = None /\ state \in DOMAIN temp /\ state \in Nat
      /\ Complete(temp[state]) /\ loop.at >= loop.from
      /\ loop \in [at : Nat, from : Nat]
  BY DEF Inv, Chain, TypeOK, EndStep
<1>2. /\ UNCHANGED <<setup, engine, last>> /\ pc' = "generate" /\ hf' = <<"temp", state>>
      /\ load' = (IF cached THEN load ELSE <<"temp", state>>) /\ temp' = KeptTemp
      /\ loop'.at = loop.at + 1 /\ loop'.from = loop.from
  BY <1>1 DEF EndStep, NextLoad
<1>3. state \in DOMAIN temp' /\ temp'[state] = temp[state]
  BY <1>1, <1>2 DEF KeptTemp, Only
<1>4. <<"temp", state>> # None
  BY <1>1, IterationAssumption
<1>5. Held'
  BY <1>1, <1>2, <1>3, <1>4 DEF Held, Fresh, Complete, cached, HasCritic
<1>6. loop'.at > loop'.from
  BY <1>1, <1>2
<1>7. (Sampled = last)'
  BY <1>5 DEF Held, Sampled, PartOf
<1>. QED BY <1>1, <1>2, <1>5, <1>6, <1>7 DEF Chain, StepsChain


LEMMA ChainCopy ==
  ASSUME Inv, NEW i \in DOMAIN copies, NEW p \in Parts, CopyPart(i, p)
  PROVE  Chain'
<1>1. UNCHANGED <<setup, pc, loop, state, engine, load, hf, todo, last, temp, made>>
  BY DEF CopyPart, memory
<1>2. ~cached
  BY DEF Inv, NoCopies
<1>3. last' # None /\ pc' = "generate" => (Sampled = last)'
  BY <1>1 DEF Inv, Chain, Held, Sampled, PartOf
<1>. QED BY <1>1, <1>2, <1>3 DEF Inv, Chain, StepsChain, Held, Fresh, Complete, cached, HasCritic

LEMMA ChainStep == Inv /\ [Next]_vars => Chain'
<1>. SUFFICES ASSUME Inv, [Next]_vars PROVE Chain'
  OBVIOUS
<1>1. CASE Finish \/ Crash
  <2>1. pc' \in {"down", "finished"}
    BY <1>1 DEF Finish, Crash, Raise
  <2>. QED BY <2>1, ChainDown
<1>2. CASE UNCHANGED vars
  <2>1. last' # None /\ pc' = "generate" => (Sampled = last)'
    BY <1>2 DEF vars, memory, disk, Inv, Chain, Held, Sampled, PartOf
  <2>. QED BY <1>2, <2>1 DEF vars, memory, disk, Inv, Chain, StepsChain, Held, Fresh, Complete, cached, HasCritic
<1>3. CASE Boot
  BY <1>3, ChainBoot DEF Inv
<1>. QED BY <1>1, <1>2, <1>3, ChainGenerate, ChainSkip, ChainLoad, ChainTrain, ChainBegin,
            ChainSave, ChainEnd, ChainCopy DEF Next

LEMMA NoCopiesStep == NoCopies /\ [Next]_vars => NoCopies'
<1>. SUFFICES ASSUME NoCopies, [Next]_vars PROVE NoCopies'
  OBVIOUS
<1>. USE DEF NoCopies
<1>1. UNCHANGED setup
  BY DEF Next, vars, Boot, ReadEpisodes, Generate, SkipIteration, LoadEngines, Train,
         BeginStore, SavePart, EndStep, Finish, Crash, CopyPart
<1>2. CASE EndStep
  BY <1>1, <1>2 DEF EndStep, cached
<1>3. CASE Crash
  BY <1>1, <1>3 DEF Crash, NoDirectory, cached
<1>4. ASSUME NEW i \in DOMAIN copies, NEW p \in Parts, CopyPart(i, p) PROVE NoCopies'
  BY <1>1, <1>4 DEF cached
<1>5. UNCHANGED copies => NoCopies'
  BY <1>1 DEF cached
<1>6. UNCHANGED copies \/ EndStep \/ Crash
        \/ \E i \in DOMAIN copies : \E p \in Parts : CopyPart(i, p)
  BY DEF Next, vars, disk, Boot, ReadEpisodes, Generate, SkipIteration, LoadEngines, Train,
         BeginStore, SavePart, Finish
<1>. QED BY <1>2, <1>3, <1>4, <1>5, <1>6

LEMMA InvAlways == Spec => []Inv
<1>1. Init => NoCopies /\ Chain
  <2>. SUFFICES ASSUME Init PROVE NoCopies /\ Chain
    OBVIOUS
  <2>1. pc = "down" /\ DOMAIN copies = {}
    BY DEF Init, NoDirectory
  <2>. QED BY <2>1 DEF Chain, StepsChain, NoCopies
<1>2. Inv /\ [Next]_vars => (NoCopies /\ Chain)'
  BY ChainStep, NoCopiesStep DEF Inv
<1>. QED BY <1>1, <1>2, PolicyTypeCorrect, IterationsAlwaysAgree, PTL DEF Spec, Inv

(* Every step of a process but its first trains the policy of the step      *)
(* before, and the inference server loads it in between, for engines that   *)
(* stay and engines that are rebuilt from the temporary checkpoint.         *)
THEOREM StepsAlwaysChain == Spec => []StepsChain
BY InvAlways, PTL DEF Inv, Chain

-----------------------------------------------------------------------------
(* A directory that is being written, whole so far or with its next part    *)
(* cut short, holds one policy and its engines come last.                   *)
LEMMA WritingIsOne ==
  ASSUME Fresh, made \in Nat, NEW ckpt \in Checkpoint, Wrote(ckpt, todo, last, HasCritic),
         NEW value \in {last, Torn}, NEW new, new = [ckpt EXCEPT ![Head(todo)] = value]
  PROVE  OnePolicy(new)
<1>1. /\ DOMAIN ckpt = Parts
      /\ \A p \in Parts : ckpt[p] \in {None, last}
      /\ \A p \in Parts : new[p] = IF p = Head(todo) THEN value ELSE ckpt[p]
  BY DEF Wrote, Checkpoint
<1>2. \A p \in Parts : new[p] \in {last} \cup Lost
  BY <1>1 DEF Lost, Missing
<1>3. last \in 1..made /\ last \notin Lost
  BY NamesDiffer DEF Fresh, Lost, Missing
<1>4. Head(todo) = "actor" \/ ckpt["actor"] # None => ckpt["state"] = last /\ ckpt["hf"] = last
  BY DEF Wrote
<1>5. Head(todo) \in {"state", "hf"} => ckpt["actor"] = None
  BY DEF Wrote
<1>6. ASSUME new["actor"] \notin Missing
      PROVE  new["state"] \notin {None, Bare} /\ new["hf"] \notin {None, Bare}
  <2>1. Head(todo) = "actor" \/ ckpt["actor"] # None
    BY <1>1, <1>6 DEF Parts, Missing
  <2>2. ckpt["state"] = last /\ ckpt["hf"] = last /\ Head(todo) \notin {"state", "hf"}
    BY <2>1, <1>4, <1>5
  <2>3. new["state"] = last /\ new["hf"] = last
    BY <2>2, <1>1 DEF Parts
  <2>. QED BY <2>3, <1>3 DEF Lost, Missing
<1>. QED BY <1>2, <1>3, <1>6 DEF OnePolicy

LEMMA MoreMade ==
  ASSUME TypeOK, made' \in Nat, made' >= made, NEW ckpt, OnePolicy(ckpt)
  PROVE  /\ \E policy \in 1..made' : \A p \in Parts : ckpt[p] \in {policy} \cup Lost
         /\ ckpt["actor"] \notin Missing =>
              ckpt["state"] \notin {None, Bare} /\ ckpt["hf"] \notin {None, Bare}
BY DEF OnePolicy, TypeOK

LEMMA SoundStep == Inv /\ Sound /\ [Next]_vars => Sound'
<1>. SUFFICES ASSUME Inv, Sound, [Next]_vars, cached, UNCHANGED setup PROVE AllOne(store)'
  BY DEF Sound, cached, Next, vars, Boot, ReadEpisodes, Generate, SkipIteration, LoadEngines,
         Train, BeginStore, SavePart, EndStep, Finish, Crash, CopyPart
<1>1. AllOne(store) /\ Shelf(store) /\ made \in Nat
  BY DEF Sound, Inv, TypeOK
<1>2. ASSUME UNCHANGED store, made' \in Nat, made' >= made PROVE AllOne(store)'
  BY <1>1, <1>2, MoreMade DEF AllOne, OnePolicy, Inv
<1>3. ASSUME NEW dir, AllOne(dir), store' = dir, UNCHANGED made PROVE AllOne(store)'
  BY <1>3 DEF AllOne, OnePolicy
<1>4. ASSUME pc = "save", NEW value \in {last, Torn}, store' = Written(store, value),
             UNCHANGED made
      PROVE  AllOne(store)'
  <2>1. Fresh /\ state \in DOMAIN store /\ Wrote(store[state], todo, last, HasCritic)
    BY <1>4 DEF Inv, Chain
  <2>2. store[state] \in Checkpoint
    BY <1>1, <2>1 DEF Shelf
  <2>3. OnePolicy([store[state] EXCEPT ![Head(todo)] = value])
    BY <1>1, <1>4, <2>1, <2>2, WritingIsOne
  <2>4. AllOne(Written(store, value))
    BY <1>1, <2>1, <2>3 DEF AllOne, Written
  <2>. QED BY <1>3, <1>4, <2>4
<1>5. CASE BeginStore
  <2>1. Fresh /\ state \in Nat
    BY <1>5 DEF Inv, Chain, TypeOK, BeginStore
  <2>2. Empty \in Checkpoint /\ OnePolicy(Empty)
    BY <1>1, <2>1, EmptyIsOne DEF Fresh
  <2>3. CASE Due
    <3>1. PICK dir \in Cleaned : store' = With(dir, state, Empty)
      BY <1>5, <2>3 DEF BeginStore
    <3>2. Shelf(dir) /\ AllOne(dir)
      BY <1>1, CleanedKeeps
    <3>3. AllOne(With(dir, state, Empty))
      BY <2>1, <2>2, <3>2, WithKeeps
    <3>4. UNCHANGED made
      BY <1>5 DEF BeginStore
    <3>. QED BY <1>3, <3>1, <3>3, <3>4
  <2>4. CASE ~Due
    BY <1>1, <1>2, <1>5, <2>4 DEF BeginStore
  <2>. QED BY <2>3, <2>4
<1>6. CASE SavePart
  <2>1. pc = "save" /\ UNCHANGED made
        /\ store' = Written(store, IF Head(todo) = "critic" THEN engine.critic ELSE engine.actor)
    BY <1>6 DEF SavePart
  <2>2. Fresh /\ Wrote(store[state], todo, last, HasCritic)
    BY <2>1 DEF Inv, Chain
  <2>3. Head(todo) = "critic" => HasCritic
    BY <2>2 DEF Wrote
  <2>4. store' = Written(store, last)
    BY <2>1, <2>2, <2>3 DEF Fresh
  <2>. QED BY <1>4, <2>1, <2>4
<1>7. CASE Crash
  <2>1. UNCHANGED made
    BY <1>7 DEF Crash
  <2>2. CASE pc = "save"
    <3>1. store' = store \/ store' = Written(store, Torn)
      BY <1>7, <2>2 DEF Crash
    <3>. QED BY <1>1, <1>3, <1>4, <2>1, <2>2, <3>1
  <2>3. CASE pc # "save"
    <3>1. \/ store' = store \/ store' \in CutCleaned
          \/ \E dir \in Cleaned : store' \in Overwritten(dir)
      BY <1>7, <2>3 DEF Crash
    <3>2. ASSUME NEW dir \in Cleaned, store' \in Overwritten(dir) PROVE AllOne(store)'
      <4>1. Shelf(dir) /\ AllOne(dir)
        BY <1>1, CleanedKeeps
      <4>2. state \in Nat
        BY DEF Inv, TypeOK
      <4>3. AllOne(store')
        BY <3>2, <4>1, <4>2, OverwrittenKeeps
      <4>. QED BY <1>3, <2>1, <4>3
    <3>. QED BY <1>1, <1>3, <2>1, <3>1, <3>2, CutCleanedKeeps
  <2>. QED BY <2>2, <2>3
<1>8. CASE Finish
  <2>1. UNCHANGED made /\ (store' = store \/ store' \in Stripped(store))
    BY <1>8 DEF Finish
  <2>. QED BY <1>1, <1>3, <2>1, StrippedKeeps
<1>9. CASE Train
  BY <1>1, <1>2, <1>9 DEF Train, disk
<1>10. ASSUME NEW i \in DOMAIN copies, NEW p \in Parts, CopyPart(i, p) PROVE AllOne(store)'
  BY DEF Inv, NoCopies
<1>11. CASE UNCHANGED <<store, made>>
  BY <1>1, <1>2, <1>11
<1>12. Boot \/ ReadEpisodes \/ Generate \/ SkipIteration \/ LoadEngines \/ EndStep
         \/ UNCHANGED vars => UNCHANGED <<store, made>>
  BY DEF Boot, ReadEpisodes, Generate, SkipIteration, LoadEngines, EndStep, vars, disk
<1>. QED BY <1>5, <1>6, <1>7, <1>8, <1>9, <1>10, <1>11, <1>12 DEF Next

(* Whatever crashes cut short, a save or a cleaning, a checkpoint that a    *)
(* resume accepts is of one policy, and none of its parts is missing that   *)
(* no removal took.                                                         *)
THEOREM ResumesAlwaysOnePolicy == Spec => []ResumesOnePolicy
<1>1. Init => Sound
  BY DEF Init, Sound, AllOne, NoDirectory
<1>2. Sound => ResumesOnePolicy
  <2>. SUFFICES ASSUME Sound, cached, NEW i \in DOMAIN store, Resumable(store[i])
                PROVE \E policy \in 1..made :
                        /\ store[i]["state"] \in {policy, Torn, Gone}
                        /\ store[i]["hf"] \in {policy, Torn, Gone}
                        /\ store[i]["actor"] \in {policy, Torn}
                        /\ store[i]["critic"] \in {policy, Torn, Gone, None}
    BY DEF ResumesOnePolicy
  <2>1. OnePolicy(store[i])
    BY DEF Sound, AllOne
  <2>2. PICK policy \in 1..made : \A p \in Parts : store[i][p] \in {policy} \cup Lost
    BY <2>1 DEF OnePolicy
  <2>. QED BY <2>1, <2>2, NamesDiffer DEF OnePolicy, Resumable, Parts, Lost, Missing
<1>. QED BY <1>1, <1>2, InvAlways, SoundStep, PTL DEF Spec
===============================================================================
