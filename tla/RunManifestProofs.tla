--------------------------- MODULE RunManifestProofs ---------------------------
(***************************************************************************)
(* Proofs about RunManifest, for any bounds, flaws and strictness, with    *)
(* the live state saved or not.                                            *)
(***************************************************************************)
EXTENDS RunManifest, TLAPS

Manifests ==
  [count : [Failures -> Nat], true : SUBSET Claims, denominator : BOOLEAN,
   step : Nat, iteration : Nat, model : Nat, seen : SUBSET Events]

Types ==
  /\ mem \in Manifests
  /\ ckpt # None => ckpt \in Manifests
  /\ live # None => live \in Manifests
  /\ work \in Nat /\ restarts \in Nat

(* A manifest tells no more than its history: a failure in it is counted, a *)
(* claim was observed.                                                      *)
Faithful(m) ==
  /\ m.seen \cap {"group", "queue", "identity", "batch"} # {} =>
       \E f \in Failures : m.count[f] > 0
  /\ "whole" \in m.true => "tensorized" \in m.seen
  /\ "stored" \in m.true => "stored" \in m.seen
  /\ m.step >= 1 => "update" \in m.seen

AllFaithful ==
  /\ Faithful(mem)
  /\ ckpt # None => Faithful(ckpt)
  /\ live # None => Faithful(live)

(* One history: the first manifest was written earlier than the second. *)
Before(a, b) ==
  /\ a.step = b.step
  /\ a.iteration <= b.iteration
  /\ a.seen \subseteq b.seen
  /\ \A f \in Failures : a.count[f] <= b.count[f]

Working == {"generated", "constructed", "sampled", "tensorized"}

(* A model is made at a time of its own, so manifests with the same model   *)
(* are moments of one history.                                              *)
Clocked ==
  /\ mem.model <= Now
  /\ ckpt # None => ckpt.model <= Now
  /\ live # None => live.model <= Now
  /\ pc \in Working =>
       /\ mem.model < Now
       /\ ckpt # None => ckpt.model < Now
       /\ live # None => live.model < Now

Ordered ==
  /\ ckpt # None /\ ckpt.model = mem.model => Before(ckpt, mem)
  /\ live # None /\ live.model = mem.model => Before(live, mem)
  /\ ckpt # None /\ live # None /\ ckpt.model = live.model =>
       Before(ckpt, live) \/ Before(live, ckpt)

VerdictInv == Types /\ AllFaithful /\ Clocked /\ Ordered

LEMMA InitVerdict == Init => VerdictInv
BY DEF Init, Fresh, VerdictInv, Types, Manifests, AllFaithful, Faithful, Clocked, Ordered,
       Working, Now

-----------------------------------------------------------------------------
(* Steps of an iteration: only the manifest in memory changes, and it grows. *)
Grows ==
  /\ mem' \in Manifests
  /\ mem'.step = mem.step /\ mem'.model = mem.model
  /\ mem.iteration <= mem'.iteration
  /\ mem.seen \subseteq mem'.seen
  /\ \A f \in Failures : mem.count[f] <= mem'.count[f]
  /\ UNCHANGED <<ckpt, live, restarts>>
  /\ work' \in Nat /\ work <= work'

LEMMA GrowsKeeps ==
  ASSUME VerdictInv, Grows, Faithful(mem'),
         pc' \in Working => work < work' \/ pc \in Working
  PROVE  VerdictInv'
<1>1. Types'
  BY DEF VerdictInv, Types, Grows
<1>2. AllFaithful'
  BY DEF VerdictInv, AllFaithful, Grows, Faithful
<1>3. Clocked'
  BY DEF VerdictInv, Types, Manifests, Clocked, Grows, Now
<1>4. Ordered'
  <2>1. ASSUME NEW m, m \in Manifests, m.model = mem.model, Before(m, mem)
        PROVE  Before(m, mem')
    BY <2>1 DEF Before, Grows, VerdictInv, Types, Manifests
  <2>2. QED
    BY <2>1 DEF VerdictInv, Types, Ordered, Grows, Before
<1>5. QED  BY <1>1, <1>2, <1>3, <1>4 DEF VerdictInv

LEMMA FetchStep ==
  ASSUME VerdictInv, NEW ok \in BOOLEAN, Fetch(ok)  PROVE VerdictInv'
<1>1. mem \in Manifests /\ work \in Nat  BY DEF VerdictInv, Types
<1>2. Set("verified", ok) \in SUBSET Claims
  BY <1>1 DEF Set, Manifests, Claims
<1>3. mem' \in Manifests /\ mem'.count = mem.count /\ mem'.seen = mem.seen
      /\ mem'.step = mem.step /\ mem'.model = mem.model
      /\ mem'.iteration = mem.iteration + 1
      /\ mem'.true \in {mem.true, Set("verified", ok)}
  <2> DEFINE t == IF StrictVdra /\ ~ok THEN mem.true ELSE Set("verified", ok)
  <2>1. t \in {mem.true, Set("verified", ok)} /\ mem.true \in SUBSET Claims
    BY <1>1 DEF Manifests
  <2>2. mem' = [mem EXCEPT !.iteration = mem.iteration + 1, !.true = t]
    BY DEF Fetch
  <2> HIDE DEF t
  <2>3. t \in SUBSET Claims  BY <1>2, <2>1
  <2>4. mem.iteration + 1 \in Nat  BY <1>1 DEF Manifests
  <2>5. mem' \in Manifests  BY <1>1, <2>2, <2>3, <2>4 DEF Manifests
  <2>6. /\ mem'.count = mem.count /\ mem'.seen = mem.seen
        /\ mem'.step = mem.step /\ mem'.model = mem.model
        /\ mem'.iteration = mem.iteration + 1 /\ mem'.true = t
    BY <1>1, <2>2 DEF Manifests
  <2>7. QED  BY <2>1, <2>5, <2>6
<1>4. Grows
  BY <1>1, <1>3 DEF Grows, Fetch, disk, Manifests
<1>5. Faithful(mem')
  BY <1>3 DEF VerdictInv, AllFaithful, Faithful, Set
<1>6. work < work'
  BY <1>1 DEF Fetch
<1>7. QED  BY <1>4, <1>5, <1>6, GrowsKeeps

(* Counting failures and setting claims. *)
LEMMA CountedManifest ==
  ASSUME mem \in Manifests, NEW a \in Nat, NEW b \in Nat,
         NEW t \in SUBSET Claims, NEW s \in SUBSET Events,
         mem' = [mem EXCEPT !.count.integrity = @ + a, !.count.segments = @ + b,
                            !.true = t, !.seen = s]
  PROVE  /\ mem' \in Manifests
         /\ mem'.true = t /\ mem'.seen = s
         /\ mem'.step = mem.step /\ mem'.model = mem.model
         /\ mem'.iteration = mem.iteration
         /\ mem'.count = [mem.count EXCEPT !["integrity"] = @ + a, !["segments"] = @ + b]
<1> DEFINE c == [mem.count EXCEPT !["integrity"] = @ + a, !["segments"] = @ + b]
<1>1. mem.count \in [Failures -> Nat]  BY DEF Manifests
<1>2. c \in [Failures -> Nat]  BY <1>1 DEF Failures
<1>3. mem' = [mem EXCEPT !.count = c, !.true = t, !.seen = s]
  BY <1>1 DEF Manifests, Failures
<1> HIDE DEF c
<1>4. mem' \in Manifests  BY <1>2, <1>3 DEF Manifests
<1>5. /\ mem'.true = t /\ mem'.seen = s
      /\ mem'.step = mem.step /\ mem'.model = mem.model
      /\ mem'.iteration = mem.iteration /\ mem'.count = c
  BY <1>3 DEF Manifests
<1>6. QED  BY <1>4, <1>5 DEF c

LEMMA ConstructStep ==
  ASSUME VerdictInv, NEW F \in Findings, Construct(F)  PROVE VerdictInv'
<1> DEFINE raised == StrictGroups /\ F \ {"identity"} # {}
           raises == StrictGroups /\ F # {}
           a == IF raised THEN 1 ELSE One("group" \in F) + One("identity" \in F)
           b == IF raised THEN 1 ELSE One("queue" \in F)
           t == IF raised THEN mem.true
                ELSE Set("identified", "identity" \notin F) \cup
                     (IF raises \/ F \cap {"queue", "rows"} # {} THEN {} ELSE {"claimed"})
<1>1. mem \in Manifests /\ work \in Nat  BY DEF VerdictInv, Types
<1>2. F \subseteq Flaws  BY ManifestAssumption
<1>3. a \in Nat /\ b \in Nat  BY DEF One
<1>4. F \cap {"group", "queue", "identity", "batch"} # {} => a + b > 0
  BY <1>2 DEF One, Flaws
<1>5. t \in SUBSET Claims /\ ("whole" \in t => "whole" \in mem.true)
      /\ ("stored" \in t => "stored" \in mem.true)
  BY <1>1 DEF Set, Manifests, Claims
<1>6. mem.seen \cup F \in SUBSET Events  BY <1>1, <1>2 DEF Manifests, Events
<1>7. /\ mem' = [mem EXCEPT !.count.integrity = @ + a, !.count.segments = @ + b,
                            !.true = t, !.seen = mem.seen \cup F]
      /\ pc = "generated" /\ UNCHANGED <<disk, work>>
  BY DEF Construct
<1> HIDE DEF a, b, t
<1>8. /\ mem' \in Manifests
      /\ mem'.true = t /\ mem'.seen = mem.seen \cup F
      /\ mem'.step = mem.step /\ mem'.model = mem.model
      /\ mem'.iteration = mem.iteration
      /\ mem'.count = [mem.count EXCEPT !["integrity"] = @ + a, !["segments"] = @ + b]
  BY <1>1, <1>3, <1>5, <1>6, <1>7, CountedManifest
<1>9. mem.count \in [Failures -> Nat] /\ mem.iteration \in Nat
  BY <1>1 DEF Manifests
<1>10. \A f \in Failures : mem.count[f] <= mem'.count[f]
  BY <1>3, <1>8, <1>9 DEF Failures
<1>11. Grows
  BY <1>1, <1>7, <1>8, <1>9, <1>10 DEF Grows, disk
<1>12. Faithful(mem')
  <2>1. mem'.count["integrity"] = mem.count["integrity"] + a
        /\ mem'.count["segments"] = mem.count["segments"] + b
    BY <1>8, <1>9 DEF Failures
  <2>2. mem.count["integrity"] \in Nat /\ mem.count["segments"] \in Nat
    BY <1>9 DEF Failures
  <2>3. a + b > 0 => mem'.count["integrity"] > 0 \/ mem'.count["segments"] > 0
    BY <2>1, <2>2, <1>3
  <2>4. Faithful(mem)  BY DEF VerdictInv, AllFaithful
  <2>5. ASSUME mem'.seen \cap {"group", "queue", "identity", "batch"} # {}
        PROVE  \E f \in Failures : mem'.count[f] > 0
    <3>1. CASE F \cap {"group", "queue", "identity", "batch"} # {}
      BY <3>1, <1>4, <2>3 DEF Failures
    <3>2. CASE mem.seen \cap {"group", "queue", "identity", "batch"} # {}
      <4>1. PICK f \in Failures : mem.count[f] > 0  BY <3>2, <2>4 DEF Faithful
      <4>2. mem.count[f] <= mem'.count[f] /\ mem.count[f] \in Nat
            /\ mem'.count[f] \in Nat
        BY <1>9, <1>10, <1>8 DEF Manifests
      <4>3. QED  BY <4>1, <4>2
    <3>3. QED  BY <3>1, <3>2, <2>5, <1>8
  <2>6. QED  BY <2>4, <2>5, <1>5, <1>8 DEF Faithful
<1>13. QED  BY <1>7, <1>11, <1>12, GrowsKeeps DEF Working

(* What only moves on leaves the manifest alone. *)
LEMMA MoveStep ==
  ASSUME VerdictInv, EmptyRollout \/ Raise \/ NoProgress  PROVE VerdictInv'
<1>1. UNCHANGED <<mem, disk, work>> /\ pc \in Working
  BY DEF EmptyRollout, Raise, NoProgress, Working
<1>2. Grows
  BY <1>1 DEF Grows, VerdictInv, Types, Manifests, disk
<1>3. Faithful(mem')
  BY <1>1 DEF VerdictInv, AllFaithful
<1>4. QED  BY <1>1, <1>2, <1>3, GrowsKeeps

LEMMA SampleStep ==
  ASSUME VerdictInv, NEW bad \in BOOLEAN, Sample(bad)  PROVE VerdictInv'
<1> DEFINE n == One(bad)
           t == IF bad /\ StrictGroups THEN mem.true ELSE mem.true \cup {"stamped"}
           s == IF bad THEN mem.seen \cup {"batch"} ELSE mem.seen
           c == [mem.count EXCEPT !["batches"] = @ + n]
<1>1. mem \in Manifests /\ work \in Nat  BY DEF VerdictInv, Types
<1>2. mem.count \in [Failures -> Nat] /\ mem.iteration \in Nat  BY <1>1 DEF Manifests
<1>3. n \in Nat /\ (bad => n = 1)  BY DEF One
<1>4. t \in SUBSET Claims /\ ("whole" \in t => "whole" \in mem.true)
      /\ ("stored" \in t => "stored" \in mem.true)
  BY <1>1 DEF Manifests, Claims
<1>5. s \in SUBSET Events /\ mem.seen \subseteq s /\ (~bad => s = mem.seen)
  BY <1>1 DEF Manifests, Events
<1>6. c \in [Failures -> Nat] /\ c["batches"] = mem.count["batches"] + n
      /\ \A f \in Failures : mem.count[f] <= c[f]
  BY <1>2, <1>3 DEF Failures
<1>7. /\ mem' = [mem EXCEPT !.count.batches = @ + n, !.true = t, !.seen = s]
      /\ pc = "constructed" /\ UNCHANGED <<disk, work>>
  BY DEF Sample
<1>8. mem' = [mem EXCEPT !.count = c, !.true = t, !.seen = s]
  BY <1>1, <1>2, <1>7 DEF Manifests, Failures
<1> HIDE DEF n, t, s, c
<1>9. mem' \in Manifests  BY <1>1, <1>4, <1>5, <1>6, <1>8 DEF Manifests
<1>10. /\ mem'.true = t /\ mem'.seen = s /\ mem'.count = c
       /\ mem'.step = mem.step /\ mem'.model = mem.model
       /\ mem'.iteration = mem.iteration
  BY <1>1, <1>8 DEF Manifests
<1>11. Grows
  BY <1>1, <1>2, <1>5, <1>6, <1>7, <1>9, <1>10 DEF Grows, disk
<1>12. Faithful(mem')
  <2>1. Faithful(mem)  BY DEF VerdictInv, AllFaithful
  <2>2. ASSUME mem'.seen \cap {"group", "queue", "identity", "batch"} # {}
        PROVE  \E f \in Failures : mem'.count[f] > 0
    <3>1. CASE bad
      <4>1. mem.count["batches"] \in Nat  BY <1>2 DEF Failures
      <4>2. mem'.count["batches"] > 0  BY <4>1, <1>3, <1>6, <1>10, <3>1
      <4>3. QED  BY <4>2 DEF Failures
    <3>2. CASE ~bad
      <4>1. PICK f \in Failures : mem.count[f] > 0
        BY <3>2, <2>1, <2>2, <1>5, <1>10 DEF Faithful
      <4>2. mem.count[f] <= mem'.count[f] /\ mem.count[f] \in Nat
            /\ mem'.count[f] \in Nat
        BY <1>2, <1>6, <1>10
      <4>3. QED  BY <4>1, <4>2
    <3>3. QED  BY <3>1, <3>2
  <2>3. QED  BY <2>1, <2>2, <1>4, <1>5, <1>10 DEF Faithful
<1>13. QED  BY <1>7, <1>11, <1>12, GrowsKeeps DEF Working

LEMMA TensorStep ==
  ASSUME VerdictInv, SkipZeroSignal \/ Tensorize  PROVE VerdictInv'
<1>1. mem \in Manifests /\ work \in Nat  BY DEF VerdictInv, Types
<1>2. PICK t \in {mem.true, mem.true \cup {"whole"}},
           s \in {mem.seen, mem.seen \cup {"tensorized"}} :
        /\ mem' = [mem EXCEPT !.denominator = TRUE, !.true = t, !.seen = s]
        /\ "whole" \in t => "whole" \in mem.true \/ "tensorized" \in s
        /\ pc = "sampled" /\ UNCHANGED <<disk, work>>
  <2>1. CASE SkipZeroSignal
    <3>1. mem' = [mem EXCEPT !.denominator = TRUE, !.true = mem.true, !.seen = mem.seen]
      BY <1>1, <2>1 DEF SkipZeroSignal, Manifests
    <3>2. QED  BY <2>1, <3>1 DEF SkipZeroSignal
  <2>2. CASE Tensorize  BY <2>2 DEF Tensorize
  <2>3. QED  BY <2>1, <2>2
<1>3. t \in SUBSET Claims /\ s \in SUBSET Events /\ mem.seen \subseteq s
      /\ ("stored" \in t => "stored" \in mem.true)
  BY <1>1 DEF Manifests, Claims, Events
<1>4. mem' \in Manifests  BY <1>1, <1>2, <1>3 DEF Manifests
<1>5. /\ mem'.true = t /\ mem'.seen = s /\ mem'.count = mem.count
      /\ mem'.step = mem.step /\ mem'.model = mem.model
      /\ mem'.iteration = mem.iteration
  BY <1>1, <1>2 DEF Manifests
<1>6. Grows
  BY <1>1, <1>2, <1>3, <1>4, <1>5 DEF Grows, disk, Manifests
<1>7. Faithful(mem')
  <2>1. Faithful(mem)  BY DEF VerdictInv, AllFaithful
  <2>2. s \cap {"group", "queue", "identity", "batch"}
          = mem.seen \cap {"group", "queue", "identity", "batch"}
    BY <1>2
  <2>3. QED  BY <2>1, <2>2, <1>2, <1>3, <1>5 DEF Faithful
<1>8. QED  BY <1>2, <1>6, <1>7, GrowsKeeps DEF Working

(* An update makes a model that no other manifest can have. *)
LEMMA UpdateStep ==
  ASSUME VerdictInv, NEW parsed \in BOOLEAN, Update(parsed)  PROVE VerdictInv'
<1> DEFINE t == mem.true \cup (IF parsed THEN {"stored"} ELSE {})
                  \cup (IF mem.count.integrity = 0 THEN {"claimed"} ELSE {})
           s == mem.seen \cup {"update"} \cup (IF parsed THEN {"stored"} ELSE {})
<1>1. mem \in Manifests /\ work \in Nat /\ restarts \in Nat  BY DEF VerdictInv, Types
<1>2. /\ mem' = [mem EXCEPT !.step = @ + 1, !.model = Now, !.true = t, !.seen = s]
      /\ pc = "tensorized" /\ pc' = "updated" /\ UNCHANGED <<disk, work>>
  BY DEF Update
<1>3. /\ t \in SUBSET Claims /\ ("whole" \in t => "whole" \in mem.true)
      /\ "stored" \in t => "stored" \in mem.true \/ "stored" \in s
  BY <1>1 DEF Manifests, Claims
<1>4. /\ s \in SUBSET Events /\ mem.seen \subseteq s /\ "update" \in s
      /\ s \cap {"group", "queue", "identity", "batch"}
           = mem.seen \cap {"group", "queue", "identity", "batch"}
  BY <1>1 DEF Manifests, Events
<1>5. Now \in Nat /\ Now' = Now  BY <1>1, <1>2 DEF Now, disk
<1>6. mem.step + 1 \in Nat  BY <1>1 DEF Manifests
<1> HIDE DEF t, s
<1>7. mem' \in Manifests  BY <1>1, <1>2, <1>3, <1>4, <1>5, <1>6 DEF Manifests
<1>8. mem'.true = t /\ mem'.seen = s /\ mem'.count = mem.count /\ mem'.model = Now
  BY <1>1, <1>2 DEF Manifests
<1>9. Types'  BY <1>2, <1>7 DEF VerdictInv, Types, disk
<1>10. AllFaithful'
  <2>1. Faithful(mem')
    BY <1>3, <1>4, <1>8 DEF VerdictInv, AllFaithful, Faithful
  <2>2. QED  BY <2>1, <1>2 DEF VerdictInv, AllFaithful, disk
<1>11. Clocked'
  BY <1>2, <1>5, <1>8 DEF VerdictInv, Clocked, Working, disk
<1>12. Ordered'
  <2>1. /\ ckpt # None => ckpt.model < Now /\ ckpt.model \in Nat
        /\ live # None => live.model < Now /\ live.model \in Nat
    BY <1>2 DEF VerdictInv, Clocked, Working, Types, Manifests
  <2>2. UNCHANGED <<ckpt, live>>  BY <1>2 DEF disk
  <2>3. /\ ckpt # None => ckpt.model # mem'.model
        /\ live # None => live.model # mem'.model
    BY <2>1, <1>5, <1>8
  <2>4. QED  BY <2>2, <2>3 DEF VerdictInv, Ordered, Before
<1>13. QED  BY <1>9, <1>10, <1>11, <1>12 DEF VerdictInv

(* Files may take the manifest in memory, wherever the process stops. *)
LEMMA FilesStep ==
  ASSUME VerdictInv, EndIteration \/ EndRun \/ Crash  PROVE VerdictInv'
<1>1. /\ UNCHANGED <<mem, work, restarts>> /\ pc' \notin Working
      /\ live' \in {mem, live} /\ ckpt' \in {mem, ckpt}
  BY DEF EndIteration, EndRun, Crash, SaveLive, disk, Working
<1>2. Before(mem, mem)
  <2>1. mem.iteration \in Nat /\ mem.count \in [Failures -> Nat]
    BY DEF VerdictInv, Types, Manifests
  <2>2. QED  BY <2>1 DEF Before
<1>3. Types' /\ AllFaithful'
  BY <1>1 DEF VerdictInv, Types, AllFaithful
<1>4. Clocked'
  BY <1>1 DEF VerdictInv, Clocked, Now
<1>5. Ordered'
  <2>1. CASE live' = mem /\ ckpt' = mem
    BY <2>1, <1>1, <1>2 DEF Ordered, Before
  <2>2. CASE live' = mem /\ ckpt' = ckpt
    BY <2>2, <1>1, <1>2 DEF VerdictInv, Ordered, Before
  <2>3. CASE live' = live /\ ckpt' = mem
    BY <2>3, <1>1, <1>2 DEF VerdictInv, Ordered, Before
  <2>4. CASE live' = live /\ ckpt' = ckpt
    BY <2>4, <1>1 DEF VerdictInv, Ordered, Before
  <2>5. QED  BY <1>1, <2>1, <2>2, <2>3, <2>4
<1>6. QED  BY <1>3, <1>4, <1>5 DEF VerdictInv

-----------------------------------------------------------------------------
(* The merge: counters never below either one, claims of both only. *)
LEMMA MergedManifest ==
  ASSUME Types, ckpt # None
  PROVE  /\ Merged \in Manifests
         /\ Merged.step = ckpt.step /\ Merged.model = ckpt.model
         /\ Merged.denominator = ckpt.denominator
         /\ Merged.iteration = (IF Mergeable THEN live.iteration ELSE ckpt.iteration)
         /\ Merged.seen = Lineage
         /\ Merged.true = (IF Mergeable THEN ckpt.true \cap live.true ELSE ckpt.true)
         /\ \A f \in Failures :
              Merged.count[f] =
                IF Mergeable THEN Larger(ckpt.count[f], live.count[f]) ELSE ckpt.count[f]
<1> DEFINE c == [f \in Failures |-> IF Mergeable THEN Larger(ckpt.count[f], live.count[f])
                                   ELSE ckpt.count[f]]
           t == IF Mergeable THEN ckpt.true \cap live.true ELSE ckpt.true
           i == IF Mergeable THEN live.iteration ELSE ckpt.iteration
           s == Lineage
<1>1. ckpt \in Manifests /\ (Mergeable => live \in Manifests)
      /\ (live # None => live \in Manifests)
  BY DEF Types, Mergeable
<1>2. c \in [Failures -> Nat]
  <2>1. ckpt.count \in [Failures -> Nat] /\ (Mergeable => live.count \in [Failures -> Nat])
    BY <1>1 DEF Manifests
  <2>2. QED  BY <2>1 DEF Larger
<1>3. t \in SUBSET Claims /\ i \in Nat  BY <1>1 DEF Manifests
<1>4. s \in SUBSET Events  BY <1>1 DEF Manifests, Lineage
<1>5. Merged = [ckpt EXCEPT !.count = c, !.true = t, !.iteration = i, !.seen = s]
  BY <1>1 DEF Merged, Manifests
<1>6. \A f \in Failures :
        c[f] = IF Mergeable THEN Larger(ckpt.count[f], live.count[f]) ELSE ckpt.count[f]
  OBVIOUS
<1> HIDE DEF c, t, i, s
<1>7. Merged \in Manifests
  BY <1>1, <1>2, <1>3, <1>4, <1>5 DEF Manifests
<1>8. /\ Merged.step = ckpt.step /\ Merged.model = ckpt.model
      /\ Merged.denominator = ckpt.denominator
      /\ Merged.iteration = i /\ Merged.seen = s /\ Merged.true = t /\ Merged.count = c
  BY <1>1, <1>5 DEF Manifests
<1>9. QED  BY <1>6, <1>7, <1>8 DEF i, s, t

(* What the merge takes over from a live state of the same model covers it: *)
(* either it is merged, or the checkpoint is later in the same history.     *)
LEMMA MergeCovers ==
  ASSUME Types, Ordered, ckpt # None
  PROVE  /\ Before(ckpt, Merged)
         /\ live # None /\ live.model = ckpt.model => Before(live, Merged)
<1>1. ckpt \in Manifests /\ (live # None => live \in Manifests)
  BY DEF Types
<1>2. /\ ckpt.iteration \in Nat /\ ckpt.count \in [Failures -> Nat]
      /\ live # None => live.iteration \in Nat /\ live.count \in [Failures -> Nat]
  BY <1>1 DEF Manifests
<1>3. \A f \in Failures : ckpt.count[f] <= Merged.count[f]
      /\ (Mergeable => live.count[f] <= Merged.count[f])
  BY <1>2, MergedManifest DEF Larger, Mergeable
<1>4. Before(ckpt, Merged)
  BY <1>2, <1>3, MergedManifest DEF Before, Mergeable, Lineage
<1>5. ASSUME live # None, live.model = ckpt.model
      PROVE  Before(live, Merged)
  <2>1. live.seen \subseteq Merged.seen
    BY <1>5, MergedManifest DEF Lineage
  <2>2. CASE Mergeable
    BY <2>1, <2>2, <1>2, <1>3, MergedManifest DEF Before, Mergeable
  <2>3. CASE ~Mergeable
    <3>1. Before(ckpt, live) \/ Before(live, ckpt)  BY <1>5 DEF Ordered
    <3>2. live.step = ckpt.step  BY <3>1 DEF Before
    <3>3. ~(live.iteration >= ckpt.iteration)  BY <2>3, <3>2, <1>5 DEF Mergeable
    <3>4. Before(live, ckpt)  BY <3>1, <3>3, <1>2, <1>5 DEF Before
    <3>5. Merged.step = ckpt.step /\ Merged.iteration = ckpt.iteration
      BY <2>3, MergedManifest
    <3>6. \A f \in Failures : live.count[f] <= Merged.count[f]
      BY <2>3, <3>4, MergedManifest DEF Before
    <3>7. QED  BY <2>1, <3>4, <3>5, <3>6 DEF Before
  <2>4. QED  BY <2>2, <2>3
<1>6. QED  BY <1>4, <1>5

LEMMA MergedFaithful ==
  ASSUME VerdictInv, ckpt # None
  PROVE  Faithful(Merged)
<1>1. Types /\ Ordered /\ Faithful(ckpt) /\ (live # None => Faithful(live))
  BY DEF VerdictInv, AllFaithful
<1>2. ASSUME Merged.seen \cap {"group", "queue", "identity", "batch"} # {}
      PROVE  \E f \in Failures : Merged.count[f] > 0
  <2>1. Merged.count \in [Failures -> Nat]
    BY <1>1, MergedManifest DEF Manifests
  <2>2. PICK m \in {ckpt, live} :
          /\ m # None /\ m \in Manifests /\ Before(m, Merged) /\ Faithful(m)
          /\ m.seen \cap {"group", "queue", "identity", "batch"} # {}
    <3>1. Merged.seen = Lineage  BY <1>1, MergedManifest
    <3>2. CASE ckpt.seen \cap {"group", "queue", "identity", "batch"} # {}
      BY <3>2, <1>1, MergeCovers DEF Types
    <3>3. CASE ckpt.seen \cap {"group", "queue", "identity", "batch"} = {}
      <4>1. /\ live # None /\ live.model = ckpt.model
            /\ live.seen \cap {"group", "queue", "identity", "batch"} # {}
        BY <3>1, <3>3, <1>2 DEF Lineage
      <4>2. QED  BY <4>1, <1>1, MergeCovers DEF Types
    <3>4. QED  BY <3>2, <3>3
  <2>3. PICK f \in Failures : m.count[f] > 0
    BY <2>2 DEF Faithful
  <2>4. m.count[f] \in Nat /\ Merged.count[f] \in Nat /\ m.count[f] <= Merged.count[f]
    BY <2>1, <2>2 DEF Manifests, Before
  <2>5. QED  BY <2>3, <2>4
<1>3. /\ Merged.true \subseteq ckpt.true /\ Merged.step = ckpt.step
      /\ ckpt.seen \subseteq Merged.seen
  BY <1>1, MergedManifest DEF Lineage
<1>4. QED  BY <1>1, <1>2, <1>3 DEF Faithful

LEMMA RestartStep ==
  ASSUME VerdictInv, Restart  PROVE VerdictInv'
<1>1. /\ restarts' = restarts + 1 /\ pc' \notin Working
      /\ UNCHANGED <<ckpt, live, work>>
  BY DEF Restart, Working
<1>2. Now \in Nat /\ Now' = Now + 1
  BY <1>1 DEF Now, VerdictInv, Types
<1>3. /\ ckpt # None => ckpt.model \in Nat /\ ckpt.model <= Now
      /\ live # None => live.model \in Nat /\ live.model <= Now
  BY DEF VerdictInv, Types, Clocked, Manifests
<1>4. CASE ckpt = None
  <2>1. mem' = [Fresh EXCEPT !.model = Now + 1]
    BY <1>4 DEF Restart
  <2>2. mem' \in Manifests /\ mem'.model = Now + 1 /\ Faithful(mem')
    <3>1. Fresh \in Manifests  BY DEF Fresh, Manifests
    <3>2. mem' \in Manifests /\ mem'.model = Now + 1
      BY <2>1, <3>1, <1>2 DEF Manifests
    <3>3. mem'.seen = {} /\ mem'.true = {} /\ mem'.step = 0
      BY <2>1 DEF Fresh
    <3>4. QED  BY <3>2, <3>3 DEF Faithful
  <2>3. Types' /\ AllFaithful'
    BY <1>1, <2>2 DEF VerdictInv, Types, AllFaithful
  <2>4. Clocked'
    BY <1>1, <1>2, <1>3, <2>2 DEF Clocked
  <2>5. live # None => live.model # mem'.model
    BY <1>2, <1>3, <2>2
  <2>6. Ordered'
    BY <1>1, <1>4, <2>5 DEF Ordered
  <2>7. QED  BY <2>3, <2>4, <2>6 DEF VerdictInv
<1>5. CASE ckpt # None
  <2>1. mem' = Merged  BY <1>5 DEF Restart
  <2>2. Types /\ Ordered  BY DEF VerdictInv
  <2>3. mem' \in Manifests /\ mem'.model = ckpt.model
    BY <1>5, <2>1, <2>2, MergedManifest
  <2>4. Types'
    BY <1>1, <2>3 DEF VerdictInv, Types
  <2>5. AllFaithful'
    BY <1>1, <1>5, <2>1, MergedFaithful DEF VerdictInv, AllFaithful
  <2>6. Clocked'
    BY <1>1, <1>2, <1>3, <1>5, <2>3 DEF Clocked
  <2>7. /\ Before(ckpt, mem')
        /\ live # None /\ live.model = mem'.model => Before(live, mem')
    BY <1>5, <2>1, <2>2, <2>3, MergeCovers
  <2>8. Ordered'
    BY <1>1, <2>2, <2>7 DEF Ordered, Before
  <2>9. QED  BY <2>4, <2>5, <2>6, <2>8 DEF VerdictInv
<1>6. QED  BY <1>4, <1>5

LEMMA StepVerdict == VerdictInv /\ [Next]_vars => VerdictInv'
<1> SUFFICES ASSUME VerdictInv, [Next]_vars  PROVE VerdictInv'
  OBVIOUS
<1>1. CASE UNCHANGED vars
  <2>1. UNCHANGED <<mem, pc, ckpt, live, work, restarts>>  BY <1>1 DEF vars
  <2>2. QED
    BY <2>1 DEF VerdictInv, Types, AllFaithful, Faithful, Clocked, Ordered, Before, Now
<1>2. ASSUME NEW ok \in BOOLEAN, Fetch(ok)  PROVE VerdictInv'  BY <1>2, FetchStep
<1>3. ASSUME NEW F \in Findings, Construct(F)  PROVE VerdictInv'  BY <1>3, ConstructStep
<1>4. CASE EmptyRollout \/ Raise \/ NoProgress  BY <1>4, MoveStep
<1>5. ASSUME NEW bad \in BOOLEAN, Sample(bad)  PROVE VerdictInv'  BY <1>5, SampleStep
<1>6. CASE SkipZeroSignal \/ Tensorize  BY <1>6, TensorStep
<1>7. ASSUME NEW parsed \in BOOLEAN, Update(parsed)  PROVE VerdictInv'
  BY <1>7, UpdateStep
<1>8. CASE EndIteration \/ EndRun \/ Crash  BY <1>8, FilesStep
<1>9. CASE Restart  BY <1>9, RestartStep
<1>10. QED
  BY <1>1, <1>2, <1>3, <1>4, <1>5, <1>6, <1>7, <1>8, <1>9 DEF Next

LEMMA VerdictAlways == Spec => []VerdictInv
BY InitVerdict, StepVerdict, PTL DEF Spec

-----------------------------------------------------------------------------
(* A failure of the history a manifest stands for is counted in it, through *)
(* every checkpoint, crash and merge, so the verdict is invalid for good.   *)
THEOREM FailuresAlwaysDisqualify == Spec => []FailuresDisqualify
<1>1. VerdictInv => FailuresDisqualify
  <2> SUFFICES ASSUME VerdictInv,
                      mem.seen \cap {"group", "queue", "identity", "batch"} # {}
               PROVE  ~Valid(mem)
    BY DEF FailuresDisqualify
  <2>1. PICK f \in Failures : mem.count[f] > 0
    BY DEF VerdictInv, AllFaithful, Faithful
  <2>2. QED  BY <2>1 DEF Valid
<1>2. QED  BY <1>1, VerdictAlways, PTL

(* A valid manifest had an update, a batch that became a tensor and an      *)
(* actor that reported the stored log-probabilities, in its own history.    *)
THEOREM ClaimsAlwaysObserved == Spec => []ClaimsObserved
<1>1. VerdictInv => ClaimsObserved
  BY DEF VerdictInv, AllFaithful, Faithful, ClaimsObserved, Valid, Claims
<1>2. QED  BY <1>1, VerdictAlways, PTL

(* A restart makes no manifest valid: it takes the checkpoint's verdict and *)
(* that of the live state it merges.                                        *)
THEOREM NoRestartHeals == Spec => RestartsNeverHeal
<1>1. VerdictInv /\ [Next]_vars =>
        [pc = "down" /\ Valid(mem') =>
           /\ Valid(ckpt)
           /\ Mergeable => /\ \A f \in Failures : live.count[f] = 0
                           /\ live.true = Claims]_vars
  <2> SUFFICES ASSUME VerdictInv, Next, pc = "down", Valid(mem')
               PROVE  /\ Valid(ckpt)
                      /\ Mergeable => /\ \A f \in Failures : live.count[f] = 0
                                      /\ live.true = Claims
    BY DEF vars
  <2>1. Restart
    BY DEF Next, Fetch, Construct, EmptyRollout, Raise, NoProgress, Sample, SkipZeroSignal,
           Tensorize, Update, EndIteration, EndRun, Crash
  <2>2. ckpt # None
    BY <2>1 DEF Restart, Fresh, Valid
  <2>3. mem' = Merged /\ Types  BY <2>1, <2>2 DEF Restart, VerdictInv
  <2>4. ckpt \in Manifests /\ (Mergeable => live \in Manifests)
    BY <2>2, <2>3 DEF Types, Mergeable
  <2>5. \A f \in Failures :
          ckpt.count[f] = 0 /\ (Mergeable => live.count[f] = 0)
    <3>1. \A f \in Failures : ckpt.count[f] \in Nat /\ (Mergeable => live.count[f] \in Nat)
      BY <2>4 DEF Manifests
    <3>2. \A f \in Failures : Merged.count[f] = 0  BY <2>3 DEF Valid
    <3>3. QED  BY <2>2, <2>3, <3>1, <3>2, MergedManifest DEF Larger
  <2>6. ckpt.true = Claims /\ (Mergeable => live.true = Claims)
    <3>1. Merged.true = Claims  BY <2>3 DEF Valid
    <3>2. ckpt.true \subseteq Claims /\ (Mergeable => live.true \subseteq Claims)
      BY <2>4 DEF Manifests
    <3>3. QED  BY <2>2, <2>3, <3>1, <3>2, MergedManifest
  <2>7. QED  BY <2>2, <2>3, <2>5, <2>6, MergedManifest DEF Valid
<1>2. QED  BY <1>1, VerdictAlways, PTL DEF Spec, RestartsNeverHeal
===============================================================================
