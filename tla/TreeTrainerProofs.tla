--------------------------- MODULE TreeTrainerProofs ---------------------------
(* Proofs about TreeTrainer and the ReplayBuffer it extends, for every      *)
(* buffer, limit and budget: first the buffer alone, in any order of its    *)
(* operations, then the trainer's loop on top of it.                        *)
EXTENDS TreeTrainer, FiniteSetTheorems, TLAPS

(***************************************************************************)
(* The inductive invariant.  HandleAllOrNothing alone is not inductive: a  *)
(* new reservation must not reuse an id that an old handle carries, and    *)
(* two handles must not carry one id.  BornBefore gives ages their sign.   *)
(***************************************************************************)
IdsFresh ==
  /\ \A h \in handles : h.id < nextId
  /\ \A g, h \in handles : g.id = h.id => g = h

BornBefore == \A e \in Stored : edges[e] <= iteration

Inv ==
  /\ TypeOK
  /\ HeldEdgesStored
  /\ HandleAllOrNothing
  /\ NoOrphanHold
  /\ IdsFresh
  /\ BornBefore

(* Every set of edges is finite, so its size is a number. *)
LEMMA EdgeSetsFinite ==
  ASSUME NEW S, S \subseteq Edge
  PROVE  IsFiniteSet(S) /\ Cardinality(S) \in Nat
BY EdgeAssumption, FS_Subset, FS_CardinalityType

(* Sampling only ever returns edges that are stored, not held and not      *)
(* about to expire.                                                        *)
LEMMA SamplesAreFree ==
  ASSUME NEW unit, NEW S \in Samples(unit, Free)
  PROVE  S \subseteq Free
<1>1. CASE unit = "edge"
  BY <1>1 DEF Samples, EdgeSamples
<1>2. CASE unit # "edge"
  BY <1>2 DEF Samples, TreeSamples, OfTrees
<1>3. QED  BY <1>1, <1>2

LEMMA MetricsTyped ==
  ASSUME NEW m \in [MetricNames -> Nat]
  PROVE  /\ m.added \in Nat /\ m.expired \in Nat /\ m.sampled \in Nat
         /\ m.reserved \in Nat /\ m.committed \in Nat /\ m.rolledBack \in Nat
BY DEF MetricNames

LEMMA InitInv == Init => Inv
BY DEF Init, Inv, TypeOK, MetricNames, Stored, Held, HeldEdgesStored, HandleAllOrNothing,
       NoOrphanHold, IdsFresh, BornBefore

LEMMA AddInv ==
  ASSUME Inv, NEW B \in Batches, Add(B)
  PROVE  Inv'
<1>1. B \subseteq Edge /\ Cardinality(B) \in Nat
  BY EdgeAssumption, EdgeSetsFinite
<1>2. Stored' = Stored \cup B /\ Held' = Held
  BY DEF Add, Stored, Held
<1>3. TypeOK'
  BY <1>1, <1>2 DEF Inv, TypeOK, Add, MetricNames
<1>4. HeldEdgesStored' /\ HandleAllOrNothing' /\ NoOrphanHold' /\ IdsFresh'
  BY <1>2 DEF Inv, Add, HeldEdgesStored, HandleAllOrNothing, NoOrphanHold, IdsFresh, Active
<1>5. BornBefore'
  BY <1>2 DEF Inv, TypeOK, Add, BornBefore
<1>6. QED  BY <1>3, <1>4, <1>5 DEF Inv

(* Expiry removes stored edges that nobody holds. *)
LEMMA ExpireInv ==
  ASSUME Inv, Expire
  PROVE  Inv'
<1>1. Expired \subseteq Stored \ Held /\ Cardinality(Expired) \in Nat
  BY EdgeSetsFinite DEF Expired, Inv, TypeOK
<1>2. Stored' = Stored \ Expired /\ Held' = Held
  BY DEF Expire, Stored, Held, Restrict
<1>3. TypeOK'
  <2>1. Stored' \subseteq Edge /\ edges' \in [Stored' -> Nat]
    BY <1>2 DEF Inv, TypeOK, Expire, Restrict, Stored
  <2>2. metrics' \in [MetricNames -> Nat]
    <3>1. metrics \in [MetricNames -> Nat]  BY DEF Inv, TypeOK
    <3>2. ExpireCount \in Nat  BY <1>1, <3>1, MetricsTyped DEF ExpireCount
    <3>3. QED  BY <3>1, <3>2 DEF Expire
  <2>3. QED  BY <1>2, <2>1, <2>2 DEF Inv, TypeOK, Expire
<1>4. HeldEdgesStored' /\ HandleAllOrNothing' /\ NoOrphanHold' /\ IdsFresh'
  BY <1>1, <1>2 DEF Inv, Expire, HeldEdgesStored, HandleAllOrNothing, NoOrphanHold, IdsFresh, Active
<1>5. BornBefore'
  BY <1>2 DEF Inv, Expire, BornBefore, Restrict
<1>6. QED  BY <1>3, <1>4, <1>5 DEF Inv

LEMMA SampleAndRemoveInv ==
  ASSUME Inv, NEW S \in SUBSET Free, SampleAndRemove(S)
  PROVE  Inv'
<1>1. Expired \subseteq Stored \ Held /\ Cardinality(Expired) \in Nat
  BY EdgeSetsFinite DEF Expired, Inv, TypeOK
<1>2. S \subseteq Stored \ Held /\ Cardinality(S) \in Nat
  BY EdgeSetsFinite DEF Free, Inv, TypeOK
<1>3. Stored' = Stored \ (Expired \cup S) /\ Held' = Held
  BY DEF SampleAndRemove, Stored, Held, Restrict
<1>4. TypeOK'
  <2>1. Stored' \subseteq Edge /\ edges' \in [Stored' -> Nat]
    BY <1>3 DEF Inv, TypeOK, SampleAndRemove, Restrict, Stored
  <2>2. metrics' \in [MetricNames -> Nat]
    <3>1. metrics \in [MetricNames -> Nat]  BY DEF Inv, TypeOK
    <3>2. ExpireCount \in Nat  BY <1>1, <3>1, MetricsTyped DEF ExpireCount
    <3>3. metrics.sampled + Cardinality(S) \in Nat  BY <1>2, <3>1, MetricsTyped
    <3>4. QED  BY <3>1, <3>2, <3>3 DEF SampleAndRemove
  <2>3. QED  BY <1>3, <2>1, <2>2 DEF Inv, TypeOK, SampleAndRemove
<1>5. HeldEdgesStored' /\ HandleAllOrNothing' /\ NoOrphanHold' /\ IdsFresh'
  BY <1>1, <1>2, <1>3
     DEF Inv, SampleAndRemove, HeldEdgesStored, HandleAllOrNothing, NoOrphanHold, IdsFresh, Active
<1>6. BornBefore'
  BY <1>3 DEF Inv, SampleAndRemove, BornBefore, Restrict
<1>7. QED  BY <1>4, <1>5, <1>6 DEF Inv

LEMMA ReserveInv ==
  ASSUME Inv, NEW unit \in Units, NEW S \in SUBSET Free, Reserve(unit, S)
  PROVE  Inv'
<1> DEFINE new == [id |-> nextId, ids |-> S, unit |-> unit]
<1>1. Expired \subseteq Stored \ Held /\ Cardinality(Expired) \in Nat
  BY EdgeSetsFinite DEF Expired, Inv, TypeOK
<1>2. S \subseteq Stored \ (Held \cup Expired) /\ S \subseteq Edge /\ Cardinality(S) \in Nat
  BY EdgeSetsFinite DEF Free, Inv, TypeOK
<1>3. /\ Stored' = Stored \ Expired
      /\ Held' = Held \cup S
      /\ handles' = handles \cup {new}
      /\ nextId' = nextId + 1
      /\ \A e \in Held' : reserved'[e] = IF e \in S THEN nextId ELSE reserved[e]
  BY DEF Reserve, Stored, Held, Restrict
<1>4. TypeOK'
  <2>1. Stored' \subseteq Edge /\ edges' \in [Stored' -> Nat]
    BY <1>3 DEF Inv, TypeOK, Reserve, Restrict, Stored
  <2>2. Held' \subseteq Edge /\ reserved' \in [Held' -> Nat \ {0}]
    BY <1>2, <1>3 DEF Inv, TypeOK, Reserve, Held
  <2>3. metrics' \in [MetricNames -> Nat]
    <3>1. metrics \in [MetricNames -> Nat]  BY DEF Inv, TypeOK
    <3>2. ExpireCount \in Nat  BY <1>1, <3>1, MetricsTyped DEF ExpireCount
    <3>3. /\ metrics.sampled + Cardinality(S) \in Nat
          /\ metrics.reserved + Cardinality(S) \in Nat
      BY <1>2, <3>1, MetricsTyped
    <3>4. QED  BY <3>1, <3>2, <3>3 DEF Reserve
  <2>4. nextId' \in Nat \ {0} /\ iteration' \in Nat
    BY <1>3 DEF Inv, TypeOK, Reserve
  <2>5. handles' \subseteq [id : Nat \ {0}, ids : SUBSET Edge, unit : Units]
    BY <1>2, <1>3 DEF Inv, TypeOK
  <2>6. QED  BY <2>1, <2>2, <2>3, <2>4, <2>5 DEF TypeOK
<1>5. HeldEdgesStored'
  BY <1>1, <1>2, <1>3 DEF Inv, HeldEdgesStored
<1>6. nextId \in Nat /\ \A h \in handles : h.id \in Nat /\ h.id < nextId
  BY DEF Inv, TypeOK, IdsFresh
<1>7. HandleAllOrNothing'
  <2> SUFFICES ASSUME NEW h \in handles'
               PROVE  Active(h)' \/ \A e \in h.ids : e \in Held' => reserved'[e] # h.id
    BY DEF HandleAllOrNothing
  <2>1. CASE h = new
    BY <2>1, <1>3 DEF Active
  <2>2. CASE h \in handles
    <3>1. h.id # nextId  BY <2>2, <1>6
    <3>2. CASE Active(h)
      BY <3>2, <1>2, <1>3 DEF Active
    <3>3. CASE \A e \in h.ids : e \in Held => reserved[e] # h.id
      BY <3>1, <3>3, <1>3
    <3>4. QED  BY <3>2, <3>3, <2>2 DEF Inv, HandleAllOrNothing
  <2>3. QED  BY <2>1, <2>2, <1>3
<1>8. NoOrphanHold'
  <2> SUFFICES ASSUME NEW e \in Held'
               PROVE  \E h \in handles' : h.id = reserved'[e] /\ e \in h.ids
    BY DEF NoOrphanHold
  <2>1. CASE e \in S
    <3>1. new \in handles' /\ new.id = nextId /\ new.ids = S  BY <1>3
    <3>2. reserved'[e] = nextId  BY <2>1, <1>3
    <3> HIDE DEF new
    <3>3. QED  BY <3>1, <3>2, <2>1
  <2>2. CASE e \notin S
    BY <2>2, <1>3 DEF Inv, NoOrphanHold
  <2>3. QED  BY <2>1, <2>2
<1>9. IdsFresh'
  BY <1>3, <1>6 DEF Inv, IdsFresh
<1>10. BornBefore'
  BY <1>3 DEF Inv, Reserve, BornBefore, Restrict
<1>11. QED  BY <1>4, <1>5, <1>7, <1>8, <1>9, <1>10 DEF Inv

(* An active handle holds exactly the edges that carry its id. *)
LEMMA ActiveHoldsItsId ==
  ASSUME Inv, NEW h \in handles, Active(h), NEW e \in Held
  PROVE  e \in h.ids <=> reserved[e] = h.id
<1>1. ASSUME reserved[e] = h.id
      PROVE  e \in h.ids
  <2>1. PICK g \in handles : g.id = reserved[e] /\ e \in g.ids
    BY DEF Inv, NoOrphanHold
  <2>2. g = h  BY <2>1, <1>1 DEF Inv, IdsFresh
  <2>3. QED  BY <2>1, <2>2
<1>2. QED  BY <1>1 DEF Active

(* Releasing the edges of an active handle leaves every other handle as it *)
(* was: its id is on none of the released edges.                           *)
LEMMA ReleaseKeepsHandles ==
  ASSUME Inv, NEW h \in handles, Active(h),
         Held' = Held \ h.ids, \A e \in Held' : reserved'[e] = reserved[e],
         UNCHANGED <<handles, nextId>>
  PROVE  HandleAllOrNothing' /\ NoOrphanHold' /\ IdsFresh'
<1>1. HandleAllOrNothing'
  <2> SUFFICES ASSUME NEW g \in handles
               PROVE  Active(g)' \/ \A e \in g.ids : e \in Held' => reserved'[e] # g.id
    BY DEF HandleAllOrNothing
  <2>1. CASE g = h
    BY <2>1
  <2>2. CASE g # h
    <3>1. g.id # h.id  BY <2>2 DEF Inv, IdsFresh
    <3>2. CASE Active(g)
      BY <3>1, <3>2, ActiveHoldsItsId DEF Active
    <3>3. CASE \A e \in g.ids : e \in Held => reserved[e] # g.id
      BY <3>3
    <3>4. QED  BY <3>2, <3>3 DEF Inv, HandleAllOrNothing
  <2>3. QED  BY <2>1, <2>2
<1>2. NoOrphanHold' /\ IdsFresh'
  BY DEF Inv, NoOrphanHold, IdsFresh
<1>3. QED  BY <1>1, <1>2

LEMMA CommitInv ==
  ASSUME Inv, NEW h \in handles, Commit(h)
  PROVE  Inv'
<1>1. h.ids \subseteq Edge /\ Cardinality(h.ids) \in Nat
  BY EdgeSetsFinite DEF Inv, TypeOK
<1>2. /\ Stored' = Stored \ h.ids
      /\ Held' = Held \ h.ids
      /\ \A e \in Held' : reserved'[e] = reserved[e]
  BY DEF Commit, Stored, Held, Restrict
<1>3. TypeOK'
  BY <1>1, <1>2 DEF Inv, TypeOK, Commit, MetricNames, Restrict
<1>4. HeldEdgesStored'
  BY <1>2 DEF Inv, HeldEdgesStored
<1>5. HandleAllOrNothing' /\ NoOrphanHold' /\ IdsFresh'
  BY <1>2, ReleaseKeepsHandles DEF Commit
<1>6. BornBefore'
  BY <1>2 DEF Inv, Commit, BornBefore, Restrict
<1>7. QED  BY <1>3, <1>4, <1>5, <1>6 DEF Inv

LEMMA RollbackInv ==
  ASSUME Inv, NEW h \in handles, Rollback(h)
  PROVE  Inv'
<1>1. h.ids \subseteq Edge /\ Cardinality(h.ids) \in Nat
  BY EdgeSetsFinite DEF Inv, TypeOK
<1>2. /\ Stored' = Stored
      /\ Held' = Held \ h.ids
      /\ \A e \in Held' : reserved'[e] = reserved[e]
  BY DEF Rollback, Stored, Held, Restrict
<1>3. TypeOK'
  BY <1>1, <1>2 DEF Inv, TypeOK, Rollback, MetricNames, Restrict
<1>4. HeldEdgesStored'
  BY <1>2 DEF Inv, HeldEdgesStored
<1>5. HandleAllOrNothing' /\ NoOrphanHold' /\ IdsFresh'
  BY <1>2, ReleaseKeepsHandles DEF Rollback
<1>6. BornBefore'
  BY <1>2 DEF Inv, Rollback, BornBefore
<1>7. QED  BY <1>3, <1>4, <1>5, <1>6 DEF Inv

LEMMA StepInv == Inv /\ [Next]_vars => Inv'
<1> SUFFICES ASSUME Inv, [Next]_vars  PROVE Inv'
  OBVIOUS
<1>1. CASE NextIteration
  BY <1>1 DEF Inv, NextIteration, TypeOK, Stored, Held, HeldEdgesStored, HandleAllOrNothing,
              NoOrphanHold, IdsFresh, BornBefore, Active
<1>2. CASE \E B \in Batches : Add(B)
  BY <1>2, AddInv
<1>3. CASE Expire
  BY <1>3, ExpireInv
<1>4. CASE \E S \in SUBSET Free : SampleAndRemove(S)
  BY <1>4, SampleAndRemoveInv
<1>5. CASE \E unit \in Units : \E S \in SUBSET Free : Reserve(unit, S)
  BY <1>5, ReserveInv
<1>6. CASE ReserveRaises
  BY <1>6, ExpireInv DEF ReserveRaises
<1>7. CASE \E h \in handles : Commit(h)
  BY <1>7, CommitInv
<1>8. CASE \E h \in handles : Rollback(h)
  BY <1>8, RollbackInv
<1>9. CASE UNCHANGED vars
  BY <1>9 DEF vars, Inv, TypeOK, Stored, Held, HeldEdgesStored, HandleAllOrNothing,
              NoOrphanHold, IdsFresh, BornBefore, Active
<1>10. QED
  BY <1>1, <1>2, <1>3, <1>4, <1>5, <1>6, <1>7, <1>8, <1>9 DEF Next

LEMMA SpecInv == Spec => []Inv
<1>1. Init => Inv  BY InitInv
<1>2. Inv /\ [Next]_vars => Inv'  BY StepInv
<1>3. QED  BY <1>1, <1>2, PTL DEF Spec

(* The variables of the buffer keep their types (the counters never go     *)
(* below zero, a handle only names known edges).                           *)
THEOREM BufferTypeCorrect == Spec => []TypeOK
<1>1. Inv => TypeOK  BY DEF Inv
<1>2. QED  BY <1>1, SpecInv, PTL

(* Whatever expires or is sampled while an update is running, the edges it *)
(* was given are still in the buffer when it commits.                      *)
THEOREM HeldEdgesStoredAlways == Spec => []HeldEdgesStored
<1>1. Inv => HeldEdgesStored  BY DEF Inv
<1>2. QED  BY <1>1, SpecInv, PTL

(* A reservation is in force for all its edges or for none, however the    *)
(* calls of several holders interleave.                                    *)
THEOREM HandlesAllOrNothing == Spec => []HandleAllOrNothing
<1>1. Inv => HandleAllOrNothing  BY DEF Inv
<1>2. QED  BY <1>1, SpecInv, PTL

(* No edge is held without a handle that can release it. *)
THEOREM NoOrphanHolds == Spec => []NoOrphanHold
<1>1. Inv => NoOrphanHold  BY DEF Inv
<1>2. QED  BY <1>1, SpecInv, PTL

(* Whatever happens in between, a held edge is stored, under one handle,   *)
(* together with all the edges of that handle.                             *)
THEOREM HoldsAlwaysAccounted == Spec => []HoldsAccounted
<1>1. Inv => HoldsAccounted  BY DEF Inv, HoldsAccounted
<1>2. QED  BY <1>1, SpecInv, PTL

(* Nothing is handed out at MaxAge or later, or before it was generated:   *)
(* a reservation expires old edges first, whatever was held in between.    *)
THEOREM ReservationsFresh == Spec => FreshWhenReserved
<1> DEFINE Fresh == \A h \in handles' \ handles : \A e \in h.ids :
                      e \in Stored /\ iteration - edges[e] \in 0 .. MaxAge - 1
<1>1. Inv /\ [Next]_vars => [Fresh]_vars
  <2> SUFFICES ASSUME Inv, Next  PROVE Fresh
    BY DEF vars
  <2>1. CASE \E unit \in Units : \E S \in SUBSET Free : Reserve(unit, S)
    <3>1. PICK unit \in Units, S \in SUBSET Free : Reserve(unit, S)
      BY <2>1
    <3>2. \A h \in handles' \ handles : h.ids = S
      BY <3>1 DEF Reserve
    <3>3. \A e \in S : e \in Stored /\ edges[e] <= iteration /\ ~(iteration - edges[e] >= MaxAge)
      BY DEF Free, Expired, Inv, BornBefore
    <3>4. \A e \in S : iteration - edges[e] \in 0 .. MaxAge - 1
      BY <3>3, LimitAssumption DEF Inv, TypeOK
    <3>5. QED  BY <3>2, <3>3, <3>4
  <2>2. CASE ~ \E unit \in Units : \E S \in SUBSET Free : Reserve(unit, S)
    <3>1. handles' = handles
      BY <2>2 DEF Next, NextIteration, Add, Expire, SampleAndRemove, ReserveRaises, Commit, Rollback
    <3>2. QED  BY <3>1
  <2>3. QED  BY <2>1, <2>2
<1>2. QED  BY <1>1, SpecInv, PTL DEF Spec, FreshWhenReserved

-----------------------------------------------------------------------------
(* Sizes of the sets that the actions build. *)
LEMMA SizeOfUnion ==
  ASSUME NEW S, S \subseteq Edge, NEW T, T \subseteq Edge, S \cap T = {}
  PROVE  Cardinality(S \cup T) = Cardinality(S) + Cardinality(T)
<1>1. IsFiniteSet(S) /\ IsFiniteSet(T) /\ Cardinality(S) \in Nat /\ Cardinality(T) \in Nat
  BY EdgeSetsFinite
<1>2. Cardinality(S \cap T) = 0  BY FS_EmptySet
<1>3. Cardinality(S \cup T) = Cardinality(S) + Cardinality(T) - Cardinality(S \cap T)
  BY <1>1, FS_Union
<1>4. QED  BY <1>1, <1>2, <1>3

LEMMA SizeOfDifference ==
  ASSUME NEW S, S \subseteq Edge, NEW T, T \subseteq S
  PROVE  Cardinality(S \ T) = Cardinality(S) - Cardinality(T)
<1>1. IsFiniteSet(S)  BY EdgeSetsFinite
<1>2. S \cap T = T  OBVIOUS
<1>3. QED  BY <1>1, <1>2, FS_Difference

LEMMA InitBalances == Init => CountersBalance
BY FS_EmptySet DEF Init, CountersBalance, EdgeBalance, HoldBalance, Stored, Held

LEMMA StepBalances == Inv /\ Inv' /\ CountersBalance /\ [Next]_vars => CountersBalance'
<1> SUFFICES ASSUME Inv, Inv', CountersBalance, [Next]_vars  PROVE CountersBalance'
  OBVIOUS
<1> USE DEF CountersBalance, EdgeBalance, HoldBalance
<1>a. /\ metrics.added \in Nat /\ metrics.expired \in Nat /\ metrics.sampled \in Nat
      /\ metrics.reserved \in Nat /\ metrics.committed \in Nat /\ metrics.rolledBack \in Nat
      /\ metrics \in [MetricNames -> Nat]
  BY MetricsTyped DEF Inv, TypeOK
<1>b. Stored \subseteq Edge /\ Held \subseteq Stored /\ Held \subseteq Edge
  BY DEF Inv, TypeOK, HeldEdgesStored
<1>c. Cardinality(Stored) \in Nat /\ Cardinality(Held) \in Nat
  BY <1>b, EdgeSetsFinite
<1>d. Expired \subseteq Stored \ Held /\ Expired \subseteq Edge /\ Cardinality(Expired) \in Nat
  BY <1>b, EdgeSetsFinite DEF Expired
<1>1. CASE UNCHANGED <<edges, reserved, metrics>>
  BY <1>1 DEF Stored, Held
<1>2. ASSUME NEW B \in Batches, Add(B)
      PROVE  CountersBalance'
  <2>1. B \subseteq Edge /\ B \cap Stored = {} /\ Cardinality(B) \in Nat
    BY <1>2, EdgeAssumption, EdgeSetsFinite DEF Add
  <2>2. Stored' = Stored \cup B /\ Held' = Held
    BY <1>2 DEF Add, Stored, Held
  <2>3. Cardinality(Stored') = Cardinality(Stored) + Cardinality(B)
    BY <2>1, <2>2, <1>b, SizeOfUnion
  <2>4. metrics' = [metrics EXCEPT !.added = metrics.added + Cardinality(B)]
    BY <1>2 DEF Add
  <2>5. QED  BY <2>1, <2>2, <2>3, <2>4, <1>a, <1>c DEF MetricNames
<1>3. CASE Expire
  <2>1. Stored' = Stored \ Expired /\ Held' = Held
    BY <1>3 DEF Expire, Stored, Held, Restrict
  <2>2. Cardinality(Stored') = Cardinality(Stored) - Cardinality(Expired)
    BY <2>1, <1>b, <1>d, SizeOfDifference
  <2>3. metrics' = [metrics EXCEPT !.expired = metrics.expired + Cardinality(Expired)]
    BY <1>3 DEF Expire, ExpireCount
  <2>4. QED  BY <2>1, <2>2, <2>3, <1>a, <1>c, <1>d DEF MetricNames
<1>4. ASSUME NEW S \in SUBSET Free, SampleAndRemove(S)
      PROVE  CountersBalance'
  <2>1. /\ S \subseteq Stored \ (Held \cup Expired) /\ S \subseteq Edge
        /\ Cardinality(S) \in Nat
    BY <1>b, EdgeSetsFinite DEF Free
  <2>2. Stored' = Stored \ (Expired \cup S) /\ Held' = Held
    BY <1>4 DEF SampleAndRemove, Stored, Held, Restrict
  <2>3. Cardinality(Expired \cup S) = Cardinality(Expired) + Cardinality(S)
    BY <2>1, <1>d, SizeOfUnion
  <2>4. Cardinality(Stored') = Cardinality(Stored) - Cardinality(Expired \cup S)
    BY <2>1, <2>2, <1>b, <1>d, SizeOfDifference
  <2>5. metrics' = [metrics EXCEPT !.expired = metrics.expired + Cardinality(Expired),
                                   !.sampled = metrics.sampled + Cardinality(S)]
    BY <1>4 DEF SampleAndRemove, ExpireCount
  <2>6. QED  BY <2>1, <2>2, <2>3, <2>4, <2>5, <1>a, <1>c, <1>d DEF MetricNames
<1>5. ASSUME NEW unit \in Units, NEW S \in SUBSET Free, Reserve(unit, S)
      PROVE  CountersBalance'
  <2>1. /\ S \cap Held = {} /\ S \subseteq Edge
        /\ Cardinality(S) \in Nat
    BY <1>b, EdgeSetsFinite DEF Free
  <2>2. Stored' = Stored \ Expired /\ Held' = Held \cup S
    BY <1>5 DEF Reserve, Stored, Held, Restrict
  <2>3. Cardinality(Stored') = Cardinality(Stored) - Cardinality(Expired)
    BY <2>2, <1>b, <1>d, SizeOfDifference
  <2>4. Cardinality(Held') = Cardinality(Held) + Cardinality(S)
    BY <2>1, <2>2, <1>b, SizeOfUnion
  <2>5. metrics' = [metrics EXCEPT !.expired = metrics.expired + Cardinality(Expired),
                                   !.sampled = metrics.sampled + Cardinality(S),
                                   !.reserved = metrics.reserved + Cardinality(S)]
    BY <1>5 DEF Reserve, ExpireCount
  <2>6. QED  BY <2>1, <2>3, <2>4, <2>5, <1>a, <1>c, <1>d DEF MetricNames
<1>6. ASSUME NEW h \in handles, Active(h)
      PROVE  h.ids \subseteq Held /\ Cardinality(h.ids) \in Nat
  BY <1>6, <1>b, EdgeSetsFinite DEF Active, Inv, TypeOK
<1>7. ASSUME NEW h \in handles, Commit(h)
      PROVE  CountersBalance'
  <2>1. h.ids \subseteq Held /\ Cardinality(h.ids) \in Nat
    BY <1>6, <1>7 DEF Commit
  <2>2. Stored' = Stored \ h.ids /\ Held' = Held \ h.ids
    BY <1>7 DEF Commit, Stored, Held, Restrict
  <2>3. /\ Cardinality(Stored') = Cardinality(Stored) - Cardinality(h.ids)
        /\ Cardinality(Held') = Cardinality(Held) - Cardinality(h.ids)
    BY <2>1, <2>2, <1>b, SizeOfDifference
  <2>4. metrics' = [metrics EXCEPT !.committed = metrics.committed + Cardinality(h.ids)]
    BY <1>7 DEF Commit
  <2>5. QED  BY <2>1, <2>3, <2>4, <1>a, <1>c DEF MetricNames
<1>8. ASSUME NEW h \in handles, Rollback(h)
      PROVE  CountersBalance'
  <2>1. h.ids \subseteq Held /\ Cardinality(h.ids) \in Nat
    BY <1>6, <1>8 DEF Rollback
  <2>2. Stored' = Stored /\ Held' = Held \ h.ids
    BY <1>8 DEF Rollback, Stored, Held, Restrict
  <2>3. Cardinality(Held') = Cardinality(Held) - Cardinality(h.ids)
    BY <2>1, <2>2, <1>b, SizeOfDifference
  <2>4. metrics' = [metrics EXCEPT !.rolledBack = metrics.rolledBack + Cardinality(h.ids)]
    BY <1>8 DEF Rollback
  <2>5. QED  BY <2>1, <2>2, <2>3, <2>4, <1>a, <1>c DEF MetricNames
<1>9. QED
  BY <1>1, <1>2, <1>3, <1>4, <1>5, <1>7, <1>8 DEF Next, NextIteration, ReserveRaises, vars

(* The persisted counters account for every edge: an added edge is stored,  *)
(* expired, committed or removed at sampling, and a reserved one is held,   *)
(* committed or rolled back, each exactly once.                             *)
THEOREM CountersAlwaysBalance == Spec => []CountersBalance
<1>1. Init => Inv /\ CountersBalance  BY InitInv, InitBalances
<1>2. (Inv /\ CountersBalance) /\ [Next]_vars => (Inv /\ CountersBalance)'
  BY StepInv, StepBalances
<1>3. QED  BY <1>1, <1>2, PTL DEF Spec

-----------------------------------------------------------------------------
(* Sampling keeps to the limits.  In tree mode the trees of one question    *)
(* that survive the shuffle are among the ones picked under the cap.        *)
LEMMA SampleLimits ==
  ASSUME NEW unit \in Units, NEW F, F \subseteq Edge, NEW S \in Samples(unit, F),
         NEW q \in Question
  PROVE  /\ Cardinality(S) <= Target
         /\ \/ Cardinality(OfQuestion(S, q)) <= Cap
            \/ /\ unit = "complete_tree"
               /\ Cardinality({TreeOf[e] : e \in OfQuestion(S, q)}) = 1
<1>1. CASE unit = "edge"
  <2>1. PICK C \in SUBSET F :
          /\ Cardinality(OfQuestion(C, q)) = Least(Cap, Cardinality(OfQuestion(F, q)))
          /\ S \subseteq C
          /\ Cardinality(S) = Least(Target, Cardinality(C))
    BY <1>1 DEF Samples, EdgeSamples
  <2>2. /\ Cardinality(C) \in Nat
        /\ IsFiniteSet(OfQuestion(C, q)) /\ Cardinality(OfQuestion(C, q)) \in Nat
        /\ Cardinality(OfQuestion(S, q)) \in Nat
        /\ Cardinality(OfQuestion(F, q)) \in Nat
    BY <2>1, EdgeSetsFinite DEF OfQuestion
  <2>3. OfQuestion(S, q) \in SUBSET OfQuestion(C, q)
    BY <2>1 DEF OfQuestion
  <2>4. Cardinality(OfQuestion(S, q)) <= Cardinality(OfQuestion(C, q))
    BY <2>2, <2>3, FS_Subset
  <2>5. QED  BY <2>1, <2>2, <2>4, LimitAssumption DEF Least
<1>2. CASE unit = "complete_tree"
  <2> DEFINE SizeQ(T) == Cardinality(OfTrees(OfQuestion(F, q), T))
             Of(P) == {t \in P : OfTrees(OfQuestion(F, q), {t}) # {}}
  <2>0. PICK P \in SUBSET {TreeOf[e] : e \in F} :
          /\ Of(P) \in QuestionPicks(F, q)
          /\ \E T \in SUBSET P : Cardinality(OfTrees(F, T)) <= Target /\ S = OfTrees(F, T)
    BY <1>2 DEF Samples, TreeSamples
  <2>1. PICK T \in SUBSET P :
          /\ Of(P) \in QuestionPicks(F, q)
          /\ Cardinality(OfTrees(F, T)) <= Target
          /\ S = OfTrees(F, T)
    BY <2>0
  <2>2. Cardinality(Of(P)) > 1 => SizeQ(Of(P)) <= Cap
    BY <2>1 DEF QuestionPicks
  <2>3. OfQuestion(S, q) \subseteq OfTrees(OfQuestion(F, q), Of(P))
    BY <2>1 DEF OfTrees, OfQuestion
  <2>4. /\ OfTrees(OfQuestion(F, q), Of(P)) \subseteq Edge
        /\ IsFiniteSet(OfTrees(OfQuestion(F, q), Of(P)))
        /\ SizeQ(Of(P)) \in Nat
        /\ IsFiniteSet(OfQuestion(S, q)) /\ Cardinality(OfQuestion(S, q)) \in Nat
    BY <2>3, EdgeSetsFinite DEF OfTrees, OfQuestion
  <2>5. Cardinality(OfQuestion(S, q)) <= SizeQ(Of(P))
    BY <2>3, <2>4, FS_Subset
  <2>6. CASE Cardinality(Of(P)) > 1
    BY <2>1, <2>2, <2>4, <2>5, <2>6, LimitAssumption
  <2>7. CASE OfQuestion(S, q) = {}
    <3>1. Cardinality(OfQuestion(S, q)) = 0  BY <2>7, FS_EmptySet
    <3>2. QED  BY <2>1, <3>1, LimitAssumption
  <2>8. CASE ~ (Cardinality(Of(P)) > 1) /\ OfQuestion(S, q) # {}
    <3> DEFINE Trees == {TreeOf[e] : e \in OfQuestion(S, q)}
    <3>1. Trees \subseteq Of(P)
      BY <2>1 DEF OfTrees, OfQuestion
    <3>2. IsFiniteSet(Of(P)) /\ Cardinality(Of(P)) \in Nat
      <4>1. IsFiniteSet({TreeOf[e] : e \in F})
        <5> DEFINE tree == [e \in F |-> TreeOf[e]]
        <5>1. tree \in Surjection(F, {TreeOf[e] : e \in F})  BY DEF Surjection
        <5>2. QED  BY <5>1, EdgeSetsFinite, FS_Surjection
      <4>2. Of(P) \in SUBSET {TreeOf[e] : e \in F}  BY <2>1
      <4>3. QED  BY <4>1, <4>2, FS_Subset, FS_CardinalityType
    <3>3. IsFiniteSet(Trees) /\ Cardinality(Trees) \in Nat /\ Cardinality(Trees) <= Cardinality(Of(P))
      BY <3>1, <3>2, FS_Subset, FS_CardinalityType
    <3>4. Trees # {}  BY <2>8
    <3>5. Cardinality(Trees) # 0  BY <3>3, <3>4, FS_EmptySet
    <3>6. Cardinality(Trees) = 1  BY <2>8, <3>2, <3>3, <3>5
    <3>7. QED  BY <1>2, <2>1, <3>6
  <2>9. QED  BY <2>6, <2>7, <2>8
<1>3. QED  BY <1>1, <1>2, LimitAssumption

(* No reservation exceeds the target, and no question its cap but for one   *)
(* oversized tree: nothing the trainer passes on can be too large.          *)
THEOREM ReservationsWithinLimits == Spec => []WithinLimits
<1>1. Init => WithinLimits  BY DEF Init, WithinLimits
<1>2. Inv /\ WithinLimits /\ [Next]_vars => WithinLimits'
  <2> SUFFICES ASSUME Inv, WithinLimits, [Next]_vars  PROVE WithinLimits'
    OBVIOUS
  <2>1. CASE \E unit \in Units : \E S \in SUBSET Free : Reserve(unit, S)
    <3>1. PICK unit \in Units, S \in SUBSET Free : Reserve(unit, S)
      BY <2>1
    <3> DEFINE new == [id |-> nextId, ids |-> S, unit |-> unit]
    <3>2. Free \subseteq Edge /\ S \in Samples(unit, Free) /\ handles' = handles \cup {new}
      BY <3>1 DEF Reserve, Free, Inv, TypeOK
    <3>3. Cardinality(S) <= Target
      <4>1. CASE Question = {}
        <5>1. Edge = {}  BY <4>1, EdgeAssumption
        <5>2. S = {}  BY <5>1, <3>2
        <5>3. Cardinality(S) = 0  BY <5>2, FS_EmptySet
        <5>4. QED  BY <5>3, LimitAssumption
      <4>2. CASE Question # {}
        BY <4>2, <3>2, SampleLimits
      <4>3. QED  BY <4>1, <4>2
    <3>4. \A q \in Question :
            \/ Cardinality(OfQuestion(S, q)) <= Cap
            \/ /\ unit = "complete_tree"
               /\ Cardinality({TreeOf[e] : e \in OfQuestion(S, q)}) = 1
      BY <3>2, SampleLimits
    <3>5. QED  BY <3>2, <3>3, <3>4 DEF WithinLimits
  <2>2. CASE ~ \E unit \in Units : \E S \in SUBSET Free : Reserve(unit, S)
    <3>1. handles' = handles
      BY <2>2 DEF Next, NextIteration, Add, Expire, SampleAndRemove, ReserveRaises, Commit,
                  Rollback, vars
    <3>2. QED  BY <3>1 DEF WithinLimits
  <2>3. QED  BY <2>1, <2>2
<1>3. QED  BY <1>1, <1>2, SpecInv, PTL DEF Spec

(* What a reservation hands out keeps its limits as long as the handle is   *)
(* known, and was fresh when it was handed out.                             *)
THEOREM ReservationsAlwaysLawful == Spec => ReservationsLawful
BY ReservationsWithinLimits, ReservationsFresh DEF ReservationsLawful

-----------------------------------------------------------------------------
(* The lots are the classes of held edges that carry one reservation id. *)
LEMMA LotsCoverHeld ==
  ASSUME Inv
  PROVE  UNION HeldLots = Held
<1>1. \A e \in Held : e \in LotOf(reserved[e]) /\ LotOf(reserved[e]) \in HeldLots
  BY DEF LotOf, HeldLots, Range, Held
<1>2. \A L \in HeldLots : L \subseteq Held
  BY DEF LotOf, HeldLots
<1>3. QED  BY <1>1, <1>2

LEMMA LotsUnchanged ==
  ASSUME UNCHANGED reserved
  PROVE  HeldLots' = HeldLots
BY DEF HeldLots, LotOf, Range, Held

(* A non-empty active handle is one of the lots. *)
LEMMA ActiveIsLot ==
  ASSUME Inv, NEW h \in handles, Active(h), h.ids # {}
  PROVE  h.ids = LotOf(h.id) /\ h.ids \in HeldLots
<1>1. h.ids = LotOf(h.id)
  BY ActiveHoldsItsId DEF LotOf, Active
<1>2. h.id \in Range(reserved)
  BY DEF Active, Range, Held
<1>3. QED  BY <1>1, <1>2 DEF HeldLots

(* Releasing an active handle removes its lot and no other. *)
LEMMA ReleaseRemovesLot ==
  ASSUME Inv, NEW h \in handles, Active(h), h.ids # {},
         reserved' = Restrict(reserved, Held \ h.ids)
  PROVE  HeldLots' = HeldLots \ {h.ids}
<1>1. Held' = Held \ h.ids /\ \A e \in Held' : reserved'[e] = reserved[e]
  BY DEF Held, Restrict
<1>2. \A e \in Held : e \in h.ids <=> reserved[e] = h.id
  BY ActiveHoldsItsId
<1>3. \A id \in Range(reserved) : id # h.id => LotOf(id)' = LotOf(id) /\ LotOf(id) # h.ids
  <2> SUFFICES ASSUME NEW id \in Range(reserved), id # h.id
               PROVE  LotOf(id)' = LotOf(id) /\ LotOf(id) # h.ids
    OBVIOUS
  <2>1. PICK e \in Held : reserved[e] = id  BY DEF Range, Held
  <2>2. e \in LotOf(id) /\ e \notin h.ids  BY <2>1, <1>2 DEF LotOf
  <2>3. LotOf(id)' = LotOf(id)
    BY <1>1, <1>2 DEF LotOf
  <2>4. QED  BY <2>2, <2>3
<1>4. Range(reserved)' = Range(reserved) \ {h.id}
  <2>1. \A id \in Range(reserved)' : id \in Range(reserved) /\ id # h.id
    BY <1>1, <1>2 DEF Range, Held
  <2>2. \A id \in Range(reserved) : id # h.id => id \in Range(reserved)'
    BY <1>1, <1>2 DEF Range, Held
  <2>3. QED  BY <2>1, <2>2
<1>5. HeldLots' = {LotOf(id)' : id \in Range(reserved)'}
  BY DEF HeldLots
<1>6. HeldLots' = {LotOf(id) : id \in Range(reserved) \ {h.id}}
  BY <1>3, <1>4, <1>5
<1>7. h.ids = LotOf(h.id)
  BY ActiveIsLot
<1>8. QED  BY <1>3, <1>6, <1>7 DEF HeldLots

(* A reservation adds the sampled edges as a lot of their own. *)
LEMMA ReserveAddsLot ==
  ASSUME Inv, NEW unit \in Units, NEW S \in SUBSET Free, Reserve(unit, S)
  PROVE  HeldLots' = HeldLots \cup ({S} \ {{}})
<1>1. /\ Held' = Held \cup S /\ S \cap Held = {}
      /\ \A e \in Held' : reserved'[e] = IF e \in S THEN nextId ELSE reserved[e]
  BY DEF Reserve, Held, Free
<1>2. \A e \in Held : reserved[e] # nextId
  <2> SUFFICES ASSUME NEW e \in Held  PROVE reserved[e] # nextId
    OBVIOUS
  <2>1. PICK h \in handles : h.id = reserved[e]  BY DEF Inv, NoOrphanHold
  <2>2. h.id < nextId /\ h.id \in Nat /\ nextId \in Nat  BY DEF Inv, IdsFresh, TypeOK
  <2>3. QED  BY <2>1, <2>2
<1>3. \A id \in Range(reserved) : id # nextId /\ LotOf(id)' = LotOf(id)
  <2> SUFFICES ASSUME NEW id \in Range(reserved)
               PROVE  id # nextId /\ LotOf(id)' = LotOf(id)
    OBVIOUS
  <2>1. id # nextId  BY <1>2 DEF Range, Held
  <2>2. QED  BY <1>1, <2>1 DEF LotOf
<1>4. {e \in Held' : reserved'[e] = nextId} = S
  BY <1>1, <1>2
<1>5. CASE S = {}
  <2>1. Range(reserved)' = Range(reserved)
    BY <1>1, <1>5 DEF Range, Held
  <2>2. HeldLots' = {LotOf(id)' : id \in Range(reserved)}
    BY <2>1 DEF HeldLots
  <2>3. QED  BY <2>2, <1>3, <1>5 DEF HeldLots
<1>6. CASE S # {}
  <2>1. Range(reserved)' = Range(reserved) \cup {nextId}
    <3>1. \A id \in Range(reserved)' : id \in Range(reserved) \cup {nextId}
      BY <1>1 DEF Range, Held
    <3>2. \A id \in Range(reserved) : id \in Range(reserved)'
      BY <1>1 DEF Range, Held
    <3>3. nextId \in Range(reserved)'
      <4>1. PICK e \in S : TRUE  BY <1>6
      <4>2. e \in DOMAIN reserved' /\ reserved'[e] = nextId  BY <1>1, <4>1 DEF Held
      <4>3. QED  BY <4>2 DEF Range
    <3>4. QED  BY <3>1, <3>2, <3>3
  <2> DEFINE Lot(id) == {e \in Held' : reserved'[e] = id}
  <2>2. HeldLots' = {Lot(id) : id \in Range(reserved) \cup {nextId}}
    BY <2>1 DEF HeldLots, LotOf
  <2>3. \A id \in Range(reserved) : Lot(id) = LotOf(id)
    BY <1>3 DEF LotOf
  <2>4. Lot(nextId) = S
    BY <1>4
  <2> HIDE DEF Lot
  <2>5. HeldLots' = {Lot(id) : id \in Range(reserved)} \cup {Lot(nextId)}
    BY <2>2
  <2>6. {Lot(id) : id \in Range(reserved)} = HeldLots
    BY <2>3 DEF HeldLots
  <2>7. QED  BY <2>4, <2>5, <2>6, <1>6
<1>7. QED  BY <1>5, <1>6

LEMMA InitLots == Init => Lots!Init
<1> SUFFICES ASSUME Init  PROVE Lots!Init
  OBVIOUS
<1>1. Stored = {} /\ Range(reserved) = {}
  BY DEF Init, Stored, Range
<1>2. QED  BY <1>1 DEF Lots!Init, HeldLots

LEMMA StepLots == Inv /\ [Next]_vars => [Lots!Next]_(Lots!vars)
<1> SUFFICES ASSUME Inv, [Next]_vars  PROVE [Lots!Next]_(Lots!vars)
  OBVIOUS
<1> USE DEF Lots!vars
<1>a. Lots!Loose = Stored \ Held
  BY LotsCoverHeld DEF Lots!Loose
<1>b. Stored \subseteq Edge
  BY DEF Inv, TypeOK
<1>c. Expired \subseteq Stored \ Held
  BY DEF Expired
<1>1. CASE UNCHANGED <<edges, reserved>>
  BY <1>1, LotsUnchanged DEF Stored
<1>2. ASSUME NEW B \in Batches, Add(B)
      PROVE  Lots!Next
  <2>1. B \in SUBSET Edge  BY EdgeAssumption
  <2>2. Lots!Put(B)
    BY <1>2, LotsUnchanged DEF Add, Lots!Put, Stored
  <2>3. QED  BY <2>1, <2>2 DEF Lots!Next
<1>3. CASE Expire
  <2>1. Lots!Drop(Expired)
    BY <1>3, <1>a, <1>c, LotsUnchanged DEF Expire, Lots!Drop, Stored, Restrict
  <2>2. QED  BY <2>1, <1>b, <1>c DEF Lots!Next
<1>4. ASSUME NEW S \in SUBSET Free, SampleAndRemove(S)
      PROVE  Lots!Next
  <2>1. Expired \cup S \subseteq Stored \ Held
    BY <1>c DEF Free
  <2>2. Lots!Drop(Expired \cup S)
    BY <1>4, <1>a, <2>1, LotsUnchanged DEF SampleAndRemove, Lots!Drop, Stored, Restrict
  <2>3. QED  BY <2>1, <2>2, <1>b DEF Lots!Next
<1>5. ASSUME NEW unit \in Units, NEW S \in SUBSET Free, Reserve(unit, S)
      PROVE  Lots!Next
  <2>1. S \subseteq Stored \ Held /\ Expired \subseteq (Stored \ Held) \ S
    BY <1>c DEF Free
  <2>2. Stored' = Stored \ Expired
    BY <1>5 DEF Reserve, Stored, Restrict
  <2>3. Lots!Take(S, Expired)
    BY <1>5, <1>a, <2>1, <2>2, ReserveAddsLot DEF Lots!Take
  <2>4. QED  BY <2>1, <2>3, <1>b DEF Lots!Next
<1>6. ASSUME NEW h \in handles, Active(h), h.ids = {},
             reserved' = Restrict(reserved, Held \ h.ids)
      PROVE  reserved' = reserved
  <2>1. reserved' = [e \in Held |-> reserved[e]]  BY <1>6 DEF Restrict
  <2>2. QED  BY <2>1 DEF Inv, TypeOK
<1>7. ASSUME NEW h \in handles, Commit(h)
      PROVE  [Lots!Next]_(Lots!vars)
  <2>1. Stored' = Stored \ h.ids
    BY <1>7 DEF Commit, Stored, Restrict
  <2>2. CASE h.ids = {}
    <3>1. Stored' = Stored  BY <2>1, <2>2
    <3>2. reserved' = reserved  BY <2>2, <1>6, <1>7 DEF Commit
    <3>3. QED  BY <3>1, <3>2, LotsUnchanged
  <2>3. CASE h.ids # {}
    <3>1. Lots!Consume(h.ids) /\ h.ids \in HeldLots
      BY <2>1, <2>3, <1>7, ActiveIsLot, ReleaseRemovesLot DEF Commit, Lots!Consume
    <3>2. QED  BY <3>1 DEF Lots!Next
  <2>4. QED  BY <2>2, <2>3
<1>8. ASSUME NEW h \in handles, Rollback(h)
      PROVE  [Lots!Next]_(Lots!vars)
  <2>1. Stored' = Stored
    BY <1>8 DEF Rollback, Stored
  <2>2. CASE h.ids = {}
    <3>1. reserved' = reserved  BY <2>2, <1>6, <1>8 DEF Rollback
    <3>2. QED  BY <2>1, <3>1, LotsUnchanged
  <2>3. CASE h.ids # {}
    <3>1. Lots!Release(h.ids) /\ h.ids \in HeldLots
      BY <2>1, <2>3, <1>8, ActiveIsLot, ReleaseRemovesLot DEF Rollback, Lots!Release
    <3>2. QED  BY <3>1 DEF Lots!Next
  <2>4. QED  BY <2>2, <2>3
<1>9. QED
  BY <1>1, <1>2, <1>3, <1>4, <1>5, <1>7, <1>8 DEF Next, NextIteration, ReserveRaises, vars

(* The buffer implements a pool whose lots are consumed or released whole: *)
(* ids, handles that outlive their reservation, expiry and the sampling    *)
(* rules are invisible to a trainer that only counts on that.              *)
THEOREM BufferImplementsLots == Spec => ImplementsLots
<1>1. Init => Lots!Init  BY InitLots
<1>2. Inv /\ [Next]_vars => [Lots!Next]_(Lots!vars)  BY StepLots
<1>3. QED  BY <1>1, <1>2, SpecInv, PTL DEF Spec, ImplementsLots, Lots!Spec
-----------------------------------------------------------------------------
(***************************************************************************)
(* Complete trees.  Two edges of one tree that every rollout adds together *)
(* are twins: what the buffer does to one it does to the other.            *)
(***************************************************************************)
Twins(e, f) == TreeOf[e] = TreeOf[f] /\ \A B \in Batches : e \in B <=> f \in B

(* A set of edges that takes twins together. *)
Closed(S) == \A e, f \in Edge : Twins(e, f) /\ e \in S => f \in S

LEMMA TwinsMutual ==
  ASSUME NEW e, NEW f, Twins(e, f)
  PROVE  Twins(f, e)
BY DEF Twins

LEMMA WholeIsClosed ==
  ASSUME TreesStayWhole
  PROVE  \A e, f \in Edge : Twins(e, f) /\ e \in Stored =>
           /\ f \in Stored /\ edges[f] = edges[e]
           /\ f \in Held <=> e \in Held
           /\ e \in Held => reserved[e] = reserved[f]
BY DEF TreesStayWhole, Twins

LEMMA ClosedIsWhole ==
  ASSUME \A e, f \in Edge : Twins(e, f) /\ e \in Stored =>
           /\ f \in Stored /\ edges[f] = edges[e]
           /\ f \in Held <=> e \in Held
           /\ e \in Held => reserved[e] = reserved[f]
  PROVE  TreesStayWhole
BY DEF TreesStayWhole, Twins

(* Expiry and tree sampling take twins together. *)
LEMMA ExpiredClosed ==
  ASSUME TreesStayWhole
  PROVE  Closed(Expired)
BY WholeIsClosed DEF Closed, Expired

LEMMA TreeSampleClosed ==
  ASSUME TreesStayWhole, NEW S \in TreeSamples(Free)
  PROVE  Closed(S)
<1>1. PICK T : S = OfTrees(Free, T)
  BY DEF TreeSamples
<1>2. Closed(Free)
  BY WholeIsClosed, ExpiredClosed, TwinsMutual DEF Closed, Free
<1>3. QED  BY <1>1, <1>2 DEF Closed, OfTrees, Twins

LEMMA AddWhole ==
  ASSUME TreesStayWhole, HeldEdgesStored, NEW B \in Batches, Add(B)
  PROVE  TreesStayWhole'
<1>1. /\ Stored' = Stored \cup B /\ Held' = Held /\ reserved' = reserved
      /\ \A e \in Stored' : edges'[e] = IF e \in B THEN iteration ELSE edges[e]
      /\ B \cap Stored = {}
  BY DEF Add, Stored, Held
<1>2. ASSUME NEW e \in Edge, NEW f \in Edge, Twins(e, f), e \in Stored'
      PROVE  /\ f \in Stored' /\ edges'[f] = edges'[e]
             /\ f \in Held' <=> e \in Held'
             /\ e \in Held' => reserved'[e] = reserved'[f]
  <2>1. e \in B <=> f \in B  BY <1>2 DEF Twins
  <2>2. Twins(f, e)  BY <1>2, TwinsMutual
  <2>3. CASE e \in B
    <3>1. f \in B /\ e \notin Held /\ f \notin Held
      BY <1>1, <2>1, <2>3 DEF HeldEdgesStored
    <3>2. QED  BY <1>1, <2>3, <3>1
  <2>4. CASE e \notin B
    <3>1. /\ f \in Stored /\ edges[f] = edges[e]
          /\ f \in Held <=> e \in Held
          /\ e \in Held => reserved[e] = reserved[f]
      BY <1>1, <1>2, <2>4, WholeIsClosed
    <3>2. QED  BY <1>1, <1>2, <2>1, <2>4, <3>1
  <2>5. QED  BY <2>3, <2>4
<1>3. QED  BY <1>2 DEF TreesStayWhole, Twins

LEMMA ExpireWhole ==
  ASSUME TreesStayWhole, Expire
  PROVE  TreesStayWhole'
<1>1. /\ Stored' = Stored \ Expired /\ Held' = Held /\ reserved' = reserved
      /\ \A e \in Stored' : edges'[e] = edges[e]
  BY DEF Expire, Stored, Held, Restrict
<1>2. ASSUME NEW e \in Edge, NEW f \in Edge, Twins(e, f), e \in Stored'
      PROVE  /\ f \in Stored' /\ edges'[f] = edges'[e]
             /\ f \in Held' <=> e \in Held'
             /\ e \in Held' => reserved'[e] = reserved'[f]
  <2>1. f \notin Expired
    BY <1>1, <1>2, ExpiredClosed, TwinsMutual DEF Closed
  <2>2. QED  BY <1>1, <1>2, <2>1, WholeIsClosed
<1>3. QED  BY <1>2 DEF TreesStayWhole, Twins

LEMMA ReserveWhole ==
  ASSUME TreesStayWhole, NEW S \in SUBSET Free, Reserve("complete_tree", S)
  PROVE  TreesStayWhole'
<1>1. /\ Stored' = Stored \ Expired /\ Held' = Held \cup S
      /\ \A e \in Stored' : edges'[e] = edges[e]
      /\ \A e \in Held' : reserved'[e] = IF e \in S THEN nextId ELSE reserved[e]
  BY DEF Reserve, Stored, Held, Restrict
<1>2. Closed(S)
  BY TreeSampleClosed DEF Reserve, Samples
<1>3. ASSUME NEW e \in Edge, NEW f \in Edge, Twins(e, f), e \in Stored'
      PROVE  /\ f \in Stored' /\ edges'[f] = edges'[e]
             /\ f \in Held' <=> e \in Held'
             /\ e \in Held' => reserved'[e] = reserved'[f]
  <2>1. f \notin Expired /\ (e \in S <=> f \in S)
    BY <1>1, <1>2, <1>3, ExpiredClosed, TwinsMutual DEF Closed
  <2>2. /\ f \in Stored /\ edges[f] = edges[e]
        /\ f \in Held <=> e \in Held
        /\ e \in Held => reserved[e] = reserved[f]
    BY <1>1, <1>3, WholeIsClosed
  <2>3. QED  BY <1>1, <1>3, <2>1, <2>2
<1>4. QED  BY <1>3 DEF TreesStayWhole, Twins

(* An active handle has twins together, since they carry one id. *)
LEMMA HandleClosed ==
  ASSUME Inv, TreesStayWhole, NEW h \in handles, Active(h)
  PROVE  Closed(h.ids)
<1> SUFFICES ASSUME NEW e \in Edge, NEW f \in Edge, Twins(e, f), e \in h.ids
             PROVE  f \in h.ids
  BY DEF Closed
<1>1. e \in Held /\ reserved[e] = h.id
  BY DEF Active
<1>2. e \in Stored
  BY <1>1 DEF Inv, HeldEdgesStored
<1>3. f \in Held /\ reserved[f] = h.id
  BY <1>1, <1>2, WholeIsClosed
<1>4. QED  BY <1>3, ActiveHoldsItsId

LEMMA ReleaseWhole ==
  ASSUME Inv, TreesStayWhole, NEW h \in handles, Commit(h) \/ Rollback(h)
  PROVE  TreesStayWhole'
<1>1. /\ Stored' = Stored \ h.ids \/ Stored' = Stored
      /\ Held' = Held \ h.ids
      /\ \A e \in Stored' : edges'[e] = edges[e]
      /\ \A e \in Held' : reserved'[e] = reserved[e]
  BY DEF Commit, Rollback, Stored, Held, Restrict
<1>2. Closed(h.ids)
  BY HandleClosed DEF Commit, Rollback
<1>3. ASSUME NEW e \in Edge, NEW f \in Edge, Twins(e, f), e \in Stored'
      PROVE  /\ f \in Stored' /\ edges'[f] = edges'[e]
             /\ f \in Held' <=> e \in Held'
             /\ e \in Held' => reserved'[e] = reserved'[f]
  <2>1. e \in h.ids <=> f \in h.ids
    BY <1>2, <1>3, TwinsMutual DEF Closed
  <2>2. /\ f \in Stored /\ edges[f] = edges[e]
        /\ f \in Held <=> e \in Held
        /\ e \in Held => reserved[e] = reserved[f]
    BY <1>1, <1>3, WholeIsClosed
  <2>3. QED  BY <1>1, <1>3, <2>1, <2>2
<1>4. QED  BY <1>3 DEF TreesStayWhole, Twins

LEMMA StepWhole ==
  ASSUME Units = {"complete_tree"}, Inv, TreesStayWhole, [Next]_vars
  PROVE  TreesStayWhole'
<1>1. CASE NextIteration \/ UNCHANGED vars
  BY <1>1 DEF NextIteration, vars, TreesStayWhole, Stored, Held
<1>2. CASE \E B \in Batches : Add(B)
  BY <1>2, AddWhole DEF Inv
<1>3. CASE Expire \/ ReserveRaises
  BY <1>3, ExpireWhole DEF ReserveRaises
<1>4. CASE \E S \in SUBSET Free : SampleAndRemove(S)
  BY <1>4 DEF SampleAndRemove
<1>5. CASE \E unit \in Units : \E S \in SUBSET Free : Reserve(unit, S)
  BY <1>5, ReserveWhole
<1>6. CASE \E h \in handles : Commit(h) \/ Rollback(h)
  BY <1>6, ReleaseWhole
<1>7. QED
  BY <1>1, <1>2, <1>3, <1>4, <1>5, <1>6 DEF Next

(* When callers only reserve complete trees, edges of one tree that were    *)
(* added together are stored, aged, held and released together, whatever    *)
(* the limits do to the trees around them.                                  *)
THEOREM TreesAlwaysWhole ==
  ASSUME Units = {"complete_tree"}
  PROVE  Spec => []TreesStayWhole
<1>1. Init => TreesStayWhole
  BY DEF Init, TreesStayWhole, Stored
<1>2. Inv /\ TreesStayWhole /\ [Next]_vars => TreesStayWhole'
  BY StepWhole
<1>3. QED  BY <1>1, <1>2, SpecInv, PTL DEF Spec

-----------------------------------------------------------------------------
(***************************************************************************)
(* The trainer's inductive invariant.  The buffer's own is part of it,     *)
(* since the trainer only takes buffer steps.  While the trainer decides,  *)
(* its reservation is a handle the buffer knows, so that committing it or  *)
(* rolling it back is a step of the buffer, and its edges are as young as  *)
(* when they were reserved: nothing between the reservation and the update *)
(* moves the iteration.                                                    *)
(***************************************************************************)
HandleInHand ==
  pc = "decide" =>
    /\ reservation \in handles
    /\ \A e \in reservation.ids : iteration - edges[e] < MaxAge

SafetyInv ==
  /\ Inv
  /\ ReservationsSettled
  /\ ReservationInHand
  /\ HandleInHand

LEMMA TrainerInitSafety == TrainerInit => SafetyInv
BY InitInv DEF TrainerInit, Init, SafetyInv, ReservationsSettled, ReservationInHand,
               HandleInHand, Held

(* Every step of the trainer is one step of the buffer or leaves it alone. *)
LEMMA TrainerTakesBufferSteps ==
  ASSUME SafetyInv, [TrainerNext]_fitVars
  PROVE  [Next]_vars
<1>1. CASE StartIteration
  BY <1>1 DEF StartIteration, Next
<1>2. CASE Finish \/ GenerateRaises \/ NoSample \/ AfterUpdate
  BY <1>2 DEF Finish, GenerateRaises, NoSample, AfterUpdate
<1>3. CASE Generate
  BY <1>3 DEF Generate, Next
<1>4. CASE ReserveEdges
  BY <1>4, TrainerAssumption DEF ReserveEdges, Next
<1>5. CASE ReservingRaises
  BY <1>5 DEF ReservingRaises, Next
<1>6. CASE Postpone
  <2>1. reservation.ids # {} \/ reservation.ids = {}  OBVIOUS
  <2>2. pc = "decide" /\ Rollback(reservation)  BY <1>6 DEF Postpone
  <2>3. reservation \in handles  BY <2>2 DEF SafetyInv, HandleInHand
  <2>4. QED  BY <2>2, <2>3 DEF Next
<1>7. CASE BatchRejected \/ ActorFails
  <2>1. pc = "decide" /\ Rollback(reservation)
    BY <1>7 DEF BatchRejected, ActorFails, Proceeds
  <2>2. reservation \in handles  BY <2>1 DEF SafetyInv, HandleInHand
  <2>3. QED  BY <2>1, <2>2 DEF Next
<1>8. CASE SkipZeroSignal \/ \E report \in {"expected", "mismatch", "unparsed"} : ActorSucceeds(report)
  <2>1. pc = "decide" /\ Commit(reservation)
    BY <1>8 DEF SkipZeroSignal, ActorSucceeds, Proceeds
  <2>2. reservation \in handles  BY <2>1 DEF SafetyInv, HandleInHand
  <2>3. QED  BY <2>1, <2>2 DEF Next
<1>9. CASE UNCHANGED fitVars
  BY <1>9 DEF fitVars
<1>10. QED
  BY <1>1, <1>2, <1>3, <1>4, <1>5, <1>6, <1>7, <1>8, <1>9 DEF TrainerNext

(* A step that leaves the buffer alone and is not in "decide" afterwards   *)
(* needs no more than that nothing is held before it.                      *)
LEMMA QuietStep ==
  ASSUME SafetyInv, UNCHANGED vars, Held = {}, pc' # "decide"
  PROVE  SafetyInv'
<1>1. Inv'
  BY StepInv DEF SafetyInv
<1>2. Held' = {}
  BY DEF vars, Held
<1>3. QED
  BY <1>1, <1>2 DEF SafetyInv, ReservationsSettled, ReservationInHand, HandleInHand

(* Committing or rolling back the reservation in hand leaves nothing held. *)
LEMMA SettlingStep ==
  ASSUME SafetyInv, pc = "decide", Commit(reservation) \/ Rollback(reservation), pc' # "decide"
  PROVE  SafetyInv'
<1>1. reservation \in handles
  BY DEF SafetyInv, HandleInHand
<1>2. Inv'
  BY <1>1, StepInv DEF SafetyInv, Next
<1>3. Held' = Held \ reservation.ids
  BY DEF Commit, Rollback, Held, Restrict
<1>4. Held' = {}
  BY <1>3 DEF SafetyInv, ReservationInHand
<1>5. QED
  BY <1>2, <1>4 DEF SafetyInv, ReservationsSettled, ReservationInHand, HandleInHand

LEMMA ReserveEdgesSafety ==
  ASSUME SafetyInv, ReserveEdges
  PROVE  SafetyInv'
<1>1. PICK S \in SUBSET Free :
        Reserve(Unit, S) /\ reservation' = [id |-> nextId, ids |-> S, unit |-> Unit]
  BY DEF ReserveEdges
<1>2. Inv'
  BY <1>1, TrainerAssumption, StepInv DEF SafetyInv, Next
<1>3. Held = {}
  BY DEF ReserveEdges, SafetyInv, ReservationsSettled
<1>4. /\ Held' = S
      /\ \A e \in S : reserved'[e] = nextId
      /\ reservation'.id = nextId /\ reservation'.ids = S
      /\ reservation' \in handles'
  BY <1>1, <1>3 DEF Reserve, Held
<1>5. ReservationInHand'
  BY <1>4 DEF ReservationInHand, Active
<1>6. \A e \in S : iteration' - edges'[e] < MaxAge
  <2> SUFFICES ASSUME NEW e \in S  PROVE iteration' - edges'[e] < MaxAge
    OBVIOUS
  <2>1. e \in Stored \ (Held \cup Expired)
    BY DEF Free
  <2>2. edges'[e] = edges[e] /\ iteration' = iteration
    BY <1>1, <2>1 DEF Reserve, Restrict
  <2>3. edges[e] \in Nat /\ iteration \in Nat
    BY <2>1 DEF SafetyInv, Inv, TypeOK
  <2>4. ~(iteration - edges[e] >= MaxAge)
    BY <2>1 DEF Expired
  <2>5. QED  BY <2>2, <2>3, <2>4, LimitAssumption
<1>7. QED
  BY <1>2, <1>4, <1>5, <1>6 DEF ReserveEdges, SafetyInv, ReservationsSettled, HandleInHand

LEMMA TrainerStepSafety == SafetyInv /\ [TrainerNext]_fitVars => SafetyInv'
<1> SUFFICES ASSUME SafetyInv, [TrainerNext]_fitVars  PROVE SafetyInv'
  OBVIOUS
<1>1. [Next]_vars
  BY TrainerTakesBufferSteps
<1>2. Inv'
  BY <1>1, StepInv DEF SafetyInv
<1>3. pc # "decide" => Held = {}
  BY DEF SafetyInv, ReservationsSettled
<1>4. CASE StartIteration \/ Generate \/ ReservingRaises
  <2>1. pc # "decide" /\ pc' # "decide" /\ reserved' = reserved
    BY <1>4 DEF StartIteration, NextIteration, Generate, Add, ReservingRaises, ReserveRaises,
                Expire, Fail
  <2>2. Held' = {}
    BY <1>3, <2>1 DEF Held
  <2>3. QED
    BY <1>2, <2>1, <2>2 DEF SafetyInv, ReservationsSettled, ReservationInHand, HandleInHand
<1>5. CASE Finish \/ GenerateRaises \/ AfterUpdate
  <2>1. pc # "decide" /\ pc' # "decide" /\ UNCHANGED vars
    BY <1>5 DEF Finish, GenerateRaises, AfterUpdate, Fail
  <2>2. QED  BY <1>3, <2>1, QuietStep
<1>6. CASE ReserveEdges
  BY <1>6, ReserveEdgesSafety
<1>7. CASE NoSample
  <2>1. pc = "decide" /\ pc' # "decide" /\ UNCHANGED vars /\ reservation.ids = {}
    BY <1>7 DEF NoSample, NonProgress
  <2>2. Held = {}
    BY <2>1 DEF SafetyInv, ReservationInHand
  <2>3. QED  BY <2>1, <2>2, QuietStep
<1>8. CASE Postpone \/ SkipZeroSignal
  <2>1. /\ pc = "decide" /\ pc' # "decide"
        /\ Commit(reservation) \/ Rollback(reservation)
    BY <1>8 DEF Postpone, SkipZeroSignal, NonProgress, Proceeds
  <2>2. QED  BY <2>1, SettlingStep
<1>9. CASE BatchRejected \/ ActorFails
  <2>1. /\ pc = "decide" /\ pc' # "decide"
        /\ Commit(reservation) \/ Rollback(reservation)
    BY <1>9 DEF BatchRejected, ActorFails, Fail, Proceeds
  <2>2. QED  BY <2>1, SettlingStep
<1>10. CASE \E report \in {"expected", "mismatch", "unparsed"} : ActorSucceeds(report)
  <2>1. /\ pc = "decide" /\ pc' # "decide"
        /\ Commit(reservation) \/ Rollback(reservation)
    BY <1>10 DEF ActorSucceeds, Proceeds
  <2>2. QED  BY <2>1, SettlingStep
<1>11. CASE UNCHANGED fitVars
  BY <1>11, <1>2
     DEF fitVars, trainerVars, vars, SafetyInv, ReservationsSettled, ReservationInHand,
         HandleInHand, Held, Active
<1>12. QED
  BY <1>4, <1>5, <1>6, <1>7, <1>8, <1>9, <1>10, <1>11 DEF TrainerNext

LEMMA TrainerSafety == TrainerSpec => []SafetyInv
<1>1. TrainerInit => SafetyInv  BY TrainerInitSafety
<1>2. SafetyInv /\ [TrainerNext]_fitVars => SafetyInv'  BY TrainerStepSafety
<1>3. QED  BY <1>1, <1>2, PTL DEF TrainerSpec

(* The trainer is a legal caller of the buffer: what is proved of the      *)
(* buffer for any calls holds in every run of the trainer.                 *)
THEOREM TrainerUsesBuffer == TrainerSpec => Spec
<1>1. TrainerInit => Init  BY DEF TrainerInit
<1>2. SafetyInv /\ [TrainerNext]_fitVars => [Next]_vars  BY TrainerTakesBufferSteps
<1>3. QED  BY <1>1, <1>2, TrainerSafety, PTL DEF Spec, TrainerSpec

(* Outside the decision of one iteration nothing is held: no outcome of an *)
(* iteration, and no failure of a call, leaks a reservation.               *)
THEOREM NoReservationLeaks == TrainerSpec => []ReservationsSettled
<1>1. SafetyInv => ReservationsSettled  BY DEF SafetyInv
<1>2. QED  BY <1>1, TrainerSafety, PTL

(* What is held during the decision is the reservation the trainer has.    *)
THEOREM OwnReservationOnly == TrainerSpec => []ReservationInHand
<1>1. SafetyInv => ReservationInHand  BY DEF SafetyInv
<1>2. QED  BY <1>1, TrainerSafety, PTL

(* No outcome of an iteration leaks an edge, and none holds another's.      *)
THEOREM ReservationsAlwaysOwned == TrainerSpec => []ReservationsOwned
<1>1. SafetyInv => ReservationsOwned  BY DEF SafetyInv, ReservationsOwned
<1>2. QED  BY <1>1, TrainerSafety, PTL

(* The pool of lots is what the trainer sees of the buffer. *)
COROLLARY TrainerUsesLots == TrainerSpec => ImplementsLots
BY TrainerUsesBuffer, BufferImplementsLots

(***************************************************************************)
(* Types of the trainer's own variables.                                   *)
(***************************************************************************)
CountNames == {"updated", "postponed", "failed", "skipped"}
Accountings == [observed : Nat, failures : Nat, unverifiable : Nat, valid : BOOLEAN]

LEMMA FirstThresholdTyped ==
  ASSUME NEW step \in Nat
  PROVE  FirstThreshold(step) \in Int
<1>1. CASE SaveFreq <= 0
  BY <1>1, TrainerAssumption DEF FirstThreshold
<1>2. CASE ~(SaveFreq <= 0)
  <2>1. SaveFreq \in Nat /\ SaveFreq > 0  BY <1>2, TrainerAssumption
  <2>2. step \div SaveFreq \in Int  BY <2>1
  <2>3. (step \div SaveFreq + 1) * SaveFreq \in Int  BY <2>1, <2>2
  <2>4. QED  BY <1>2, <2>3 DEF FirstThreshold
<1>3. QED  BY <1>1, <1>2

LEMMA CrossedTyped ==
  ASSUME NEW before, NEW now \in Int, nextSave \in Int
  PROVE  Cardinality(Crossed(before, now)) * SaveFreq \in Int
<1>1. Crossed(before, now) \subseteq nextSave .. now
  BY DEF Crossed
<1>2. IsFiniteSet(nextSave .. now)
  BY FS_Interval
<1>3. Cardinality(Crossed(before, now)) \in Nat
  BY <1>1, <1>2, FS_Subset, FS_CardinalityType
<1>4. QED  BY <1>3, TrainerAssumption

LEMMA AccountTyped ==
  ASSUME TrainerTypeOK, NEW report
  PROVE  Account(report) \in Accountings
<1> DEFINE seen == accounting.observed + (IF report = "unparsed" THEN 0 ELSE 1)
           bad  == accounting.failures + (IF report = "mismatch" THEN 1 ELSE 0)
           lost == accounting.unverifiable + (IF report = "unparsed" THEN 1 ELSE 0)
           ok   == IF report = "unparsed" THEN FALSE ELSE seen > 0 /\ bad = 0 /\ lost = 0
<1>1. seen \in Nat /\ bad \in Nat /\ lost \in Nat
  BY DEF TrainerTypeOK
<1>2. ok \in BOOLEAN
  OBVIOUS
<1>3. Account(report) = [observed |-> seen, failures |-> bad, unverifiable |-> lost, valid |-> ok]
  BY DEF Account
<1> HIDE DEF seen, bad, lost, ok
<1>4. QED  BY <1>1, <1>2, <1>3 DEF Accountings

LEMMA SaveTyped ==
  ASSUME TrainerTypeOK, SaveBundle \/ UNCHANGED bundles
  PROVE  DOMAIN bundles' \subseteq Nat
BY DEF TrainerTypeOK, SaveBundle

LEMMA NonProgressTyped ==
  ASSUME TrainerTypeOK, NEW s, NonProgress(s)
  PROVE  /\ pc' \in {"loop", "raised"} /\ status' = s
         /\ streak' \in Nat
         /\ accounting' \in Accountings
         /\ DOMAIN bundles' \subseteq Nat
         /\ UNCHANGED <<globalStep, reservation, nextSave, touched, lastUpdate>>
<1>1. DOMAIN bundles' \subseteq Nat
  BY SaveTyped DEF NonProgress
<1>2. accounting' \in Accountings
  BY DEF NonProgress, TrainerTypeOK, Accountings
<1>3. QED  BY <1>1, <1>2 DEF NonProgress, TrainerTypeOK

LEMMA CountsTyped ==
  ASSUME TrainerTypeOK
  PROVE  /\ [count EXCEPT !.updated = @ + 1] \in [CountNames -> Nat]
         /\ [count EXCEPT !.postponed = @ + 1] \in [CountNames -> Nat]
         /\ [count EXCEPT !.failed = @ + 1] \in [CountNames -> Nat]
         /\ [count EXCEPT !.skipped = @ + 1] \in [CountNames -> Nat]
BY DEF TrainerTypeOK, CountNames

LEMMA TrainerTypeInit == TrainerInit => TrainerTypeOK
<1> SUFFICES ASSUME TrainerInit  PROVE TrainerTypeOK
  OBVIOUS
<1>1. TypeOK
  BY InitInv DEF TrainerInit, Inv
<1>2. nextSave \in Int
  BY FirstThresholdTyped, TrainerAssumption DEF TrainerInit
<1>3. count \in [{"updated", "postponed", "failed", "skipped"} -> Nat]
  BY DEF TrainerInit
<1>4. accounting \in [observed : Nat, failures : Nat, unverifiable : Nat, valid : BOOLEAN]
  BY DEF TrainerInit
<1>5. reservation \in [id : Nat, ids : SUBSET Edge, unit : {Unit}]
  BY DEF TrainerInit, NoReservation
<1>6. QED
  BY <1>1, <1>2, <1>3, <1>4, <1>5, TrainerAssumption DEF TrainerInit, TrainerTypeOK

LEMMA TrainerTypeStep ==
  ASSUME SafetyInv, TrainerTypeOK, [TrainerNext]_fitVars
  PROVE  TrainerTypeOK'
<1>1. TypeOK'
  BY TrainerStepSafety DEF SafetyInv, Inv
<1>2. CASE StartIteration
  BY <1>1, <1>2 DEF StartIteration, TrainerTypeOK, NoReservation
<1>3. CASE Finish
  BY <1>1, <1>3, SaveTyped DEF Finish, TrainerTypeOK
<1>4. CASE Generate
  BY <1>1, <1>4 DEF Generate, TrainerTypeOK
<1>5. CASE GenerateRaises \/ ReservingRaises
  BY <1>1, <1>5 DEF GenerateRaises, ReservingRaises, Fail, TrainerTypeOK
<1>6. CASE ReserveEdges
  <2>1. PICK S \in SUBSET Free :
          reservation' = [id |-> nextId, ids |-> S, unit |-> Unit]
    BY <1>6 DEF ReserveEdges
  <2>2. nextId \in Nat /\ S \subseteq Edge
    BY DEF TrainerTypeOK, TypeOK, Free
  <2>3. reservation' \in [id : Nat, ids : SUBSET Edge, unit : {Unit}]
    BY <2>1, <2>2
  <2>4. QED  BY <1>1, <1>6, <2>3 DEF ReserveEdges, TrainerTypeOK
<1>7. CASE NoSample
  BY <1>1, <1>7, NonProgressTyped DEF NoSample, TrainerTypeOK, Accountings
<1>8. CASE Postpone
  BY <1>1, <1>8, NonProgressTyped, CountsTyped DEF Postpone, TrainerTypeOK, Accountings, CountNames
<1>9. CASE SkipZeroSignal
  BY <1>1, <1>9, NonProgressTyped, CountsTyped
     DEF SkipZeroSignal, TrainerTypeOK, Accountings, CountNames
<1>10. CASE BatchRejected
  BY <1>1, <1>10 DEF BatchRejected, Fail, TrainerTypeOK
<1>11. CASE ActorFails
  BY <1>1, <1>11, CountsTyped DEF ActorFails, Fail, TrainerTypeOK, CountNames
<1>12. CASE \E report \in {"expected", "mismatch", "unparsed"} : ActorSucceeds(report)
  <2>1. PICK report \in {"expected", "mismatch", "unparsed"} : ActorSucceeds(report)
    BY <1>12
  <2>2. iteration \in Nat  BY DEF TrainerTypeOK, TypeOK
  <2>3. QED
    BY <1>1, <2>1, <2>2, AccountTyped, CountsTyped
       DEF ActorSucceeds, TrainerTypeOK, Accountings, CountNames
<1>13. CASE AfterUpdate
  <2>1. DOMAIN bundles' \subseteq Nat
    BY <1>13, SaveTyped DEF AfterUpdate
  <2>2. nextSave' \in Int
    <3>1. nextSave \in Int /\ globalStep \in Int
      BY DEF TrainerTypeOK
    <3>2. Cardinality(Crossed(globalStep - 1, globalStep)) * SaveFreq \in Int
      BY <3>1, CrossedTyped
    <3>3. QED  BY <1>13, <3>1, <3>2 DEF AfterUpdate
  <2>3. QED  BY <1>1, <1>13, <2>1, <2>2 DEF AfterUpdate, TrainerTypeOK
<1>14. CASE UNCHANGED fitVars
  BY <1>1, <1>14 DEF fitVars, trainerVars, TrainerTypeOK
<1>15. QED
  BY <1>2, <1>3, <1>4, <1>5, <1>6, <1>7, <1>8, <1>9, <1>10, <1>11, <1>12, <1>13, <1>14
     DEF TrainerNext

(* Every variable of the trainer keeps its type. *)
THEOREM TrainerTypeCorrect == TrainerSpec => []TrainerTypeOK
<1>1. TrainerInit => TrainerTypeOK  BY TrainerTypeInit
<1>2. SafetyInv /\ TrainerTypeOK /\ [TrainerNext]_fitVars => TrainerTypeOK'
  BY TrainerTypeStep
<1>3. QED  BY <1>1, <1>2, TrainerSafety, PTL DEF TrainerSpec

LEMMA TrainerTyped == TrainerSpec => [](SafetyInv /\ TrainerTypeOK)
BY TrainerSafety, TrainerTypeCorrect, PTL

-----------------------------------------------------------------------------
(***************************************************************************)
(* What an actor update consumes.                                          *)
(***************************************************************************)
ExactStep ==
  globalStep' # globalStep =>
    LET used == Stored \ DOMAIN edges'
    IN /\ globalStep' = globalStep + 1
       /\ Cardinality(used) \in 1 .. Target
       /\ Cardinality(used) % MiniBatch = 0
       /\ ~(used \subseteq Silent)
       /\ \A e \in used : iteration - edges[e] < MaxAge

LEMMA UpdateIsExact ==
  ASSUME SafetyInv, TrainerTypeOK, WithinLimits, [TrainerNext]_fitVars
  PROVE  ExactStep
<1>1. CASE \E report \in {"expected", "mismatch", "unparsed"} : ActorSucceeds(report)
  <2>1. /\ pc = "decide" /\ reservation.ids # {} /\ ~Indivisible
        /\ ~(reservation.ids \subseteq Silent)
        /\ Commit(reservation)
        /\ globalStep' = globalStep + 1
    BY <1>1 DEF ActorSucceeds, Proceeds
  <2>2. reservation \in handles /\ reservation.ids \subseteq Stored /\ reservation.ids \subseteq Edge
    BY <2>1 DEF SafetyInv, HandleInHand, ReservationInHand, Inv, TypeOK, HeldEdgesStored
  <2>3. Stored \ DOMAIN edges' = reservation.ids
    BY <2>1, <2>2 DEF Commit, Restrict, Stored
  <2>4. IsFiniteSet(reservation.ids) /\ Cardinality(reservation.ids) \in Nat
    BY <2>2, EdgeSetsFinite
  <2>5. Cardinality(reservation.ids) # 0
    BY <2>1, <2>4, FS_EmptySet
  <2>6. Cardinality(reservation.ids) <= Target
    BY <2>2 DEF WithinLimits
  <2>7. Cardinality(reservation.ids) \in 1 .. Target
    BY <2>4, <2>5, <2>6, LimitAssumption
  <2>8. Cardinality(reservation.ids) % MiniBatch = 0
    BY <2>1 DEF Indivisible
  <2>9. \A e \in reservation.ids : iteration - edges[e] < MaxAge
    BY <2>1 DEF SafetyInv, HandleInHand
  <2>10. QED  BY <2>1, <2>3, <2>7, <2>8, <2>9 DEF ExactStep
<1>2. CASE ~ \E report \in {"expected", "mismatch", "unparsed"} : ActorSucceeds(report)
  <2>1. globalStep' = globalStep
    BY <1>2 DEF TrainerNext, StartIteration, Finish, Generate, GenerateRaises, ReserveEdges,
                ReservingRaises, NoSample, Postpone, BatchRejected, SkipZeroSignal, ActorFails,
                AfterUpdate, Fail, NonProgress, fitVars, trainerVars
  <2>2. QED  BY <2>1 DEF ExactStep
<1>3. QED  BY <1>1, <1>2

(* Every actor update consumes a non-empty whole number of mini-batches of  *)
(* edges that have not expired and are not all silent.                      *)
THEOREM UpdatesAreExact == TrainerSpec => UpdatesExact
<1>1. SafetyInv /\ TrainerTypeOK /\ WithinLimits /\ [TrainerNext]_fitVars => [ExactStep]_fitVars
  BY UpdateIsExact
<1>2. TrainerSpec => []WithinLimits
  BY TrainerUsesBuffer, ReservationsWithinLimits, PTL
<1>3. TrainerSpec => [][ExactStep]_fitVars
  BY <1>1, <1>2, TrainerTyped, PTL DEF TrainerSpec
<1>4. QED  BY <1>3 DEF UpdatesExact, ExactStep

-----------------------------------------------------------------------------
(***************************************************************************)
(* The livelock guard.  Inside an iteration the streak counts the          *)
(* iterations before it.                                                   *)
(***************************************************************************)
StreakInv ==
  /\ StreakBounded
  /\ pc \in {"generate", "reserve", "decide"} =>
       /\ streak + 1 = iteration - lastUpdate
       /\ Limit > 0 => streak < Limit
  /\ pc = "updated" => streak = 0 /\ lastUpdate = iteration

LEMMA StreakStep ==
  ASSUME SafetyInv, TrainerTypeOK, StreakInv, [TrainerNext]_fitVars
  PROVE  StreakInv'
<1>0. /\ iteration \in Nat /\ streak \in Nat /\ lastUpdate \in Nat /\ Limit \in Nat
  BY TrainerAssumption DEF TrainerTypeOK, TypeOK
<1>1. CASE StartIteration
  BY <1>0, <1>1 DEF StartIteration, NextIteration, StreakInv, StreakBounded
<1>2. CASE Finish \/ GenerateRaises \/ ReservingRaises \/ BatchRejected \/ ActorFails
  BY <1>2 DEF Finish, GenerateRaises, ReservingRaises, BatchRejected, ActorFails, Fail,
              StreakInv, StreakBounded
<1>3. CASE Generate
  BY <1>0, <1>3 DEF Generate, Add, StreakInv, StreakBounded
<1>4. CASE ReserveEdges
  BY <1>0, <1>4 DEF ReserveEdges, Reserve, StreakInv, StreakBounded
<1>5. CASE NoSample \/ Postpone \/ SkipZeroSignal
  <2>1. /\ pc = "decide" /\ iteration' = iteration /\ lastUpdate' = lastUpdate
        /\ streak' = streak + 1
        /\ pc' = "raised" \/ (pc' = "loop" /\ ~(Limit > 0 /\ streak + 1 >= Limit))
    BY <1>5 DEF NoSample, Postpone, SkipZeroSignal, Proceeds, NonProgress, Commit, Rollback, vars
  <2>2. QED  BY <1>0, <2>1 DEF StreakInv, StreakBounded
<1>6. CASE \E report \in {"expected", "mismatch", "unparsed"} : ActorSucceeds(report)
  BY <1>6 DEF ActorSucceeds, Commit, StreakInv, StreakBounded
<1>7. CASE AfterUpdate
  <2>1. /\ pc = "updated" /\ pc' \in {"raised", "done", "loop"}
        /\ UNCHANGED <<iteration, streak, lastUpdate>>
    BY <1>7 DEF AfterUpdate, vars
  <2>2. QED  BY <1>0, <2>1 DEF StreakInv, StreakBounded
<1>8. CASE UNCHANGED fitVars
  BY <1>8 DEF fitVars, trainerVars, vars, StreakInv, StreakBounded
<1>9. QED
  BY <1>1, <1>2, <1>3, <1>4, <1>5, <1>6, <1>7, <1>8 DEF TrainerNext

(* The guard counts exactly the iterations since the last update, whatever  *)
(* they were, and never lets the loop go on at its limit.                   *)
THEOREM StreakAlwaysBounded == TrainerSpec => []StreakBounded
<1>1. TrainerInit => StreakInv
  BY TrainerAssumption DEF TrainerInit, Init, StreakInv, StreakBounded
<1>2. SafetyInv /\ TrainerTypeOK /\ StreakInv /\ [TrainerNext]_fitVars => StreakInv'
  BY StreakStep
<1>3. StreakInv => StreakBounded
  BY DEF StreakInv
<1>4. QED  BY <1>1, <1>2, <1>3, TrainerTyped, PTL DEF TrainerSpec

-----------------------------------------------------------------------------
(***************************************************************************)
(* The accounting of optimizer steps.                                      *)
(***************************************************************************)
AccountingInv ==
  /\ accounting.observed + accounting.unverifiable = count.updated
  /\ accounting.valid =>
       accounting.failures = 0 /\ accounting.unverifiable = 0 /\ accounting.observed > 0

LEMMA AccountsTyped ==
  ASSUME TrainerTypeOK
  PROVE  /\ accounting.observed \in Nat /\ accounting.failures \in Nat
         /\ accounting.unverifiable \in Nat /\ accounting.valid \in BOOLEAN
         /\ count.updated \in Nat
         /\ count \in [CountNames -> Nat] /\ "updated" \in CountNames
BY DEF TrainerTypeOK, CountNames

LEMMA NonProgressAccounts ==
  ASSUME TrainerTypeOK, AccountingInv, NEW s, NonProgress(s), count'.updated = count.updated
  PROVE  AccountingInv'
<1>1. /\ accounting'.observed = accounting.observed
      /\ accounting'.failures = accounting.failures
      /\ accounting'.unverifiable = accounting.unverifiable
      /\ accounting'.valid = (accounting.valid /\ accounting.observed > 0)
  BY DEF NonProgress, TrainerTypeOK
<1>2. QED  BY <1>1 DEF AccountingInv

LEMMA AccountingStep ==
  ASSUME TrainerTypeOK, AccountingInv, [TrainerNext]_fitVars
  PROVE  AccountingInv'
<1>1. CASE NoSample
  BY <1>1, NonProgressAccounts DEF NoSample
<1>2. CASE Postpone
  <2>1. count'.updated = count.updated
    BY <1>2, AccountsTyped DEF Postpone, CountNames
  <2>2. QED  BY <1>2, <2>1, NonProgressAccounts DEF Postpone
<1>3. CASE SkipZeroSignal
  <2>1. count'.updated = count.updated
    BY <1>3, AccountsTyped DEF SkipZeroSignal, CountNames
  <2>2. QED  BY <1>3, <2>1, NonProgressAccounts DEF SkipZeroSignal
<1>4. CASE ActorFails
  <2>1. count'.updated = count.updated /\ accounting' = accounting
    BY <1>4, AccountsTyped DEF ActorFails, Fail, CountNames
  <2>2. QED  BY <2>1 DEF AccountingInv
<1>5. CASE \E report \in {"expected", "mismatch", "unparsed"} : ActorSucceeds(report)
  <2>1. PICK report \in {"expected", "mismatch", "unparsed"} : ActorSucceeds(report)
    BY <1>5
  <2>2. count'.updated = count.updated + 1 /\ accounting' = Account(report)
    BY <2>1, AccountsTyped DEF ActorSucceeds, CountNames
  <2>3. CASE report = "unparsed"
    <3>1. /\ accounting'.observed = accounting.observed + 0
          /\ accounting'.unverifiable = accounting.unverifiable + 1
          /\ ~accounting'.valid
      BY <2>2, <2>3 DEF Account
    <3>2. QED  BY <2>2, <3>1, AccountsTyped DEF AccountingInv
  <2>4. CASE report # "unparsed"
    <3>1. /\ accounting'.observed = accounting.observed + 1
          /\ accounting'.unverifiable = accounting.unverifiable + 0
      BY <2>2, <2>4 DEF Account
    <3>2. accounting'.valid =>
            accounting'.observed > 0 /\ accounting'.failures = 0 /\ accounting'.unverifiable = 0
      BY <2>2, <2>4 DEF Account
    <3>3. QED  BY <2>2, <3>1, <3>2, AccountsTyped DEF AccountingInv
  <2>5. QED  BY <2>3, <2>4
<1>6. CASE \/ StartIteration \/ Finish \/ Generate \/ GenerateRaises \/ ReserveEdges
           \/ ReservingRaises \/ BatchRejected \/ AfterUpdate \/ UNCHANGED fitVars
  <2>1. UNCHANGED <<accounting, count>>
    BY <1>6 DEF StartIteration, Finish, Generate, GenerateRaises, ReserveEdges, ReservingRaises,
                BatchRejected, AfterUpdate, Fail, fitVars, trainerVars
  <2>2. QED  BY <2>1 DEF AccountingInv
<1>7. QED
  BY <1>1, <1>2, <1>3, <1>4, <1>5, <1>6 DEF TrainerNext

(* Every update is accounted for once, and one report that did not parse    *)
(* or did not match keeps the run invalid whatever the later ones say.      *)
THEOREM AccountingAlwaysHonest == TrainerSpec => []AccountingHonest
<1>1. TrainerInit => AccountingInv
  BY DEF TrainerInit, AccountingInv
<1>2. TrainerTypeOK /\ AccountingInv /\ [TrainerNext]_fitVars => AccountingInv'
  BY AccountingStep
<1>3. TrainerTypeOK /\ AccountingInv => AccountingHonest
  BY AccountsTyped DEF AccountingInv, AccountingHonest
<1>4. QED  BY <1>1, <1>2, <1>3, TrainerTyped, PTL DEF TrainerSpec
-----------------------------------------------------------------------------
(***************************************************************************)
(* Complete trees.                                                         *)
(***************************************************************************)

(* A trainer of complete trees never splits one, whatever its iterations    *)
(* come to.                                                                 *)
THEOREM TrainerKeepsTreesWhole ==
  ASSUME Units = {"complete_tree"}
  PROVE  TrainerSpec => []TreesStayWhole
BY TrainerUsesBuffer, TreesAlwaysWhole, PTL

-----------------------------------------------------------------------------
(***************************************************************************)
(* The status.  Between its start and its outcome an iteration is RUNNING  *)
(* and has not touched the actor.                                          *)
(***************************************************************************)
Outcomes == {"NO_SAMPLE", "POSTPONED", "ZERO_SIGNAL_SKIPPED"}

StatusInv ==
  /\ pc \in {"generate", "reserve", "decide"} => status = "RUNNING" /\ ~touched
  /\ pc \in {"loop", "done"} => status \in {"NOT_STARTED", "UPDATED"} \cup Outcomes
  /\ pc = "updated" => status = "UPDATED"
  /\ status \in {"NOT_STARTED"} \cup Outcomes => ~touched
  /\ StatusHonest

LEMMA StatusRaised ==
  ASSUME pc' = "raised", touched' \in BOOLEAN,
         \/ status' = "FAILED_BEFORE_ACTOR" /\ ~touched'
         \/ status' = "ACTOR_FAILED" /\ touched' /\ reservation'.ids \subseteq Stored'
  PROVE  StatusInv'
BY DEF StatusInv, StatusHonest, Outcomes

LEMMA StatusNonProgress ==
  ASSUME StatusInv, TrainerTypeOK, pc = "decide", NEW s \in Outcomes, NonProgress(s)
  PROVE  StatusInv'
<1>1. /\ status' = s /\ touched' = touched /\ ~touched
      /\ streak' = streak + 1
      /\ pc' = "loop" \/ (pc' = "raised" /\ Limit > 0 /\ streak + 1 >= Limit)
  BY DEF NonProgress, StatusInv
<1>2. QED  BY <1>1 DEF StatusInv, StatusHonest, Outcomes

LEMMA StatusStep ==
  ASSUME SafetyInv, TrainerTypeOK, StatusInv, [TrainerNext]_fitVars
  PROVE  StatusInv'
<1>1. CASE StartIteration
  BY <1>1 DEF StartIteration, StatusInv, StatusHonest, Outcomes
<1>2. CASE Finish
  <2>1. /\ UNCHANGED <<status, streak, touched, reservation, edges, globalStep, iteration>>
        /\ pc = "loop" /\ ~Running /\ pc' \in {"done", "raised"}
    BY <1>2 DEF Finish, vars
  <2>2. Running' = Running /\ Stored' = Stored
    BY <2>1 DEF Running, BudgetSpent, Stored
  <2>3. QED  BY <2>1, <2>2 DEF StatusInv, StatusHonest, Outcomes
<1>3. CASE Generate \/ ReserveEdges
  <2>1. /\ pc \in {"generate", "reserve"} /\ pc' \in {"reserve", "decide"}
        /\ UNCHANGED <<status, touched>>
    BY <1>3 DEF Generate, ReserveEdges
  <2>2. QED  BY <2>1 DEF StatusInv, StatusHonest, Outcomes
<1>4. CASE GenerateRaises \/ ReservingRaises \/ BatchRejected
  <2>1. /\ pc \in {"generate", "reserve", "decide"} /\ pc' = "raised"
        /\ status' = "FAILED_BEFORE_ACTOR" /\ touched' = touched
    BY <1>4 DEF GenerateRaises, ReservingRaises, BatchRejected, Proceeds, Fail
  <2>2. touched' \in BOOLEAN /\ ~touched'
    BY <2>1 DEF StatusInv, TrainerTypeOK
  <2>3. QED  BY <2>1, <2>2, StatusRaised
<1>5. CASE NoSample
  BY <1>5, StatusNonProgress DEF NoSample, Outcomes
<1>6. CASE Postpone
  BY <1>6, StatusNonProgress DEF Postpone, Outcomes
<1>7. CASE SkipZeroSignal
  BY <1>7, StatusNonProgress DEF SkipZeroSignal, Proceeds, Outcomes
<1>8. CASE ActorFails
  <2>1. /\ pc = "decide" /\ pc' = "raised" /\ status' = "ACTOR_FAILED" /\ touched' = TRUE
        /\ reservation' = reservation /\ edges' = edges
    BY <1>8 DEF ActorFails, Proceeds, Fail, Rollback
  <2>2. reservation.ids \subseteq Stored
    BY <2>1 DEF SafetyInv, ReservationInHand, Inv, HeldEdgesStored
  <2>3. QED  BY <2>1, <2>2, StatusRaised DEF Stored
<1>9. CASE \E report \in {"expected", "mismatch", "unparsed"} : ActorSucceeds(report)
  <2>1. /\ pc' = "updated" /\ status' = "UPDATED" /\ streak' = 0
        /\ reservation' = reservation /\ Commit(reservation)
    BY <1>9 DEF ActorSucceeds
  <2>2. Stored' = Stored \ reservation.ids
    BY <2>1 DEF Commit, Stored, Restrict
  <2>3. QED  BY <2>1, <2>2 DEF StatusInv, StatusHonest, Outcomes
<1>10. CASE AfterUpdate
  <2>1. /\ pc = "updated" /\ pc' \in {"raised", "done", "loop"}
        /\ UNCHANGED <<status, streak, touched, reservation, edges>>
    BY <1>10 DEF AfterUpdate, vars
  <2>2. QED  BY <2>1 DEF StatusInv, StatusHonest, Outcomes, Stored
<1>11. CASE UNCHANGED fitVars
  <2>1. UNCHANGED <<pc, status, streak, touched, reservation, edges, globalStep, iteration>>
    BY <1>11 DEF fitVars, trainerVars, vars
  <2>2. QED
    BY <2>1 DEF StatusInv, StatusHonest, Outcomes, Stored, Running, BudgetSpent
<1>12. QED
  BY <1>1, <1>2, <1>3, <1>4, <1>5, <1>6, <1>7, <1>8, <1>9, <1>10, <1>11 DEF TrainerNext

(* The status a run leaves behind tells what happened to the model and to   *)
(* the reserved edges, for any limits and whatever raised.                  *)
THEOREM StatusAlwaysHonest == TrainerSpec => []StatusHonest
<1>1. TrainerInit => StatusInv
  BY DEF TrainerInit, StatusInv, StatusHonest, Outcomes
<1>2. SafetyInv /\ TrainerTypeOK /\ StatusInv /\ [TrainerNext]_fitVars => StatusInv'
  BY StatusStep
<1>3. StatusInv => StatusHonest
  BY DEF StatusInv
<1>4. QED  BY <1>1, <1>2, <1>3, TrainerTyped, PTL DEF TrainerSpec
-----------------------------------------------------------------------------
(***************************************************************************)
(* The save thresholds.  First the multiples of save_freq.                 *)
(***************************************************************************)
LEMMA DivMod ==
  ASSUME NEW x \in Nat, NEW n \in Nat, n >= 1
  PROVE  x \div n \in Nat /\ x % n \in 0..(n - 1) /\ x % n = x - n * (x \div n)
<1>1. x \div n \in Nat  OBVIOUS
<1>2. x % n \in 0..(n - 1)  OBVIOUS
<1>3. x % n = x - n * (x \div n)  OBVIOUS
<1>4. QED  BY <1>1, <1>2, <1>3, Zenon

LEMMA NextMultiple ==
  ASSUME NEW n \in Nat, n >= 1, NEW c \in Nat, NEW d \in Nat, c < d
  PROVE  n * c + n <= n * d
<1>1. d - c - 1 \in Nat /\ d = c + 1 + (d - c - 1)  OBVIOUS
<1>2. PICK e \in Nat : d = c + 1 + e  BY <1>1
<1>3. n * d = n * c + n + n * e  BY <1>2
<1>4. n * e \in Nat /\ n * c \in Nat  OBVIOUS
<1>5. QED  BY <1>3, <1>4

LEMMA DivUnique ==
  ASSUME NEW n \in Nat, n >= 1, NEW x \in Nat, NEW q \in Nat, NEW r \in 0..(n - 1), x = n * q + r
  PROVE  x \div n = q /\ x % n = r
<1> DEFINE p == x \div n
           s == x % n
<1>1. p \in Nat /\ s \in 0..(n - 1) /\ s = x - n * p  BY DivMod
<1> HIDE DEF p, s
<1>2. n * p \in Nat /\ n * q \in Nat  BY <1>1
<1>3. ~(p < q)
  <2>1. SUFFICES ASSUME p < q PROVE FALSE  OBVIOUS
  <2>2. n * p + n <= n * q  BY <1>1, <2>1, NextMultiple
  <2>3. QED  BY <1>1, <1>2, <2>2
<1>4. ~(q < p)
  <2>1. SUFFICES ASSUME q < p PROVE FALSE  OBVIOUS
  <2>2. n * q + n <= n * p  BY <1>1, <2>1, NextMultiple
  <2>3. QED  BY <1>1, <1>2, <2>2
<1>5. p = q  BY <1>1, <1>3, <1>4
<1>6. s = r  BY <1>1, <1>2, <1>5
<1>7. QED  BY <1>5, <1>6 DEF p, s

(* The threshold moves when a step reaches it, and is above it otherwise.  *)
LEMMA ThresholdStep ==
  ASSUME SaveFreq > 0, NEW n \in Nat
  PROVE  /\ (n + 1) % SaveFreq = 0 =>
              FirstThreshold(n) = n + 1 /\ FirstThreshold(n + 1) = n + 1 + SaveFreq
         /\ (n + 1) % SaveFreq # 0 =>
              FirstThreshold(n) > n + 1 /\ FirstThreshold(n + 1) = FirstThreshold(n)
<1> DEFINE F == SaveFreq
           q == n \div F
           r == n % F
<1>1. F \in Nat /\ F >= 1  BY TrainerAssumption
<1>2. q \in Nat /\ r \in 0..(F - 1) /\ r = n - F * q  BY <1>1, DivMod
<1>3. \A m \in Nat : FirstThreshold(m) = (m \div F + 1) * F
  BY <1>1 DEF FirstThreshold
<1>4. FirstThreshold(n) = (q + 1) * F  BY <1>3
<1> HIDE DEF F, q, r
<1>5. F * q \in Nat /\ (q + 1) * F = F * q + F /\ F * (q + 1) = F * q + F
      /\ (q + 1 + 1) * F = F * q + F + F
  BY <1>1, <1>2
<1>6. CASE r = F - 1
  <2>1. n + 1 = F * (q + 1) + 0 /\ q + 1 \in Nat /\ 0 \in 0..(F - 1) /\ n + 1 \in Nat
    BY <1>1, <1>2, <1>5, <1>6
  <2>2. (n + 1) \div F = q + 1 /\ (n + 1) % F = 0
    BY <1>1, <2>1, DivUnique
  <2>3. FirstThreshold(n + 1) = (q + 1 + 1) * F
    BY <1>3, <2>1, <2>2
  <2>4. FirstThreshold(n) = n + 1 /\ FirstThreshold(n + 1) = n + 1 + F
    BY <1>1, <1>2, <1>4, <1>5, <2>1, <2>3
  <2>5. QED  BY <2>2, <2>4 DEF F
<1>7. CASE r # F - 1
  <2>1. n + 1 = F * q + (r + 1) /\ r + 1 \in 0..(F - 1) /\ n + 1 \in Nat /\ r + 1 # 0
    BY <1>1, <1>2, <1>5, <1>7
  <2>2. (n + 1) \div F = q /\ (n + 1) % F = r + 1
    BY <1>1, <1>2, <2>1, DivUnique
  <2>3. FirstThreshold(n + 1) = FirstThreshold(n)
    BY <1>3, <1>4, <2>1, <2>2
  <2>4. FirstThreshold(n) > n + 1
    BY <1>1, <1>2, <1>4, <1>5, <2>1
  <2>5. QED  BY <2>1, <2>2, <2>3, <2>4 DEF F
<1>8. QED  BY <1>6, <1>7

Passed(n) == \A k \in Start + 1 .. n : k % SaveFreq = 0 => k \in DOMAIN bundles

ScheduleInv ==
  /\ SaveFreq > 0 =>
       /\ pc \in {"loop", "generate", "reserve", "decide"} =>
            Passed(globalStep) /\ nextSave = FirstThreshold(globalStep)
       /\ pc = "updated" =>
            /\ globalStep - 1 \in Nat
            /\ Passed(globalStep - 1) /\ nextSave = FirstThreshold(globalStep - 1)
  /\ ExitIsSaved

LEMMA ScheduleQuiet ==
  ASSUME ScheduleInv, UNCHANGED <<bundles, globalStep, nextSave>>,
         pc \in {"loop", "generate", "reserve", "decide"},
         pc' \in {"loop", "generate", "reserve", "decide", "raised"}
  PROVE  ScheduleInv'
<1>1. \A n : Passed(n) <=> Passed(n)'
  BY DEF Passed
<1>2. QED  BY <1>1 DEF ScheduleInv, ExitIsSaved

LEMMA RaisedSchedule ==
  ASSUME pc' = "raised"
  PROVE  ScheduleInv'
BY DEF ScheduleInv, ExitIsSaved

LEMMA ScheduleAfterUpdate ==
  ASSUME TrainerTypeOK, ScheduleInv, AfterUpdate
  PROVE  ScheduleInv'
<1> DEFINE crossed == Crossed(globalStep - 1, globalStep)
<1>1. /\ pc = "updated" /\ globalStep \in Nat /\ globalStep' = globalStep
      /\ UNCHANGED <<iteration, edges, streak>>
      /\ nextSave' = nextSave + Cardinality(crossed) * SaveFreq
      /\ \/ pc' = "raised"
         \/ /\ pc' = IF globalStep >= Total THEN "done" ELSE "loop"
            /\ IF SaveFreq > 0 /\ (crossed # {} \/ globalStep >= Total)
                 THEN SaveBundle ELSE UNCHANGED bundles
  BY DEF AfterUpdate, TrainerTypeOK, vars
<1>2. CASE pc' = "raised"
  BY <1>2, RaisedSchedule
<1>3. CASE pc' # "raised" /\ ~(SaveFreq > 0)
  <2>1. pc' \in {"loop", "done"} /\ (pc' = "done" => ~(globalStep < Total))
    BY <1>1, <1>3, TrainerAssumption
  <2>2. QED  BY <1>1, <1>3, <2>1 DEF ScheduleInv, ExitIsSaved
<1>4. CASE pc' # "raised" /\ SaveFreq > 0
  <2> DEFINE n == globalStep - 1
  <2>1. n \in Nat /\ n + 1 = globalStep /\ Passed(n) /\ nextSave = FirstThreshold(n)
    BY <1>1, <1>4 DEF ScheduleInv
  <2>2. SaveFreq \in Nat /\ SaveFreq >= 1 /\ Start \in Nat /\ Total \in Nat
    BY <1>4, TrainerAssumption
  <2>3. FirstThreshold(n) \in Int
    BY <2>1 DEF TrainerTypeOK
  <2>4. crossed = {k \in nextSave .. globalStep : n < k /\ (k - nextSave) % SaveFreq = 0}
    BY <1>4, <2>2 DEF Crossed
  <2> HIDE DEF n, crossed
  <2>5. CASE globalStep % SaveFreq = 0
    <3>1. nextSave = globalStep /\ FirstThreshold(globalStep) = globalStep + SaveFreq
      BY <1>4, <2>1, <2>5, ThresholdStep
    <3>2. crossed = {globalStep}
      <4>1. (globalStep - globalStep) % SaveFreq = 0
        <5>1. globalStep - globalStep = SaveFreq * 0 + 0 /\ 0 \in 0..(SaveFreq - 1)
              /\ globalStep - globalStep \in Nat
          BY <1>1, <2>2
        <5>2. QED  BY <2>2, <5>1, DivUnique
      <4>2. \A k : k \in nextSave .. globalStep <=> k = globalStep
        BY <1>1, <3>1
      <4>3. n < globalStep
        BY <1>1, <2>1
      <4>4. QED  BY <2>4, <3>1, <4>1, <4>2, <4>3
    <3>3. Cardinality(crossed) = 1
      BY <3>2, FS_Singleton
    <3>4. nextSave' = FirstThreshold(globalStep)
      BY <1>1, <2>2, <3>1, <3>3
    <3>5. SaveBundle
      BY <1>1, <1>4, <3>2
    <3>6. /\ DOMAIN bundles' = DOMAIN bundles \cup {globalStep}
          /\ bundles'[globalStep] = [iteration |-> iteration', edges |-> edges', streak |-> streak']
      BY <3>5 DEF SaveBundle
    <3>7. Passed(globalStep)'
      BY <1>1, <2>1, <2>2, <3>6 DEF Passed
    <3>8. pc' \in {"loop", "done"}
      BY <1>1, <1>4
    <3>9. QED  BY <1>1, <3>4, <3>6, <3>7, <3>8 DEF ScheduleInv, ExitIsSaved, FirstThreshold
  <2>6. CASE globalStep % SaveFreq # 0
    <3>1. nextSave > globalStep /\ FirstThreshold(globalStep) = nextSave
      BY <1>4, <2>1, <2>6, ThresholdStep
    <3>2. crossed = {}
      BY <1>1, <2>1, <2>3, <2>4, <3>1
    <3>3. Cardinality(crossed) = 0
      BY <3>2, FS_EmptySet
    <3>4. nextSave' = FirstThreshold(globalStep)
      BY <1>1, <2>1, <2>2, <2>3, <3>1, <3>3
    <3>5. \A k \in Start + 1 .. globalStep : k % SaveFreq = 0 => k \in DOMAIN bundles
      BY <1>1, <2>1, <2>2, <2>6 DEF Passed
    <3>6. CASE globalStep >= Total
      <4>1. SaveBundle /\ pc' = "done"
        BY <1>1, <1>4, <3>6
      <4>2. QED  BY <1>1, <4>1 DEF SaveBundle, ScheduleInv, ExitIsSaved
    <3>7. CASE ~(globalStep >= Total)
      <4>1. UNCHANGED bundles /\ pc' = "loop"
        BY <1>1, <1>4, <3>2, <3>7
      <4>2. QED  BY <1>1, <3>4, <3>5, <4>1 DEF ScheduleInv, ExitIsSaved, Passed, FirstThreshold
    <3>8. QED  BY <3>6, <3>7
  <2>7. QED  BY <2>5, <2>6
<1>5. QED  BY <1>2, <1>3, <1>4

LEMMA ScheduleStep ==
  ASSUME TrainerTypeOK, ScheduleInv, [TrainerNext]_fitVars
  PROVE  ScheduleInv'
<1>1. CASE StartIteration \/ Generate \/ ReserveEdges
  BY <1>1, ScheduleQuiet DEF StartIteration, Generate, ReserveEdges
<1>2. CASE Finish
  <2>1. /\ pc' = "raised" \/ (pc' = "done" /\ SaveBundle)
        /\ UNCHANGED <<globalStep, iteration, edges, streak>>
    BY <1>2 DEF Finish, vars
  <2>2. CASE pc' = "done" /\ SaveBundle
    BY <2>1, <2>2 DEF SaveBundle, ScheduleInv, ExitIsSaved
  <2>3. QED  BY <2>1, <2>2, RaisedSchedule
<1>3. CASE GenerateRaises \/ ReservingRaises \/ BatchRejected \/ ActorFails
  BY <1>3, RaisedSchedule DEF GenerateRaises, ReservingRaises, BatchRejected, ActorFails, Fail
<1>4. CASE NoSample \/ Postpone \/ SkipZeroSignal
  <2>1. /\ pc = "decide" /\ UNCHANGED <<globalStep, nextSave>>
        /\ pc' = "raised" \/ (pc' = "loop" /\ UNCHANGED bundles)
    BY <1>4 DEF NoSample, Postpone, SkipZeroSignal, Proceeds, NonProgress
  <2>2. QED  BY <2>1, ScheduleQuiet, RaisedSchedule
<1>5. CASE \E report \in {"expected", "mismatch", "unparsed"} : ActorSucceeds(report)
  <2>1. /\ pc = "decide" /\ pc' = "updated" /\ globalStep' = globalStep + 1
        /\ UNCHANGED <<nextSave, bundles>> /\ globalStep \in Nat
    BY <1>5 DEF ActorSucceeds, Proceeds, TrainerTypeOK
  <2>2. globalStep' - 1 = globalStep
    BY <2>1
  <2>3. QED  BY <2>1, <2>2 DEF ScheduleInv, ExitIsSaved, Passed, FirstThreshold
<1>6. CASE AfterUpdate
  BY <1>6, ScheduleAfterUpdate
<1>7. CASE UNCHANGED fitVars
  <2>1. UNCHANGED <<pc, globalStep, nextSave, bundles, iteration, edges, streak>>
    BY <1>7 DEF fitVars, trainerVars, vars
  <2>2. QED  BY <2>1 DEF ScheduleInv, ExitIsSaved, Passed, FirstThreshold
<1>8. QED
  BY <1>1, <1>2, <1>3, <1>4, <1>5, <1>6, <1>7 DEF TrainerNext

(* A run that goes on has a bundle of every save_freq multiple it passed,   *)
(* and one that ends normally has a bundle of its last state, for any       *)
(* thresholds, totals and starting steps.                                   *)
THEOREM SavesAlwaysComplete == TrainerSpec => []SavesComplete
<1>1. TrainerInit => ScheduleInv
  BY TrainerAssumption DEF TrainerInit, ScheduleInv, ExitIsSaved, Passed
<1>2. TrainerTypeOK /\ ScheduleInv /\ [TrainerNext]_fitVars => ScheduleInv'
  BY ScheduleStep
<1>3. ScheduleInv => SavesComplete
  BY DEF ScheduleInv, SavesComplete, SaveOnSchedule, Passed
<1>4. QED  BY <1>1, <1>2, <1>3, TrainerTyped, PTL DEF TrainerSpec
===============================================================================
