------------------------ MODULE TriggerSampleProofs ------------------------
(***************************************************************************)
(* Proofs about the trigger sample for every number of objects and every   *)
(* world: it is a client World allows, and its counters are right.         *)
(***************************************************************************)
EXTENDS TriggerSample, WorldProofs, FiniteSetTheorems

-----------------------------------------------------------------------------
(* The inductive invariant.                                                *)

\* Updates run in the loop only.
StepOK ==
    /\ step \in {"SetUp", "SetContactListener", "CreateBody", "ConfigureBody",
                 "CreateCollider", "ConfigureCollider", "Loop"}
    /\ step = "SetUp" => phase = "down"
    /\ step \notin {"SetUp", "Loop"} => phase = "setup"

\* The loop body holds a reference the world gave it.
MadeOK ==
    /\ step \in {"ConfigureBody", "CreateCollider"} => made \subseteq bodyRefs
    /\ step = "ConfigureCollider" => made \subseteq colRefs

\* No pair is open before there are counters.
PairsOK ==
    /\ IsFiniteSet(colRefPairs)
    /\ step \in {"SetUp", "SetContactListener"} => colRefPairs = {}

\* The colliders of the sample are in the first slots.
Filled(n) ==
    /\ colRefs = {[Index |-> i, GenIndex |-> 0] : i \in 1..n}
    /\ \A i \in 1..Len(colliders) : colliders[i].IsAttached <=> i <= n

SlotsOK ==
    \E n \in 0..NbObjects :
        /\ Filled(n)
        /\ step \in {"SetUp", "SetContactListener"} => n = 0
        /\ step \in {"CreateBody", "ConfigureBody", "CreateCollider"} => n < NbObjects

SInv == /\ IInv /\ SampleTypeOK /\ StepOK /\ MadeOK /\ PairsOK /\ SlotsOK /\ VisitsAttached
        /\ CallbacksInRange /\ CountersCountOpenPairs

-----------------------------------------------------------------------------
(* Lemmas about the counters.                                              *)

OpenPairsOf(pairs, i) == {pair \in pairs : \E ref \in pair : ref.Index = i}

\* The open pairs of a collider are finitely many.
LEMMA OpenPairsOfFinite ==
    ASSUME NEW pairs, IsFiniteSet(pairs), NEW i
    PROVE  IsFiniteSet(OpenPairsOf(pairs, i)) /\ Cardinality(OpenPairsOf(pairs, i)) \in Nat
<1>1. OpenPairsOf(pairs, i) \subseteq pairs
  BY DEF OpenPairsOf
<1>2. IsFiniteSet(OpenPairsOf(pairs, i))
  BY <1>1, FS_Subset
<1> QED
  BY <1>2, FS_CardinalityType

\* One more open pair counts for the colliders it names.
LEMMA PairOpened ==
    ASSUME NEW pairs, IsFiniteSet(pairs), NEW pair, pair \notin pairs,
           NEW more, more = pairs \cup {pair}, NEW i
    PROVE  Cardinality(OpenPairsOf(more, i)) =
                IF \E ref \in pair : ref.Index = i
                THEN Cardinality(OpenPairsOf(pairs, i)) + 1
                ELSE Cardinality(OpenPairsOf(pairs, i))
<1>1. IsFiniteSet(OpenPairsOf(pairs, i))
  BY OpenPairsOfFinite
<1>2. CASE \E ref \in pair : ref.Index = i
  <2>1. OpenPairsOf(more, i) = OpenPairsOf(pairs, i) \cup {pair}
    BY <1>2 DEF OpenPairsOf
  <2>2. pair \notin OpenPairsOf(pairs, i)
    BY DEF OpenPairsOf
  <2> QED
    BY <1>1, <1>2, <2>1, <2>2, FS_AddElement
<1>3. CASE ~\E ref \in pair : ref.Index = i
  <2>1. OpenPairsOf(more, i) = OpenPairsOf(pairs, i)
    BY <1>3 DEF OpenPairsOf
  <2> QED
    BY <1>3, <2>1
<1> QED
  BY <1>2, <1>3

\* One less, too.
LEMMA PairClosed ==
    ASSUME NEW pairs, IsFiniteSet(pairs), NEW pair \in pairs,
           NEW fewer, fewer = pairs \ {pair}, NEW i
    PROVE  Cardinality(OpenPairsOf(fewer, i)) =
                IF \E ref \in pair : ref.Index = i
                THEN Cardinality(OpenPairsOf(pairs, i)) - 1
                ELSE Cardinality(OpenPairsOf(pairs, i))
<1>1. IsFiniteSet(OpenPairsOf(pairs, i))
  BY OpenPairsOfFinite
<1>2. CASE \E ref \in pair : ref.Index = i
  <2>1. OpenPairsOf(fewer, i) = OpenPairsOf(pairs, i) \ {pair}
    BY <1>2 DEF OpenPairsOf
  <2>2. pair \in OpenPairsOf(pairs, i)
    BY <1>2 DEF OpenPairsOf
  <2> QED
    BY <1>1, <1>2, <2>1, <2>2, FS_RemoveElement
<1>3. CASE ~\E ref \in pair : ref.Index = i
  <2>1. OpenPairsOf(fewer, i) = OpenPairsOf(pairs, i)
    BY <1>3 DEF OpenPairsOf
  <2> QED
    BY <1>3, <2>1
<1> QED
  BY <1>2, <1>3

\* Counting leaves as many counters, of integers.
LEMMA CountedSeq ==
    ASSUME NEW nbr \in Seq(Int), NEW pair, NEW by \in Int
    PROVE  /\ Count(nbr, pair, by) \in Seq(Int) /\ Len(Count(nbr, pair, by)) = Len(nbr)
           /\ \A i \in 1..Len(nbr) : Count(nbr, pair, by)[i] =
                    IF \E ref \in pair : ref.Index = i THEN nbr[i] + by ELSE nbr[i]
<1>1. /\ Len(nbr) \in Nat /\ DOMAIN nbr = 1..Len(nbr)
      /\ \A i \in 1..Len(nbr) : nbr[i] \in Int
  BY LenProperties, ElementOfSeq
<1>2. /\ Count(nbr, pair, by) \in [1..Len(nbr) -> Int]
      /\ \A i \in 1..Len(nbr) : Count(nbr, pair, by)[i] =
                    IF \E ref \in pair : ref.Index = i THEN nbr[i] + by ELSE nbr[i]
  BY <1>1 DEF Count
<1> QED
  BY <1>1, <1>2, RewrittenSeq

\* Counters that are exact stay exact when the pair just opened is counted.
LEMMA OpenedCounted ==
    ASSUME NEW nbr \in Seq(Int), Len(nbr) = NbObjects, NEW pairs, IsFiniteSet(pairs),
           \A i \in 1..NbObjects : nbr[i] = Cardinality(OpenPairsOf(pairs, i)),
           NEW pair, pair \notin pairs, NEW more, more = pairs \cup {pair}
    PROVE  /\ Count(nbr, pair, 1) \in Seq(Int) /\ Len(Count(nbr, pair, 1)) = NbObjects
           /\ \A i \in 1..NbObjects : Count(nbr, pair, 1)[i] =
                    Cardinality(OpenPairsOf(more, i))
<1>1. 1 \in Int
  OBVIOUS
<1>2. /\ Count(nbr, pair, 1) \in Seq(Int) /\ Len(Count(nbr, pair, 1)) = Len(nbr)
      /\ \A i \in 1..Len(nbr) : Count(nbr, pair, 1)[i] =
                    IF \E ref \in pair : ref.Index = i THEN nbr[i] + 1 ELSE nbr[i]
  BY <1>1, CountedSeq
<1>3. ASSUME NEW i \in 1..NbObjects
      PROVE  Count(nbr, pair, 1)[i] = Cardinality(OpenPairsOf(more, i))
  <2>1. Cardinality(OpenPairsOf(more, i)) =
                IF \E ref \in pair : ref.Index = i
                THEN Cardinality(OpenPairsOf(pairs, i)) + 1
                ELSE Cardinality(OpenPairsOf(pairs, i))
    BY PairOpened
  <2>2. nbr[i] = Cardinality(OpenPairsOf(pairs, i))
    OBVIOUS
  <2>3. Count(nbr, pair, 1)[i] =
                IF \E ref \in pair : ref.Index = i THEN nbr[i] + 1 ELSE nbr[i]
    BY <1>2
  <2> QED
    BY <2>1, <2>2, <2>3
<1> QED
  BY <1>2, <1>3

\* And when the pair just closed is.
LEMMA ClosedCounted ==
    ASSUME NEW nbr \in Seq(Int), Len(nbr) = NbObjects, NEW pairs, IsFiniteSet(pairs),
           \A i \in 1..NbObjects : nbr[i] = Cardinality(OpenPairsOf(pairs, i)),
           NEW pair \in pairs, NEW fewer, fewer = pairs \ {pair}
    PROVE  /\ Count(nbr, pair, -1) \in Seq(Int) /\ Len(Count(nbr, pair, -1)) = NbObjects
           /\ \A i \in 1..NbObjects : Count(nbr, pair, -1)[i] =
                    Cardinality(OpenPairsOf(fewer, i))
<1>1. PICK by \in Int : by = -1
  OBVIOUS
<1>2. /\ Count(nbr, pair, by) \in Seq(Int) /\ Len(Count(nbr, pair, by)) = Len(nbr)
      /\ \A i \in 1..Len(nbr) : Count(nbr, pair, by)[i] =
                    IF \E ref \in pair : ref.Index = i THEN nbr[i] + by ELSE nbr[i]
  BY CountedSeq
<1>3. ASSUME NEW i \in 1..NbObjects
      PROVE  Count(nbr, pair, by)[i] = Cardinality(OpenPairsOf(fewer, i))
  <2>1. Cardinality(OpenPairsOf(fewer, i)) =
                IF \E ref \in pair : ref.Index = i
                THEN Cardinality(OpenPairsOf(pairs, i)) - 1
                ELSE Cardinality(OpenPairsOf(pairs, i))
    BY PairClosed
  <2>2. nbr[i] = Cardinality(OpenPairsOf(pairs, i))
    OBVIOUS
  <2>3. Count(nbr, pair, by)[i] =
                IF \E ref \in pair : ref.Index = i THEN nbr[i] + by ELSE nbr[i]
    BY <1>2
  <2>4. nbr[i] \in Int
    BY LenProperties, ElementOfSeq
  <2> QED
    BY <1>1, <2>1, <2>2, <2>3, <2>4
<1> QED
  BY <1>1, <1>2, <1>3

\* The world hears of a trigger exactly when a pair begins or ends.
LEMMA CallbackEffect ==
    ASSUME IInv, VisitPair
    PROVE  \/ /\ Hears("OnTriggerEnter")
              /\ HeardPair \notin colRefPairs /\ colRefPairs' = colRefPairs \cup {HeardPair}
           \/ /\ ~Hears("OnTriggerEnter") /\ Hears("OnTriggerExit")
              /\ HeardPair \in colRefPairs /\ colRefPairs' = colRefPairs \ {HeardPair}
           \/ /\ ~Hears("OnTriggerEnter") /\ ~Hears("OnTriggerExit")
              /\ colRefPairs' = colRefPairs
<1>1. PICK v \in visits :
            \/ PhysicalContact(v) \/ PhysicalMiss(v)
            \/ TriggerEnter(v) \/ TriggerExit(v) \/ TriggerUnchanged(v)
  BY DEF VisitPair
<1>2. Pair(v.a, v.b) \subseteq Ref
  BY DEF IInv, TypeOK, Pair
<1>3. ASSUME NEW event \in Events, calls' = Told(event, v)
      PROVE  /\ calls'[Len(calls')] = [event |-> event, pair |-> Pair(v.a, v.b)]
             /\ Len(calls') = Len(calls) + 1
  BY <1>2, <1>3 DEF Told, IInv, TypeOK
<1>4. CASE calls' = calls /\ colRefPairs' = colRefPairs
  <2>1. Len(calls') # Len(calls) + 1
    <3>1. Len(calls) \in Nat
      BY LenProperties DEF IInv, TypeOK
    <3> QED
      BY <1>4, <3>1
  <2> QED
    BY <1>4, <2>1 DEF Hears
<1>5. CASE PhysicalContact(v) /\ calls' # calls
  BY <1>3, <1>5 DEF PhysicalContact, Events, Hears
<1>6. CASE PhysicalMiss(v) /\ calls' # calls
  BY <1>3, <1>6 DEF PhysicalMiss, Events, Hears
<1>7. CASE TriggerEnter(v)
  BY <1>3, <1>7 DEF TriggerEnter, Emplaced, Events, Hears, HeardPair
<1>8. CASE TriggerExit(v)
  BY <1>3, <1>8 DEF TriggerExit, Events, Hears, HeardPair
<1> QED
  BY <1>1, <1>4, <1>5, <1>6, <1>7, <1>8
  DEF PhysicalContact, PhysicalMiss, TriggerUnchanged

-----------------------------------------------------------------------------
(* Every step of the sample is one of the world.                           *)

\* Every step of the sample is a step of the world, or leaves it alone.
LEMMA SampleStepIsWorldStep == SInv /\ [SampleNext]_sampleVars => [Next]_vars
<1> SUFFICES ASSUME SInv, [SampleNext]_sampleVars PROVE [Next]_vars
  OBVIOUS
<1>1. CASE BeginSetUp
  BY <1>1 DEF BeginSetUp, Next
<1>2. CASE Listen
  BY <1>2 DEF Listen, Next
<1>3. CASE AddBody
  BY <1>3 DEF AddBody, Next
<1>4. CASE PlaceBody
  BY <1>4, TriggerSampleAssumption DEF PlaceBody, SInv, MadeOK, Next
<1>5. CASE AddCollider
  BY <1>5 DEF AddCollider, SInv, MadeOK, Next
<1>6. CASE ShapeCollider
  BY <1>6, TriggerSampleAssumption DEF ShapeCollider, SInv, MadeOK, Next
<1>7. CASE UpdateSample \/ Callback \/ Return
  BY <1>7 DEF UpdateSample, Callback, Return, Next, Running
<1>8. CASE TearDownSample
  BY <1>8 DEF TearDownSample, Next
<1>9. CASE UNCHANGED sampleVars
  BY <1>9 DEF sampleVars
<1> QED
  BY <1>1, <1>2, <1>3, <1>4, <1>5, <1>6, <1>7, <1>8, <1>9 DEF SampleNext

-----------------------------------------------------------------------------
(* The slots of the colliders.                                             *)

\* The first n references are n.
LEMMA FilledIsCounted ==
    ASSUME NEW n \in Nat, Filled(n)
    PROVE  Cardinality(colRefs) = n
<1> DEFINE ref == [i \in 1..n |-> [Index |-> i, GenIndex |-> 0]]
<1>1. IsFiniteSet(1..n) /\ Cardinality(1..n) = n
  BY FS_Interval
<1>2. ref \in Bijection(1..n, colRefs)
  <2>1. colRefs = {[Index |-> i, GenIndex |-> 0] : i \in 1..n}
    BY DEF Filled
  <2>2. ref \in [1..n -> colRefs]
    BY <2>1
  <2>3. \A i, j \in 1..n : ref[i] = ref[j] => i = j
    <3>1. \A i \in 1..n : ref[i].Index = i
      OBVIOUS
    <3> QED
      BY <3>1
  <2>4. \A r \in colRefs : \E i \in 1..n : ref[i] = r
    BY <2>1
  <2> HIDE DEF ref
  <2> QED
    BY <2>2, <2>3, <2>4 DEF Bijection, Injection, Surjection, IsInjective
<1>3. ExistsBijection(1..n, colRefs)
  BY <1>2 DEF ExistsBijection
<1> QED
  BY <1>1, <1>3, FS_Bijection

\* CreateCollider takes the slot behind the last one.
LEMMA SlotBehindIsTaken ==
    ASSUME IInv, NEW n \in Nat, Filled(n), NEW bodyRef, CreateCollider(bodyRef)
    PROVE  Filled(n + 1)'
<1> DEFINE full == \A i \in 1..Len(colliders) : colliders[i].IsAttached
           size == IF full THEN 2 * Len(colliders) ELSE Len(colliders)
           slot == Resized(colliders, size, DefaultCollider)
           gens == Resized(ColliderGenIndices, size, 0)
<1>1. /\ colliders \in Seq(Collider) /\ ColliderGenIndices \in Seq(Nat)
      /\ Len(colliders) \in Nat /\ Len(ColliderGenIndices) = Len(colliders)
      /\ size \in Nat /\ Len(colliders) <= size
  BY LenProperties DEF IInv, TypeOK
<1> HIDE DEF full, size
<1>2. PICK index \in 1..size :
        /\ ~slot[index].IsAttached
        /\ \A i \in 1..index - 1 : slot[i].IsAttached
        /\ colliders' = [slot EXCEPT ![index].IsAttached = TRUE, ![index].BodyRef = bodyRef]
        /\ ColliderGenIndices' = gens
        /\ colRefs' = colRefs \cup
                {[Index |-> index, GenIndex |-> ColliderGenIndices'[index]]}
  BY DEF CreateCollider, full, size
<1>3. gens[index] = 0
  BY <1>1, <1>2 DEF Resized, IInv, GenerationsZero
<1>4. /\ slot \in Seq(Collider) /\ Len(slot) = size
      /\ \A i \in 1..size : slot[i] = IF i <= Len(colliders) THEN colliders[i]
                                      ELSE DefaultCollider
  <2>1. slot \in Seq(Collider) /\ Len(slot) = size
    BY <1>1, ResizedSeq, Defaults
  <2>2. \A i \in 1..size : slot[i] = IF i <= Len(colliders) THEN colliders[i]
                                     ELSE DefaultCollider
    BY DEF Resized
  <2> QED
    BY <2>1, <2>2
<1> HIDE DEF slot, gens
<1>5. n <= Len(colliders)
  <2>1. CASE n = 0
    BY <1>1, <2>1
  <2>2. CASE n # 0
    <3>1. PICK ref \in colRefs : ref.Index = n
      <4>1. [Index |-> n, GenIndex |-> 0] \in colRefs
        BY <2>2 DEF Filled
      <4> QED
        BY <4>1
    <3>2. ref.Index \in 1..Len(colliders)
      BY DEF IInv, ColRefsLive
    <3> QED
      BY <1>1, <3>1, <3>2
  <2> QED
    BY <2>1, <2>2
<1>6. \A i \in 1..size : slot[i].IsAttached <=> i <= n
  <2>1. TAKE i \in 1..size
  <2>2. CASE i <= Len(colliders)
    BY <1>1, <1>4, <2>2 DEF Filled
  <2>3. CASE ~(i <= Len(colliders))
    <3>1. ~slot[i].IsAttached
      BY <1>4, <2>3, Defaults
    <3> QED
      BY <1>1, <1>5, <2>3, <3>1
  <2> QED
    BY <2>2, <2>3
<1>7. index = n + 1
  <2>1. index > n
    BY <1>1, <1>2, <1>6
  <2>2. ASSUME index > n + 1 PROVE FALSE
    <3>1. n + 1 \in 1..index - 1 /\ n + 1 \in 1..size
      BY <1>1, <1>2, <2>2
    <3> QED
      BY <1>2, <1>6, <3>1
  <2> QED
    BY <1>1, <1>2, <2>1, <2>2
<1>8. /\ DOMAIN colliders' = 1..size /\ Len(colliders') = size
      /\ \A i \in 1..size : colliders'[i].IsAttached <=> (i = index \/ slot[i].IsAttached)
  <2>1. DOMAIN slot = 1..size /\ \A i \in 1..size : slot[i] \in Collider
    BY <1>4, LenProperties, ElementOfSeq
  <2>2. /\ colliders' = [i \in 1..size |-> colliders'[i]]
        /\ \A i \in 1..size : colliders'[i].IsAttached <=> (i = index \/ slot[i].IsAttached)
    BY <1>2, <2>1 DEF Collider
  <2>3. colliders' \in [1..size -> {colliders'[i] : i \in 1..size}]
    BY <2>2
  <2>4. Len(colliders') = size
    BY <1>1, <2>3, RewrittenSeq
  <2> QED
    BY <2>2, <2>4
<1>9. colRefs' = {[Index |-> i, GenIndex |-> 0] : i \in 1..n + 1}
  <2>1. colRefs = {[Index |-> i, GenIndex |-> 0] : i \in 1..n}
    BY DEF Filled
  <2>2. colRefs' = colRefs \cup {[Index |-> n + 1, GenIndex |-> 0]}
    BY <1>2, <1>3, <1>7
  <2>3. \A i : i \in 1..n + 1 <=> i \in 1..n \/ i = n + 1
    OBVIOUS
  <2> QED
    BY <2>1, <2>2, <2>3
<1>10. \A i \in 1..Len(colliders') : colliders'[i].IsAttached <=> i <= n + 1
  BY <1>1, <1>6, <1>7, <1>8
<1> QED
  BY <1>9, <1>10 DEF Filled

\* The other calls leave who is in use.
LEMMA FilledUnchanged ==
    ASSUME NEW n, Filled(n), UNCHANGED colRefs, Len(colliders') = Len(colliders),
           \A i \in 1..Len(colliders) : colliders'[i].IsAttached = colliders[i].IsAttached
    PROVE  Filled(n)'
BY DEF Filled

\* Configuring a collider keeps those in use in the first slots.
LEMMA ConfigureKeepsAttached ==
    ASSUME IInv, NEW ref, NEW shape, NEW isTrigger, ConfigureCollider(ref, shape, isTrigger)
    PROVE  /\ Len(colliders') = Len(colliders)
           /\ \A i \in 1..Len(colliders) : colliders'[i].IsAttached = colliders[i].IsAttached
<1>1. /\ Len(colliders) \in Nat /\ DOMAIN colliders = 1..Len(colliders)
      /\ \A i \in 1..Len(colliders) : colliders[i] \in Collider
  BY LenProperties, ElementOfSeq DEF IInv, TypeOK
<1> DEFINE position == GetBody(GetCollider(ref).BodyRef).Position
<1>2. colliders' = [colliders EXCEPT ![ref.Index].Shape = shape,
                                     ![ref.Index].BodyPosition = position,
                                     ![ref.Index].IsTrigger = isTrigger]
  BY DEF ConfigureCollider
<1> HIDE DEF position
<1>3. /\ colliders' = [i \in 1..Len(colliders) |-> colliders'[i]]
      /\ \A i \in 1..Len(colliders) : colliders'[i].IsAttached = colliders[i].IsAttached
  BY <1>1, <1>2 DEF Collider
<1>4. colliders' \in [1..Len(colliders) -> {colliders'[i] : i \in 1..Len(colliders)}]
  BY <1>3
<1>5. Len(colliders') = Len(colliders)
  BY <1>1, <1>4, RewrittenSeq
<1> QED
  BY <1>3, <1>5

-----------------------------------------------------------------------------
(* Every step preserves the invariant.                                     *)

\* The invariant of the sample holds at the start,
LEMMA SampleInitEstablishes == SampleInit => SInv
<1> SUFFICES ASSUME SampleInit PROVE SInv
  OBVIOUS
<1>1. IInv
  BY InitEstablishes DEF SampleInit
<1>2. SampleTypeOK
  BY EmptySeq DEF SampleInit, SampleTypeOK
<1>3. SlotsOK
  <2>1. Filled(0)
    <3>1. colRefs = {} /\ Len(colliders) = 0
      BY EmptySeq DEF SampleInit, Init
    <3> QED
      BY <3>1 DEF Filled
  <2>2. 0 \in 0..NbObjects /\ step = "SetUp"
    BY TriggerSampleAssumption DEF SampleInit
  <2> QED
    BY <2>1, <2>2 DEF SlotsOK
<1>4. StepOK /\ MadeOK /\ VisitsAttached
  BY DEF SampleInit, Init, StepOK, MadeOK, VisitsAttached
<1>5. PairsOK /\ CallbacksInRange /\ CountersCountOpenPairs
  <2>1. colRefPairs = {} /\ DOMAIN triggerNbrPerCollider = {}
    BY DEF SampleInit, Init
  <2> QED
    BY <2>1, FS_EmptySet DEF PairsOK, CallbacksInRange, CountersCountOpenPairs
<1> QED
  BY <1>1, <1>2, <1>3, <1>4, <1>5 DEF SInv

\* What the counters are about stays as it is.
CountersUnchanged == UNCHANGED <<colRefPairs, triggerNbrPerCollider>>

\* A step that leaves the counters and the open pairs alone keeps the counting.
LEMMA CountersKept ==
    ASSUME CallbacksInRange, CountersCountOpenPairs, CountersUnchanged
    PROVE  CallbacksInRange' /\ CountersCountOpenPairs'
BY DEF CountersUnchanged, CallbacksInRange, CountersCountOpenPairs

\* is kept by the start of SetUp, on a world that is fresh,
LEMMA BeginSetUpPreserves == SInv /\ IInv' /\ BeginSetUp => SInv'
<1> SUFFICES ASSUME SInv, IInv', BeginSetUp PROVE SInv'
  OBVIOUS
<1>1. phase = "down" /\ colRefs = {} /\ visits = {}
  BY DEF BeginSetUp, SetUp, SInv, IInv, PhaseOK
<1>2. SampleTypeOK'
  BY DEF BeginSetUp, SInv, SampleTypeOK
<1>3. SlotsOK'
  <2>1. Filled(0)'
    <3>1. InitSize \in Nat /\ ~DefaultCollider.IsAttached
      BY Defaults
    <3>2. Len(colliders') = InitSize
      <4>1. colliders \in Seq(Collider)
        BY DEF SInv, IInv, TypeOK
      <4> QED
        BY <3>1, <4>1, ResizedSeq, Defaults DEF BeginSetUp, SetUp
    <3>3. Len(colliders) = 0
      BY <1>1, EmptySeq DEF SInv, IInv, PhaseOK
    <3>4. \A i \in 1..InitSize : colliders'[i] = DefaultCollider
      BY <3>1, <3>3 DEF BeginSetUp, SetUp, Resized
    <3>5. colRefs' = {}
      BY <1>1 DEF BeginSetUp, SetUp, client
    <3> QED
      BY <3>1, <3>2, <3>4, <3>5 DEF Filled
  <2> QED
    BY <2>1, TriggerSampleAssumption DEF BeginSetUp, SlotsOK
<1>4. (StepOK /\ MadeOK /\ PairsOK)'
  BY DEF BeginSetUp, SetUp, SInv, StepOK, MadeOK, PairsOK
<1>5. VisitsAttached'
  BY <1>1 DEF BeginSetUp, SetUp, VisitsAttached
<1>6. (CallbacksInRange /\ CountersCountOpenPairs)'
  BY CountersKept DEF BeginSetUp, SetUp, SInv, CountersUnchanged
<1> QED
  BY <1>2, <1>3, <1>4, <1>5, <1>6 DEF SInv

\* The counters start at zero, and no pair is open.
LEMMA ListenPreserves == SInv /\ IInv' /\ Listen => SInv'
<1> SUFFICES ASSUME SInv, IInv', Listen PROVE SInv'
  OBVIOUS
<1>1. NbObjects \in Nat /\ NbObjects > 0
  BY TriggerSampleAssumption
<1>2. colRefPairs' = {}
  BY DEF Listen, SetContactListener, SInv, PairsOK
<1>3. triggerNbrPerCollider' = Resized(triggerNbrPerCollider, NbObjects, 0)
  BY DEF Listen
<1>4. /\ triggerNbrPerCollider' \in Seq(Int) /\ Len(triggerNbrPerCollider') = NbObjects
      /\ DOMAIN triggerNbrPerCollider' = 1..NbObjects
      /\ \A i \in 1..NbObjects : triggerNbrPerCollider'[i] = 0
  <2>1. triggerNbrPerCollider \in Seq(Int) /\ Len(triggerNbrPerCollider) = 0
    BY DEF Listen, SInv, SampleTypeOK
  <2>2. triggerNbrPerCollider' \in Seq(Int) /\ Len(triggerNbrPerCollider') = NbObjects
    <3>1. /\ Resized(triggerNbrPerCollider, NbObjects, 0) \in Seq(Int)
          /\ Len(Resized(triggerNbrPerCollider, NbObjects, 0)) = NbObjects
      <4>1. 0 \in Int
        OBVIOUS
      <4> QED
        BY <1>1, <2>1, <4>1, ResizedSeq, Zenon
    <3> QED
      BY <1>3, <3>1
  <2> QED
    BY <1>1, <1>3, <2>1, <2>2 DEF Resized
<1>5. SampleTypeOK'
  BY <1>4 DEF Listen, SInv, SampleTypeOK
<1>6. SlotsOK'
  <2>1. PICK n \in 0..NbObjects : Filled(n) /\ n = 0
    BY DEF Listen, SInv, SlotsOK
  <2>2. Filled(n)'
    BY <2>1 DEF Listen, SetContactListener, slots, client, Filled
  <2> QED
    BY <1>1, <2>1, <2>2 DEF Listen, SlotsOK
<1>7. (StepOK /\ MadeOK /\ VisitsAttached)'
  BY DEF Listen, SetContactListener, slots, SInv, StepOK, MadeOK, VisitsAttached
<1>8. (PairsOK /\ CallbacksInRange)'
  BY <1>2, FS_EmptySet DEF Listen, PairsOK, CallbacksInRange
<1>9. CountersCountOpenPairs'
  <2>1. \A i : {pair \in colRefPairs' : \E ref \in pair : ref.Index = i} = {}
    BY <1>2
  <2> QED
    BY <1>4, <2>1, FS_EmptySet DEF CountersCountOpenPairs
<1> QED
  BY <1>5, <1>6, <1>7, <1>8, <1>9 DEF SInv

\* by TearDown, which leaves no counters to keep,
LEMMA TearDownSamplePreserves == SInv /\ IInv' /\ TearDownSample => SInv'
<1> SUFFICES ASSUME SInv, IInv', TearDownSample PROVE SInv'
  OBVIOUS
<1>1. /\ colRefPairs' = {} /\ colRefs' = {} /\ triggerNbrPerCollider' = <<>>
      /\ colliders' = <<>> /\ visits' = {} /\ step' = "SetUp" /\ phase' = "down"
      /\ made' = made
  BY DEF TearDownSample, TearDown, ClientTurn, SInv, IInv, PhaseOK
<1>2. SampleTypeOK'
  BY <1>1, EmptySeq DEF SInv, SampleTypeOK
<1>3. SlotsOK'
  <2>1. Filled(0)'
    <3>1. Len(colliders') = 0
      BY <1>1, EmptySeq
    <3> QED
      BY <1>1, <3>1 DEF Filled
  <2> QED
    BY <1>1, <2>1, TriggerSampleAssumption DEF SlotsOK
<1>4. (StepOK /\ MadeOK /\ VisitsAttached)'
  BY <1>1 DEF StepOK, MadeOK, VisitsAttached
<1>5. (PairsOK /\ CallbacksInRange)'
  BY <1>1, FS_EmptySet DEF PairsOK, CallbacksInRange
<1>6. CountersCountOpenPairs'
  BY <1>1 DEF CountersCountOpenPairs
<1> QED
  BY <1>2, <1>3, <1>4, <1>5, <1>6 DEF SInv

\* The loop body of SampleSetUp: it opens no pair and counts nothing.
LEMMA LoopBodyPreserves ==
    SInv /\ IInv' /\ (AddBody \/ PlaceBody \/ AddCollider \/ ShapeCollider) => SInv'
<1> SUFFICES ASSUME SInv, IInv', AddBody \/ PlaceBody \/ AddCollider \/ ShapeCollider
             PROVE  SInv'
  OBVIOUS
<1>1. PICK n \in 0..NbObjects :
        /\ Filled(n)
        /\ step \in {"CreateBody", "ConfigureBody", "CreateCollider"} => n < NbObjects
  BY DEF SInv, SlotsOK
<1>2. NbObjects \in Nat /\ n \in Nat /\ NbObjects > 0
  BY TriggerSampleAssumption
<1>3. /\ CountersUnchanged /\ UNCHANGED <<visits, phase>>
      /\ step \notin {"SetUp", "SetContactListener", "Loop"}
      /\ step' \notin {"SetUp", "SetContactListener"}
      /\ step' \in {"CreateBody", "ConfigureBody", "CreateCollider", "ConfigureCollider",
                    "Loop"}
  BY DEF AddBody, PlaceBody, AddCollider, ShapeCollider, CreateBody, ConfigureBody,
         CreateCollider, ConfigureCollider, CountersUnchanged
<1>4. (CallbacksInRange /\ CountersCountOpenPairs)'
  BY <1>3, CountersKept DEF SInv
<1>5. (StepOK /\ PairsOK)'
  BY <1>3 DEF SInv, StepOK, PairsOK, CountersUnchanged
<1>6. VisitsAttached'
  BY <1>3 DEF SInv, IInv, PhaseOK, StepOK, VisitsAttached
<1>7. MadeOK' /\ made' \subseteq Ref
  <2>1. CASE AddBody
    BY <2>1 DEF AddBody, MadeOK, IInv, TypeOK
  <2>2. CASE PlaceBody
    BY <2>2 DEF PlaceBody, ConfigureBody, client, SInv, MadeOK, SampleTypeOK
  <2>3. CASE AddCollider
    BY <2>3 DEF AddCollider, MadeOK, IInv, TypeOK
  <2>4. CASE ShapeCollider
    BY <2>4 DEF ShapeCollider, MadeOK
  <2> QED
    BY <2>1, <2>2, <2>3, <2>4
<1>8. SampleTypeOK'
  BY <1>3, <1>7 DEF SInv, SampleTypeOK, CountersUnchanged
<1>9. SlotsOK'
  <2>1. CASE AddBody \/ PlaceBody
    <3>1. UNCHANGED <<colRefs, colliders>> /\ step \in {"CreateBody", "ConfigureBody"}
          /\ step' \in {"ConfigureBody", "CreateCollider"}
      BY <2>1 DEF AddBody, PlaceBody, CreateBody, ConfigureBody, client
    <3>2. Filled(n)'
      BY <1>1, <3>1 DEF Filled
    <3> QED
      BY <1>1, <3>1, <3>2 DEF SlotsOK
  <2>2. CASE AddCollider
    <3>1. Filled(n + 1)'
      BY <1>1, <1>2, <2>2, SlotBehindIsTaken DEF AddCollider, SInv
    <3>2. n + 1 \in 0..NbObjects /\ step' = "ConfigureCollider"
      BY <1>1, <1>2, <2>2 DEF AddCollider
    <3> QED
      BY <3>1, <3>2 DEF SlotsOK
  <2>3. CASE ShapeCollider
    <3>1. UNCHANGED colRefs
      BY <2>3 DEF ShapeCollider, ConfigureCollider, client
    <3>2. /\ Len(colliders') = Len(colliders)
          /\ \A i \in 1..Len(colliders) : colliders'[i].IsAttached = colliders[i].IsAttached
      BY <2>3, ConfigureKeepsAttached DEF ShapeCollider, SInv
    <3>3. Filled(n)'
      BY <1>1, <3>1, <3>2, FilledUnchanged
    <3>4. Cardinality(colRefs) = n
      BY <1>1, <1>2, FilledIsCounted
    <3>5. step' = IF n < NbObjects THEN "CreateBody" ELSE "Loop"
      BY <2>3, <3>4 DEF ShapeCollider
    <3> QED
      BY <1>2, <3>3, <3>5 DEF SlotsOK
  <2> QED
    BY <2>1, <2>2, <2>3
<1> QED
  BY <1>4, <1>5, <1>6, <1>7, <1>8, <1>9 DEF SInv

\* What happens in the loop while no callback comes.
LEMMA LoopPreserves == SInv /\ IInv' /\ (UpdateSample \/ Return) => SInv'
<1> SUFFICES ASSUME SInv, IInv', UpdateSample \/ Return PROVE SInv'
  OBVIOUS
<1>1. /\ CountersUnchanged /\ UNCHANGED <<step, made, colRefs, bodyRefs>>
      /\ phase' \in {"update", "frame"}
  BY DEF UpdateSample, Return, Update, UpdateReturns, CountersUnchanged, client, slots
<1>2. step = "Loop"
  BY DEF UpdateSample, Return, UpdateReturns, SInv, StepOK
<1>3. (CallbacksInRange /\ CountersCountOpenPairs)'
  BY <1>1, CountersKept DEF SInv
<1>4. (SampleTypeOK /\ StepOK /\ MadeOK /\ PairsOK)'
  BY <1>1, <1>2 DEF SInv, SampleTypeOK, StepOK, MadeOK, PairsOK, CountersUnchanged
<1>5. /\ Len(colliders') = Len(colliders)
      /\ \A i \in 1..Len(colliders) : colliders'[i].IsAttached = colliders[i].IsAttached
      /\ VisitsAttached'
  <2>1. CASE UpdateSample
    BY <2>1, UpdateVisitsAttached DEF UpdateSample, SInv
  <2>2. CASE Return
    BY <2>2 DEF Return, UpdateReturns, slots, SInv, VisitsAttached
  <2> QED
    BY <2>1, <2>2
<1>6. SlotsOK'
  <2>1. PICK n \in 0..NbObjects : Filled(n)
    BY DEF SInv, SlotsOK
  <2>2. Filled(n)'
    BY <1>1, <1>5, <2>1, FilledUnchanged
  <2> QED
    BY <1>1, <1>2, <2>2 DEF SlotsOK
<1> QED
  BY <1>3, <1>4, <1>5, <1>6 DEF SInv

\* A callback counts the pair that began or ended, for both its colliders.
LEMMA CallbackPreserves == SInv /\ IInv' /\ Callback => SInv'
<1> SUFFICES ASSUME SInv, IInv', Callback PROVE SInv'
  OBVIOUS
<1> DEFINE nbr == triggerNbrPerCollider
<1>1. step = "Loop" /\ VisitPair /\ UNCHANGED <<step, made>>
  BY DEF Callback, VisitPair, SInv, StepOK
<1>2. /\ nbr \in Seq(Int) /\ Len(nbr) = NbObjects /\ DOMAIN nbr = 1..NbObjects
      /\ IsFiniteSet(colRefPairs) /\ NbObjects \in Nat
      /\ \A i \in 1..NbObjects : nbr[i] \in Int
      /\ \A i \in 1..NbObjects : nbr[i] = Cardinality(OpenPairsOf(colRefPairs, i))
  <2>1. nbr \in Seq(Int) /\ Len(nbr) = NbObjects /\ NbObjects \in Nat
    BY <1>1, TriggerSampleAssumption DEF SInv, SampleTypeOK
  <2>2. DOMAIN nbr = 1..NbObjects /\ \A i \in 1..NbObjects : nbr[i] \in Int
    BY <2>1, LenProperties, ElementOfSeq
  <2> QED
    BY <2>1, <2>2 DEF SInv, PairsOK, CountersCountOpenPairs, OpenPairsOf
<1>3. /\ UNCHANGED <<colliders, colRefs, bodyRefs, phase>> /\ visits' \subseteq visits
  BY <1>1, VisitPairEffect DEF VisitPair, client, SInv
<1>4. (StepOK /\ MadeOK)'
  BY <1>1, <1>3 DEF SInv, StepOK, MadeOK
<1>5. VisitsAttached'
  BY <1>3 DEF SInv, VisitsAttached
<1>6. SlotsOK'
  BY <1>1, <1>3 DEF SInv, SlotsOK, Filled
<1>7. \A pair \in colRefPairs' \ colRefPairs : \A ref \in pair : ref.Index \in 1..NbObjects
  <2>1. PICK v \in visits : colRefPairs' \subseteq colRefPairs \cup {Pair(v.a, v.b)}
    BY <1>1 DEF VisitPair, PhysicalContact, PhysicalMiss, TriggerEnter, TriggerExit,
                TriggerUnchanged, Emplaced
  <2>2. \A ref \in {v.a, v.b} : ref.Index \in 1..Len(colliders)
                                /\ colliders[ref.Index].IsAttached
    BY DEF SInv, IInv, VisitsInRange, VisitsAttached
  <2>3. PICK n \in 0..NbObjects : Filled(n)
    BY DEF SInv, SlotsOK
  <2>4. \A ref \in {v.a, v.b} : ref.Index \in 1..NbObjects
    BY <1>2, <2>2, <2>3 DEF Filled
  <2> QED
    BY <2>1, <2>4 DEF Pair
<1>8. ASSUME nbr' \in Seq(Int), Len(nbr') = NbObjects, IsFiniteSet(colRefPairs'),
             \A i \in 1..NbObjects : nbr'[i] = Cardinality(OpenPairsOf(colRefPairs', i))
      PROVE  SInv'
  <2>1. DOMAIN nbr' = 1..NbObjects
    BY <1>8, LenProperties
  <2>2. SampleTypeOK'
    BY <1>1, <1>8 DEF SInv, SampleTypeOK
  <2>3. PairsOK'
    BY <1>1, <1>8 DEF PairsOK
  <2>4. CallbacksInRange'
    BY <1>2, <1>7, <2>1 DEF SInv, CallbacksInRange
  <2>5. CountersCountOpenPairs'
    BY <1>8, <2>1 DEF CountersCountOpenPairs, OpenPairsOf
  <2> QED
    BY <1>4, <1>5, <1>6, <2>2, <2>3, <2>4, <2>5 DEF SInv
<1> HIDE DEF nbr
<1>9. CASE /\ Hears("OnTriggerEnter")
           /\ HeardPair \notin colRefPairs /\ colRefPairs' = colRefPairs \cup {HeardPair}
  <2>1. nbr' = Count(nbr, HeardPair, 1)
    BY <1>9 DEF Callback, nbr
  <2>2. /\ Count(nbr, HeardPair, 1) \in Seq(Int) /\ Len(Count(nbr, HeardPair, 1)) = NbObjects
        /\ \A i \in 1..NbObjects : Count(nbr, HeardPair, 1)[i] =
                Cardinality(OpenPairsOf(colRefPairs', i))
    BY <1>2, <1>9, OpenedCounted
  <2>3. IsFiniteSet(colRefPairs')
    BY <1>2, <1>9, FS_AddElement
  <2> QED
    BY <1>8, <1>9, <2>1, <2>2, <2>3
<1>10. CASE /\ ~Hears("OnTriggerEnter") /\ Hears("OnTriggerExit")
            /\ HeardPair \in colRefPairs /\ colRefPairs' = colRefPairs \ {HeardPair}
  <2>1. nbr' = Count(nbr, HeardPair, -1)
    BY <1>10 DEF Callback, nbr
  <2>2. /\ Count(nbr, HeardPair, -1) \in Seq(Int) /\ Len(Count(nbr, HeardPair, -1)) = NbObjects
        /\ \A i \in 1..NbObjects : Count(nbr, HeardPair, -1)[i] =
                Cardinality(OpenPairsOf(colRefPairs', i))
    BY <1>2, <1>10, ClosedCounted
  <2>3. IsFiniteSet(colRefPairs')
    BY <1>2, <1>10, FS_RemoveElement
  <2> QED
    BY <1>8, <1>10, <2>1, <2>2, <2>3
<1>11. CASE /\ ~Hears("OnTriggerEnter") /\ ~Hears("OnTriggerExit")
            /\ colRefPairs' = colRefPairs
  <2>1. nbr' = nbr
    BY <1>11 DEF Callback, nbr
  <2> QED
    BY <1>2, <1>8, <1>11, <2>1
<1> QED
  BY <1>1, <1>9, <1>10, <1>11, CallbackEffect DEF SInv

\* by every step,
LEMMA SampleStepPreserves == SInv /\ [SampleNext]_sampleVars => SInv'
<1> SUFFICES ASSUME SInv, [SampleNext]_sampleVars PROVE SInv'
  OBVIOUS
<1>1. IInv'
  BY SampleStepIsWorldStep, StepPreserves DEF SInv
<1>2. CASE UNCHANGED sampleVars
  <2>1. UNCHANGED <<vars, triggerNbrPerCollider, step, made>>
    BY <1>2 DEF sampleVars
  <2>2. UNCHANGED <<colliders, colRefs, bodyRefs, colRefPairs, visits, phase>>
    BY <2>1 DEF vars, slots, client
  <2>3. (SampleTypeOK /\ StepOK /\ MadeOK /\ PairsOK)'
    BY <2>1, <2>2 DEF SInv, SampleTypeOK, StepOK, MadeOK, PairsOK
  <2>4. (SlotsOK /\ VisitsAttached)'
    BY <2>1, <2>2 DEF SInv, SlotsOK, Filled, VisitsAttached
  <2>5. (CallbacksInRange /\ CountersCountOpenPairs)'
    BY <2>1, <2>2, CountersKept DEF SInv, CountersUnchanged
  <2> QED
    BY <1>1, <2>3, <2>4, <2>5 DEF SInv
<1>3. CASE SampleNext
  BY <1>1, <1>3, BeginSetUpPreserves, ListenPreserves, LoopBodyPreserves, LoopPreserves,
     CallbackPreserves, TearDownSamplePreserves
  DEF SampleNext
<1> QED
  BY <1>2, <1>3

-----------------------------------------------------------------------------
(* The theorems.                                                           *)

\* and so it holds always.
LEMMA SampleInvariance == SampleSpec => []SInv
<1>1. SInv /\ [SampleNext]_sampleVars => SInv'
  BY SampleStepPreserves
<1> QED
  BY <1>1, SampleInitEstablishes, PTL DEF SampleSpec

\* The sample is a client World allows: it uses only references it holds, in
\* every frame and through every regeneration, so what is proved of the world's
\* safety holds of it.
THEOREM SampleIsAClient == SampleSpec => Init /\ [][Next]_vars
<1>1. SInv /\ [SampleNext]_sampleVars => [Next]_vars
  BY SampleStepIsWorldStep
<1>2. SampleInit => Init
  BY DEF SampleInit
<1> QED
  BY <1>1, <1>2, SampleInvariance, PTL DEF SampleSpec

\* There is a counter for every object from the moment the listener is set.
THEOREM SampleTypeCorrectness == SampleSpec => []SampleTypeOK
<1>1. SInv => SampleTypeOK
  BY DEF SInv
<1> QED
  BY <1>1, SampleInvariance, PTL

\* No callback indexes the counters out of their range, for every number of
\* objects and every initial size the vectors double from.
THEOREM CallbacksStayInRange == SampleSpec => []CallbacksInRange
<1>1. SInv => CallbacksInRange
  BY DEF SInv
<1> QED
  BY <1>1, SampleInvariance, PTL

\* Each collider's counter is the number of open pairs it is in, for any number
\* of objects, frames and regenerations.
THEOREM CountersAreExact == SampleSpec => []CountersCountOpenPairs
<1>1. SInv => CountersCountOpenPairs
  BY DEF SInv
<1> QED
  BY <1>1, SampleInvariance, PTL

-----------------------------------------------------------------------------
(* What the listener believes of the pairs.                                *)

\* The sample listens from its set-up on.
Listens == step \notin {"SetUp", "SetContactListener"} => contactListener

\* Every collider is a trigger but the one the set-up is about to configure.
AllTriggers ==
    \A i \in Attached :
        colliders[i].IsTrigger \/ (step = "ConfigureCollider" /\ \E ref \in made : ref.Index = i)

\* It configures one at a time.
MadeOne == step = "ConfigureCollider" => \A r, s \in made : r = s

\* Nothing is told before the loop, which finds every object made.
LoopOK ==
    /\ step # "Loop" => calls = <<>> /\ colRefPairs = {}
    /\ step = "Loop" => Filled(NbObjects)

\* The sample destroys no collider, so both of an open pair are in use.
OpenAttached ==
    \A pair \in colRefPairs : \E i, j \in Attached : i < j /\ pair = Couple(i, j)

LInv == /\ SInv /\ WInv /\ Listens /\ AllTriggers /\ MadeOne /\ LoopOK /\ OpenAttached
        /\ NoPairTwice

\* In the loop the world is one of triggers.
LEMMA LoopHasTriggers == LInv /\ step = "Loop" => OnlyTriggers
BY DEF LInv, Listens, AllTriggers, OnlyTriggers

\* Before the first SetUp there is nothing to tell,
LEMMA SampleInitListens == SampleInit => LInv
<1> SUFFICES ASSUME SampleInit PROVE LInv
  OBVIOUS
<1>1. SInv /\ WInv
  BY SampleInitEstablishes, InitHasNoWalk DEF SampleInit
<1>2. /\ calls = <<>> /\ colRefPairs = {} /\ Attached = {} /\ step = "SetUp"
  BY DEF SampleInit, Init, Attached
<1> QED
  BY <1>1, <1>2
  DEF LInv, Listens, AllTriggers, MadeOne, LoopOK, OpenAttached, NoPairTwice

\* A new collider joins those that are there, which stay what they are.
LEMMA CreateColliderKeeps ==
    ASSUME IInv, NEW bodyRef, CreateCollider(bodyRef)
    PROVE  /\ \A i \in 1..Len(colliders) : colliders'[i].IsTrigger = colliders[i].IsTrigger
           /\ \A r, s \in colRefs' \ colRefs : r = s
<1> DEFINE full == \A i \in 1..Len(colliders) : colliders[i].IsAttached
           size == IF full THEN 2 * Len(colliders) ELSE Len(colliders)
           slot == Resized(colliders, size, DefaultCollider)
<1>1. /\ colliders \in Seq(Collider) /\ Len(colliders) \in Nat
      /\ size \in Nat /\ Len(colliders) <= size
  BY LenProperties DEF IInv, TypeOK
<1> HIDE DEF full, size
<1>2. PICK index \in 1..size :
        /\ colliders' = [slot EXCEPT ![index].IsAttached = TRUE, ![index].BodyRef = bodyRef]
        /\ colRefs' = colRefs \cup {[Index |-> index, GenIndex |-> ColliderGenIndices'[index]]}
  BY DEF CreateCollider, full, size
<1>3. slot \in Seq(Collider) /\ Len(slot) = size
  BY <1>1, ResizedSeq, Defaults
<1>4. \A i \in 1..Len(colliders) : i \in 1..size /\ slot[i] = colliders[i]
  BY <1>1 DEF Resized
<1>5. \A i \in 1..size : i \in DOMAIN slot /\ slot[i] \in Collider
  BY <1>1, <1>3, LenProperties, ElementOfSeq
<1> HIDE DEF slot
<1>6. \A i \in 1..size : colliders'[i].IsTrigger = slot[i].IsTrigger
  BY <1>2, <1>5 DEF Collider
<1>7. \A i \in 1..Len(colliders) : colliders'[i].IsTrigger = colliders[i].IsTrigger
  BY <1>4, <1>6
<1> QED
  BY <1>2, <1>7

\* Configuring a collider as a trigger makes it one, and no other less.
LEMMA ConfigureMakesTrigger ==
    ASSUME IInv, NEW ref, NEW shape, ConfigureCollider(ref, shape, TRUE)
    PROVE  \A i \in 1..Len(colliders) :
                colliders'[i].IsTrigger <=> colliders[i].IsTrigger \/ i = ref.Index
<1>1. \A i \in 1..Len(colliders) : i \in DOMAIN colliders /\ colliders[i] \in Collider
  BY LenProperties, ElementOfSeq DEF IInv, TypeOK
<1> DEFINE position == GetBody(GetCollider(ref).BodyRef).Position
<1>2. colliders' = [colliders EXCEPT ![ref.Index].Shape = shape,
                                     ![ref.Index].BodyPosition = position,
                                     ![ref.Index].IsTrigger = TRUE]
  BY DEF ConfigureCollider
<1> HIDE DEF position
<1> QED
  BY <1>1, <1>2 DEF Collider

\* The set-up opens no pair and makes one trigger at a time.
LEMMA SetUpListens ==
    ASSUME LInv, SInv', WInv',
           BeginSetUp \/ Listen \/ AddBody \/ PlaceBody \/ AddCollider \/ ShapeCollider
    PROVE  LInv'
<1>1. /\ UNCHANGED <<calls, colRefPairs>> /\ step # "Loop"
      /\ UNCHANGED contactListener \/ (Listen /\ contactListener')
  <2>1. CASE BeginSetUp \/ Listen
    BY <2>1 DEF BeginSetUp, Listen, SetUp, SetContactListener, history
  <2>2. CASE AddBody \/ PlaceBody
    BY <2>2 DEF AddBody, PlaceBody, CreateBody, ConfigureBody, history
  <2>3. CASE AddCollider \/ ShapeCollider
    BY <2>3 DEF AddCollider, ShapeCollider, CreateCollider, ConfigureCollider, history
  <2> QED
    BY <2>1, <2>2, <2>3
<1>2. calls = <<>> /\ colRefPairs = {}
  BY <1>1 DEF LInv, LoopOK
<1>3. (NoPairTwice /\ OpenAttached)'
  BY <1>1, <1>2 DEF NoPairTwice, OpenAttached
<1>4. Listens'
  <2>1. CASE BeginSetUp
    BY <2>1 DEF BeginSetUp, Listens
  <2>2. CASE Listen
    BY <2>2 DEF Listen, SetContactListener, Listens
  <2>3. CASE ~BeginSetUp /\ ~Listen
    <3>1. step \notin {"SetUp", "SetContactListener"}
      BY <2>3 DEF AddBody, PlaceBody, AddCollider, ShapeCollider
    <3>2. contactListener
      BY <3>1 DEF LInv, Listens
    <3>3. contactListener'
      BY <1>1, <2>3, <3>2
    <3> QED
      BY <3>3 DEF Listens
  <2> QED
    BY <2>1, <2>2, <2>3
<1>5. (AllTriggers /\ MadeOne)'
  <2>1. CASE BeginSetUp \/ Listen
    <3>1. step' \in {"SetContactListener", "CreateBody"}
      BY <2>1 DEF BeginSetUp, Listen
    <3>2. \A i \in 1..Len(colliders') : ~colliders'[i].IsAttached
      <4>1. PICK n \in 0..NbObjects : Filled(n)' /\ n = 0
        <5>1. step \in {"SetUp", "SetContactListener"}
          BY <2>1 DEF BeginSetUp, Listen
        <5>2. PICK n \in 0..NbObjects : Filled(n) /\ n = 0
          BY <5>1 DEF LInv, SInv, SlotsOK
        <5>3. CASE Listen
          BY <5>2, <5>3 DEF Listen, SetContactListener, client, slots, Filled
        <5>4. CASE BeginSetUp
          <6>1. PICK m \in 0..NbObjects : Filled(m)' /\ step' = "SetContactListener"
                                         /\ (step' = "SetContactListener" => m = 0)
            BY <5>4 DEF SInv, SlotsOK, BeginSetUp
          <6> QED
            BY <6>1
        <5> QED
          BY <2>1, <5>3, <5>4
      <4> QED
        BY <4>1 DEF Filled
    <3>3. Attached' = {}
      <4>1. colliders' \in Seq(Collider)
        BY DEF SInv, IInv, TypeOK
      <4> QED
        BY <3>2, <4>1, LenProperties DEF Attached
    <3> QED
      BY <3>1, <3>3 DEF AllTriggers, MadeOne
  <2>2. CASE AddBody \/ PlaceBody
    <3>1. /\ UNCHANGED colliders /\ step # "ConfigureCollider" /\ step' # "ConfigureCollider"
      BY <2>2 DEF AddBody, PlaceBody, CreateBody, ConfigureBody
    <3> QED
      BY <3>1 DEF LInv, AllTriggers, MadeOne, Attached
  <2>3. CASE AddCollider
    <3>1. /\ made' = colRefs' \ colRefs /\ step = "CreateCollider" /\ step' = "ConfigureCollider"
          /\ \E bodyRef : CreateCollider(bodyRef)
      BY <2>3 DEF AddCollider
    <3>2. /\ \A i \in 1..Len(colliders) : colliders'[i].IsTrigger = colliders[i].IsTrigger
          /\ \A r, s \in made' : r = s
      BY <3>1, CreateColliderKeeps DEF LInv, SInv
    <3>3. ASSUME NEW i \in Attached'
          PROVE  colliders'[i].IsTrigger \/ \E ref \in made' : ref.Index = i
      <4>1. [Index |-> i, GenIndex |-> 0] \in colRefs'
        <5>1. PICK n \in 0..NbObjects : Filled(n)'
          BY DEF SInv, SlotsOK
        <5>2. i \in 1..Len(colliders') /\ colliders'[i].IsAttached
          <6>1. colliders' \in Seq(Collider)
            BY DEF SInv, IInv, TypeOK
          <6> QED
            BY <6>1, LenProperties DEF Attached
        <5>3. i <= n /\ i \in Nat
          BY <5>1, <5>2 DEF Filled
        <5> QED
          BY <5>1, <5>2, <5>3 DEF Filled
      <4>2. CASE [Index |-> i, GenIndex |-> 0] \in colRefs
        <5>1. i \in 1..Len(colliders) /\ colliders[i].IsAttached
          BY <4>2 DEF LInv, SInv, IInv, ColRefsLive
        <5>2. i \in Attached
          BY <5>1, SlotsAndRefs DEF LInv, SInv, Attached
        <5> QED
          BY <3>1, <3>2, <5>1, <5>2 DEF LInv, AllTriggers
      <4>3. CASE [Index |-> i, GenIndex |-> 0] \notin colRefs
        BY <3>1, <4>1, <4>3
      <4> QED
        BY <4>2, <4>3
    <3> QED
      BY <3>1, <3>2, <3>3 DEF AllTriggers, MadeOne
  <2>4. CASE ShapeCollider
    <3>1. PICK ref \in made, shape \in Shapes : ConfigureCollider(ref, shape, TRUE)
      BY <2>4 DEF ShapeCollider
    <3>2. /\ step = "ConfigureCollider" /\ step' # "ConfigureCollider"
          /\ \A r \in made : r = ref
      BY <2>4, <3>1 DEF ShapeCollider, LInv, MadeOne
    <3>3. \A i \in 1..Len(colliders) : colliders'[i].IsTrigger <=>
                colliders[i].IsTrigger \/ i = ref.Index
      BY <3>1, ConfigureMakesTrigger DEF LInv, SInv
    <3>4. Attached' = Attached
      <4>1. /\ Len(colliders') = Len(colliders)
            /\ \A i \in 1..Len(colliders) : colliders'[i].IsAttached = colliders[i].IsAttached
        BY <3>1, ConfigureKeepsAttached DEF LInv, SInv
      <4>2. colliders \in Seq(Collider) /\ colliders' \in Seq(Collider)
        BY DEF LInv, SInv, IInv, TypeOK
      <4> QED
        BY <4>1, <4>2, LenProperties DEF Attached
    <3>5. \A i \in Attached : colliders[i].IsTrigger \/ i = ref.Index
      BY <3>2 DEF LInv, AllTriggers
    <3> QED
      BY <3>2, <3>3, <3>4, <3>5, SlotsAndRefs DEF AllTriggers, MadeOne, LInv, SInv
  <2> QED
    BY <2>1, <2>2, <2>3, <2>4
<1>6. LoopOK'
  <2>1. CASE step' # "Loop"
    BY <1>1, <1>2, <2>1 DEF LoopOK
  <2>2. CASE step' = "Loop"
    <3>1. ShapeCollider
      BY <2>2 DEF BeginSetUp, Listen, AddBody, PlaceBody, AddCollider
    <3>2. PICK n \in 0..NbObjects : Filled(n)
      BY DEF LInv, SInv, SlotsOK
    <3>3. /\ Len(colliders') = Len(colliders) /\ UNCHANGED colRefs
          /\ \A i \in 1..Len(colliders) : colliders'[i].IsAttached = colliders[i].IsAttached
      BY <3>1, ConfigureKeepsAttached
      DEF ShapeCollider, ConfigureCollider, client, LInv, SInv
    <3>4. Filled(n)'
      BY <3>2, <3>3, FilledUnchanged
    <3>5. Cardinality(colRefs) = n
      BY <3>2, FilledIsCounted
    <3>6. n = NbObjects
      BY <2>2, <3>1, <3>5, TriggerSampleAssumption DEF ShapeCollider
    <3> QED
      BY <2>2, <3>4, <3>6 DEF LoopOK
  <2> QED
    BY <2>1, <2>2
<1> QED
  BY <1>3, <1>4, <1>5, <1>6 DEF LInv

\* In the loop, an Update begins, calls back and returns, over colliders that stay.
LEMMA LoopListens ==
    ASSUME LInv, SInv', WInv', UpdateSample \/ Callback \/ Return
    PROVE  LInv'
<1>1. /\ step = "Loop" /\ UNCHANGED <<step, contactListener, colRefs>>
      /\ calls' = <<>> \/ UNCHANGED calls \/ Callback
  BY DEF UpdateSample, Callback, Return, Update, VisitPair, UpdateReturns, client, history,
         slots, LInv, SInv, StepOK
<1>2. /\ Len(colliders') = Len(colliders)
      /\ \A i \in 1..Len(colliders) :
            /\ colliders'[i].IsAttached = colliders[i].IsAttached
            /\ colliders'[i].IsTrigger = colliders[i].IsTrigger
  <2>1. CASE Callback \/ Return
    BY <2>1 DEF Callback, Return, VisitPair, UpdateReturns, slots
  <2>2. CASE UpdateSample
    <3>1. /\ Len(colliders') = Len(colliders)
          /\ \A i \in 1..Len(colliders) : colliders'[i].IsAttached = colliders[i].IsAttached
      BY <2>2, UpdateVisitsAttached DEF UpdateSample, LInv, SInv
    <3>2. \A i \in 1..Len(colliders) : colliders'[i].IsTrigger = colliders[i].IsTrigger
      <4>1. \A i \in 1..Len(colliders) : colliders[i] \in Collider
        BY SlotsAndRefs DEF LInv, SInv
      <4> QED
        BY <2>2, <4>1 DEF UpdateSample, Update, Following, Collider
    <3> QED
      BY <3>1, <3>2
  <2> QED
    BY <2>1, <2>2
<1>3. Attached' = Attached /\ \A i \in Attached : i \in 1..Len(colliders)
  <2>1. colliders \in Seq(Collider) /\ colliders' \in Seq(Collider)
    BY DEF LInv, SInv, IInv, TypeOK
  <2> QED
    BY <1>2, <2>1, LenProperties DEF Attached
<1>4. (Listens /\ AllTriggers /\ MadeOne)'
  BY <1>1, <1>2, <1>3 DEF LInv, Listens, AllTriggers, MadeOne
<1>5. LoopOK'
  <2>1. Filled(NbObjects)
    BY <1>1 DEF LInv, LoopOK
  <2>2. Filled(NbObjects)'
    BY <1>1, <1>2, <2>1, FilledUnchanged
  <2> QED
    BY <1>1, <2>2 DEF LoopOK
<1>6. \A i, j : Couple(i, j)' = Couple(i, j)
  <2>1. UNCHANGED ColliderGenIndices
    BY DEF UpdateSample, Callback, Return, Update, VisitPair, UpdateReturns, slots
  <2> QED
    BY <2>1 DEF Couple, Pair, ColRef
<1>7. (NoPairTwice /\ OpenAttached)'
  <2>1. CASE Callback
    <3>1. phase' = "update" /\ VisitPair
      BY <2>1 DEF Callback, VisitPair
    <3>2. OnlyTriggers
      BY <1>1, LoopHasTriggers
    <3>3. OnlyTriggers'
      BY <1>1, <1>2, <1>3, <3>2 DEF OnlyTriggers
    <3>4. NoPairTwice'
      BY <3>1, <3>3 DEF WInv, WalkInv
    <3>5. PICK i \in Attached, j \in Attached :
            i < j /\ heard' \subseteq heard \cup {Couple(i, j)}
      <4>1. IInv /\ VisitsAttached
        BY DEF LInv, WInv
      <4> QED
        BY <3>1, <3>2, <4>1, VisitSettles
    <3>6. heard = colRefPairs /\ heard' = colRefPairs'
      BY DEF LInv, SInv, IInv, HeardIsOpen
    <3>7. OpenAttached'
      BY <1>3, <1>6, <3>5, <3>6 DEF LInv, OpenAttached
    <3> QED
      BY <3>4, <3>7
  <2>2. CASE UpdateSample \/ Return
    <3>1. UNCHANGED colRefPairs /\ (calls' = <<>> \/ UNCHANGED calls)
      BY <2>2 DEF UpdateSample, Return, Update, UpdateReturns, history
    <3>2. OpenAttached'
      BY <1>3, <1>6, <3>1 DEF LInv, OpenAttached
    <3>3. NoPairTwice'
      BY <3>1 DEF LInv, NoPairTwice
    <3> QED
      BY <3>2, <3>3
  <2> QED
    BY <2>1, <2>2
<1> QED
  BY <1>4, <1>5, <1>7 DEF LInv

\* Tearing down leaves nothing open and nothing told.
LEMMA TearDownListens == ASSUME LInv, SInv', WInv', TearDownSample PROVE LInv'
<1>1. /\ step = "Loop" /\ step' = "SetUp" /\ calls' = <<>> /\ colRefPairs' = {}
      /\ colliders' = <<>>
  BY DEF TearDownSample, TearDown
<1>2. Attached' = {}
  BY <1>1 DEF Attached
<1> QED
  BY <1>1, <1>2
  DEF LInv, Listens, AllTriggers, MadeOne, LoopOK, OpenAttached, NoPairTwice

\* every step keeps it a world of triggers that is listened to,
LEMMA SampleStepListens == LInv /\ [SampleNext]_sampleVars => LInv'
<1> SUFFICES ASSUME LInv, [SampleNext]_sampleVars PROVE LInv'
  OBVIOUS
<1>1. SInv' /\ WInv'
  BY SampleStepPreserves, SampleStepIsWorldStep, StepKeepsWalk DEF LInv
<1>2. CASE UNCHANGED sampleVars
  <2>1. UNCHANGED <<step, made, contactListener, colliders, ColliderGenIndices, calls,
                    colRefPairs, colRefs>>
    BY <1>2 DEF sampleVars, vars, slots, client, history
  <2>2. (Listens /\ AllTriggers /\ MadeOne /\ NoPairTwice)'
    BY <2>1 DEF LInv, Listens, AllTriggers, MadeOne, NoPairTwice, Attached
  <2>3. LoopOK'
    BY <2>1 DEF LInv, LoopOK, Filled
  <2>4. OpenAttached'
    BY <2>1 DEF LInv, OpenAttached, Attached, Couple, Pair, ColRef
  <2> QED
    BY <1>1, <2>2, <2>3, <2>4 DEF LInv
<1>3. CASE SampleNext
  BY <1>1, <1>3, SetUpListens, LoopListens, TearDownListens DEF SampleNext
<1> QED
  BY <1>2, <1>3

\* and so it always is one.
LEMMA ListeningInvariance == SampleSpec => []LInv
<1>1. LInv /\ [SampleNext]_sampleVars => LInv'
  BY SampleStepListens
<1> QED
  BY <1>1, SampleInitListens, PTL DEF SampleSpec

\* A counter is above zero when some open pair names its collider.
LEMMA CounterSaysOpen ==
    ASSUME LInv, NEW i \in DOMAIN triggerNbrPerCollider
    PROVE  triggerNbrPerCollider[i] > 0 <=> \E pair \in heard : \E ref \in pair : ref.Index = i
<1> DEFINE open == OpenPairsOf(colRefPairs, i)
<1>1. /\ IsFiniteSet(open) /\ Cardinality(open) \in Nat
      /\ triggerNbrPerCollider[i] = Cardinality(open)
  BY OpenPairsOfFinite DEF LInv, SInv, PairsOK, CountersCountOpenPairs, OpenPairsOf
<1>2. triggerNbrPerCollider[i] > 0 <=> open # {}
  BY <1>1, FS_EmptySet
<1>3. heard = colRefPairs
  BY DEF LInv, SInv, IInv, HeardIsOpen
<1> QED
  BY <1>2, <1>3 DEF OpenPairsOf

\* Who is coloured green overlaps something or has parted from it into other leaves.
GreenIsExplained ==
    WalkDone => \A i \in DOMAIN triggerNbrPerCollider :
        triggerNbrPerCollider[i] > 0 =>
            \E pair \in Touching \cup (heard \ ListedTogether) : \E ref \in pair : ref.Index = i

LEMMA LoopExplainsGreen == LInv => GreenIsExplained
<1> SUFFICES ASSUME LInv, WalkDone, NEW i \in DOMAIN triggerNbrPerCollider,
                    triggerNbrPerCollider[i] > 0
             PROVE  \E pair \in Touching \cup (heard \ ListedTogether) :
                        \E ref \in pair : ref.Index = i
  BY DEF GreenIsExplained
<1>1. OnlyTriggers
  BY LoopHasTriggers DEF WalkDone, LInv, SInv, StepOK
<1>2. PICK pair \in heard : \E ref \in pair : ref.Index = i
  BY CounterSaysOpen
<1>3. pair \in ListedTogether => pair \in Touching
  BY <1>1, <1>2, WalkDoneIsExact DEF LInv, ListedPairsExact
<1> QED
  BY <1>2, <1>3

\* And nobody who overlaps something stays blue.
LEMMA LoopExplainsColours == ShapesCovered /\ LInv => ColoursAreExplained
<1> SUFFICES ASSUME ShapesCovered, LInv, WalkDone, NEW i \in DOMAIN triggerNbrPerCollider,
                    NEW pair \in Touching \cup (heard \ ListedTogether),
                    \E ref \in pair : ref.Index = i
             PROVE  triggerNbrPerCollider[i] > 0
  BY LoopExplainsGreen DEF ColoursAreExplained, GreenIsExplained
<1>1. OnlyTriggers
  BY LoopHasTriggers DEF WalkDone, LInv, SInv, StepOK
<1>2. Touching \subseteq heard
  BY <1>1, WalkDoneIsTold DEF LInv, EnterNeverMissed
<1> QED
  BY <1>2, CounterSaysOpen

\* No Update tells the listener of a pair twice, though the walk looks at it once for
\* every leaf it shares (World.cpp:193-206): for every number of objects, list size,
\* depth and set of shapes.
THEOREM PairsAreToldOnce == SampleSpec => []OneCallPerPair
<1>1. LInv => OneCallPerPair
  BY DEF LInv, NoPairTwice, OneCallPerPair
<1> QED
  BY <1>1, ListeningInvariance, PTL

\* At the end of an Update the open pairs that some leaf lists are exactly those that
\* overlap (World.cpp:225-262), so what the sample colours green overlaps something or
\* has parted from it into other leaves (TriggerSample.cpp:10, 153-167): for shapes of
\* every kind and any number of objects, the 300 of the code included.
THEOREM GreenHasReason == SampleSpec => [](ListedPairsExact /\ GreenIsExplained)
<1>1. LInv => ListedPairsExact
  BY WalkDoneIsExact DEF LInv
<1>2. LInv => GreenIsExplained
  BY LoopExplainsGreen
<1> QED
  BY <1>1, <1>2, ListeningInvariance, PTL

\* And what it leaves blue overlaps nothing, provided that shapes overlap only where
\* their boxes do: proved of circles and rectangles (PlainShapesCovered), checked of
\* triangles by the run Overlap.
THEOREM ColoursHaveReasons ==
    ASSUME ShapesCovered
    PROVE  SampleSpec => []ColoursAreExplained
<1>1. LInv => ColoursAreExplained
  BY LoopExplainsColours
<1> QED
  BY <1>1, ListeningInvariance, PTL

\* The sample destroys no collider while its world stands, so of no open pair a
\* collider is gone: what World allows other clients does not happen to this one
\* (World.cpp:123-130, TriggerSample.cpp:181-184).
THEOREM OpenPairsStayAttached == SampleSpec => []OpenPairsAreAttached
<1>1. ASSUME LInv, WalkDone, NEW pair \in heard, NEW ref \in pair
      PROVE  ref.Index \in Attached
  <2>1. PICK i \in Attached, j \in Attached : pair = Couple(i, j)
    BY <1>1 DEF LInv, SInv, IInv, HeardIsOpen, OpenAttached
  <2>2. ColRef(i).Index = i /\ ColRef(j).Index = j
    BY <1>1, SlotsAndRefs DEF LInv, SInv
  <2> QED
    BY <2>1, <2>2 DEF Couple, Pair
<1>2. LInv => OpenPairsAreAttached
  BY <1>1 DEF OpenPairsAreAttached
<1> QED
  BY <1>2, ListeningInvariance, PTL

=============================================================================
