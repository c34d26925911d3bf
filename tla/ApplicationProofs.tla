------------------------- MODULE ApplicationProofs -------------------------
(***************************************************************************)
(* Proofs about the application for every list of samples, every number of *)
(* objects and any number of clicks.                                       *)
(***************************************************************************)
EXTENDS Application, TLAPS, SequenceTheorems, FiniteSetTheorems

-----------------------------------------------------------------------------
(* The inductive invariant.                                                *)

\* The graphics of a sample are its objects', then leaves; a sample that draws no
\* quadtree has objects only, and one that does knows how many it has.
GraphicsFit(i, sample) ==
    LET data == sample.AllGraphicsData
    IN  /\ sample.colRefs <= Len(data)
        /\ \A k \in 1..Len(data) : data[k] = "object" <=> k <= sample.colRefs
        /\ IF DrawsQuadtree(Kinds[i]) THEN sample.up => sample.nbObjects = sample.colRefs
           ELSE Len(data) = sample.colRefs

Down(sample) == ~sample.up /\ sample.colRefs = 0 /\ sample.AllGraphicsData = <<>>

OnlyCurrent ==
    /\ \A i \in Indices : i # sampleIdx \/ stage = "start" => Down(samples[i])
    /\ stage # "start" => samples[sampleIdx].up

\* The samples that have a click to handle.
Clicked == {i \in Indices : samples[i].left \/ samples[i].right}

ClicksPayForObjects == created + Cardinality(Clicked) <= clicks

LeavesDrawn ==
    DrawsQuadtree(Kinds[sampleIdx]) /\ stage = "draw" =>
        Len(samples[sampleIdx].AllGraphicsData) - samples[sampleIdx].colRefs \in LeafCounts

AppInv ==
    /\ TypeOK
    /\ \A i \in Indices : GraphicsFit(i, samples[i])
    /\ OnlyCurrent
    /\ ClicksPayForObjects
    /\ LeavesDrawn
    /\ MousePosIsOfThisFrame

-----------------------------------------------------------------------------
(* Lemmas about a sample.                                                  *)

\* There are two samples or more, and each is of a kind that makes so many objects.
LEMMA KindsOfSamples ==
    /\ Len(Kinds) \in Nat /\ Len(Kinds) >= 2
    /\ \A i \in Indices : Kinds[i] \in KindNames /\ SetUpObjects[Kinds[i]] \in Nat
BY ApplicationAssumption, LenProperties, ElementOfSeq DEF Indices

\* So many copies of an entry are a sequence of entries.
LEMMA CopiesOfEntry ==
    ASSUME NEW entry \in Entries, NEW n \in Nat
    PROVE  /\ Copies(entry, n) \in Seq(Entries) /\ Len(Copies(entry, n)) = n
           /\ \A k \in 1..n : Copies(entry, n)[k] = entry
<1>1. Copies(entry, n) \in [1..n -> Entries]
  BY DEF Copies
<1>2. Copies(entry, n) \in Seq(Entries)
  BY <1>1
<1>3. Len(Copies(entry, n)) = n
  BY <1>1, <1>2, LenProperties
<1> QED
  BY <1>2, <1>3 DEF Copies

\* A list of entries followed by copies of one.
LEMMA CopiesAppended ==
    ASSUME NEW data \in Seq(Entries), NEW entry \in Entries, NEW n \in Nat
    PROVE  /\ data \o Copies(entry, n) \in Seq(Entries)
           /\ Len(data \o Copies(entry, n)) = Len(data) + n
           /\ \A k \in 1..Len(data) : (data \o Copies(entry, n))[k] = data[k]
           /\ \A k \in Len(data) + 1..Len(data) + n : (data \o Copies(entry, n))[k] = entry
<1>1. /\ Copies(entry, n) \in Seq(Entries) /\ Len(Copies(entry, n)) = n
      /\ \A k \in 1..n : Copies(entry, n)[k] = entry
  BY CopiesOfEntry
<1>2. Len(data) \in Nat
  BY LenProperties
<1> DEFINE longer == data \o Copies(entry, n)
<1>3. /\ longer \in Seq(Entries) /\ Len(longer) = Len(data) + n
      /\ \A k \in 1..Len(data) + n :
            longer[k] = IF k <= Len(data) THEN data[k] ELSE Copies(entry, n)[k - Len(data)]
  BY <1>1, ConcatProperties
<1> HIDE DEF longer
<1>4. /\ \A k \in 1..Len(data) : longer[k] = data[k]
      /\ \A k \in Len(data) + 1..Len(data) + n : longer[k] = entry
  BY <1>1, <1>2, <1>3
<1> QED
  BY <1>3, <1>4 DEF longer

\* A new sample is down.
LEMMA NewSampleIsDown ==
    /\ NewSample \in Sample /\ Down(NewSample) /\ ~NewSample.left /\ ~NewSample.right
    /\ \A i \in Indices : GraphicsFit(i, NewSample)
<1>1. <<>> \in Seq(Entries) /\ Len(<<>>) = 0
  BY EmptySeq
<1>2. NewSample \in Sample
  BY <1>1, ApplicationAssumption DEF NewSample, Sample
<1>3. \A i \in Indices : GraphicsFit(i, NewSample)
  BY <1>1 DEF NewSample, GraphicsFit
<1> QED
  BY <1>2, <1>3 DEF NewSample, Down

\* Setting up a sample that is down.
LEMMA SetUpFits ==
    ASSUME NEW i \in Indices, NEW sample \in Sample, Down(sample)
    PROVE  /\ SetUp(i, sample) \in Sample /\ SetUp(i, sample).up
           /\ GraphicsFit(i, SetUp(i, sample))
           /\ SetUp(i, sample).left = sample.left /\ SetUp(i, sample).right = sample.right
<1>1. PICK n \in Nat : n = SetUpObjects[Kinds[i]]
  BY KindsOfSamples
<1>2. PICK none \in Seq(Entries) : none = sample.AllGraphicsData
  BY DEF Sample
<1>3. Len(none) = 0
  BY <1>2, EmptySeq DEF Down
<1> DEFINE data == none \o Copies("object", n)
<1>4. /\ data \in Seq(Entries) /\ Len(data) = n
      /\ \A k \in 1..n : data[k] = "object"
  <2>1. "object" \in Entries
    BY DEF Entries
  <2>2. /\ data \in Seq(Entries) /\ Len(data) = Len(none) + n
        /\ \A k \in Len(none) + 1..Len(none) + n : data[k] = "object"
    BY <2>1, CopiesAppended
  <2> HIDE DEF data
  <2> QED
    BY <1>3, <2>2
<1> DEFINE up == SetUp(i, sample)
<1>5. up = [sample EXCEPT !.up = TRUE,
                          !.colRefs = @ + n,
                          !.nbObjects = IF DrawsQuadtree(Kinds[i]) THEN n ELSE @,
                          !.AllGraphicsData = data]
  BY <1>1, <1>2 DEF SetUp
<1> HIDE DEF up, data
<1>6. /\ up.up /\ up.colRefs = n /\ up.AllGraphicsData = data
      /\ DrawsQuadtree(Kinds[i]) => up.nbObjects = n
      /\ up.left = sample.left /\ up.right = sample.right
      /\ up \in Sample
  <2>1. sample.colRefs + n = n /\ sample.colRefs + n \in Nat
    BY DEF Down
  <2>2. (IF DrawsQuadtree(Kinds[i]) THEN n ELSE sample.nbObjects) \in Nat
    BY DEF Sample
  <2>3. up \in Sample
    BY <1>4, <1>5, <2>1, <2>2 DEF Sample
  <2>4. up.up /\ up.colRefs = n /\ up.AllGraphicsData = data
    BY <1>5, <2>1 DEF Sample
  <2>5. DrawsQuadtree(Kinds[i]) => up.nbObjects = n
    BY <1>5 DEF Sample
  <2>6. up.left = sample.left /\ up.right = sample.right
    BY <1>5 DEF Sample
  <2> QED
    BY <2>3, <2>4, <2>5, <2>6
<1>7. GraphicsFit(i, up)
  BY <1>4, <1>6 DEF GraphicsFit
<1> QED
  BY <1>6, <1>7 DEF up

\* Tearing a sample down.
LEMMA TearDownFits ==
    ASSUME NEW i \in Indices, NEW sample \in Sample
    PROVE  /\ TearDown(sample) \in Sample /\ Down(TearDown(sample))
           /\ GraphicsFit(i, TearDown(sample))
           /\ TearDown(sample).left = sample.left /\ TearDown(sample).right = sample.right
<1>1. <<>> \in Seq(Entries) /\ Len(<<>>) = 0
  BY EmptySeq
<1>2. /\ TearDown(sample) \in Sample /\ Down(TearDown(sample))
      /\ TearDown(sample).left = sample.left /\ TearDown(sample).right = sample.right
  BY <1>1 DEF TearDown, Sample, Down
<1>3. GraphicsFit(i, TearDown(sample))
  BY <1>1, <1>2 DEF GraphicsFit, Down
<1> QED
  BY <1>2, <1>3

\* What drawing the quadtree leaves of the graphics: the objects, then one tree.
LEMMA DrawnQuadtreeFits ==
    ASSUME NEW i \in Indices, NEW sample \in Sample, sample.up,
           GraphicsFit(i, sample), DrawsQuadtree(Kinds[i]), NEW data,
           data = SubSeq(sample.AllGraphicsData, 1,
                         Smaller(sample.nbObjects, Len(sample.AllGraphicsData)))
                    \o Copies("leaf", sample.leaves)
    PROVE  /\ data \in Seq(Entries) /\ Len(data) = sample.colRefs + sample.leaves
           /\ \A k \in 1..Len(data) : data[k] = "object" <=> k <= sample.colRefs
<1>1. PICK before \in Seq(Entries) : before = sample.AllGraphicsData
  BY DEF Sample
<1>2. PICK n \in Nat : n = sample.colRefs
  BY DEF Sample
<1>3. PICK leaves \in Nat : leaves = sample.leaves
  BY ApplicationAssumption DEF Sample
<1>4. /\ Len(before) \in Nat /\ n <= Len(before)
      /\ \A k \in 1..Len(before) : before[k] \in Entries
      /\ \A k \in 1..Len(before) : before[k] = "object" <=> k <= n
  BY <1>1, <1>2, LenProperties, ElementOfSeq DEF GraphicsFit
<1>5. Smaller(sample.nbObjects, Len(before)) = n
  BY <1>1, <1>2, <1>4 DEF GraphicsFit, Smaller
<1> DEFINE objects == SubSeq(before, 1, n)
<1>6. /\ objects \in Seq(Entries) /\ Len(objects) = n
      /\ \A k \in 1..n : objects[k] = before[k]
  <2>1. \A k \in 1..n : before[k] \in Entries
    BY <1>4
  <2>2. /\ objects \in Seq(Entries)
        /\ Len(objects) = IF 1 <= n THEN n - 1 + 1 ELSE 0
        /\ \A k \in 1..n - 1 + 1 : objects[k] = before[1 + k - 1]
    BY <2>1, SubSeqProperties
  <2> HIDE DEF objects
  <2> QED
    BY <2>2
<1> HIDE DEF objects
<1>7. data = objects \o Copies("leaf", leaves)
  BY <1>1, <1>3, <1>5 DEF objects
<1>8. "leaf" \in Entries
  BY DEF Entries
<1>9. /\ data \in Seq(Entries) /\ Len(data) = n + leaves
      /\ \A k \in 1..n : data[k] = before[k]
      /\ \A k \in n + 1..n + leaves : data[k] = "leaf"
  <2>1. PICK first \in Seq(Entries) : first = objects
    BY <1>6
  <2> DEFINE longer == first \o Copies("leaf", leaves)
  <2>2. longer \in Seq(Entries)
    BY <1>8, CopiesAppended
  <2>3. Len(longer) = Len(first) + leaves
    BY <1>8, CopiesAppended
  <2>4. \A k \in 1..Len(first) : longer[k] = first[k]
    BY <1>8, CopiesAppended
  <2>5. \A k \in Len(first) + 1..Len(first) + leaves : longer[k] = "leaf"
    BY <1>8, CopiesAppended
  <2>6. data = longer
    BY <1>7, <2>1
  <2> HIDE DEF longer
  <2> QED
    BY <1>6, <2>1, <2>2, <2>3, <2>4, <2>5, <2>6
<1>10. \A k \in 1..Len(data) : data[k] = "object" <=> k <= n
  BY <1>4, <1>9
<1> QED
  BY <1>2, <1>3, <1>9, <1>10

\* What SampleUpdate leaves of a sample, before the flags are reset.
LEMMA SampleUpdatedFits ==
    ASSUME NEW i \in Indices, NEW sample \in Sample, sample.up, GraphicsFit(i, sample)
    PROVE  LET updated == SampleUpdated(i, sample)
           IN  /\ updated \in Sample /\ updated.up
               /\ GraphicsFit(i, updated)
               /\ updated.mousePos = sample.mousePos
               /\ \/ updated.colRefs = sample.colRefs
                  \/ /\ updated.colRefs = sample.colRefs + 1
                     /\ sample.left \/ sample.right
               /\ DrawsQuadtree(Kinds[i]) =>
                        Len(updated.AllGraphicsData) - updated.colRefs \in LeafCounts
<1> DEFINE updated == SampleUpdated(i, sample)
<1>1. CASE DrawsQuadtree(Kinds[i])
  <2>1. PICK data :
            data = SubSeq(sample.AllGraphicsData, 1,
                          Smaller(sample.nbObjects, Len(sample.AllGraphicsData)))
                        \o Copies("leaf", sample.leaves)
    OBVIOUS
  <2>2. /\ data \in Seq(Entries) /\ Len(data) = sample.colRefs + sample.leaves
        /\ \A k \in 1..Len(data) : data[k] = "object" <=> k <= sample.colRefs
    BY <1>1, <2>1, DrawnQuadtreeFits
  <2>3. updated = [sample EXCEPT !.AllGraphicsData = data]
    BY <1>1, <2>1 DEF SampleUpdated, DrawnQuadtree
  <2> HIDE DEF updated
  <2>4. /\ updated \in Sample /\ updated.up = sample.up
        /\ updated.colRefs = sample.colRefs /\ updated.nbObjects = sample.nbObjects
        /\ updated.mousePos = sample.mousePos /\ updated.AllGraphicsData = data
    BY <2>2, <2>3 DEF Sample
  <2>5. sample.colRefs \in Nat /\ sample.leaves \in Nat /\ sample.leaves \in LeafCounts
    BY ApplicationAssumption DEF Sample
  <2>6. GraphicsFit(i, updated)
    BY <1>1, <2>2, <2>4, <2>5 DEF GraphicsFit
  <2>7. Len(updated.AllGraphicsData) - updated.colRefs \in LeafCounts
    BY <2>2, <2>4, <2>5
  <2> QED
    BY <2>4, <2>6, <2>7 DEF updated
<1>2. CASE Kinds[i] = "Ground" /\ (sample.left \/ sample.right)
  <2>1. ~DrawsQuadtree(Kinds[i])
    BY <1>2 DEF DrawsQuadtree
  <2>2. PICK before \in Seq(Entries) : before = sample.AllGraphicsData
    BY DEF Sample
  <2>3. PICK n \in Nat : n = sample.colRefs
    BY DEF Sample
  <2>4. /\ Len(before) = n
        /\ \A k \in 1..n : before[k] = "object"
    BY <2>1, <2>2, <2>3 DEF GraphicsFit
  <2> DEFINE data == Append(before, "object")
  <2>5. /\ data \in Seq(Entries) /\ Len(data) = n + 1
        /\ \A k \in 1..n + 1 : data[k] = "object"
    <3>1. "object" \in Entries
      BY DEF Entries
    <3>2. /\ data \in Seq(Entries) /\ Len(data) = Len(before) + 1
          /\ \A k \in 1..Len(before) : data[k] = before[k]
          /\ data[Len(before) + 1] = "object"
      BY <3>1, AppendProperties
    <3> HIDE DEF data
    <3> QED
      BY <2>4, <3>2
  <2>6. updated = [sample EXCEPT !.colRefs = n + 1, !.AllGraphicsData = data]
    BY <1>2, <2>1, <2>2, <2>3 DEF SampleUpdated, WithClicked
  <2> HIDE DEF data, updated
  <2>7. /\ updated \in Sample /\ updated.up = sample.up
        /\ updated.colRefs = n + 1
        /\ updated.mousePos = sample.mousePos /\ updated.AllGraphicsData = data
    <3>1. updated \in Sample
      <4>1. PICK m \in Nat : m = n + 1
        OBVIOUS
      <4>2. updated = [[sample EXCEPT !.colRefs = m] EXCEPT !.AllGraphicsData = data]
        BY <2>6, <4>1 DEF Sample
      <4>3. [sample EXCEPT !.colRefs = m] \in Sample
        BY DEF Sample
      <4> QED
        BY <2>5, <4>2, <4>3 DEF Sample
    <3>2. updated.up = sample.up /\ updated.mousePos = sample.mousePos
      BY <2>6 DEF Sample
    <3>3. updated.colRefs = n + 1 /\ updated.AllGraphicsData = data
      BY <2>6 DEF Sample
    <3> QED
      BY <3>1, <3>2, <3>3
  <2>8. GraphicsFit(i, updated)
    BY <2>1, <2>5, <2>7 DEF GraphicsFit
  <2> QED
    BY <1>2, <2>1, <2>3, <2>7, <2>8 DEF updated
<1>3. CASE ~DrawsQuadtree(Kinds[i]) /\ ~(Kinds[i] = "Ground" /\ (sample.left \/ sample.right))
  <2>1. updated = sample
    BY <1>3 DEF SampleUpdated, WithClicked
  <2> QED
    BY <1>3, <2>1
<1> QED
  BY <1>1, <1>2, <1>3

\* Sample::Update.
LEMMA UpdatedFits ==
    ASSUME NEW i \in Indices, NEW sample \in Sample, sample.up, GraphicsFit(i, sample),
           NEW leaves \in LeafCounts
    PROVE  LET updated == Updated(i, sample, leaves)
           IN  /\ updated \in Sample /\ updated.up
               /\ GraphicsFit(i, updated)
               /\ ~updated.left /\ ~updated.right
               /\ \/ updated.colRefs = sample.colRefs
                  \/ /\ updated.colRefs = sample.colRefs + 1
                     /\ sample.left \/ sample.right
               /\ DrawsQuadtree(Kinds[i]) =>
                        Len(updated.AllGraphicsData) - updated.colRefs \in LeafCounts
<1>1. PICK before : before = SampleUpdated(i, sample)
  OBVIOUS
<1>2. /\ before \in Sample /\ before.up /\ GraphicsFit(i, before)
      /\ \/ before.colRefs = sample.colRefs
         \/ /\ before.colRefs = sample.colRefs + 1
            /\ sample.left \/ sample.right
      /\ DrawsQuadtree(Kinds[i]) =>
            Len(before.AllGraphicsData) - before.colRefs \in LeafCounts
  BY <1>1, SampleUpdatedFits
<1> DEFINE updated == Updated(i, sample, leaves)
<1>3. updated = [before EXCEPT !.leaves = leaves, !.left = FALSE, !.right = FALSE]
  BY <1>1 DEF Updated
<1> HIDE DEF updated
<1>4. /\ updated \in Sample /\ updated.up = before.up
      /\ updated.colRefs = before.colRefs /\ updated.nbObjects = before.nbObjects
      /\ updated.AllGraphicsData = before.AllGraphicsData
      /\ ~updated.left /\ ~updated.right
  BY <1>2, <1>3 DEF Sample
<1>5. GraphicsFit(i, updated)
  BY <1>2, <1>4 DEF GraphicsFit
<1> QED
  BY <1>2, <1>4, <1>5 DEF updated

-----------------------------------------------------------------------------
(* Clicks that wait.                                                       *)

\* Clicks wait in finitely many samples.
LEMMA ClickedIsFinite == IsFiniteSet(Clicked) /\ Cardinality(Clicked) \in Nat
<1>1. IsFiniteSet(Indices)
  <2>1. 1 \in Int /\ Len(Kinds) \in Int
    BY KindsOfSamples
  <2>2. IsFiniteSet(1..Len(Kinds))
    BY <2>1, FS_Interval
  <2> QED
    BY <2>2 DEF Indices
<1>2. Clicked \subseteq Indices
  BY DEF Clicked
<1>3. IsFiniteSet(Clicked)
  BY <1>1, <1>2, FS_Subset
<1> QED
  BY <1>3, FS_CardinalityType

\* No sample has a click to answer when the program starts.
LEMMA NoneClickedInitially == Init => Clicked = {}
  BY NewSampleIsDown DEF Init, Clicked

-----------------------------------------------------------------------------
(* The samples' manager.                                                   *)

\* The indices the manager computes are those of samples.
LEMMA IndicesStayInRange ==
    ASSUME TypeOK
    PROVE  NextIdx \in Indices /\ PreviousIdx \in Indices
<1>1. DOMAIN samples = 1..Len(Kinds) /\ Len(Kinds) \in Nat /\ Len(Kinds) >= 2
  BY KindsOfSamples DEF TypeOK, Indices
<1>2. samples \in Seq(Sample)
  BY <1>1 DEF TypeOK, Indices
<1>3. Len(samples) = Len(Kinds)
  BY <1>1, <1>2, LenProperties
<1> QED
  BY <1>1, <1>3 DEF NextIdx, PreviousIdx, TypeOK, Indices

\* A change leaves one sample set up, the new one, and the clicks where they are.
LEMMA ChangeEffect ==
    ASSUME AppInv, NEW idx \in Indices, ChangeSample(idx)
    PROVE  /\ samples' \in [Indices -> Sample] /\ sampleIdx' = idx
           /\ \A i \in Indices : GraphicsFit(i, samples'[i])
           /\ \A i \in Indices : i # idx => Down(samples'[i])
           /\ samples'[idx].up
           /\ Clicked' = Clicked
<1>1. samples \in [Indices -> Sample] /\ sampleIdx \in Indices
  BY DEF AppInv, TypeOK
<1>2. PICK down : down = [samples EXCEPT ![sampleIdx] = TearDown(samples[sampleIdx])]
  OBVIOUS
<1>3. \A i \in Indices : /\ down[i] \in Sample /\ Down(down[i]) /\ GraphicsFit(i, down[i])
                         /\ down[i].left = samples[i].left
                         /\ down[i].right = samples[i].right
  <2>1. TAKE i \in Indices
  <2>2. CASE i = sampleIdx
    BY <1>1, <1>2, <2>2, TearDownFits
  <2>3. CASE i # sampleIdx
    BY <1>1, <1>2, <2>3 DEF AppInv, OnlyCurrent
  <2> QED
    BY <2>2, <2>3
<1>4. down \in [Indices -> Sample]
  BY <1>1, <1>2, <1>3
<1>5. /\ samples' = [down EXCEPT ![idx] = SetUp(idx, down[idx])]
      /\ sampleIdx' = idx
  BY <1>2 DEF ChangeSample
<1>6. \A i \in Indices : /\ samples'[i] \in Sample /\ GraphicsFit(i, samples'[i])
                         /\ i # idx => Down(samples'[i])
                         /\ i = idx => samples'[i].up
                         /\ samples'[i].left = samples[i].left
                         /\ samples'[i].right = samples[i].right
  <2>1. TAKE i \in Indices
  <2>2. CASE i = idx
    BY <1>3, <1>4, <1>5, <2>2, SetUpFits
  <2>3. CASE i # idx
    BY <1>3, <1>4, <1>5, <2>3
  <2> QED
    BY <2>2, <2>3
<1>7. samples' \in [Indices -> Sample]
  BY <1>4, <1>5, <1>6
<1>8. Clicked' = Clicked
  BY <1>6 DEF Clicked
<1> QED
  BY <1>5, <1>6, <1>7, <1>8

\* Each operation of the manager is a change to some sample.
LEMMA TurnIsChange ==
    ASSUME AppInv, Turn
    PROVE  \E idx \in Indices : ChangeSample(idx)
BY IndicesStayInRange
DEF AppInv, Turn, NextSample, PreviousSample, RegenerateSample, TypeOK

\* Any change between two stages of the loop keeps the invariant.
LEMMA ChangePreserves ==
    ASSUME AppInv, NEW idx \in Indices, ChangeSample(idx),
           stage \in {"poll", "gui"}, stage' \in {"poll", "mouse"},
           UNCHANGED <<quit, MousePos, clicks, created>>
    PROVE  AppInv'
<1>1. /\ samples' \in [Indices -> Sample] /\ sampleIdx' = idx
      /\ \A i \in Indices : GraphicsFit(i, samples'[i])
      /\ \A i \in Indices : i # idx => Down(samples'[i])
      /\ samples'[idx].up
      /\ Clicked' = Clicked
  BY ChangeEffect
<1>2. TypeOK'
  BY <1>1 DEF AppInv, TypeOK
<1>3. OnlyCurrent'
  BY <1>1 DEF OnlyCurrent
<1>4. ClicksPayForObjects'
  BY <1>1 DEF AppInv, ClicksPayForObjects
<1>5. (LeavesDrawn /\ MousePosIsOfThisFrame)'
  BY DEF LeavesDrawn, MousePosIsOfThisFrame
<1> QED
  BY <1>1, <1>2, <1>3, <1>4, <1>5 DEF AppInv

-----------------------------------------------------------------------------
(* The loop.                                                               *)

\* The invariant holds when the program starts ...
LEMMA AppInitEstablishes == Init => AppInv
<1> SUFFICES ASSUME Init PROVE AppInv
  OBVIOUS
<1>1. \A i \in Indices : samples[i] = NewSample
  BY DEF Init
<1>2. TypeOK
  <2>1. samples \in [Indices -> Sample]
    BY NewSampleIsDown DEF Init
  <2>2. sampleIdx \in Indices
    BY KindsOfSamples DEF Init, Indices
  <2>3. clicks \in 0..MaxClicks /\ created \in Nat
    BY ApplicationAssumption DEF Init
  <2> QED
    BY <2>1, <2>2, <2>3 DEF Init, TypeOK
<1>3. \A i \in Indices : GraphicsFit(i, samples[i])
  BY <1>1, NewSampleIsDown
<1>4. OnlyCurrent
  BY <1>1, NewSampleIsDown DEF Init, OnlyCurrent
<1>5. ClicksPayForObjects
  BY NoneClickedInitially, FS_EmptySet DEF Init, ClicksPayForObjects
<1>6. LeavesDrawn /\ MousePosIsOfThisFrame
  BY DEF Init, LeavesDrawn, MousePosIsOfThisFrame
<1> QED
  BY <1>2, <1>3, <1>4, <1>5, <1>6 DEF AppInv

\* ... is kept by the set-up of the first sample ...
LEMMA StartPreserves == AppInv /\ Start => AppInv'
<1> SUFFICES ASSUME AppInv, Start PROVE AppInv'
  OBVIOUS
<1>1. samples \in [Indices -> Sample] /\ sampleIdx \in Indices
  BY DEF AppInv, TypeOK
<1>2. \A i \in Indices : Down(samples[i]) /\ GraphicsFit(i, samples[i])
  BY DEF Start, AppInv, OnlyCurrent
<1>3. samples' = [samples EXCEPT ![sampleIdx] = SetUp(sampleIdx, samples[sampleIdx])]
  BY DEF Start
<1>4. \A i \in Indices : /\ samples'[i] \in Sample /\ GraphicsFit(i, samples'[i])
                         /\ i # sampleIdx => Down(samples'[i])
                         /\ i = sampleIdx => samples'[i].up
                         /\ samples'[i].left = samples[i].left
                         /\ samples'[i].right = samples[i].right
  <2>1. TAKE i \in Indices
  <2>2. CASE i = sampleIdx
    BY <1>1, <1>2, <1>3, <2>2, SetUpFits
  <2>3. CASE i # sampleIdx
    BY <1>1, <1>2, <1>3, <2>3
  <2> QED
    BY <2>2, <2>3
<1>5. samples' \in [Indices -> Sample]
  BY <1>1, <1>3, <1>4
<1>6. TypeOK'
  BY <1>5 DEF Start, history, AppInv, TypeOK
<1>7. OnlyCurrent'
  BY <1>1, <1>4 DEF Start, OnlyCurrent
<1>8. Clicked' = Clicked
  BY <1>4 DEF Clicked
<1>9. ClicksPayForObjects'
  BY <1>8 DEF Start, history, AppInv, ClicksPayForObjects
<1>10. (LeavesDrawn /\ MousePosIsOfThisFrame)'
  BY DEF Start, LeavesDrawn, MousePosIsOfThisFrame
<1> QED
  BY <1>4, <1>6, <1>7, <1>9, <1>10 DEF AppInv

\* A click sets one flag of the current sample.
LEMMA ClickPreserves ==
    ASSUME AppInv, stage = "poll", clicks < MaxClicks, clicks' = clicks + 1,
           NEW sample,
           \/ sample = OnLeftClick(samples[sampleIdx])
           \/ sample = OnRightClick(samples[sampleIdx]),
           samples' = [samples EXCEPT ![sampleIdx] = sample],
           UNCHANGED <<sampleIdx, stage, quit, MousePos, created>>
    PROVE  AppInv'
<1>1. samples \in [Indices -> Sample] /\ sampleIdx \in Indices /\ clicks \in Nat /\ created \in Nat
  BY ApplicationAssumption DEF AppInv, TypeOK
<1>2. PICK before \in Sample : before = samples[sampleIdx]
  BY <1>1
<1>3. /\ sample \in Sample /\ sample.up = before.up /\ sample.colRefs = before.colRefs
      /\ sample.nbObjects = before.nbObjects
      /\ sample.AllGraphicsData = before.AllGraphicsData
  BY <1>2 DEF OnLeftClick, OnRightClick, Sample
<1>4. GraphicsFit(sampleIdx, sample)
  <2>1. GraphicsFit(sampleIdx, before)
    BY <1>1, <1>2 DEF AppInv
  <2> QED
    BY <1>3, <2>1 DEF GraphicsFit
<1>5. samples' \in [Indices -> Sample]
  BY <1>1, <1>3
<1>6. TypeOK'
  BY <1>1, <1>5, ApplicationAssumption DEF AppInv, TypeOK
<1>7. \A i \in Indices : GraphicsFit(i, samples'[i])
  BY <1>1, <1>4 DEF AppInv
<1>8. OnlyCurrent'
  BY <1>1, <1>2, <1>3 DEF AppInv, OnlyCurrent
<1>9. ClicksPayForObjects'
  <2>1. Clicked' \subseteq Clicked \cup {sampleIdx}
    BY <1>1 DEF Clicked
  <2>2. IsFiniteSet(Clicked) /\ Cardinality(Clicked) \in Nat
    BY ClickedIsFinite
  <2>3. /\ IsFiniteSet(Clicked \cup {sampleIdx})
        /\ Cardinality(Clicked \cup {sampleIdx}) <= Cardinality(Clicked) + 1
        /\ Cardinality(Clicked \cup {sampleIdx}) \in Nat
    BY <2>2, FS_AddElement
  <2>4. /\ Cardinality(Clicked') <= Cardinality(Clicked \cup {sampleIdx})
        /\ IsFiniteSet(Clicked')
    BY <2>1, <2>3, FS_Subset
  <2>5. Cardinality(Clicked') \in Nat
    BY <2>4, FS_CardinalityType
  <2> QED
    BY <1>1, <2>2, <2>3, <2>4, <2>5 DEF AppInv, ClicksPayForObjects
<1>10. (LeavesDrawn /\ MousePosIsOfThisFrame)'
  BY DEF LeavesDrawn, MousePosIsOfThisFrame
<1> QED
  BY <1>6, <1>7, <1>8, <1>9, <1>10 DEF AppInv

\* The mouse position is the sample's from here to its update.
LEMMA GiveMousePositionPreserves == AppInv /\ GiveMousePositionToSample => AppInv'
<1> SUFFICES ASSUME AppInv, GiveMousePositionToSample PROVE AppInv'
  OBVIOUS
<1>1. /\ samples \in [Indices -> Sample] /\ sampleIdx \in Indices
      /\ MousePos' \in Places
  BY DEF AppInv, TypeOK, GiveMousePositionToSample
<1>2. PICK before \in Sample : before = samples[sampleIdx]
  BY <1>1
<1>3. PICK sample : sample = [before EXCEPT !.mousePos = MousePos']
  OBVIOUS
<1>4. /\ sample \in Sample /\ sample.up = before.up /\ sample.colRefs = before.colRefs
      /\ sample.nbObjects = before.nbObjects
      /\ sample.AllGraphicsData = before.AllGraphicsData
      /\ sample.left = before.left /\ sample.right = before.right
      /\ sample.mousePos = MousePos'
  BY <1>1, <1>3 DEF Sample
<1>5. samples' = [samples EXCEPT ![sampleIdx] = sample]
  BY <1>1, <1>2, <1>3 DEF GiveMousePositionToSample
<1>6. GraphicsFit(sampleIdx, sample)
  <2>1. GraphicsFit(sampleIdx, before)
    BY <1>1, <1>2 DEF AppInv
  <2> QED
    BY <1>4, <2>1 DEF GraphicsFit
<1>7. samples' \in [Indices -> Sample]
  BY <1>1, <1>4, <1>5
<1>8. stage = "mouse" /\ stage' = "update"
  BY DEF GiveMousePositionToSample, Advance, Following
<1>9. TypeOK'
  BY <1>1, <1>7, <1>8 DEF GiveMousePositionToSample, history, AppInv, TypeOK
<1>10. \A i \in Indices : GraphicsFit(i, samples'[i])
  BY <1>1, <1>5, <1>6 DEF AppInv
<1>11. OnlyCurrent'
  BY <1>1, <1>2, <1>4, <1>5, <1>8
  DEF GiveMousePositionToSample, AppInv, OnlyCurrent
<1>12. ClicksPayForObjects'
  <2>1. Clicked' = Clicked
    BY <1>1, <1>2, <1>4, <1>5 DEF Clicked
  <2> QED
    BY <2>1 DEF GiveMousePositionToSample, history, AppInv, ClicksPayForObjects
<1>13. MousePosIsOfThisFrame'
  <2>1. MousePos' # Unset
    BY <1>1, ApplicationAssumption
  <2> QED
    BY <1>1, <1>4, <1>5, <2>1 DEF GiveMousePositionToSample, MousePosIsOfThisFrame
<1>14. LeavesDrawn'
  BY <1>8 DEF LeavesDrawn
<1> QED
  BY <1>9, <1>10, <1>11, <1>12, <1>13, <1>14 DEF AppInv

\* An update pays for the object it creates with the click it handles.
LEMMA UpdateSamplePreserves == AppInv /\ UpdateSample => AppInv'
<1> SUFFICES ASSUME AppInv, UpdateSample PROVE AppInv'
  OBVIOUS
<1>1. samples \in [Indices -> Sample] /\ sampleIdx \in Indices /\ sampleIdx' = sampleIdx
  BY DEF AppInv, TypeOK, UpdateSample
<1>2. stage = "update" /\ stage' = "draw"
  BY DEF UpdateSample, Advance, Following
<1>3. PICK before \in Sample : before = samples[sampleIdx]
  BY <1>1
<1>4. before.up /\ GraphicsFit(sampleIdx, before)
  BY <1>1, <1>2, <1>3 DEF AppInv, OnlyCurrent
<1>5. PICK leaves \in LeafCounts :
        samples' = [samples EXCEPT ![sampleIdx] = Updated(sampleIdx, before, leaves)]
  BY <1>3, ApplicationAssumption DEF UpdateSample
<1>6. PICK sample : sample = Updated(sampleIdx, before, leaves)
  OBVIOUS
<1>7. /\ sample \in Sample /\ sample.up /\ GraphicsFit(sampleIdx, sample)
      /\ ~sample.left /\ ~sample.right
      /\ \/ sample.colRefs = before.colRefs
         \/ sample.colRefs = before.colRefs + 1 /\ (before.left \/ before.right)
      /\ DrawsQuadtree(Kinds[sampleIdx]) =>
            Len(sample.AllGraphicsData) - sample.colRefs \in LeafCounts
  <2>1. sample \in Sample /\ sample.up /\ GraphicsFit(sampleIdx, sample)
    BY <1>1, <1>4, <1>6, UpdatedFits
  <2>2. ~sample.left /\ ~sample.right
    BY <1>1, <1>4, <1>6, UpdatedFits
  <2>3. \/ sample.colRefs = before.colRefs
        \/ sample.colRefs = before.colRefs + 1 /\ (before.left \/ before.right)
    BY <1>1, <1>4, <1>6, UpdatedFits
  <2>4. DrawsQuadtree(Kinds[sampleIdx]) =>
            Len(sample.AllGraphicsData) - sample.colRefs \in LeafCounts
    BY <1>1, <1>4, <1>6, UpdatedFits
  <2> QED
    BY <2>1, <2>2, <2>3, <2>4
<1>8. /\ samples' = [samples EXCEPT ![sampleIdx] = sample]
      /\ samples'[sampleIdx] = sample
      /\ samples' \in [Indices -> Sample]
  BY <1>1, <1>5, <1>6, <1>7
<1>9. created' = created + (sample.colRefs - before.colRefs) /\ clicks' = clicks
  BY <1>3, <1>8 DEF UpdateSample
<1>10. /\ created \in Nat /\ created' \in Nat /\ clicks \in Nat
       /\ before.colRefs \in Nat
       /\ created' = created \/ (created' = created + 1 /\ (before.left \/ before.right))
  <2>1. created \in Nat /\ clicks \in Nat /\ before.colRefs \in Nat
    BY ApplicationAssumption DEF AppInv, TypeOK, Sample
  <2> QED
    BY <1>7, <1>9, <2>1
<1>11. TypeOK'
  BY <1>1, <1>2, <1>8, <1>10 DEF UpdateSample, AppInv, TypeOK
<1>12. \A i \in Indices : GraphicsFit(i, samples'[i])
  BY <1>1, <1>7, <1>8 DEF AppInv
<1>13. OnlyCurrent'
  BY <1>1, <1>2, <1>7, <1>8 DEF AppInv, OnlyCurrent
<1>14. ClicksPayForObjects'
  <2>1. Clicked' = Clicked \ {sampleIdx}
    BY <1>1, <1>7, <1>8 DEF Clicked
  <2>2. sampleIdx \in Clicked <=> before.left \/ before.right
    BY <1>1, <1>3 DEF Clicked
  <2>3. IsFiniteSet(Clicked) /\ Cardinality(Clicked) \in Nat
    BY ClickedIsFinite
  <2>4. Cardinality(Clicked') = IF sampleIdx \in Clicked THEN Cardinality(Clicked) - 1
                                ELSE Cardinality(Clicked)
    BY <2>1, <2>3, FS_RemoveElement
  <2> QED
    BY <1>9, <1>10, <2>2, <2>3, <2>4 DEF AppInv, ClicksPayForObjects
<1>15. LeavesDrawn'
  BY <1>1, <1>7, <1>8 DEF LeavesDrawn
<1>16. MousePosIsOfThisFrame'
  BY <1>2 DEF MousePosIsOfThisFrame
<1> QED
  BY <1>11, <1>12, <1>13, <1>14, <1>15, <1>16 DEF AppInv

\* Steps that touch no sample.
LEMMA QuietPreserves ==
    ASSUME AppInv, UNCHANGED <<samples, sampleIdx, MousePos, clicks, created>>,
           quit' \in BOOLEAN,
           \/ stage' = stage
           \/ /\ stage # "start"
              /\ stage' \in {"poll", "gui", "mouse", "ended"}
    PROVE  AppInv'
<1>1. TypeOK'
  BY DEF AppInv, TypeOK
<1>2. OnlyCurrent'
  BY DEF AppInv, OnlyCurrent
<1>3. ClicksPayForObjects'
  BY DEF AppInv, ClicksPayForObjects, Clicked
<1>4. (LeavesDrawn /\ MousePosIsOfThisFrame)'
  BY DEF AppInv, LeavesDrawn, MousePosIsOfThisFrame
<1> QED
  BY <1>1, <1>2, <1>3, <1>4 DEF AppInv

\* ... by every step, then ...
LEMMA AppStepPreserves == AppInv /\ [Next]_vars => AppInv'
<1> SUFFICES ASSUME AppInv, [Next]_vars PROVE AppInv'
  OBVIOUS
<1>0. quit \in BOOLEAN
  BY DEF AppInv, TypeOK
<1>1. CASE Start
  BY <1>1, StartPreserves
<1>2. CASE NoEventLeft \/ PressNothing \/ DrawAllGraphicsData
  BY <1>0, <1>2, QuietPreserves
  DEF NoEventLeft, PressNothing, DrawAllGraphicsData, Advance, Following, history
<1>3. CASE GiveMousePositionToSample
  BY <1>3, GiveMousePositionPreserves
<1>4. CASE UpdateSample
  BY <1>4, UpdateSamplePreserves
<1>5. CASE Closed
  BY <1>5, QuietPreserves DEF Closed, history
<1>6. CASE KeyReleased
  <2>1. PICK idx \in Indices : ChangeSample(idx)
    BY <1>6, TurnIsChange DEF KeyReleased
  <2> QED
    BY <1>6, <2>1, ChangePreserves DEF KeyReleased, history
<1>7. CASE PressWidget
  <2>1. PICK idx \in Indices : ChangeSample(idx)
    BY <1>7, TurnIsChange DEF PressWidget
  <2> QED
    BY <1>7, <2>1, ChangePreserves DEF PressWidget, Advance, Following, history
<1>8. CASE Click(OnLeftClick(samples[sampleIdx]))
  BY <1>8, ClickPreserves DEF Click
<1>9. CASE Click(OnRightClick(samples[sampleIdx]))
  BY <1>9, ClickPreserves DEF Click
<1>10. CASE UNCHANGED vars
  BY <1>0, <1>10, QuietPreserves DEF vars, history
<1> QED
  BY <1>1, <1>2, <1>3, <1>4, <1>5, <1>6, <1>7, <1>8, <1>9, <1>10 DEF Next, Loop

-----------------------------------------------------------------------------
(* The theorems.                                                           *)

\* ... and so always.
LEMMA AppInvariance == Spec => []AppInv
<1>1. AppInv /\ [Next]_vars => AppInv'
  BY AppStepPreserves
<1> QED
  BY <1>1, AppInitEstablishes, PTL DEF Spec

\* For every list of samples the current index is that of a sample, whatever is
\* pressed, and every variable keeps its type.
THEOREM IndexStaysInRange == Spec => []TypeOK
<1>1. AppInv => TypeOK
  BY DEF AppInv
<1> QED
  BY <1>1, AppInvariance, PTL

\* No sample is set up twice or left up: from the first frame on exactly the
\* current one is.
THEOREM OneSampleIsUp == Spec => []OnlyTheCurrentIsUp
<1>1. AppInv => OnlyTheCurrentIsUp
  BY DEF AppInv, OnlyCurrent, OnlyTheCurrentIsUp, Down
<1> QED
  BY <1>1, AppInvariance, PTL

\* For any number of objects and leaves, the graphics of the sample shown are its
\* objects in the order of their references, then the leaves of one tree.
THEOREM GraphicsAreInStep == Spec => []GraphicsFollowObjects
<1>1. AppInv => GraphicsFollowObjects
  <2> SUFFICES ASSUME AppInv PROVE GraphicsFollowObjects
    OBVIOUS
  <2>1. sampleIdx \in Indices /\ samples[sampleIdx] \in Sample
    BY DEF AppInv, TypeOK
  <2>2. PICK data \in Seq(Entries) : data = samples[sampleIdx].AllGraphicsData
    BY <2>1 DEF Sample
  <2>3. PICK n \in Nat : n = samples[sampleIdx].colRefs
    BY <2>1 DEF Sample
  <2>4. DOMAIN data = 1..Len(data) /\ Len(data) \in Nat
    BY LenProperties
  <2>5. n <= Len(data) /\ \A k \in 1..Len(data) : data[k] = "object" <=> k <= n
    BY <2>1, <2>2, <2>3 DEF AppInv, GraphicsFit
  <2>6. {k \in DOMAIN data : data[k] = "object"} = 1..n
    BY <2>4, <2>5
  <2> QED
    BY <2>2, <2>3, <2>6 DEF AppInv, LeavesDrawn, GraphicsFollowObjects, Shown
<1> QED
  BY <1>1, AppInvariance, PTL

\* However clicks, changes of sample and frames follow each other, a click makes
\* one object at most: what a flag that outlived its sample creates was paid for.
THEOREM ClickMakesOneObject == Spec => []NoObjectWithoutClick
<1>1. AppInv => NoObjectWithoutClick
  <2>1. AppInv => created \in Nat /\ clicks \in Nat
    BY ApplicationAssumption DEF AppInv, TypeOK
  <2>2. AppInv => created + Cardinality(Clicked) <= clicks
    BY DEF AppInv, ClicksPayForObjects
  <2> QED
    BY <2>1, <2>2, ClickedIsFinite DEF NoObjectWithoutClick
<1> QED
  BY <1>1, AppInvariance, PTL

\* A sample is never updated with a mouse position of another frame.
THEOREM MousePosIsFresh == Spec => []MousePosIsOfThisFrame
<1>1. AppInv => MousePosIsOfThisFrame
  BY DEF AppInv
<1> QED
  BY <1>1, AppInvariance, PTL

=============================================================================
