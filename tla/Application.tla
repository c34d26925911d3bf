---------------------------- MODULE Application ----------------------------
(***************************************************************************)
(* The application (SFML/src/SFMLApp.cpp): its loop polls events, shows    *)
(* the widgets, gives the mouse position, updates the current sample and   *)
(* draws; the sample manager (samples/src/SampleManager.cpp) owns the      *)
(* samples and says which is current; a sample (samples/src/Sample.cpp) is *)
(* set up, updated and torn down, with its own world.                      *)
(*                                                                         *)
(* Samples differ by what their overrides do to the state kept here: how   *)
(* many objects they create, whether they draw the quadtree, whether they  *)
(* create objects on clicks.  What their worlds do is World's concern; of  *)
(* it only the number of leaves of the quadtree is seen here.              *)
(*                                                                         *)
(* Index i of the code is i + 1 here, the default sample has index 1.      *)
(***************************************************************************)
EXTENDS Integers, Sequences

CONSTANTS
    Kinds,           \* the samples in the order SampleManager::SetUp makes them
    SetUpObjects,    \* how many objects SampleSetUp of each kind creates
    Places,          \* bound: where the mouse may be
    LeafCounts,      \* bound: how many leaves a quadtree may have
    MaxClicks        \* bound: clicks of the mouse

KindNames == {"Default", "StarSystem", "FormsTrigger", "Trigger", "Bouncing", "Ground"}

Unset == "uninitialised"     \* _mousePos has no initialiser

ASSUME ApplicationAssumption ==
    /\ Kinds \in Seq(KindNames)
    /\ Len(Kinds) >= 2
    /\ SetUpObjects \in [KindNames -> Nat]
    /\ LeafCounts \subseteq Nat \ {0} /\ 1 \in LeafCounts
    /\ Unset \notin Places
    /\ MaxClicks \in Nat

VARIABLES
    samples,       \* _samples
    sampleIdx,     \* _sampleIdx
    stage,         \* where the body of the loop is
    quit,
    MousePos,      \* the application's
    clicks,        \* history: clicks given to samples
    created        \* history: objects created for them

vars    == <<samples, sampleIdx, stage, quit, MousePos, clicks, created>>
history == <<clicks, created>>

Indices == 1..Len(Kinds)

NewSample ==
    [up |-> FALSE,              \* between SetUp and TearDown
     colRefs |-> 0,             \* how many objects the sample holds references to
     nbObjects |-> 0,           \* _nbObjects
     AllGraphicsData |-> <<>>,  \* "object" or "leaf" each
     leaves |-> 1,              \* of QuadTree.Nodes, which TearDown leaves alone
     mousePos |-> Unset,
     left |-> FALSE,            \* _mouseLeftReleased
     right |-> FALSE]

Init ==
    /\ samples = [i \in Indices |-> NewSample]
    /\ sampleIdx = 1
    /\ stage = "start"
    /\ quit = FALSE
    /\ MousePos = Unset
    /\ clicks = 0 /\ created = 0

-----------------------------------------------------------------------------
(* A sample.                                                               *)

Copies(entry, n) == [i \in 1..n |-> entry]

DrawsQuadtree(kind) == kind \in {"Trigger", "Bouncing"}

\* Sample::SetUp with SampleSetUp: objects and their graphics are pushed back.
SetUp(i, sample) ==
    LET n == SetUpObjects[Kinds[i]]
    IN  [sample EXCEPT
            !.up = TRUE,
            !.colRefs = @ + n,
            !.nbObjects = IF DrawsQuadtree(Kinds[i]) THEN n ELSE @,
            !.AllGraphicsData = @ \o Copies("object", n)]

\* Mutant: AllGraphicsData is not cleared.
TearDownKeepingGraphics(sample) ==
    [sample EXCEPT !.up = FALSE, !.colRefs = 0]

\* The mouse flags, the mouse position and the quadtree are left.
TearDown(sample) ==
    [sample EXCEPT !.up = FALSE, !.colRefs = 0, !.AllGraphicsData = <<>>]

Smaller(m, n) == IF m < n THEN m ELSE n

\* Mutant: what was drawn of the last tree is not erased.
DrawnOver(sample) ==
    [sample EXCEPT !.AllGraphicsData = @ \o Copies("leaf", sample.leaves)]

\* Trigger and bouncing sample: what is beyond the objects is erased, the leaves of
\* the tree of the last Update are inserted at the end.
DrawnQuadtree(sample) ==
    [sample EXCEPT
        !.AllGraphicsData = SubSeq(@, 1, Smaller(sample.nbObjects, Len(@)))
                                \o Copies("leaf", sample.leaves)]

\* Mutant: the right button is not looked at.
WithLeftClicked(sample) ==
    IF sample.left
    THEN [sample EXCEPT !.colRefs = @ + 1, !.AllGraphicsData = Append(@, "object")]
    ELSE sample

\* Ground sample: one object, a ball if the left button was released, else a
\* rectangle if the right one was.
WithClicked(sample) ==
    IF sample.left \/ sample.right
    THEN [sample EXCEPT !.colRefs = @ + 1, !.AllGraphicsData = Append(@, "object")]
    ELSE sample

SampleUpdated(i, sample) ==
    IF DrawsQuadtree(Kinds[i]) THEN DrawnQuadtree(sample)
    ELSE IF Kinds[i] = "Ground" THEN WithClicked(sample)
    ELSE sample

\* Mutant: the flags are left.
UpdatedKeepingFlags(i, sample, leaves) ==
    [SampleUpdated(i, sample) EXCEPT !.leaves = leaves]

\* Sample::Update: SampleUpdate, then the world with its new tree, then the flags.
Updated(i, sample, leaves) ==
    [SampleUpdated(i, sample) EXCEPT !.leaves = leaves, !.left = FALSE, !.right = FALSE]

-----------------------------------------------------------------------------
(* The sample manager.                                                     *)

\* Mutant: the sample that is left is not torn down.
ChangedOnly(idx) ==
    /\ sampleIdx' = idx
    /\ samples' = [samples EXCEPT ![idx] = SetUp(idx, @)]

\* The current sample is torn down, then idx is current and set up: also when they
\* are the same.
ChangeSample(idx) ==
    /\ sampleIdx' = idx
    /\ LET down == [samples EXCEPT ![sampleIdx] = TearDown(@)]
       IN  samples' = [down EXCEPT ![idx] = SetUp(idx, @)]

\* Mutant: compared with the number of samples, not with the last index.
PastTheEnd == IF sampleIdx > Len(samples) THEN 2 ELSE sampleIdx + 1

\* Past the last sample it goes on with the second: the default sample is not one
\* of the ring.
NextIdx == IF sampleIdx >= Len(samples) THEN 2 ELSE sampleIdx + 1

PreviousIdx == IF sampleIdx <= 2 THEN Len(samples) ELSE sampleIdx - 1

NextSample       == ChangeSample(NextIdx)
PreviousSample   == ChangeSample(PreviousIdx)
RegenerateSample == ChangeSample(sampleIdx)

Turn == NextSample \/ PreviousSample \/ RegenerateSample

-----------------------------------------------------------------------------
(* The application.                                                        *)

\* Mutant: the mouse is read before the widgets.
MouseFirst(at) ==
    CASE at = "poll"   -> "mouse"
      [] at = "mouse"  -> "gui"
      [] at = "gui"    -> "update"
      [] at = "update" -> "draw"
      [] at = "draw"   -> IF quit THEN "ended" ELSE "poll"

\* Mutant: quit is not looked at.
LoopsForEver(at) ==
    CASE at = "poll"   -> "gui"
      [] at = "gui"    -> "mouse"
      [] at = "mouse"  -> "update"
      [] at = "update" -> "draw"
      [] at = "draw"   -> "poll"

\* Mutant: the loop is left after a frame.
OneFrame(at) ==
    CASE at = "poll"   -> "gui"
      [] at = "gui"    -> "mouse"
      [] at = "mouse"  -> "update"
      [] at = "update" -> "draw"
      [] at = "draw"   -> "ended"

\* The body of the loop of Run; quit is looked at between two frames only.
Following(at) ==
    CASE at = "poll"   -> "gui"
      [] at = "gui"    -> "mouse"
      [] at = "mouse"  -> "update"
      [] at = "update" -> "draw"
      [] at = "draw"   -> IF quit THEN "ended" ELSE "poll"

Advance(at) == stage = at /\ stage' = Following(at)

\* SFMLApp::SetUp.
Start ==
    /\ stage = "start"
    /\ stage' = "poll"
    /\ samples' = [samples EXCEPT ![sampleIdx] = SetUp(sampleIdx, @)]
    /\ UNCHANGED <<sampleIdx, quit, MousePos, history>>

Closed ==
    /\ stage = "poll"
    /\ quit' = TRUE
    /\ UNCHANGED <<samples, sampleIdx, stage, MousePos, history>>

\* The keys Left, Right and Space.
KeyReleased ==
    /\ stage = "poll"
    /\ Turn
    /\ UNCHANGED <<stage, quit, MousePos, history>>

\* The clicks the manager gives to the current sample, with what it makes of them.
Click(sample) ==
    /\ stage = "poll"
    /\ clicks < MaxClicks
    /\ clicks' = clicks + 1
    /\ samples' = [samples EXCEPT ![sampleIdx] = sample]
    /\ UNCHANGED <<sampleIdx, stage, quit, MousePos, created>>

OnLeftClick(sample)  == [sample EXCEPT !.left = TRUE]
OnRightClick(sample) == [sample EXCEPT !.right = TRUE]

NoEventLeft ==
    /\ Advance("poll")
    /\ UNCHANGED <<samples, sampleIdx, quit, MousePos, history>>

\* The combo box or one of the buttons: one widget is pressed at a time.
PressWidget ==
    /\ Advance("gui")
    /\ Turn \/ \E idx \in Indices : ChangeSample(idx)
    /\ UNCHANGED <<quit, MousePos, history>>

PressNothing ==
    /\ Advance("gui")
    /\ UNCHANGED <<samples, sampleIdx, quit, MousePos, history>>

GiveMousePositionToSample ==
    /\ Advance("mouse")
    /\ MousePos' \in Places
    /\ samples' = [samples EXCEPT ![sampleIdx].mousePos = MousePos']
    /\ UNCHANGED <<sampleIdx, quit, history>>

UpdateSample ==
    /\ Advance("update")
    /\ \E leaves \in IF DrawsQuadtree(Kinds[sampleIdx]) THEN LeafCounts ELSE {1} :
            samples' = [samples EXCEPT ![sampleIdx] = Updated(sampleIdx, @, leaves)]
    /\ created' = created + (samples'[sampleIdx].colRefs - samples[sampleIdx].colRefs)
    /\ UNCHANGED <<sampleIdx, quit, MousePos, clicks>>

DrawAllGraphicsData ==
    /\ Advance("draw")
    /\ UNCHANGED <<samples, sampleIdx, quit, MousePos, history>>

Loop == NoEventLeft \/ PressNothing \/ GiveMousePositionToSample \/ UpdateSample
            \/ DrawAllGraphicsData

Next ==
    \/ Start \/ Loop \/ Closed \/ KeyReleased \/ PressWidget
    \/ Click(OnLeftClick(samples[sampleIdx])) \/ Click(OnRightClick(samples[sampleIdx]))

\* The statements of the loop follow each other; pollEvent runs out of events.
Fairness == WF_vars(Start) /\ WF_vars(NoEventLeft) /\ WF_vars(Loop /\ stage # "poll")

Spec == Init /\ [][Next]_vars /\ Fairness

-----------------------------------------------------------------------------
(* Properties.                                                             *)

Entries == {"object", "leaf"}

Sample == [up : BOOLEAN, colRefs : Nat, nbObjects : Nat, AllGraphicsData : Seq(Entries),
           leaves : LeafCounts, mousePos : Places \cup {Unset},
           left : BOOLEAN, right : BOOLEAN]

\* Type correctness; the current index is one of a sample.
TypeOK ==
    /\ samples \in [Indices -> Sample]
    /\ sampleIdx \in Indices
    /\ stage \in {"start", "poll", "gui", "mouse", "update", "draw", "ended"}
    /\ quit \in BOOLEAN
    /\ MousePos \in Places \cup {Unset}
    /\ clicks \in 0..MaxClicks /\ created \in Nat

\* While the loop runs the current sample is set up and no other is, whatever keys
\* and widgets were pressed in whatever frame: no world is set up twice or left
\* full behind (SampleManager.cpp:20-51).
OnlyTheCurrentIsUp ==
    stage # "start" => \A i \in Indices : samples[i].up <=> i = sampleIdx

Shown(entry) == LET data == samples[sampleIdx].AllGraphicsData
                IN  {k \in DOMAIN data : data[k] = entry}

\* The graphics of the sample are those of its objects, in the order of their
\* references, and then the leaves of one tree: SampleUpdate writes the entry of
\* every object, and an outline kept from an earlier frame would be overwritten or
\* drawn for ever (TriggerSample.cpp:123-126, 156, 176-178).
GraphicsFollowObjects ==
    /\ Shown("object") = 1..samples[sampleIdx].colRefs
    /\ DrawsQuadtree(Kinds[sampleIdx]) /\ stage = "draw" =>
            Len(samples[sampleIdx].AllGraphicsData) - samples[sampleIdx].colRefs \in LeafCounts

\* A click makes one object at most, also one whose flag outlived its sample
\* (Sample.cpp:15-16, 19-26).
NoObjectWithoutClick == created <= clicks

\* A sample creates and moves things where the mouse is in this frame, never at
\* the uninitialised position it starts with nor at one from before a change of
\* sample (Sample.h:30, SFMLApp.cpp:109-112).
MousePosIsOfThisFrame == stage = "update" => samples[sampleIdx].mousePos = MousePos /\ MousePos # Unset

\* Closing the window ends the loop, and before that the frame is finished.
ClosingEnds == quit ~> stage = "ended"

ClickWaits(i) == samples[i].left \/ samples[i].right

\* In the sample that creates them, clicks become an object, whichever buttons were
\* released, unless the sample is left before.  The clicks of one frame become one
\* object: a right click beside a left one is lost
\* (GroundCollisionSample.cpp:48-52, Sample.cpp:12-16).
ClicksCreate ==
    \A i \in {j \in Indices : Kinds[j] = "Ground"}, n \in 0..MaxClicks :
        sampleIdx = i /\ ClickWaits(i) /\ created = n ~> created > n \/ sampleIdx # i

\* Until the window is closed some sample is updated again and again: what World
\* and TriggerSample assume of their client.
UpdatesGoOn == []<>(stage = "update") \/ <>quit

=============================================================================
