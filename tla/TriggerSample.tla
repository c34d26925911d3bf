--------------------------- MODULE TriggerSample ---------------------------
(***************************************************************************)
(* The trigger sample (samples/src/TriggerSample.cpp, Sample.cpp) driving  *)
(* the world: SampleSetUp creates the objects one by one, every frame      *)
(* updates the world and the callbacks count the triggers of each collider,*)
(* regenerating tears all down and starts again.                           *)
(*                                                                         *)
(* The walls that SampleUpdate reflects velocities at only decide where    *)
(* bodies go, which World leaves open.                                     *)
(***************************************************************************)
EXTENDS World

CONSTANT NbObjects      \* _nbObjects: 300 in the code

ASSUME TriggerSampleAssumption ==
    /\ NbObjects \in Nat \ {0}
    /\ "DYNAMIC" \in BodyTypes /\ TRUE \in TriggerFlags

VARIABLES
    triggerNbrPerCollider,   \* _triggerNbrPerCollider
    step,                    \* the statement SetUp is at
    made                     \* the reference its loop body holds, in a set

sampleVars == <<vars, triggerNbrPerCollider, step, made>>

SampleInit == Init /\ triggerNbrPerCollider = <<>> /\ step = "SetUp" /\ made = {}

-----------------------------------------------------------------------------
\* Sample::SetUp, and the first statements of SampleSetUp.
BeginSetUp ==
    /\ step = "SetUp"
    /\ SetUp
    /\ step' = "SetContactListener"
    /\ UNCHANGED <<triggerNbrPerCollider, made>>

\* Mutant: the counters are not resized.
ListenOnly ==
    /\ step = "SetContactListener"
    /\ SetContactListener
    /\ step' = "CreateBody"
    /\ UNCHANGED <<triggerNbrPerCollider, made>>

Listen ==
    /\ step = "SetContactListener"
    /\ SetContactListener
    /\ triggerNbrPerCollider' = Resized(triggerNbrPerCollider, NbObjects, 0)
    /\ step' = "CreateBody"
    /\ UNCHANGED made

\* The loop body, one statement of the world at a time.
AddBody ==
    /\ step = "CreateBody"
    /\ CreateBody
    /\ made' = bodyRefs' \ bodyRefs
    /\ step' = "ConfigureBody"
    /\ UNCHANGED triggerNbrPerCollider

PlaceBody ==
    /\ step = "ConfigureBody"
    /\ \E ref \in made, position \in Places : ConfigureBody(ref, position, "DYNAMIC")
    /\ step' = "CreateCollider"
    /\ UNCHANGED <<triggerNbrPerCollider, made>>

AddCollider ==
    /\ step = "CreateCollider"
    /\ \E ref \in made : CreateCollider(ref)
    /\ made' = colRefs' \ colRefs
    /\ step' = "ConfigureCollider"
    /\ UNCHANGED triggerNbrPerCollider

ShapeCollider ==
    /\ step = "ConfigureCollider"
    /\ \E ref \in made, shape \in Shapes : ConfigureCollider(ref, shape, TRUE)
    /\ step' = IF Cardinality(colRefs) < NbObjects THEN "CreateBody" ELSE "Loop"
    /\ made' = {}
    /\ UNCHANGED triggerNbrPerCollider

\* Sample::Update, once per turn of the application's loop.
UpdateSample ==
    /\ step = "Loop"
    /\ Update
    /\ UNCHANGED <<triggerNbrPerCollider, step, made>>

\* Mutant: only the collider with the lower slot is counted.
CountFirst(nbr, pair, by) ==
    [i \in DOMAIN nbr |->
        IF \E ref \in pair : ref.Index = i /\ \A other \in pair : i <= other.Index
        THEN nbr[i] + by ELSE nbr[i]]

\* OnTriggerEnter and OnTriggerExit, called by the walk.
Count(nbr, pair, by) ==
    [i \in DOMAIN nbr |-> IF \E ref \in pair : ref.Index = i THEN nbr[i] + by ELSE nbr[i]]

Callback ==
    /\ VisitPair
    /\ triggerNbrPerCollider' =
            IF Hears("OnTriggerEnter") THEN Count(triggerNbrPerCollider, HeardPair, 1)
            ELSE IF Hears("OnTriggerExit") THEN Count(triggerNbrPerCollider, HeardPair, -1)
            ELSE triggerNbrPerCollider
    /\ UNCHANGED <<step, made>>

Return == UpdateReturns /\ UNCHANGED <<triggerNbrPerCollider, step, made>>

\* Mutant: the counters survive, and resize keeps them.
TearDownKeepingCounters ==
    /\ step = "Loop"
    /\ TearDown
    /\ step' = "SetUp"
    /\ UNCHANGED <<triggerNbrPerCollider, made>>

\* Sample::TearDown, by RegenerateSample or a change of sample.
TearDownSample ==
    /\ step = "Loop"
    /\ TearDown
    /\ triggerNbrPerCollider' = <<>>
    /\ step' = "SetUp"
    /\ UNCHANGED made

SampleNext ==
    \/ BeginSetUp \/ Listen \/ AddBody \/ PlaceBody \/ AddCollider \/ ShapeCollider
    \/ UpdateSample \/ Callback \/ Return \/ TearDownSample

\* SFMLApp::Run never stops updating the current sample, and what it calls
\* returns.
SampleSpec ==
    /\ SampleInit /\ [][SampleNext]_sampleVars
    /\ WF_sampleVars(SampleNext /\ ~TearDownSample)

\* All that is assumed of the machine where one walk matters: an Update goes on.
WalkSpec == SampleInit /\ [][SampleNext]_sampleVars /\ WF_sampleVars(Callback)

-----------------------------------------------------------------------------
(* Properties.                                                             *)

\* Type correctness of what the sample adds: from the moment the listener is set,
\* there is a counter for every object a callback can name.
SampleTypeOK ==
    /\ triggerNbrPerCollider \in Seq(Int)
    /\ Len(triggerNbrPerCollider) =
            IF step \in {"SetUp", "SetContactListener"} THEN 0 ELSE NbObjects
    /\ made \subseteq Ref

\* The callbacks index the counters with the slots of the colliders, unchecked
\* (TriggerSample.cpp:13-23): whatever the vectors grew to, no pair names a slot
\* without a counter.
CallbacksInRange ==
    \A pair \in colRefPairs : \A ref \in pair : ref.Index \in DOMAIN triggerNbrPerCollider

\* A collider's counter is the number of open pairs it is in, at every step and
\* after every regeneration: no callback is lost, doubled or kept from a world
\* that is gone (TriggerSample.cpp:13-23, 29, 183).
CountersCountOpenPairs ==
    \A i \in DOMAIN triggerNbrPerCollider :
        triggerNbrPerCollider[i] =
            Cardinality({pair \in colRefPairs : \E ref \in pair : ref.Index = i})

\* "they become green if they detect a trigger otherwise they stay blue"
\* (TriggerSample.cpp:10): what the next SampleUpdate leaves blue overlaps nothing
\* where it stands, and what it colours green overlaps something, or has parted
\* from it into leaves of its own (TriggerSample.cpp:153-167).
ColoursAreExplained ==
    WalkDone => \A i \in DOMAIN triggerNbrPerCollider :
        triggerNbrPerCollider[i] > 0 <=>
            \E pair \in Touching \cup (heard \ ListedTogether) : \E ref \in pair : ref.Index = i

\* "Called when a trigger ends" (Contact.h:23), as far as the code keeps it: a
\* trigger whose colliders are apart while the walk has the pair before it is
\* ended, since a walk that was begun comes to its end.
AwaitedTriggersEnd ==
    \A pair \in AllPairs :
        (pair \in {Pair(v.a, v.b) : v \in visits} \ Touching) ~> pair \notin heard

=============================================================================
