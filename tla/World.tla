------------------------------- MODULE World -------------------------------
(***************************************************************************)
(* The physics world (Physics/src/World.cpp): slots of bodies and colliders*)
(* addressed by index and generation, and Update, which moves the bodies,  *)
(* rebuilds the quadtree and walks its leaves, resolving contacts and      *)
(* telling the listener of triggers and collisions.                        *)
(*                                                                         *)
(* The client is the one the samples are: single-threaded, it sets the     *)
(* world up, creates and configures bodies and colliders through the       *)
(* references it holds, updates once per frame and tears down; its         *)
(* callbacks do not call back into the world.  The walk of one Update is a *)
(* step per pair, since contacts move bodies while it goes on.             *)
(*                                                                         *)
(* Vectors are sequences: index i of the code is i + 1 here.  Velocities,  *)
(* forces, masses and restitution decide only where bodies go, so moved    *)
(* bodies end anywhere in Places; Mass keeps its sign.                     *)
(***************************************************************************)
EXTENDS QuadCells

CONSTANTS InitSize,       \* the argument of SetUp, 100 by default
          MaxSlots,       \* bound: vectors do not grow beyond this
          Places,         \* bound: positions a body may have
          Shapes,         \* bound: shapes a client gives its colliders
          BodyTypes,      \* the BodyTypes the client uses
          TriggerFlags    \* the values of IsTrigger it uses

ASSUME WorldAssumption ==
    /\ InitSize \in Nat \ {0}
    /\ MaxSlots \in Nat
    /\ <<0, 0>> \in Places
    /\ BodyTypes \subseteq {"DYNAMIC", "STATIC", "NONE"}
    /\ TriggerFlags \subseteq BOOLEAN

VARIABLES
    bodies,              \* _bodies
    BodyGenIndices,
    colliders,           \* _colliders
    ColliderGenIndices,
    colRefPairs,         \* _colRefPairs: trigger pairs entered and not left
    contactListener,     \* _contactListener # nullptr
    phase,               \* whose turn it is
    visits,              \* what the walk of the running Update still looks at
    bodyRefs, colRefs,   \* the references the client holds (Sample.h)
    stale,               \* history: references it gave to DestroyBody
    calls,               \* history: what the listener was told by the last Update
    heard                \* history: pairs whose last trigger call was Enter

slots   == <<bodies, BodyGenIndices, colliders, ColliderGenIndices>>
client  == <<bodyRefs, colRefs, stale>>
history == <<calls, heard>>
vars    == <<slots, colRefPairs, contactListener, phase, visits, client, history>>

-----------------------------------------------------------------------------
Ref == [Index : Nat, GenIndex : Nat]

Body == [Mass : {-1, 1}, Position : Places, Type : {"DYNAMIC", "STATIC", "NONE"}]

DefaultBody == [Mass |-> -1, Position |-> <<0, 0>>, Type |-> "DYNAMIC"]

IsEnabled(body) == body.Mass >= 0

DefaultShape == Circle(<<0, 0>>, 1)

Collider == [Shape : Shapes \cup {DefaultShape}, BodyRef : Ref, BodyPosition : Places,
             IsTrigger : BOOLEAN, IsAttached : BOOLEAN]

DefaultCollider == [Shape |-> DefaultShape, BodyRef |-> [Index |-> 1, GenIndex |-> 0],
                    BodyPosition |-> <<0, 0>>, IsTrigger |-> FALSE, IsAttached |-> FALSE]

\* Mutant: vector::assign, which does not keep what is there.
Assigned(vector, size, value) == [i \in 1..size |-> value]

\* vector::resize, by which SetUp sizes and creation doubles the vectors.
Resized(vector, size, value) ==
    [i \in 1..size |-> IF i <= Len(vector) THEN vector[i] ELSE value]

\* GetBody and GetCollider return the slot when the generation matches and throw
\* when it does not.
BodyFound(ref)     == BodyGenIndices[ref.Index] = ref.GenIndex
ColliderFound(ref) == ColliderGenIndices[ref.Index] = ref.GenIndex

GetBody(ref)     == bodies[ref.Index]
GetCollider(ref) == colliders[ref.Index]

\* ColliderRefPair's operator== makes it an unordered pair.
Pair(refA, refB) == {refA, refB}

Init ==
    /\ bodies = <<>> /\ BodyGenIndices = <<>>
    /\ colliders = <<>> /\ ColliderGenIndices = <<>>
    /\ colRefPairs = {}
    /\ contactListener = FALSE
    /\ phase = "down"
    /\ visits = {}
    /\ bodyRefs = {} /\ colRefs = {} /\ stale = {}
    /\ calls = <<>> /\ heard = {}

-----------------------------------------------------------------------------
(* The client's calls.  It makes them while no Update runs.                *)

ClientTurn == phase \in {"setup", "frame"}

\* Mutant: the generations are not resized.
SetUpWithoutGenerations ==
    /\ phase = "down"
    /\ bodies' = Resized(bodies, InitSize, DefaultBody)
    /\ colliders' = Resized(colliders, InitSize, DefaultCollider)
    /\ phase' = "setup"
    /\ UNCHANGED <<BodyGenIndices, ColliderGenIndices, colRefPairs, contactListener,
                   visits, client, history>>

SetUp ==
    /\ phase = "down"
    /\ bodies' = Resized(bodies, InitSize, DefaultBody)
    /\ BodyGenIndices' = Resized(BodyGenIndices, InitSize, 0)
    /\ colliders' = Resized(colliders, InitSize, DefaultCollider)
    /\ ColliderGenIndices' = Resized(ColliderGenIndices, InitSize, 0)
    /\ phase' = "setup"
    /\ UNCHANGED <<colRefPairs, contactListener, visits, client, history>>

\* Mutant: _colRefPairs survives.
TearDownKeepingPairs ==
    /\ ClientTurn
    /\ bodies' = <<>> /\ BodyGenIndices' = <<>>
    /\ colliders' = <<>> /\ ColliderGenIndices' = <<>>
    /\ phase' = "down"
    /\ bodyRefs' = {} /\ colRefs' = {} /\ stale' = {}
    /\ calls' = <<>> /\ heard' = {}
    /\ UNCHANGED <<contactListener, visits, colRefPairs>>

\* Sample::TearDown: the client drops its references and what it counted of the
\* callbacks, then the world clears all but its listener.
TearDown ==
    /\ ClientTurn
    /\ bodies' = <<>> /\ BodyGenIndices' = <<>>
    /\ colliders' = <<>> /\ ColliderGenIndices' = <<>>
    /\ colRefPairs' = {}
    /\ phase' = "down"
    /\ bodyRefs' = {} /\ colRefs' = {} /\ stale' = {}
    /\ calls' = <<>> /\ heard' = {}
    /\ UNCHANGED <<contactListener, visits>>

SetContactListener ==
    /\ phase = "setup"
    /\ contactListener' = TRUE
    /\ UNCHANGED <<slots, colRefPairs, phase, visits, client, history>>

Enabled(slot, index) == [slot EXCEPT ![index].Mass = 1]

\* The first disabled slot; when there is none the vectors double, which makes
\* it the first new one.
CreateBody ==
    /\ ClientTurn
    /\ LET full  == \A i \in 1..Len(bodies) : IsEnabled(bodies[i])
           size  == IF full THEN 2 * Len(bodies) ELSE Len(bodies)
           slot  == Resized(bodies, size, DefaultBody)
       IN  /\ size <= MaxSlots
           /\ \E index \in 1..size :
                 /\ ~IsEnabled(slot[index])
                 /\ \A i \in 1..index - 1 : IsEnabled(slot[i])
                 /\ bodies' = Enabled(slot, index)
                 /\ BodyGenIndices' = Resized(BodyGenIndices, size, 0)
                 /\ bodyRefs' = bodyRefs \cup
                        {[Index |-> index, GenIndex |-> BodyGenIndices'[index]]}
    /\ UNCHANGED <<colliders, ColliderGenIndices, colRefPairs, contactListener, phase,
                   visits, colRefs, stale, history>>

\* Writes through the reference GetBody returns, as the samples make.
ConfigureBody(ref, position, type) ==
    /\ ClientTurn
    /\ BodyFound(ref)
    /\ bodies' = [bodies EXCEPT ![ref.Index].Position = position,
                                ![ref.Index].Type = type]
    /\ UNCHANGED <<BodyGenIndices, colliders, ColliderGenIndices, colRefPairs,
                   contactListener, phase, visits, client, history>>

\* Mutant: the generation moves on, the colliders still name the old one.
DestroyBodyNextGeneration(ref) ==
    /\ ClientTurn
    /\ BodyFound(ref)
    /\ bodies' = [bodies EXCEPT ![ref.Index].Mass = -1]
    /\ BodyGenIndices' = [BodyGenIndices EXCEPT ![ref.Index] = @ + 1]
    /\ bodyRefs' = bodyRefs \ {ref}
    /\ stale' = stale \cup {ref}
    /\ UNCHANGED <<colliders, ColliderGenIndices, colRefPairs, contactListener, phase,
                   visits, colRefs, history>>

\* The colliders of the body are left as they are.
DestroyBody(ref) ==
    /\ ClientTurn
    /\ BodyFound(ref)
    /\ bodies' = [bodies EXCEPT ![ref.Index].Mass = -1]
    /\ bodyRefs' = bodyRefs \ {ref}
    /\ stale' = stale \cup {ref}
    /\ UNCHANGED <<BodyGenIndices, colliders, ColliderGenIndices, colRefPairs,
                   contactListener, phase, visits, colRefs, history>>

CreateCollider(bodyRef) ==
    /\ ClientTurn
    /\ LET full  == \A i \in 1..Len(colliders) : colliders[i].IsAttached
           size  == IF full THEN 2 * Len(colliders) ELSE Len(colliders)
           slot  == Resized(colliders, size, DefaultCollider)
       IN  /\ size <= MaxSlots
           /\ \E index \in 1..size :
                 /\ ~slot[index].IsAttached
                 /\ \A i \in 1..index - 1 : slot[i].IsAttached
                 /\ colliders' = [slot EXCEPT ![index].IsAttached = TRUE,
                                              ![index].BodyRef = bodyRef]
                 /\ ColliderGenIndices' = Resized(ColliderGenIndices, size, 0)
                 /\ colRefs' = colRefs \cup
                        {[Index |-> index, GenIndex |-> ColliderGenIndices'[index]]}
    /\ UNCHANGED <<bodies, BodyGenIndices, colRefPairs, contactListener, phase,
                   visits, bodyRefs, stale, history>>

ConfigureCollider(ref, shape, isTrigger) ==
    /\ ClientTurn
    /\ ColliderFound(ref)
    /\ colliders' = [colliders EXCEPT
            ![ref.Index].Shape = shape,
            ![ref.Index].BodyPosition = GetBody(GetCollider(ref).BodyRef).Position,
            ![ref.Index].IsTrigger = isTrigger]
    /\ UNCHANGED <<bodies, BodyGenIndices, ColliderGenIndices, colRefPairs,
                   contactListener, phase, visits, client, history>>

\* The trigger pairs of the collider are left as they are.
DestroyCollider(ref) ==
    /\ ClientTurn
    /\ ColliderFound(ref)
    /\ colliders' = [colliders EXCEPT ![ref.Index].IsAttached = FALSE]
    /\ colRefs' = colRefs \ {ref}
    /\ UNCHANGED <<bodies, BodyGenIndices, ColliderGenIndices, colRefPairs,
                   contactListener, phase, visits, bodyRefs, stale, history>>

-----------------------------------------------------------------------------
(* Update.                                                                 *)

\* Mutant: STATIC bodies are not skipped.
IntegratedAll == {i \in 1..Len(bodies) : IsEnabled(bodies[i])}

\* UpdateBodies integrates these; where to is left open.
Integrated == {i \in 1..Len(bodies) : IsEnabled(bodies[i]) /\ bodies[i].Type # "STATIC"}

\* Mutant: BodyPosition is left as the client wrote it.
FollowingNothing(moved) == colliders

\* SetUpQuadTree copies the positions of the bodies, which GetBounds reads.
Following(moved) ==
    [i \in 1..Len(colliders) |->
        IF colliders[i].IsAttached
        THEN [colliders[i] EXCEPT !.BodyPosition = moved[colliders[i].BodyRef.Index].Position]
        ELSE colliders[i]]

\* The boxes SetUpQuadTree inserts.
Aabbs(cols) ==
    [i \in {k \in 1..Len(cols) : cols[k].IsAttached} |->
        GetBounds(cols[i].Shape, cols[i].BodyPosition)]

ColRef(i) == [Index |-> i, GenIndex |-> ColliderGenIndices[i]]

\* UpdateBodies and SetUpQuadTree; the walk follows.
Update ==
    /\ ClientTurn
    /\ \E position \in [Integrated -> Places] :
          bodies' = [i \in 1..Len(bodies) |->
                        IF i \in Integrated
                        THEN [bodies[i] EXCEPT !.Position = position[i]]
                        ELSE bodies[i]]
    /\ colliders' = Following(bodies')
    /\ \E aabbs \in {Aabbs(colliders')} :
          visits' = {[leaf |-> v.leaf, a |-> ColRef(v.a), b |-> ColRef(v.b)] :
                        v \in Visits(aabbs)}
    /\ phase' = "update"
    /\ calls' = <<>>
    /\ UNCHANGED <<BodyGenIndices, ColliderGenIndices, colRefPairs, contactListener,
                   client, heard>>

\* The order of the walk: leaf by leaf, then the two nested loops over a leaf.
Before(v, w) ==
    \/ v.leaf < w.leaf
    \/ v.leaf = w.leaf /\ v.a.Index < w.a.Index
    \/ v.leaf = w.leaf /\ v.a.Index = w.a.Index /\ v.b.Index < w.b.Index

\* The pair the walk is at.
IsNext(v) == \A w \in visits \ {v} : Before(v, w)

\* Mutant: shapes are taken where they were when the boxes were inserted.
PlacedAsBoxed(ref) == Translate(GetCollider(ref).Shape, GetCollider(ref).BodyPosition)

Placed(ref) == Translate(GetCollider(ref).Shape, GetBody(GetCollider(ref).BodyRef).Position)

\* Mutant: a pair that is open is not tested again.
OverlapOrOpen(refA, refB) ==
    Pair(refA, refB) \in colRefPairs \/ OverlapShapes(Placed(refA), Placed(refB))

Overlap(refA, refB) == OverlapShapes(Placed(refA), Placed(refB))

IsPhysical(v) == ~GetCollider(v.b).IsTrigger /\ ~GetCollider(v.a).IsTrigger

Told(event, v) == Append(calls, [event |-> event, pair |-> Pair(v.a, v.b)])

\* Contact::Resolve moves DYNAMIC bodies apart; where to is left open.
Resolved(v) == {i \in {GetCollider(v.a).BodyRef.Index, GetCollider(v.b).BodyRef.Index} :
                    bodies[i].Type = "DYNAMIC"}

PhysicalContact(v) ==
    /\ IsPhysical(v)
    /\ Overlap(v.a, v.b)
    /\ \E position \in [Resolved(v) -> Places] :
          bodies' = [i \in 1..Len(bodies) |->
                        IF i \in Resolved(v)
                        THEN [bodies[i] EXCEPT !.Position = position[i]]
                        ELSE bodies[i]]
    /\ IF contactListener
       THEN calls' = Told("OnCollisionEnter", v)
       ELSE UNCHANGED calls
    /\ UNCHANGED <<colRefPairs, heard>>

PhysicalMiss(v) ==
    /\ IsPhysical(v)
    /\ ~Overlap(v.a, v.b)
    /\ IF contactListener
       THEN calls' = Told("OnCollisionExit", v)
       ELSE UNCHANGED calls
    /\ UNCHANGED <<bodies, colRefPairs, heard>>

\* Mutant: the pair is not recorded.
NotEmplaced(v) == colRefPairs

Emplaced(v) == colRefPairs \cup {Pair(v.a, v.b)}

TriggerEnter(v) ==
    /\ ~IsPhysical(v)
    /\ contactListener
    /\ Pair(v.a, v.b) \notin colRefPairs
    /\ Overlap(v.a, v.b)
    /\ calls' = Told("OnTriggerEnter", v)
    /\ heard' = heard \cup {Pair(v.a, v.b)}
    /\ colRefPairs' = Emplaced(v)
    /\ UNCHANGED bodies

TriggerExit(v) ==
    /\ ~IsPhysical(v)
    /\ contactListener
    /\ Pair(v.a, v.b) \in colRefPairs
    /\ ~Overlap(v.a, v.b)
    /\ calls' = Told("OnTriggerExit", v)
    /\ heard' = heard \ {Pair(v.a, v.b)}
    /\ colRefPairs' = colRefPairs \ {Pair(v.a, v.b)}
    /\ UNCHANGED bodies

\* No listener, or nothing changed for the pair.
TriggerUnchanged(v) ==
    /\ ~IsPhysical(v)
    /\ contactListener => (Pair(v.a, v.b) \in colRefPairs <=> Overlap(v.a, v.b))
    /\ UNCHANGED <<bodies, colRefPairs, calls, heard>>

\* Mutant: the inner loop ends with its first pair.
RestOfOuterLoop(v) == {w \in visits : w.leaf # v.leaf \/ w.a # v.a}

Rest(v) == visits \ {v}

VisitPair ==
    /\ phase = "update"
    /\ \E v \in visits :
          /\ IsNext(v)
          /\ \/ PhysicalContact(v) \/ PhysicalMiss(v)
             \/ TriggerEnter(v) \/ TriggerExit(v) \/ TriggerUnchanged(v)
          /\ visits' = Rest(v)
    /\ UNCHANGED <<BodyGenIndices, colliders, ColliderGenIndices, contactListener,
                   phase, client>>

UpdateReturns ==
    /\ phase = "update"
    /\ visits = {}
    /\ phase' = "frame"
    /\ UNCHANGED <<slots, colRefPairs, contactListener, visits, client, history>>

-----------------------------------------------------------------------------
Running == Update \/ VisitPair \/ UpdateReturns

Next ==
    \/ SetUp \/ TearDown \/ SetContactListener
    \/ CreateBody
    \/ \E ref \in bodyRefs, position \in Places, type \in BodyTypes :
            ConfigureBody(ref, position, type)
    \/ \E ref \in bodyRefs : DestroyBody(ref)
    \/ \E ref \in bodyRefs : CreateCollider(ref)
    \/ \E ref \in colRefs, shape \in Shapes, isTrigger \in TriggerFlags :
            ConfigureCollider(ref, shape, isTrigger)
    \/ \E ref \in colRefs : DestroyCollider(ref)
    \/ Running

\* SFMLApp::Run updates once per turn of an endless loop, and an Update that was
\* called runs to its end.
Fairness == WF_vars(Update) /\ WF_vars(VisitPair) /\ WF_vars(UpdateReturns)

\* Any client that uses only references it holds.
Spec == Init /\ [][Next]_vars /\ Fairness

-----------------------------------------------------------------------------
(* Properties.                                                             *)

Events == {"OnTriggerEnter", "OnTriggerExit", "OnCollisionEnter", "OnCollisionExit"}

\* Type correctness.  A vector and its generations always have the same length.
TypeOK ==
    /\ bodies \in Seq(Body) /\ BodyGenIndices \in Seq(Nat)
    /\ Len(BodyGenIndices) = Len(bodies)
    /\ colliders \in Seq(Collider) /\ ColliderGenIndices \in Seq(Nat)
    /\ Len(ColliderGenIndices) = Len(colliders)
    /\ colRefPairs \subseteq SUBSET Ref
    /\ contactListener \in BOOLEAN
    /\ phase \in {"down", "setup", "frame", "update"}
    /\ \A v \in visits : v.a \in Ref /\ v.b \in Ref
    /\ bodyRefs \subseteq Ref /\ colRefs \subseteq Ref /\ stale \subseteq Ref
    /\ calls \in Seq([event : Events, pair : SUBSET Ref])
    /\ heard \subseteq SUBSET Ref

\* A reference into a vector that finds its slot.
FindsBody(ref)     == ref.Index \in DOMAIN bodies /\ BodyFound(ref)
FindsCollider(ref) == ref.Index \in DOMAIN colliders /\ ColliderFound(ref)

\* Update is noexcept and calls GetBody and GetCollider, which throw
\* (World.cpp:76-79, 115-118): whatever was created and destroyed before, every
\* reference an Update follows finds its slot, so the program is not terminated.
UpdateNeverThrows ==
    /\ \A i \in DOMAIN colliders : colliders[i].IsAttached => FindsBody(colliders[i].BodyRef)
    /\ \A v \in visits : \A ref \in {v.a, v.b} :
            FindsCollider(ref) /\ FindsBody(GetCollider(ref).BodyRef)

\* CreateBody and CreateCollider never hand out a reference the client still
\* holds, when slots are recycled or the vectors double (World.cpp:42-61, 86-110):
\* two owners of one slot would move each other's body.
NoSharedSlot == [][/\ CreateBody => bodyRefs' # bodyRefs
                   /\ \A ref \in bodyRefs : CreateCollider(ref) => colRefs' # colRefs]_vars

\* The call of the listener a step makes, if it makes one.
Hears(event) == /\ Len(calls') = Len(calls) + 1
                /\ calls'[Len(calls')].event = event

HeardPair == calls'[Len(calls')].pair

\* The trigger callbacks of a pair alternate, Enter first, over frames, recycled
\* slots and worlds torn down and set up again.  The samples count on it: they
\* add and subtract one per call (TriggerSample.cpp:13-23).
EnterExitAlternate == [][/\ Hears("OnTriggerEnter") => HeardPair \notin heard
                         /\ Hears("OnTriggerExit") => HeardPair \in heard]_vars

\* Neither integration nor a contact moves a STATIC body (World.cpp:143-146,
\* Contact.cpp:183-191).
StaticBodiesStay ==
    [][phase' = "update" => \A i \in DOMAIN bodies :
            bodies[i].Type = "STATIC" => bodies'[i].Position = bodies[i].Position]_vars

\* The walk of an Update has looked at every pair.
WalkDone == phase = "update" /\ visits = {}

Attached == {i \in DOMAIN colliders : colliders[i].IsAttached}

OnlyTriggers == contactListener /\ \A i \in Attached : colliders[i].IsTrigger

\* The shape of a collider where its body is now.
Standing(i) == Translate(colliders[i].Shape, bodies[colliders[i].BodyRef.Index].Position)

\* The pairs of attached colliders whose shapes overlap now.
Touching ==
    {Pair(ColRef(p[1]), ColRef(p[2])) :
        p \in {q \in Attached \X Attached :
                    q[1] < q[2] /\ OverlapShapes(Standing(q[1]), Standing(q[2]))}}

\* The pairs some leaf of the tree of this Update lists together.
ListedTogether == {Pair(ColRef(v.a), ColRef(v.b)) : v \in Visits(Aabbs(colliders))}

\* In a world of triggers the quadtree hides no overlap: when an Update ends, the
\* listener has been told of every pair that overlaps (World.cpp:155-262).
EnterNeverMissed == WalkDone /\ OnlyTriggers => Touching \subseteq heard

\* ... and of no pair twice in one Update, though a pair is looked at once for
\* every leaf it shares.
OneCallPerPair ==
    OnlyTriggers => \A m, n \in DOMAIN calls : calls[m].pair = calls[n].pair => m = n

\* Among the pairs some leaf lists together the open ones are exactly those that
\* overlap when an Update ends, whatever was open before it: a trigger that is
\* over outlives only in a pair no leaf lists any more (World.cpp:225-262).
ListedPairsExact ==
    WalkDone /\ OnlyTriggers =>
        \A pair \in ListedTogether : pair \in heard <=> pair \in Touching

AllPairs == {Pair([Index |-> p[1], GenIndex |-> 0], [Index |-> p[2], GenIndex |-> 0]) :
                p \in {q \in (1..MaxSlots) \X (1..MaxSlots) : q[1] < q[2]}}

\* "Called when a trigger ends" (Contact.h:23): a pair the listener believes open
\* does not stay so for ever while its colliders are apart.
EveryTriggerEnds == \A pair \in AllPairs : []<>~(pair \in heard /\ pair \notin Touching)

Listener == INSTANCE ListenerContract WITH open <- colRefPairs, overlapping <- Touching

\* The world keeps the contract of its listener (Contact.h:11-45) while the walk
\* goes over leaves computed before the contacts moved the bodies: every call is
\* true of the shapes where they stand when it is made, not where they were boxed,
\* and what the world remembers of a trigger is what it told.
KeepsContract == Listener!Spec

-----------------------------------------------------------------------------
(* What the comments promise and the code does not do.                     *)

\* A reference given to DestroyBody is "No body found !" afterwards
\* (World.cpp:66-69, 76-79): its generation is over (Refs.h:6).
StaleRefsThrow == \A ref \in stale : ~FindsBody(ref)

\* "Called when a trigger ends" (Contact.h:23): destroying a collider ends its
\* triggers, so no pair is open whose collider is gone.
OpenPairsAreAttached ==
    WalkDone => \A pair \in heard : \A ref \in pair : ref.Index \in Attached

=============================================================================
