# Verification of BarkDirectX

TLA+ modules, TLC configurations and TLAPS proofs for BarkDirectX, a 2D physics
engine in C++ (`src/Physics`), its utilities (`src/Common`) and the demo samples
(`src/samples`, `src/SFML`) that drive it. Paths below are relative to the
repository; in module comments they are relative to `src/Physics` or `src`,
as the name makes clear.

## 1. The system

Everything runs on one thread. `SFMLApp::Run` loops for ever: it polls events,
updates the current sample through `SampleManager`, and draws. A sample owns a
`World`, creates bodies and colliders in it, and is its contact listener. What is
hard here is not parallelism but *protocol*: slots and references that are
recycled, callbacks that must balance over many frames, a broad phase that must
not hide what the narrow phase would see, state kept from one frame or one world
to the next, and geometry pieced together from many cases.

| Component | State | Operations | What makes it correct |
|---|---|---|---|
| **Shapes** (`Shape.h`) | value types: circle, rectangle, convex polygon | `Contains`, `operator+`, nine `Intersect` overloads | the answer is the geometric one, and does not depend on the order of the arguments |
| **Collider** (`Collider.h/.cpp`, `Refs.h`) | shape, body reference, cached body position, trigger and attached flags | `GetBounds`, comparison of unordered pairs | the bounds contain the shape; the cached position is fresh when it is read |
| **QuadTree** (`QuadTree.h/.cpp`) | a fixed pool of nodes, `_nodeIndex` | `SetUpRoot`, `SubdivideNode`, `Insert` | never leaves the pool; every touching pair shares a leaf; no collider twice in a leaf; nothing of last frame's tree shows |
| **World** (`World.h/.cpp`) | vectors of bodies and colliders, their generations, the open trigger pairs, the listener | `SetUp`, `TearDown`, `Create`/`Destroy`/`Get` of bodies and colliders, `Update` | references find what they were given for; slots have one owner; `Update` (`noexcept`) never throws; trigger calls alternate and end |
| **Body** (`Body.h`) | mass (sign = enabled), position, velocity, force, type | setters, `ApplyForce` | STATIC bodies stay |
| **Contact** (`Contact.h/.cpp`) | two colliders and bodies, normal, penetration | `Resolve` and the steps it calls | moves apart only what may move; applied once per contact |
| **Samples** (`samples/`) | references created, colours, counters per collider, mouse flags | `SetUp`, `Update`, `TearDown`, callbacks | counters equal the number of open triggers, over regenerations too |
| **SampleManager**, **SFMLApp** | the current sample; the window | change, regenerate, click; the loop | the sample in use is set up; no input leaks into the next world |
| **Allocators**, **UniquePtr** (`Common/`) | memory blocks | allocate, deallocate, clear | no overlap, no overrun, nothing handed out twice |
| **Timer, Random, Metrics, Utility** | clock, generator | readings and conversions | -- |

Interactions. A sample calls `World` (creation, `Update`, `TearDown`) and writes
through the `Body&` and `Collider&` it returns. `World::Update` integrates the
bodies, copies their positions into the colliders, hands the boxes of the attached
colliders to the quadtree (`SetUpQuadTree`), walks its leaves
(`UpdateQuadTreeCollisions`), asks `Overlap` about each pair a leaf holds, resolves
physical contacts (`Contact`, which moves bodies *during* the walk) and calls the
listener (the sample) back.

The hard behaviours are listed one by one, at their lines, under `hazards` in
`PROJECT.json`.

## 2. The modules

| Module | Models | Uses |
|---|---|---|
| `Shape` | shapes, all intersection tests, `World::Overlap`'s dispatch, `Collider::GetBounds`, on integer coordinates | -- |
| `Overlap` | two colliders wandering over each other, with an independent definition of when two solid shapes meet | `Shape` |
| `QuadCells` | **abstract quadtree**: its leaves, what each lists and in which order the walk reaches them, in closed form from the boxes | `Shape` |
| `QuadTree` | **detailed quadtree**: the recycled pool, and `Insert` with an explicit call stack, one step per call | `QuadCells` |
| `ListenerContract` | **abstract**: what a `ContactListener` may count on, whatever structure finds the pairs | -- |
| `World` | the world's interface and `Update`, the walk one step per pair | `QuadCells`, implements `ListenerContract` |
| `TriggerSample` | the trigger sample driving the world, with its counters | `World` |
| `Contact` | what `World` leaves open: two bodies integrated, and their contact resolved, once per leaf they share | `Shape` |
| `Application` | the application's loop, the sample manager, and what a sample keeps between frames and between worlds | -- |
| `BlockSource` | **abstract**: what the client of an allocator of equal blocks is promised | -- |
| `PoolAllocator` | the pool allocator, its free list in the blocks themselves | implements `BlockSource` |
| `StackAllocator` | the stack allocator, its headers in the arena | -- |
| `UniquePtr` | the owning pointer | -- |
| `Common` | programs that use the pool, the stack or owning pointers | the three |
| `*Proofs` | proofs about the module of that name (`CommonProofs`: the allocators and `UniquePtr`; `GeometryProofs`: lemmas about `Shape` and `QuadCells` that the others rest on) | that module, `TLAPS` |
| `MC*` | small shapes, places, boxes and samples for TLC | the module they instantiate |

How they compose. `QuadTree` is shown by TLC to end every frame in the tree
`QuadCells` defines (`BuildsTheCells`: same leaves, bounds, lists and order). That is
what lets `World` use `Visits` of `QuadCells` for the pairs of a walk instead of
carrying the pool in its state; `BuiltTreeIsTheCells` proves it for every depth, list
size and sequence of boxes. `World` moves the bodies of a contact anywhere, so what
it shows holds for any resolution; `Contact` says where they really go. `World` in turn
is shown (and proved) to implement `ListenerContract`. `TriggerSample` is one client of
`World`: `SampleIsAClient` proves that each of its steps is one `World` allows, so all
that is proved of `World` holds with it. `World` and `TriggerSample` assume that
somebody calls `Update` again and again, and sets the world up once before it is used;
`Application` shows that the loop does (`UpdatesGoOn`, `OnlyTheCurrentIsUp`).

### How state and actions correspond to the code

**World.** `bodies`, `BodyGenIndices`, `colliders`, `ColliderGenIndices`,
`colRefPairs`, `contactListener` are the members with those names; sequences replace
vectors, so index *i* in the code is *i*+1 here. `phase` says whose turn it is: the
world is down, being set up, between two frames, or inside `Update`. `visits` is what
the running walk still has to look at. `bodyRefs`/`colRefs` are the references the
client holds (`Sample.h`); `stale`, `calls`, `heard` are history, read by properties only.

- `SetUp`, `TearDown`, `SetContactListener`, `CreateBody`, `DestroyBody`,
  `CreateCollider`, `DestroyCollider` are the functions of that name, each one step.
  Creation includes the scan for a free slot, the doubling of the vectors and the
  reference handed back.
- `ConfigureBody`, `ConfigureCollider` are what samples write through `GetBody` and
  `GetCollider` after a creation. A destroyed body's colliders may still be configured.
- `Update` is `UpdateBodies` and `SetUpQuadTree`. Where an enabled, non-STATIC body is
  moved to is left open (anywhere in `Places`): velocities, forces and time decide
  only that.
- `VisitPair` is one iteration of the innermost loop of `UpdateQuadTreeCollisions`,
  in its order: `PhysicalContact`, `PhysicalMiss`, `TriggerEnter`, `TriggerExit` or
  `TriggerUnchanged`. The test is made on the bodies as they are *then*, after the
  contacts resolved before in the same walk.
- `UpdateReturns` gives the turn back.

The client is any client that, like all the samples, sets the world up once before
it uses it, uses only references it holds, and does not call the world from a
callback. `TearDown` is `Sample::TearDown`: references and what was counted go with it.

**QuadTree.** `Nodes`, `nodeIndex` are the pool and `_nodeIndex`; `calls` is the stack
of pending `Insert(node, item)` calls. `Descend`, `Split` and `PushBack` are the three
ways through `Insert`. `SetUpRoot` resets what the code resets and nothing else.

**TriggerSample.** `step` is the statement `SampleSetUp` has reached, `made` the
reference its loop body holds. `Callback` is a step of the walk with the call back
into `OnTriggerEnter`/`OnTriggerExit`; `TearDownSample` is a regeneration or a
change of sample.

**ListenerContract.** `open` is `_colRefPairs`, `overlapping` the pairs of attached
colliders whose shapes overlap where the bodies are now (`Touching`; colliders that were
destroyed are in no tree and in no pair of it). `Listener` of `World` is the
refinement mapping. The contract promises no *Exit*: a pair that touches or parts
without being told is allowed, because that is what a walk over leaves does.

**Contact.** `Update` is `UpdateBodies` for the two bodies, `Resolve` one call of
`Contact::Resolve` by the walk, `leaves` how many visits the walk still makes.
`Touch` is the switch over the shapes (with no case for polygons, as in the code),
`Bounced` and `Pushed` the two halves of the resolution. `Resolved` keeps the
recursive call of the rectangle-circle case and the second resolution that follows it.
`DestroyBody` gives a body the mass -1 that `World::DestroyBody` gives it; its collider goes
on meeting the other, and `SignOfInverseMass` is the test by which both halves of the
resolution leave such a contact alone. `Depth` is how far the shapes really are in each
other, which the code's `Penetration` is only while the centre of a circle is outside.

**Application.** `stage` is the statement the body of `SFMLApp::Run` has reached,
`samples` what each sample object keeps: it is built once and set up and torn down many
times. `Closed`, `KeyReleased` and `Click` are the events polled, `PressWidget` the combo
box and buttons of the GUI, `GiveMousePositionToSample`, `UpdateSample` and
`DrawAllGraphicsData` the rest of the frame. The samples differ by their overrides:
whether they draw the quadtree of the last `Update`, and whether they make objects on
clicks. `clicks` and `created` are history.

**Allocators, UniquePtr.** `nextOf` is the first word of every pool block, which is the
link while the block is free and the client's (`Scribble`) while it is not. `memory` is
the arena of the stack, headers included, and `Write` the client writing anything into
what it has. `owned` is `_ptr` of every living pointer; `freed`, `taken` and `deletes` are
history. Clients give back only what they have (or `nullptr`, which the pool accepts), the
stack's its last allocation: the code checks neither. `Common` is the program that uses
them, which is not in the repository: nothing there does. A behaviour of it uses one of
the three; they share no state.

### Abstractions

- Coordinates are integers. `CellBounds` multiplies by 2 to the power `MAX_DEPTH` (`Scale`)
  so that halving is exact. Powers of two and the sum the constructor makes of them are
  recursive functions (`TwoTo`, `NodesTo`), and so is the loop of calls in `CallsFor`: the
  prover can unfold those, and has no rule for `^` or `SelectSeq`. Rounding is not modelled
  (see section 5).
- `numeric_limits<float>::min()` is the smallest *positive* float; `FLT_MIN` is 0, its
  value on integer coordinates. That this is not the most negative float matters at
  negative coordinates and is kept.
- Comparisons of distances compare squares where the code takes roots of both sides.
- In `World`, `Mass` keeps its sign, which is what `IsEnabled` reads; in `Contact` it is a
  positive integer, or the -1 of a destroyed body.
- In `Contact` a frame lasts one second, directions lie on an axis (`Exact`) and the
  shares of the bodies leave no remainder (`SharesDivide`; the run's quantities are multiples
  of a unit that the masses divide): all results are whole numbers, and conservation can
  be stated as equality.
- `unordered_set` of pairs is a set of two-element sets: that is what its
  `operator==` and symmetric hash make of it.

## 3. What the runs check

All runs together take some seven minutes. Deadlock is checked except in `Contact`
(its frames are bounded), `Application` (it ends when the window is closed) and `Common`
(a bounded client has nothing left to do).

| Run | Question | Shown |
|---|---|---|
| `Overlap` | Does the narrow phase agree with geometry, and with the broad phase? | `OverlapIsGeometricButSwallowed`: `Overlap` says yes exactly when the solids meet, except for a circle wholly inside a polygon. `OverlapIsSymmetric`: argument order is irrelevant. `BoundsCoverOverlap`: overlapping colliders have intersecting bounds, also at negative coordinates |
| `OverlapSwallowed` | (violated) "Check if two colliders overlap" (`World.h:116`) | a circle inside a polygon does not overlap it (`Shape.h:356-386`) |
| `QuadTree` | Is a tree built over the remains of the last one right? | `PoolNeverOverrun`, `NoItemTwice`, `TouchingBoxesMeet`, `BuildsTheCells`, `InsertReturns` |
| `WorldApi` | What may any client, and any listener, rely on? | `UpdateNeverThrows`, `NoSharedSlot`, `EnterExitAlternate`, `StaticBodiesStay`, and `KeepsContract`: every call is true of the shapes when it is made, also when a contact has moved a body since the boxes were inserted and its pair is still to be visited |
| `TriggerSplit` | Are the sample's counters and colours right when pairs share several leaves, or part between them? | `CountersCountOpenPairs` and `CallbacksInRange` over regenerations; `EnterNeverMissed`; `OneCallPerPair`; `ListedPairsExact`: what is open of the pairs some leaf lists is what overlaps; `ColoursAreExplained`: a blue object overlaps nothing, a green one something, or it has parted from it into leaves of its own; `AwaitedTriggersEnd`: a trigger that is over is ended if the walk has its pair before it |
| `TriggerNeverEnds` | (violated) "Called when a trigger ends" (`Contact.h:23`) once the root subdivides | two colliders part into different leaves, are never visited as a pair again, and stay open |
| `WorldStaleRef` | (violated) a generation tells a reference from its successors (`Refs.h:6`, `World.cpp:66-69`) | no generation ever advances: a destroyed reference finds a body |
| `WorldGoneCollider` | (violated) "Called when a trigger ends" | destroying a collider leaves its triggers open |
| `Contact` | What does a contact do to its bodies, for every mix of shapes, masses, restitutions, types, order and number of visits? | `NoApproachAfterContact`, `MomentumIsKept`, `NoEnergyGained`, `FurtherVisitsAreHarmless` (a pair that shares several leaves is resolved in each), `GoneBodiesPushNobody` (one of the two was destroyed), `CorrectionIsBounded` (while no centre of a circle is in a rectangle; also when the correction is made twice) |
| `ContactDeeper` | (violated) "Resolve the interpenetration between the two colliding bodies" (`Contact.h:90`) | a circle that comes from above into a rectangle as far as its centre is pushed further in: the normal is then (0, 1) wherever it came from (`Contact.cpp:69`) |
| `Application` | Does the loop keep the samples apart under every order of keys, clicks and widgets? | `OnlyTheCurrentIsUp`, `GraphicsFollowObjects`, `NoObjectWithoutClick`, `MousePosIsOfThisFrame`; `ClosingEnds`, `ClicksCreate` (the clicks of a frame, whichever buttons, make an object), `UpdatesGoOn` |
| `Common` | Does `Common/` keep memory right under every program of allocations, writes, returns, resets, moves and assignments? | `FreeListIsIntact`, `PoolKeepsPromise`, `StackIsExact`, `OneOwnerOrDeletedOnce`, `AssignmentHandsOver` |

Disagreements of the code with its documentation that are modelled as they are, and
that no run is spent on:

- `DestroyBody` leaves the colliders of the body in the world; they follow the slot to
  its next owner, though `IsAttached` is documented as "attached to a body"
  (`Collider.h:32`).
- A recycled body keeps position, velocity, type and force of its last owner
  (`World.cpp:50`).
- `OnCollisionExit` ("Called when a collision ends", `Contact.h:37`) is called at every
  visit of a physical pair that does not overlap, and `OnCollisionEnter` ("Called when a
  collision begins", `Contact.h:30`) at every visit of one that does. `ListenerContract`
  says what is left: the first is told of no overlapping pair, the second of no other.
- `UniquePtr::IsNull` is documented as the opposite of what it returns
  (`UniquePtr.h:91-94`).
- "Left click to create a circle, right click to create a rectangle"
  (`GroundCollisionSample.cpp:8`): a right click released in the frame of a left one creates
  nothing, for `SampleUpdate` asks for the right button only `else`
  (`GroundCollisionSample.cpp:48-52`) and `Sample::Update` then clears both flags
  (`Sample.cpp:15-16`). `ClicksCreate` is stated of the clicks of a frame together for
  that reason.
- `StackAllocator::Allocate` throws "StackAllocator out of memory" when the payload does
  not fit, but takes payload *and header* (`Allocators.h:81-95`), so the last allocation may
  end one header behind the arena. `StackAllocator` does the same, and gives `memory` the
  word behind the arena for it; nothing in the repository uses the allocator.

`TriggerSplit` and `TriggerNeverEnds` draw the line between what the walk over leaves
promises and what it does not, with the same client and the same listener. At the end of
an `Update` no overlap is unreported, and whatever pair some leaf still lists is reported as
it is; only a pair that no leaf lists any more may be open for nothing, and then for
ever. `TriggerNeverEnds` needs one list that overflows, as those of the trigger sample do: it
has 300 objects and `MAX_COL_NBR` is 16.

### Bounds, and why they are enough

- **WorldApi**: `InitSize` 1. With vectors of two slots the client makes every call in every
  order: one slot makes the first creation use the scan and the second the doubling, and
  each of the two is destroyed and recycled. Two places: touching and apart. Or else,
  before its first frame, it makes three objects (`ThreeObjects`; the vectors then
  have four slots) and from then on only updates and tears down. Lists take two
  boxes and `MAX_DEPTH` is 1, so that three together make the root subdivide and an `Update`
  goes over several leaves: a contact moves a body while other pairs it is in, and the same
  pair in other leaves, are still to be visited. The mutant `PlacedAsBoxed`, which tests
  shapes where they were boxed, violates `KeepsContract` there and only there.
  `TwoSlotsOrThreeObjects` is this bound, stated as an action constraint; the view leaves
  out `stale`, which no action and no property of the run reads.
- **WorldStaleRef, WorldGoneCollider**: as `WorldApi` with two slots.
- **TriggerSplit**: three objects, lists of two, `MAX_DEPTH` 1. The root subdivides as soon
  as three boxes are in it, and pairs share one, two or four leaves or none. The five
  places (`FivePlaces`) put objects together, touching, and apart in one leaf, and the one
  in the middle is listed with either of two others when both are there and with neither
  when one is not: this is how a pair parts where a leaf still lists it, or does not.
  The vectors double from 2 to 4 slots.
- **TriggerNeverEnds**: the same with two places, which suffice to part.
- **QuadTree**: lists of two, depth 2, up to four boxes out of three (one on the
  boundary between cells, one over everything, one at negative coordinates), repeated
  as often as wanted. Three large boxes make the root and all its children divide at
  once, which uses the whole pool; a fourth descends into nodes that are divided already.
  Frames follow each other without end, so that every tree is built over the remains of
  every other.
- **Overlap**: seven shapes of the three kinds (off-centre, slanted, at negative
  coordinates) at twelve places each.
- **Contact**: two frames, because the first brings a force or a velocity into a contact
  and the second meets what it left behind; two visits in each, because a third starts
  where a second did. The bodies start in two places, above each other; velocities bring
  them beside each other and a centre into a rectangle too. Masses 2 and 6 make parts of a
  quarter, a half and three quarters, and neither adds up to zero with the -1 of a
  destroyed body; restitution is 0 or 1 for each collider, so the weighted mean also takes
  the values between; the STATIC body may be either of the two or both. One body may be
  destroyed, between the two frames and after a contact of the first (`DestroyBody`): the
  second then finds the two in each other. The unit is what those masses divide in two
  frames (`Unit`), so that no division in the model rounds.
- **ContactDeeper**: one frame of the same.
- **Application**: one sample of every behaviour (nothing, objects, objects and tree,
  objects on clicks); with four, next and previous wrap at both ends and skip the
  default one. Two clicks are a left and a right one, in one frame or in two, on one sample
  or on two. Trees of one and of four leaves make a vector longer and shorter than the one
  before.
- **Common**: four pool blocks (a list with two inner links after two are taken), an arena
  of six words with requests of none, one and two, which is filled exactly and overrun,
  three pointers over four objects.
- `Places`, `Shapes`, `BodyTypes`, `TriggerFlags`, `Boxes`, `MaxItems`, `MaxSlots` are
  bounds of the models and named as such where they are declared. `CreateBody` and
  `CreateCollider` are disabled when they would grow beyond `MaxSlots`.

### Fairness

- `World`: weak fairness of `Update`, `VisitPair` and `UpdateReturns`.
  `SFMLApp::Run` (`SFMLApp.cpp`) updates the current sample in every turn of an endless
  loop, and an `Update` once called has only finite loops. Nothing is assumed of
  creations, destructions or of where bodies go.
- `TriggerSample`: weak fairness of every step but `TearDownSample`, for the same reason:
  a set-up once begun is straight-line code. Regenerating is the user's choice.
  `WalkSpec`, which `TriggerSplit` uses, assumes less: weak fairness of `Callback` alone, that
  a walk which has a pair before it goes on. This is enough for `AwaitedTriggersEnd`.
- `QuadTree`: weak fairness of `InsertNext \/ Insert`, the loop of `SetUpQuadTree`; that a
  frame begins is not assumed.

- `Application`: weak fairness of `Start`, of `NoEventLeft` and of the statements of
  the loop behind the polling of events: statements follow each other, and the queue of
  events runs out in every frame (`pollEvent` returns what has happened, and a user
  does not outrun it). Nothing is assumed of what the user does.
- `Contact`, `Common`: none; they have no liveness properties.

`EveryTriggerEnds` says `[]<>~(open and apart)`: it asks for no particular movement, and
is violated only by a behaviour in which a pair stays open *and* apart for ever while
`Update` goes on.

## 4. What is proved

Each theorem holds for every value of the constants allowed by the `ASSUME`s of the
modules it is about. `PROJECT.json` lists them under `theorems`.

| Module | Theorems |
|---|---|
| `WorldProofs` | `TypeCorrectness`, `UpdateCannotThrow`, `SlotsAreNotShared`, `EnterAndExitAlternate`, `StaticBodiesAreStill`, `WorldKeepsContract`, `ListedPairsAreExact`, `EveryOverlapIsTold` |
| `TriggerSampleProofs` | `SampleIsAClient`, `SampleTypeCorrectness`, `CallbacksStayInRange`, `CountersAreExact`, `PairsAreToldOnce`, `GreenHasReason`, `ColoursHaveReasons`, `OpenPairsStayAttached` |
| `QuadTreeProofs` | `TreeInvAlways`, `PoolSuffices`, `ListsAreSets`, `BuiltTreeIsTheCells`, `TouchingBoxesListed` |
| `OverlapProofs` | `OverlapStaysSymmetric`, `OverlapLiesInBounds`, `OverlapMeansMeeting` |
| `ContactProofs` | `ContactTyped`, `ContactGainsNoEnergy`, `ContactPartsBodies`, `ContactKeepsMomentum`, `ContactWithGoneIsVoid`, `ContactCorrectsBounded`, `ContactFurtherVisits` |
| `ApplicationProofs` | `IndexStaysInRange`, `OneSampleIsUp`, `GraphicsAreInStep`, `ClickMakesOneObject`, `MousePosIsFresh` |
| `CommonProofs` | `FreeListStaysIntact`, `PoolImplementsSource`, `StackStaysExact`, `OwnershipIsExact`, `AssignmentIsSafe` |
| `GeometryProofs` | only lemmas: minima and maxima, recursive functions, boxes and shapes; powers of two and cells |

**World.** All rest on `Invariance`, `Spec => []IInv`. Each conjunct of `IInv` is needed:

- `GenerationsZero`: the guard in `GetBody` compares generations; it passes for every
  reference because no code advances one. `UpdateNeverThrows` is true *for that reason*,
  which is also why `StaleRefsThrow` is false. A repair of one must not break the other:
  the mutant `DestroyBodyNextGeneration` shows that it would, since colliders keep the
  old generation.
- `BodyRefsLive`, `ColRefsLive`: a held reference names a slot in use. The scan hands out
  only slots not in use, so what it hands out nobody holds: `NoSharedSlot`.
- `CollidersNameBodies`: *every* collider names an existing body slot, the unused ones
  too (a default one names the first), because `SetUp` never sizes a vector to zero and
  vectors never shrink but in `TearDown`.
- `VisitsInRange`: what the walk still looks at exists; no step of the walk resizes.
- `HeardIsOpen`: what the listener was last told of a pair is what `colRefPairs` remembers.
  Alternation follows from it, including over `TearDown`, which clears both.
- `PhaseOK`: a world that is down is empty, one that is not has a slot, and no visits
  are left between frames.

There is one lemma per action (`CreateBodyPreserves`, ...), lemmas about `Resized` and
functional update of sequences, and `VisitPairEffect`, which says what any of the five
kinds of visit may change. The quadtree enters only through `VisitsAreOfBoxes`: whatever
its constants, it pairs indices of the boxes it was given. `WorldKeepsContract` maps each
of the five kinds of visit to the action of `ListenerContract` of that name and every
other step to `Move`, `NewFrame` or `TearDown`; an *Exit* is true of the shapes because
`Overlap` was asked of the bodies where they are at the visit.

*What the walk settles.* `EveryOverlapIsTold` says that the quadtree hides no overlap from
the listener, and needs every layer below it: shapes that overlap have boxes that intersect
(`BoundsCover`), boxes that intersect share a leaf (`TouchingBoxesShareLeaf`), two boxes in
a leaf are visited (`SharedLeafIsVisited`), and a visit settles a pair (`VisitSettles`).
They meet in `WalkInv`: in a world of triggers, every pair the walk is sure to compare is
either settled (the listener believes of it what is so) or still pending, and no pair was
told twice. The pairs sure to be compared are those some leaf lists together (`Compared`),
which those whose boxes intersect are among. `WalkInv` is established by `Update`, because
the boxes are taken after the positions are copied, and kept by every visit, because no
trigger moves a body. `ListedPairsAreExact` is what this says when the walk is over, of
shapes of every kind; `EveryOverlapIsTold` is about circles and rectangles as their
constructors make them (`PlainShapes`); the invariant only asks that overlapping shapes have
intersecting boxes and that the order of the two does not matter (`ShapesCovered`), which
for polygons in pairs TLC checks.

**TriggerSample.** `SInv` is `IInv` (which holds because the sample is a client) with
`SlotsOK` (its colliders are in the first slots, since a fresh world is filled from there
and the sample destroys nothing), `VisitsAttached` (the walk visits attached colliders
only), `PairsOK` (no pair is open before there are counters), `MadeOK` (the reference the
set-up holds is one the world gave it) and `StepOK`. From these a callback indexes a counter
that exists, and changes the two it should: `OpenedCounted` and `ClosedCounted` are the
counting steps, on cardinalities of sets of pairs.

`LInv` adds what makes the sample's world one of triggers: it listens (`Listens`), every
collider in use is a trigger but the one being configured (`AllTriggers`, `MadeOne`),
nothing is told before the loop (`LoopOK`), and both colliders of an open pair are in use
(`OpenAttached`). `PairsAreToldOnce` and `OpenPairsStayAttached` need nothing else.
`GreenHasReason` says what a green object may be taken to mean, and nothing more is true of
the code: something overlaps it, or it was left by something in other leaves. Like
`ListedPairsAreExact` it holds of any number of objects and kinds of shapes, so of the
sample's 300 with its triangles. That a blue object overlaps nothing (`ColoursHaveReasons`)
also needs that shapes overlap only where their boxes do (`ShapesCovered`).

**QuadTree.** `TreeInv` says what the pool is at every moment between two calls of
`Insert`. Which cell a node stands for, and which nodes lie on the way to it, are not in
the program's state: the invariant says that *there are* such functions, `C` and `Up`, and
the lemma of each action gives those of the next state. Its parts:

- `PoolOK`: nodes not handed out are as `SetUpRoot` cleared them; those that were divided
  have four children behind them and no list; every node but the root is a child.
- `CellsOK`, `BoundsOK`: every node handed out has a cell of its own, at its depth and with
  its box, and a divided node has the four quarters. Division is exact on scaled bounds,
  so a quarter's box is the cell's. The pool suffices (`PoolSuffices`) because different
  nodes stand for different cells, and a tree of depth `MAX_DEPTH` has no more than
  `PoolSize`.
- `PathsOK`, `NestOK`: the nodes from the root to each node; what hits a node hits all of
  these.
- `OrderOK`: each list is in increasing order, and what is still to come to a node, by the
  calls pending for the nodes above it, follows what it has and is itself in order. This is
  what makes `NoItemTwice` inductive over the recursion, and why the explicit stack of
  calls is in the state.
- `ReachOK`: a leaf lists every item inserted that hits it, or a call for the item is
  pending on the way there; and it lists no others.
- `DivisionOK`: a leaf above the last depth is not too long, and a node was divided only
  because more than `MAX_COL_NBR` items hit it. With no call pending this and `ReachOK`
  say that the tree is the one `QuadCells` defines: `BuiltTreeIsTheCells`, from which
  `TouchingBoxesListed` follows with `TouchingBoxesShareLeaf`.

**Application.** `AppInv` adds to the checked properties: `GraphicsFit` for *every*
sample, not only the one shown (it is a sample's turn again later), `OnlyCurrent`,
`ClicksPayForObjects` (objects made and flags still set are covered by clicks: the flag of a
sample that was left is a debt, which is why it must not be paid twice) and `LeavesDrawn`.

**Common.** `PoolInv` is inductive with its types. `StackInv` needs `InOrder`: each
allocation ends before the header of the next, so a client's write, which stays in its
own allocation, touches no header. `PtrInv` states ownership for each created object as
the existence of one owner (`Accounted`), from which the cardinality follows at the end.

**Overlap.** `OverlapInv` says the colliders are colliders; the symmetry of each of the
tests is a lemma over all integers (`CirclesSymmetric`, `RectanglesSymmetric`,
`DispatchSymmetric`). `OverlapLiesInBounds` takes the kinds of shapes in turn: a circle
within its radius of a corner or a side, a polygon within the box of its vertices, and,
for a polygon and a rectangle, the axes of the rectangle among those the separating axis
test tries. It covers every pair but two polygons, where it would need that the separating
axis theorem holds of their own sides. `OverlapMeansMeeting` is
`OverlapIsGeometricButSwallowed` for a circle and anything, and for two rectangles: the
nearest point of a rectangle to a centre is found region by region, and the distance to an
edge of a polygon is that to the point the code projects on, clamped to the segment. The
exception (`Swallowed`) is exactly the finding of `OverlapSwallowed`: the centre is
inside the polygon and no edge is touched.

**Contact.** `ContactInv` says of what kinds the state is, and that a STATIC body has no
velocity, without which a pair of STATIC bodies would be given one. There is one lemma for
each stage of a visit: what the switch finds (`TouchIs`: a direction of length one, or the
zero vector for a polygon), that nothing happens if a body was destroyed (`GoneStay`, from
`InverseMassIs`: the sum of the inverse masses is then no more than 0), how the shares add
up (`SharesAre`, from `PartsMakeWhole`, `GainsAre` and `RestoredBounds`), what one solution
does to positions and velocities (`SolvedMoves`) and what a visit is (`VisitIs`: one
solution, or two with the same touch when a rectangle meets a circle).
`ContactGainsNoEnergy`, `ContactPartsBodies` and `ContactKeepsMomentum` are each a lemma
about one solution (`SolvedGainsNoEnergy`, `SolvedPart`, `SolvedKeepsMomentum`), applied
once or twice. `ContactCorrectsBounded` and `ContactFurtherVisits` need the touch that is
found *afterwards*: `TouchMoves` says that bodies pushed apart along their normal touch with
that normal still, less deep by no more than they were pushed, and by just as much if their
shapes are of one kind. A circle whose centre is in a rectangle is the case that makes the
difference: the push may stay inside, where the vector the normal is taken from is zero, and
it may go the wrong way. `ContactCorrectsBounded` therefore leaves it out
(`CentreIsInside`), measures by how far the shapes are in each other (`Depth`) and not by
what the code takes for it, and rests on `CentreStaysOut`: a centre that is outside is not
pushed in. What the code does with a centre inside is the finding of `ContactDeeper`.
`ContactFurtherVisits` rests on `SettledInv`: between the visits of a frame, after a
resolution, the bodies part along the normal the next visit will find, and two DYNAMIC ones
of one kind of shape are not in each other. The shares are those without a remainder
(`SharesDivide`): the model's integers stand for floats that divide exactly, and with the
integers' rounding momentum would not be kept. For the run the guard cuts nothing off (the
same 443342 states are reached without it).

**How induction is done.** The induction theorems of the library take an operator as a
parameter, which the installed provers cannot instantiate. Where a proof needs induction
(over depths, lists or finite sets) it goes by least counterexample: `LeastNatural` of
`GeometryProofs`, itself proved from well-foundedness, gives the least number in a non-empty
set of naturals, and the set is that of the numbers for which the claim fails.
`RecursionExists` shows in the same way that a function defined by recursion exists, which
gives the equations of `TwoTo`, `NodesTo` and the loop in `CallsFor`.

**Only model-checked**, and why:

- Liveness (`InsertReturns`, `AwaitedTriggersEnd`, `ClosingEnds`, `ClicksCreate`,
  `UpdatesGoOn`): out of the prover's reach.
- `OverlapIsGeometricButSwallowed` for a polygon and a polygon or rectangle, and
  `BoundsCoverOverlap` for two polygons: they are the separating axis theorem, which is
  about convex outlines of any number of vertices.
- The violated properties.

## 5. What is not modelled, and why

- **Tracy** (`src/External`): vendored, compiled in only with `TRACY_ENABLE`. It is
  43 700 of the repository's 47 400 lines; what is modelled here is modelled of the rest.
- **Floating point**: shapes, cells and contacts are on integers. In `SubdivideNode` halving
  and adding back may miss the parent's bound by a rounding, so a thin box at the far edge
  could intersect no child; whether it does depends on the bits of the bounds. Masses
  of 0, infinities and NaN are left out for the same reason.
- **Contacts of polygons**: `Touch` has no case for them because the code has none; the
  run uses circles and rectangles.
- **FreeListAllocator**: it has no behaviour to check. `Allocate` returns `current + 1`, 16
  bytes into the block it has split at `count * typeSize`, so the payload ends 16 bytes
  inside the header of the next free block: after the first allocation the list is
  what the client writes. An exact fit moves `_freeList` behind the block to a header nobody
  wrote, the rest of a block that is not the first is unlinked, `Deallocate` keeps a size
  nobody wrote, and `Reset` writes the full size at `_freeList` instead of the start. A model
  would be a choice over arbitrary memory. Nothing uses it.
- **LinearAllocator** is a counter; **HeapAllocator**, **ProxyAllocator** and
  **StandardAllocator** pass requests on.
- **Samples**: gravitation of `StarSystemSample`, reflection at walls, sizes and colours are
  arithmetic or random choices with nothing discrete in them; their positions are left
  open. `FormsTriggerSample` counts triggers as `TriggerSample` does.
- **Drawing, ImGui, windows, Timer, Random, Metrics**: input and output. What they choose
  (positions, times) is left open. **Renderer** is an empty file.
- **References to vector elements** (`Body&`, `Collider&`) that dangle when a vector grows:
  C++ references are not state of the models. The samples fetch them again after each
  creation.

## 6. What could follow

All that was planned is done but for the float model of one quadtree axis (above). The
next steps we see: a walk over leaves in `Contact` with three bodies, where a correction
pushes one body into a third; the two halves of a repair for generations, which the mutant
`DestroyBodyNextGeneration` shows must be made together; and the separating axis theorem
for outlines of any number of vertices, which would prove what is left of `Overlap`.
