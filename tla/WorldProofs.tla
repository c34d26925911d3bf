---------------------------- MODULE WorldProofs ----------------------------
(***************************************************************************)
(* Proofs of the properties of World for every InitSize, every bound and   *)
(* every set of places and shapes.                                         *)
(***************************************************************************)
EXTENDS World, GeometryProofs, SequenceTheorems

-----------------------------------------------------------------------------
(* The inductive invariant.                                                *)

\* No code advances a generation: DestroyBody and DestroyCollider leave it.
GenerationsZero ==
    /\ \A i \in 1..Len(bodies) : BodyGenIndices[i] = 0
    /\ \A i \in 1..Len(colliders) : ColliderGenIndices[i] = 0

\* The references a client still holds name slots that are in use.
BodyRefsLive ==
    \A ref \in bodyRefs : /\ ref.Index \in 1..Len(bodies) /\ ref.GenIndex = 0
                          /\ IsEnabled(bodies[ref.Index])

ColRefsLive ==
    \A ref \in colRefs : /\ ref.Index \in 1..Len(colliders) /\ ref.GenIndex = 0
                         /\ colliders[ref.Index].IsAttached

\* Every collider names a body slot; a default one names the first.
CollidersNameBodies ==
    \A i \in 1..Len(colliders) : /\ colliders[i].BodyRef.Index \in 1..Len(bodies)
                                 /\ colliders[i].BodyRef.GenIndex = 0

\* The walk looks at a pair from its lower slot.
VisitsInRange ==
    \A v \in visits : /\ v.a.Index < v.b.Index
                      /\ \A ref \in {v.a, v.b} :
                            ref.Index \in 1..Len(colliders) /\ ref.GenIndex = 0

\* What the listener was told last of a pair is what the world remembers of it.
HeardIsOpen == heard = colRefPairs

PhaseOK ==
    /\ phase = "down" => /\ bodies = <<>> /\ colliders = <<>>
                         /\ BodyGenIndices = <<>> /\ ColliderGenIndices = <<>>
                         /\ bodyRefs = {} /\ colRefs = {}
    /\ phase # "down" => Len(bodies) > 0
    /\ phase # "update" => visits = {}

IInv == /\ TypeOK /\ GenerationsZero /\ BodyRefsLive /\ ColRefsLive
        /\ CollidersNameBodies /\ VisitsInRange /\ HeardIsOpen /\ PhaseOK

-----------------------------------------------------------------------------
(* Lemmas about vectors and the walk.                                      *)

\* resize gives a vector of that size.
LEMMA ResizedSeq ==
    ASSUME NEW S, NEW vector \in Seq(S), NEW size \in Nat, NEW value \in S
    PROVE  /\ Resized(vector, size, value) \in Seq(S)
           /\ Len(Resized(vector, size, value)) = size
<1> DEFINE e(i) == IF i <= Len(vector) THEN vector[i] ELSE value
<1>1. \A i \in 1..size : e(i) \in S
  BY ElementOfSeq, LenProperties
<1>2. [i \in 1..size |-> e(i)] \in [1..size -> S]
  BY <1>1
<1>3. [i \in 1..size |-> e(i)] \in Seq(S)
  BY <1>2
<1>4. Len([i \in 1..size |-> e(i)]) = size
  BY <1>2, <1>3, LenProperties
<1> QED
  BY <1>3, <1>4 DEF Resized

\* A vector rewritten element by element keeps its length.
LEMMA RewrittenSeq ==
    ASSUME NEW S, NEW n \in Nat, NEW f \in [1..n -> S]
    PROVE  f \in Seq(S) /\ Len(f) = n
<1>1. f \in Seq(S)
  OBVIOUS
<1> QED
  BY <1>1, LenProperties

\* The walk looks only at boxes that were inserted.
LEMMA VisitsAreOfBoxes ==
    ASSUME NEW boxes, NEW v \in Visits(boxes)
    PROVE  v.a \in DOMAIN boxes /\ v.b \in DOMAIN boxes /\ v.a < v.b
<1> DEFINE root == RootBounds(boxes)
<1>1. \A cell : Reaching(boxes, root, cell) \subseteq DOMAIN boxes
  BY DEF Reaching
<1>2. PICK cell \in Leaves(boxes, root) :
        \E p \in Reaching(boxes, root, cell) \X Reaching(boxes, root, cell) :
            p[1] < p[2] /\ v = [leaf |-> Rank(cell), a |-> p[1], b |-> p[2]]
  BY DEF Visits
<1> QED
  BY <1>1, <1>2

\* What the constants and the defaults of the code give the slots.
LEMMA Defaults ==
    /\ InitSize \in Nat /\ InitSize > 0
    /\ DefaultBody \in Body
    /\ DefaultCollider \in Collider
    /\ DefaultCollider.BodyRef = [Index |-> 1, GenIndex |-> 0]
    /\ ~DefaultCollider.IsAttached
<1>1. InitSize \in Nat /\ InitSize > 0
  BY WorldAssumption
<1>2. DefaultBody \in Body
  BY WorldAssumption DEF DefaultBody, Body
<1>3. DefaultCollider \in Collider
  BY WorldAssumption DEF DefaultCollider, Collider, Ref
<1> QED
  BY <1>1, <1>2, <1>3 DEF DefaultCollider

\* A reference is its two numbers.
LEMMA SameRef ==
    ASSUME NEW r \in Ref, NEW s \in Ref, r.Index = s.Index, r.GenIndex = s.GenIndex
    PROVE  r = s
BY DEF Ref

\* Enable makes a body an enabled one.
LEMMA EnabledBody ==
    ASSUME NEW body \in Body
    PROVE  /\ [body EXCEPT !.Mass = 1] \in Body
           /\ IsEnabled([body EXCEPT !.Mass = 1])
BY DEF Body, IsEnabled

\* Moving bodies leaves them bodies, enabled or not as they were.
LEMMA BodiesMoved ==
    ASSUME NEW vector \in Seq(Body), NEW moved,
           moved = [i \in 1..Len(vector) |-> moved[i]],
           \A i \in 1..Len(vector) :
                \/ moved[i] = vector[i]
                \/ \E place \in Places : moved[i] = [vector[i] EXCEPT !.Position = place]
    PROVE  /\ moved \in Seq(Body) /\ Len(moved) = Len(vector)
           /\ \A i \in 1..Len(vector) : IsEnabled(moved[i]) <=> IsEnabled(vector[i])
<1>1. Len(vector) \in Nat /\ \A i \in 1..Len(vector) : vector[i] \in Body
  BY LenProperties, ElementOfSeq
<1>2. \A i \in 1..Len(vector) : moved[i] \in Body /\ moved[i].Mass = vector[i].Mass
  BY <1>1 DEF Body
<1>3. moved \in [1..Len(vector) -> Body]
  BY <1>2
<1>4. moved \in Seq(Body) /\ Len(moved) = Len(vector)
  BY <1>1, <1>3, RewrittenSeq
<1> QED
  BY <1>2, <1>4 DEF IsEnabled

\* Disabling one body leaves the others.
LEMMA BodyDisabled ==
    ASSUME NEW vector \in Seq(Body), NEW i \in 1..Len(vector), NEW written,
           written = [vector EXCEPT ![i].Mass = -1]
    PROVE  /\ written \in Seq(Body) /\ Len(written) = Len(vector)
           /\ \A k \in 1..Len(vector) : k # i => written[k] = vector[k]
<1>1. /\ Len(vector) \in Nat /\ DOMAIN vector = 1..Len(vector)
      /\ \A k \in 1..Len(vector) : vector[k] \in Body
  BY LenProperties, ElementOfSeq
<1>2. \A k \in 1..Len(vector) : written[k] \in Body /\ (k # i => written[k] = vector[k])
  BY <1>1 DEF Body
<1>3. written = [k \in 1..Len(vector) |-> written[k]]
  BY <1>1
<1>4. written \in [1..Len(vector) -> Body]
  BY <1>2, <1>3
<1>5. written \in Seq(Body) /\ Len(written) = Len(vector)
  BY <1>1, <1>4, RewrittenSeq
<1> QED
  BY <1>2, <1>5

\* Detaching one collider leaves the others, and its body.
LEMMA ColliderDetached ==
    ASSUME NEW vector \in Seq(Collider), NEW i \in 1..Len(vector), NEW written,
           written = [vector EXCEPT ![i].IsAttached = FALSE]
    PROVE  /\ written \in Seq(Collider) /\ Len(written) = Len(vector)
           /\ \A k \in 1..Len(vector) : k # i => written[k] = vector[k]
           /\ written[i].BodyRef = vector[i].BodyRef
<1>1. /\ Len(vector) \in Nat /\ DOMAIN vector = 1..Len(vector)
      /\ \A k \in 1..Len(vector) : vector[k] \in Collider
  BY LenProperties, ElementOfSeq
<1>2. \A k \in 1..Len(vector) : /\ written[k] \in Collider
                                /\ k # i => written[k] = vector[k]
                                /\ written[k].BodyRef = vector[k].BodyRef
  BY <1>1 DEF Collider
<1>3. written = [k \in 1..Len(vector) |-> written[k]]
  BY <1>1
<1>4. written \in [1..Len(vector) -> Collider]
  BY <1>2, <1>3
<1>5. written \in Seq(Collider) /\ Len(written) = Len(vector)
  BY <1>1, <1>4, RewrittenSeq
<1> QED
  BY <1>2, <1>5

-----------------------------------------------------------------------------
(* The client's calls.                                                     *)

\* The world starts empty.
LEMMA InitEstablishes == Init => IInv
<1> SUFFICES ASSUME Init PROVE IInv
  OBVIOUS
<1>1. TypeOK
  BY EmptySeq DEF Init, TypeOK
<1> QED
  BY <1>1 DEF Init, IInv, GenerationsZero, BodyRefsLive, ColRefsLive, CollidersNameBodies,
              VisitsInRange, HeardIsOpen, PhaseOK

\* SetUp makes slots to hand out.
LEMMA SetUpPreserves == IInv /\ SetUp => IInv'
<1> SUFFICES ASSUME IInv, SetUp PROVE IInv'
  OBVIOUS
<1>0. /\ bodies' = Resized(bodies, InitSize, DefaultBody)
      /\ BodyGenIndices' = Resized(BodyGenIndices, InitSize, 0)
      /\ colliders' = Resized(colliders, InitSize, DefaultCollider)
      /\ ColliderGenIndices' = Resized(ColliderGenIndices, InitSize, 0)
      /\ bodies \in Seq(Body) /\ Len(bodies) = 0
      /\ colliders \in Seq(Collider) /\ Len(colliders) = 0
      /\ BodyGenIndices \in Seq(Nat) /\ Len(BodyGenIndices) = 0
      /\ ColliderGenIndices \in Seq(Nat) /\ Len(ColliderGenIndices) = 0
  BY DEF SetUp, IInv, PhaseOK, TypeOK
<1>1. /\ bodies' \in Seq(Body) /\ Len(bodies') = InitSize
      /\ \A i \in 1..InitSize : bodies'[i] = DefaultBody
  BY <1>0, ResizedSeq, Defaults DEF Resized
<1>2. /\ colliders' \in Seq(Collider) /\ Len(colliders') = InitSize
      /\ \A i \in 1..InitSize : colliders'[i] = DefaultCollider
  BY <1>0, ResizedSeq, Defaults DEF Resized
<1>3. /\ BodyGenIndices' \in Seq(Nat) /\ Len(BodyGenIndices') = InitSize
      /\ ColliderGenIndices' \in Seq(Nat) /\ Len(ColliderGenIndices') = InitSize
      /\ \A i \in 1..InitSize : BodyGenIndices'[i] = 0 /\ ColliderGenIndices'[i] = 0
  BY <1>0, ResizedSeq, Defaults DEF Resized
<1>4. TypeOK'
  BY <1>1, <1>2, <1>3 DEF SetUp, IInv, TypeOK, client, history
<1>5. CollidersNameBodies'
  BY <1>1, <1>2, Defaults DEF CollidersNameBodies
<1>6. (BodyRefsLive /\ ColRefsLive /\ VisitsInRange)'
  BY DEF SetUp, IInv, PhaseOK, BodyRefsLive, ColRefsLive, VisitsInRange, client
<1>7. (GenerationsZero /\ HeardIsOpen /\ PhaseOK)'
  BY <1>1, <1>2, <1>3, Defaults
  DEF SetUp, IInv, GenerationsZero, HeardIsOpen, PhaseOK, history
<1> QED
  BY <1>4, <1>5, <1>6, <1>7 DEF IInv

\* TearDown empties the world, and what was told is forgotten with the pairs.
LEMMA TearDownPreserves == IInv /\ TearDown => IInv'
<1> SUFFICES ASSUME IInv, TearDown PROVE IInv'
  OBVIOUS
<1>1. TypeOK'
  BY EmptySeq DEF TearDown, IInv, TypeOK
<1> QED
  BY <1>1 DEF TearDown, ClientTurn, IInv, GenerationsZero, BodyRefsLive, ColRefsLive,
              CollidersNameBodies, VisitsInRange, HeardIsOpen, PhaseOK

\* Setting the listener touches no slot and no reference.
LEMMA SetContactListenerPreserves == IInv /\ SetContactListener => IInv'
<1> SUFFICES ASSUME IInv, SetContactListener PROVE IInv'
  OBVIOUS
<1>1. TypeOK'
  BY DEF SetContactListener, slots, client, history, IInv, TypeOK
<1>2. (GenerationsZero /\ BodyRefsLive /\ ColRefsLive /\ CollidersNameBodies)'
  BY DEF SetContactListener, slots, client, IInv, GenerationsZero, BodyRefsLive, ColRefsLive,
         CollidersNameBodies
<1>3. (VisitsInRange /\ HeardIsOpen /\ PhaseOK)'
  BY DEF SetContactListener, slots, client, history, IInv, VisitsInRange, HeardIsOpen, PhaseOK
<1> QED
  BY <1>1, <1>2, <1>3 DEF IInv

\* CreateBody hands out a slot nobody holds, after growing if there is none.
LEMMA CreateBodyPreserves == IInv /\ CreateBody => IInv'
<1> SUFFICES ASSUME IInv, CreateBody PROVE IInv'
  OBVIOUS
<1> DEFINE full == \A i \in 1..Len(bodies) : IsEnabled(bodies[i])
           size == IF full THEN 2 * Len(bodies) ELSE Len(bodies)
           slot == Resized(bodies, size, DefaultBody)
           gens == Resized(BodyGenIndices, size, 0)
<1>1. /\ bodies \in Seq(Body) /\ BodyGenIndices \in Seq(Nat)
      /\ Len(bodies) \in Nat /\ Len(BodyGenIndices) = Len(bodies)
      /\ size \in Nat /\ Len(bodies) <= size
  BY LenProperties DEF IInv, TypeOK
<1> HIDE DEF full, size
<1>2. PICK index \in 1..size :
        /\ ~IsEnabled(slot[index])
        /\ bodies' = Enabled(slot, index)
        /\ BodyGenIndices' = gens
        /\ bodyRefs' = bodyRefs \cup {[Index |-> index, GenIndex |-> BodyGenIndices'[index]]}
  BY DEF CreateBody, full, size
<1>3. /\ slot \in Seq(Body) /\ Len(slot) = size
      /\ \A i \in 1..Len(bodies) : slot[i] = bodies[i]
  <2>1. slot \in Seq(Body) /\ Len(slot) = size
    BY <1>1, ResizedSeq, Defaults
  <2>2. \A i \in 1..Len(bodies) : slot[i] = bodies[i]
    BY <1>1 DEF Resized
  <2> QED
    BY <2>1, <2>2
<1>4. /\ gens \in Seq(Nat) /\ Len(gens) = size
      /\ \A i \in 1..size : gens[i] = 0
  BY <1>1, ResizedSeq DEF Resized, IInv, GenerationsZero
<1> HIDE DEF slot, gens
<1>5. /\ bodies' \in Seq(Body) /\ Len(bodies') = size
      /\ IsEnabled(bodies'[index])
      /\ \A i \in 1..Len(bodies) : IsEnabled(bodies[i]) => IsEnabled(bodies'[i])
  <2>0. slot[index] \in Body
    BY <1>2, <1>3, ElementOfSeq
  <2>1. [slot[index] EXCEPT !.Mass = 1] \in Body
    BY <2>0, EnabledBody
  <2>2. bodies' = [slot EXCEPT ![index] = [slot[index] EXCEPT !.Mass = 1]]
    BY <1>2 DEF Enabled
  <2>3. bodies' \in Seq(Body) /\ Len(bodies') = size
    BY <1>2, <1>3, <2>1, <2>2, ExceptSeq
  <2>4. \A i \in 1..size :
            bodies'[i] = IF i = index THEN [slot[index] EXCEPT !.Mass = 1] ELSE slot[i]
    BY <1>2, <1>3, <2>1, <2>2, ExceptSeq
  <2>6. IsEnabled(bodies'[index])
    BY <1>2, <2>0, <2>4, EnabledBody
  <2>7. \A i \in 1..Len(bodies) : IsEnabled(bodies[i]) => IsEnabled(bodies'[i])
    BY <1>1, <1>3, <2>4, <2>6
  <2> QED
    BY <2>3, <2>6, <2>7
<1>6. bodyRefs' = bodyRefs \cup {[Index |-> index, GenIndex |-> 0]}
  BY <1>2, <1>4
<1>7. TypeOK'
  <2>1. bodyRefs' \subseteq Ref
    BY <1>1, <1>6 DEF IInv, TypeOK, Ref
  <2> QED
    BY <1>2, <1>4, <1>5, <2>1 DEF CreateBody, IInv, TypeOK, history
<1>8. BodyRefsLive'
  <2>1. \A ref \in bodyRefs : /\ ref.Index \in 1..size /\ ref.GenIndex = 0
                              /\ IsEnabled(bodies'[ref.Index])
    <3>1. TAKE ref \in bodyRefs
    <3>2. /\ ref.Index \in 1..Len(bodies) /\ ref.GenIndex = 0
          /\ IsEnabled(bodies[ref.Index])
      BY DEF IInv, BodyRefsLive
    <3>3. IsEnabled(bodies'[ref.Index])
      BY <1>5, <3>2
    <3>4. ref.Index \in 1..size
      BY <1>1, <3>2
    <3> QED
      BY <3>2, <3>3, <3>4
  <2> QED
    BY <1>5, <1>6, <2>1 DEF BodyRefsLive
<1>9. GenerationsZero'
  BY <1>2, <1>4, <1>5 DEF CreateBody, IInv, GenerationsZero
<1>10. CollidersNameBodies'
  <2>1. UNCHANGED colliders
    BY DEF CreateBody
  <2> QED
    BY <1>1, <1>5, <2>1 DEF IInv, CollidersNameBodies
<1>11. (ColRefsLive /\ VisitsInRange /\ HeardIsOpen /\ PhaseOK)'
  BY <1>1, <1>5
  DEF CreateBody, ClientTurn, IInv, ColRefsLive, VisitsInRange, HeardIsOpen, PhaseOK, history
<1> QED
  BY <1>7, <1>8, <1>9, <1>10, <1>11 DEF IInv

\* The client changes a body in use, not its slot.
LEMMA ConfigureBodyPreserves ==
    ASSUME IInv, NEW ref \in bodyRefs, NEW position \in Places, NEW type \in BodyTypes,
           ConfigureBody(ref, position, type)
    PROVE  IInv'
<1>1. ref.Index \in 1..Len(bodies) /\ bodies \in Seq(Body)
  BY DEF IInv, TypeOK, BodyRefsLive
<1>2. /\ bodies' \in Seq(Body) /\ Len(bodies') = Len(bodies)
      /\ \A k \in 1..Len(bodies) : IsEnabled(bodies'[k]) <=> IsEnabled(bodies[k])
  <2>1. type \in {"DYNAMIC", "STATIC", "NONE"}
    BY WorldAssumption
  <2>2. /\ Len(bodies) \in Nat /\ DOMAIN bodies = 1..Len(bodies)
        /\ \A k \in 1..Len(bodies) : bodies[k] \in Body
    BY <1>1, LenProperties, ElementOfSeq
  <2>3. /\ bodies' = [k \in 1..Len(bodies) |-> bodies'[k]]
        /\ \A k \in 1..Len(bodies) : bodies'[k] \in Body /\ bodies'[k].Mass = bodies[k].Mass
    BY <1>1, <2>1, <2>2 DEF ConfigureBody, Body
  <2>4. bodies' \in [1..Len(bodies) -> Body]
    BY <2>3
  <2>5. bodies' \in Seq(Body) /\ Len(bodies') = Len(bodies)
    BY <2>2, <2>4, RewrittenSeq
  <2> QED
    BY <2>3, <2>5 DEF IsEnabled
<1>3. TypeOK'
  BY <1>2 DEF ConfigureBody, IInv, TypeOK, client, history
<1>4. BodyRefsLive'
  BY <1>2 DEF ConfigureBody, IInv, BodyRefsLive, client
<1>5. (GenerationsZero /\ CollidersNameBodies)'
  BY <1>2 DEF ConfigureBody, IInv, GenerationsZero, CollidersNameBodies
<1>6. (ColRefsLive /\ VisitsInRange /\ HeardIsOpen /\ PhaseOK)'
  BY <1>2 DEF ConfigureBody, ClientTurn, IInv, ColRefsLive, VisitsInRange, HeardIsOpen,
              PhaseOK, client, history
<1> QED
  BY <1>3, <1>4, <1>5, <1>6 DEF IInv

\* DestroyBody disables the slot, and the reference is held no more.
LEMMA DestroyBodyPreserves ==
    ASSUME IInv, NEW ref \in bodyRefs, DestroyBody(ref)
    PROVE  IInv'
<1>1. ref.Index \in 1..Len(bodies) /\ bodies \in Seq(Body)
  BY DEF IInv, TypeOK, BodyRefsLive
<1>2. /\ bodies' \in Seq(Body) /\ Len(bodies') = Len(bodies)
      /\ \A k \in 1..Len(bodies) : k # ref.Index => bodies'[k] = bodies[k]
  BY <1>1, BodyDisabled DEF DestroyBody
<1>3. TypeOK'
  BY <1>2 DEF DestroyBody, IInv, TypeOK, history
<1>4. BodyRefsLive'
  <2>1. SUFFICES ASSUME NEW other \in bodyRefs \ {ref}
        PROVE  /\ other.Index \in 1..Len(bodies) /\ other.GenIndex = 0
               /\ IsEnabled(bodies'[other.Index])
    BY <1>2 DEF DestroyBody, BodyRefsLive
  <2>2. /\ other.Index \in 1..Len(bodies) /\ other.GenIndex = 0
        /\ IsEnabled(bodies[other.Index])
    BY DEF IInv, BodyRefsLive
  <2>3. other.Index # ref.Index
    BY <2>2, SameRef DEF IInv, TypeOK, BodyRefsLive
  <2> QED
    BY <1>2, <2>2, <2>3
<1>5. (GenerationsZero /\ CollidersNameBodies)'
  BY <1>2 DEF DestroyBody, IInv, GenerationsZero, CollidersNameBodies
<1>6. (ColRefsLive /\ VisitsInRange /\ HeardIsOpen /\ PhaseOK)'
  BY <1>2 DEF DestroyBody, ClientTurn, IInv, ColRefsLive, VisitsInRange, HeardIsOpen,
              PhaseOK, history
<1> QED
  BY <1>3, <1>4, <1>5, <1>6 DEF IInv

\* CreateCollider does as CreateBody, and names the body.
LEMMA CreateColliderPreserves ==
    ASSUME IInv, NEW bodyRef \in bodyRefs, CreateCollider(bodyRef)
    PROVE  IInv'
<1> DEFINE full == \A i \in 1..Len(colliders) : colliders[i].IsAttached
           size == IF full THEN 2 * Len(colliders) ELSE Len(colliders)
           slot == Resized(colliders, size, DefaultCollider)
           gens == Resized(ColliderGenIndices, size, 0)
<1>1. /\ colliders \in Seq(Collider) /\ ColliderGenIndices \in Seq(Nat)
      /\ Len(colliders) \in Nat /\ Len(ColliderGenIndices) = Len(colliders)
      /\ size \in Nat /\ Len(colliders) <= size
  BY LenProperties DEF IInv, TypeOK
<1> HIDE DEF full, size
<1>2. PICK index \in 1..size :
        /\ ~slot[index].IsAttached
        /\ colliders' = [slot EXCEPT ![index].IsAttached = TRUE, ![index].BodyRef = bodyRef]
        /\ ColliderGenIndices' = gens
        /\ colRefs' = colRefs \cup
                {[Index |-> index, GenIndex |-> ColliderGenIndices'[index]]}
  BY DEF CreateCollider, full, size
<1>3. /\ slot \in Seq(Collider) /\ Len(slot) = size
      /\ \A i \in 1..Len(colliders) : slot[i] = colliders[i]
      /\ \A i \in 1..size : slot[i] = DefaultCollider \/ i \in 1..Len(colliders)
  <2>1. slot \in Seq(Collider) /\ Len(slot) = size
    BY <1>1, ResizedSeq, Defaults
  <2>2. \A i \in 1..Len(colliders) : slot[i] = colliders[i]
    BY <1>1 DEF Resized
  <2>3. \A i \in 1..size : slot[i] = DefaultCollider \/ i \in 1..Len(colliders)
    BY <1>1 DEF Resized
  <2> QED
    BY <2>1, <2>2, <2>3
<1>4. /\ gens \in Seq(Nat) /\ Len(gens) = size
      /\ \A i \in 1..size : gens[i] = 0
  BY <1>1, ResizedSeq DEF Resized, IInv, GenerationsZero
<1> HIDE DEF slot, gens
<1>5. /\ bodyRef \in Ref /\ bodyRef.Index \in 1..Len(bodies) /\ bodyRef.GenIndex = 0
      /\ Len(bodies) > 0
  BY LenProperties DEF IInv, TypeOK, BodyRefsLive
<1>6. /\ colliders' \in Seq(Collider) /\ Len(colliders') = size
      /\ colliders'[index].IsAttached /\ colliders'[index].BodyRef = bodyRef
      /\ \A i \in 1..size : i # index => colliders'[i] = slot[i]
  <2>1. DOMAIN slot = 1..size /\ \A i \in 1..size : slot[i] \in Collider
    BY <1>3, LenProperties, ElementOfSeq
  <2>2. /\ colliders' = [i \in 1..size |-> colliders'[i]]
        /\ colliders'[index].IsAttached /\ colliders'[index].BodyRef = bodyRef
        /\ \A i \in 1..size : /\ colliders'[i] \in Collider
                              /\ i # index => colliders'[i] = slot[i]
    BY <1>2, <1>5, <2>1 DEF Collider
  <2>3. colliders' \in [1..size -> Collider]
    BY <2>2
  <2>4. colliders' \in Seq(Collider) /\ Len(colliders') = size
    BY <1>1, <2>3, RewrittenSeq
  <2> QED
    BY <2>2, <2>4
<1>7. colRefs' = colRefs \cup {[Index |-> index, GenIndex |-> 0]} /\ ColliderGenIndices' = gens
  <2>1. ColliderGenIndices'[index] = 0
    BY <1>2, <1>4
  <2> QED
    BY <1>2, <2>1
<1>8. TypeOK'
  <2>1. colRefs' \subseteq Ref
    BY <1>1, <1>7 DEF IInv, TypeOK, Ref
  <2> QED
    BY <1>4, <1>6, <1>7, <2>1 DEF CreateCollider, IInv, TypeOK, history
<1>9. ColRefsLive'
  <2>1. SUFFICES ASSUME NEW ref \in colRefs
        PROVE  /\ ref.Index \in 1..size /\ ref.GenIndex = 0
               /\ colliders'[ref.Index].IsAttached
    BY <1>6, <1>7 DEF ColRefsLive
  <2>2. /\ ref.Index \in 1..Len(colliders) /\ ref.GenIndex = 0
        /\ colliders[ref.Index].IsAttached
    BY DEF IInv, ColRefsLive
  <2>3. ref.Index \in 1..size
    BY <1>1, <2>2
  <2> QED
    BY <1>3, <1>6, <2>2, <2>3
<1>10. GenerationsZero'
  BY <1>4, <1>6, <1>7 DEF CreateCollider, IInv, GenerationsZero
<1>11. CollidersNameBodies'
  <2>1. SUFFICES ASSUME NEW i \in 1..size
        PROVE  /\ colliders'[i].BodyRef.Index \in 1..Len(bodies)
               /\ colliders'[i].BodyRef.GenIndex = 0
    BY <1>6 DEF CreateCollider, CollidersNameBodies
  <2>2. CASE i = index
    BY <1>5, <1>6, <2>2
  <2>3. CASE i # index /\ i \in 1..Len(colliders)
    BY <1>3, <1>6, <2>3 DEF IInv, CollidersNameBodies
  <2>4. CASE i # index /\ slot[i] = DefaultCollider
    <3>1. colliders'[i].BodyRef = [Index |-> 1, GenIndex |-> 0]
      BY <1>6, <2>4, Defaults
    <3>2. Len(bodies) \in Nat
      BY LenProperties DEF IInv, TypeOK
    <3> QED
      BY <1>5, <3>1, <3>2
  <2> QED
    BY <1>3, <2>2, <2>3, <2>4
<1>12. (BodyRefsLive /\ HeardIsOpen /\ PhaseOK)'
  BY <1>1, <1>6
  DEF CreateCollider, ClientTurn, IInv, BodyRefsLive, HeardIsOpen, PhaseOK, history
<1>13. VisitsInRange'
  BY DEF CreateCollider, ClientTurn, IInv, PhaseOK, VisitsInRange
<1> QED
  BY <1>8, <1>9, <1>10, <1>11, <1>12, <1>13 DEF IInv

\* The client changes the shape and the flags, not the body.
LEMMA ConfigureColliderPreserves ==
    ASSUME IInv, NEW ref \in colRefs, NEW shape \in Shapes, NEW isTrigger \in TriggerFlags,
           ConfigureCollider(ref, shape, isTrigger)
    PROVE  IInv'
<1>1. /\ ref.Index \in 1..Len(colliders) /\ colliders \in Seq(Collider)
      /\ colliders[ref.Index].BodyRef.Index \in 1..Len(bodies) /\ bodies \in Seq(Body)
  BY DEF IInv, TypeOK, ColRefsLive, CollidersNameBodies
<1>2. /\ colliders' \in Seq(Collider) /\ Len(colliders') = Len(colliders)
      /\ \A k \in 1..Len(colliders) : /\ colliders'[k].BodyRef = colliders[k].BodyRef
                                       /\ colliders'[k].IsAttached = colliders[k].IsAttached
  <2> DEFINE position == GetBody(GetCollider(ref).BodyRef).Position
  <2>1. bodies[colliders[ref.Index].BodyRef.Index] \in Body
    BY <1>1, ElementOfSeq
  <2>2. position \in Places /\ isTrigger \in BOOLEAN
    BY <2>1, WorldAssumption DEF GetBody, GetCollider, Body
  <2>3. /\ Len(colliders) \in Nat /\ DOMAIN colliders = 1..Len(colliders)
        /\ \A k \in 1..Len(colliders) : colliders[k] \in Collider
    BY <1>1, LenProperties, ElementOfSeq
  <2>4. colliders' = [colliders EXCEPT ![ref.Index].Shape = shape,
                                       ![ref.Index].BodyPosition = position,
                                       ![ref.Index].IsTrigger = isTrigger]
    BY DEF ConfigureCollider
  <2> HIDE DEF position
  <2>5. /\ colliders' = [k \in 1..Len(colliders) |-> colliders'[k]]
        /\ \A k \in 1..Len(colliders) : /\ colliders'[k] \in Collider
                                         /\ colliders'[k].BodyRef = colliders[k].BodyRef
                                         /\ colliders'[k].IsAttached = colliders[k].IsAttached
    BY <1>1, <2>2, <2>3, <2>4 DEF Collider
  <2>6. colliders' \in [1..Len(colliders) -> Collider]
    BY <2>5
  <2>7. colliders' \in Seq(Collider) /\ Len(colliders') = Len(colliders)
    BY <2>3, <2>6, RewrittenSeq
  <2> QED
    BY <2>5, <2>7
<1>3. TypeOK'
  BY <1>2 DEF ConfigureCollider, IInv, TypeOK, client, history
<1>4. ColRefsLive'
  BY <1>2 DEF ConfigureCollider, IInv, ColRefsLive, client
<1>5. (GenerationsZero /\ CollidersNameBodies)'
  BY <1>2 DEF ConfigureCollider, IInv, GenerationsZero, CollidersNameBodies
<1>6. (BodyRefsLive /\ VisitsInRange /\ HeardIsOpen /\ PhaseOK)'
  BY <1>2 DEF ConfigureCollider, ClientTurn, IInv, BodyRefsLive, VisitsInRange, HeardIsOpen,
              PhaseOK, client, history
<1> QED
  BY <1>3, <1>4, <1>5, <1>6 DEF IInv

\* DestroyCollider frees the slot; the body it named stays named.
LEMMA DestroyColliderPreserves ==
    ASSUME IInv, NEW ref \in colRefs, DestroyCollider(ref)
    PROVE  IInv'
<1>1. ref.Index \in 1..Len(colliders) /\ colliders \in Seq(Collider)
  BY DEF IInv, TypeOK, ColRefsLive
<1>2. /\ colliders' \in Seq(Collider) /\ Len(colliders') = Len(colliders)
      /\ \A k \in 1..Len(colliders) : k # ref.Index => colliders'[k] = colliders[k]
      /\ colliders'[ref.Index].BodyRef = colliders[ref.Index].BodyRef
  BY <1>1, ColliderDetached DEF DestroyCollider
<1>3. TypeOK'
  BY <1>2 DEF DestroyCollider, IInv, TypeOK, history
<1>4. ColRefsLive'
  <2>1. SUFFICES ASSUME NEW other \in colRefs \ {ref}
        PROVE  /\ other.Index \in 1..Len(colliders) /\ other.GenIndex = 0
               /\ colliders'[other.Index].IsAttached
    BY <1>2 DEF DestroyCollider, ColRefsLive
  <2>2. /\ other.Index \in 1..Len(colliders) /\ other.GenIndex = 0
        /\ colliders[other.Index].IsAttached
    BY DEF IInv, ColRefsLive
  <2>3. other.Index # ref.Index
    BY <2>2, SameRef DEF IInv, TypeOK, ColRefsLive
  <2> QED
    BY <1>2, <2>2, <2>3
<1>5. (GenerationsZero /\ CollidersNameBodies)'
  BY <1>2 DEF DestroyCollider, IInv, GenerationsZero, CollidersNameBodies
<1>6. (BodyRefsLive /\ VisitsInRange /\ HeardIsOpen /\ PhaseOK)'
  BY <1>2 DEF DestroyCollider, ClientTurn, IInv, BodyRefsLive, VisitsInRange, HeardIsOpen,
              PhaseOK, history
<1> QED
  BY <1>3, <1>4, <1>5, <1>6 DEF IInv

-----------------------------------------------------------------------------
(* Update.                                                                 *)

\* The walk Update starts visits slots that exist.
LEMMA UpdatePreserves == IInv /\ Update => IInv'
<1> SUFFICES ASSUME IInv, Update PROVE IInv'
  OBVIOUS
<1>1. /\ bodies \in Seq(Body) /\ Len(bodies) \in Nat
      /\ colliders \in Seq(Collider) /\ Len(colliders) \in Nat
      /\ \A i \in 1..Len(colliders) : colliders[i] \in Collider
  BY LenProperties, ElementOfSeq DEF IInv, TypeOK
<1>2. /\ bodies' \in Seq(Body) /\ Len(bodies') = Len(bodies)
      /\ \A i \in 1..Len(bodies) : IsEnabled(bodies'[i]) <=> IsEnabled(bodies[i])
  <2>1. PICK position \in [Integrated -> Places] :
            bodies' = [i \in 1..Len(bodies) |->
                        IF i \in Integrated
                        THEN [bodies[i] EXCEPT !.Position = position[i]]
                        ELSE bodies[i]]
    BY DEF Update
  <2>2. bodies' = [i \in 1..Len(bodies) |-> bodies'[i]]
    BY <2>1
  <2>3. \A i \in 1..Len(bodies) :
            \/ bodies'[i] = bodies[i]
            \/ \E place \in Places : bodies'[i] = [bodies[i] EXCEPT !.Position = place]
    BY <2>1
  <2> QED
    BY <1>1, <2>2, <2>3, BodiesMoved
<1>3. /\ colliders' \in Seq(Collider) /\ Len(colliders') = Len(colliders)
      /\ \A i \in 1..Len(colliders) : /\ colliders'[i].BodyRef = colliders[i].BodyRef
                                      /\ colliders'[i].IsAttached = colliders[i].IsAttached
  <2>1. \A i \in 1..Len(colliders) : bodies'[colliders[i].BodyRef.Index].Position \in Places
    <3>1. TAKE i \in 1..Len(colliders)
    <3>2. colliders[i].BodyRef.Index \in 1..Len(bodies')
      BY <1>2 DEF IInv, CollidersNameBodies
    <3>3. bodies'[colliders[i].BodyRef.Index] \in Body
      BY <1>2, <3>2, ElementOfSeq
    <3> QED
      BY <3>3 DEF Body
  <2>2. /\ colliders' = [i \in 1..Len(colliders) |-> colliders'[i]]
        /\ \A i \in 1..Len(colliders) : /\ colliders'[i] \in Collider
                                        /\ colliders'[i].BodyRef = colliders[i].BodyRef
                                        /\ colliders'[i].IsAttached = colliders[i].IsAttached
    BY <1>1, <2>1 DEF Update, Following, Collider
  <2>3. colliders' \in [1..Len(colliders) -> Collider]
    BY <2>2
  <2>4. colliders' \in Seq(Collider) /\ Len(colliders') = Len(colliders)
    BY <1>1, <2>3, RewrittenSeq
  <2> QED
    BY <2>2, <2>4
<1>4. \A v \in visits' : /\ v.a \in Ref /\ v.b \in Ref /\ v.a.Index < v.b.Index
                         /\ \A ref \in {v.a, v.b} :
                                ref.Index \in 1..Len(colliders) /\ ref.GenIndex = 0
  <2>1. DOMAIN Aabbs(colliders') \subseteq 1..Len(colliders)
    BY <1>3 DEF Aabbs
  <2>2. \A i \in 1..Len(colliders) : ColRef(i) \in Ref /\ ColRef(i).Index = i
                                    /\ ColRef(i).GenIndex = 0
    BY <1>1 DEF ColRef, Ref, IInv, GenerationsZero
  <2>3. visits' = {[leaf |-> v.leaf, a |-> ColRef(v.a), b |-> ColRef(v.b)] :
                        v \in Visits(Aabbs(colliders'))}
    BY DEF Update
  <2>4. SUFFICES ASSUME NEW v \in Visits(Aabbs(colliders'))
        PROVE  /\ ColRef(v.a) \in Ref /\ ColRef(v.b) \in Ref
               /\ ColRef(v.a).Index < ColRef(v.b).Index
               /\ \A ref \in {ColRef(v.a), ColRef(v.b)} :
                        ref.Index \in 1..Len(colliders) /\ ref.GenIndex = 0
    BY <2>3
  <2>5. v.a \in 1..Len(colliders) /\ v.b \in 1..Len(colliders) /\ v.a < v.b
    BY <2>1, VisitsAreOfBoxes
  <2> QED
    BY <2>2, <2>5
<1>5. TypeOK'
  BY <1>2, <1>3, <1>4, EmptySeq DEF Update, IInv, TypeOK, client
<1>6. (GenerationsZero /\ CollidersNameBodies)'
  BY <1>2, <1>3 DEF Update, IInv, GenerationsZero, CollidersNameBodies
<1>7. BodyRefsLive'
  BY <1>2 DEF Update, IInv, BodyRefsLive, client
<1>8. ColRefsLive'
  BY <1>3 DEF Update, IInv, ColRefsLive, client
<1>9. (VisitsInRange /\ HeardIsOpen /\ PhaseOK)'
  BY <1>2, <1>3, <1>4
  DEF Update, ClientTurn, IInv, VisitsInRange, HeardIsOpen, PhaseOK, client
<1> QED
  BY <1>5, <1>6, <1>7, <1>8, <1>9 DEF IInv

\* What a step of the walk does to the bodies, the calls and the pairs.
LEMMA VisitPairEffect ==
    ASSUME IInv, VisitPair
    PROVE  /\ bodies' \in Seq(Body) /\ Len(bodies') = Len(bodies)
           /\ \A i \in 1..Len(bodies) : IsEnabled(bodies'[i]) <=> IsEnabled(bodies[i])
           /\ calls' \in Seq([event : Events, pair : SUBSET Ref])
           /\ heard' \subseteq SUBSET Ref
           /\ heard' = colRefPairs'
           /\ visits' \subseteq visits
<1>1. PICK v \in visits :
        /\ \/ PhysicalContact(v) \/ PhysicalMiss(v)
           \/ TriggerEnter(v) \/ TriggerExit(v) \/ TriggerUnchanged(v)
        /\ visits' = visits \ {v}
  BY DEF VisitPair, Rest
<1>2. Pair(v.a, v.b) \subseteq Ref
  BY DEF IInv, TypeOK, Pair
<1>3. \A event \in Events : Told(event, v) \in Seq([event : Events, pair : SUBSET Ref])
  BY <1>2 DEF Told, IInv, TypeOK
<1>4. /\ bodies \in Seq(Body) /\ calls \in Seq([event : Events, pair : SUBSET Ref])
      /\ heard \subseteq SUBSET Ref /\ heard = colRefPairs
  BY DEF IInv, TypeOK, HeardIsOpen
<1>5. CASE PhysicalContact(v)
  <2>1. /\ bodies' \in Seq(Body) /\ Len(bodies') = Len(bodies)
        /\ \A i \in 1..Len(bodies) : IsEnabled(bodies'[i]) <=> IsEnabled(bodies[i])
    <3>1. PICK position \in [Resolved(v) -> Places] :
            bodies' = [i \in 1..Len(bodies) |->
                        IF i \in Resolved(v)
                        THEN [bodies[i] EXCEPT !.Position = position[i]]
                        ELSE bodies[i]]
      BY <1>5 DEF PhysicalContact
    <3>2. bodies' = [i \in 1..Len(bodies) |-> bodies'[i]]
      BY <3>1
    <3>3. \A i \in 1..Len(bodies) :
            \/ bodies'[i] = bodies[i]
            \/ \E place \in Places : bodies'[i] = [bodies[i] EXCEPT !.Position = place]
      BY <3>1
    <3> QED
      BY <1>4, <3>2, <3>3, BodiesMoved
  <2> QED
    BY <1>1, <1>2, <1>3, <1>4, <1>5, <2>1 DEF PhysicalContact, Events
<1>6. CASE PhysicalMiss(v)
  BY <1>1, <1>2, <1>3, <1>4, <1>6 DEF PhysicalMiss, Events
<1>7. CASE TriggerEnter(v)
  BY <1>1, <1>2, <1>3, <1>4, <1>7 DEF TriggerEnter, Emplaced, Events
<1>8. CASE TriggerExit(v)
  BY <1>1, <1>2, <1>3, <1>4, <1>8 DEF TriggerExit, Events
<1>9. CASE TriggerUnchanged(v)
  BY <1>1, <1>4, <1>9 DEF TriggerUnchanged
<1> QED
  BY <1>1, <1>5, <1>6, <1>7, <1>8, <1>9

\* A visit, of whichever kind, keeps what is remembered and what was told in step.
LEMMA VisitPairPreserves == IInv /\ VisitPair => IInv'
<1> SUFFICES ASSUME IInv, VisitPair PROVE IInv'
  OBVIOUS
<1>1. /\ bodies' \in Seq(Body) /\ Len(bodies') = Len(bodies)
      /\ \A i \in 1..Len(bodies) : IsEnabled(bodies'[i]) <=> IsEnabled(bodies[i])
      /\ calls' \in Seq([event : Events, pair : SUBSET Ref])
      /\ heard' \subseteq SUBSET Ref
      /\ heard' = colRefPairs'
      /\ visits' \subseteq visits
  BY VisitPairEffect
<1>2. TypeOK'
  BY <1>1 DEF VisitPair, IInv, TypeOK, client
<1>3. (GenerationsZero /\ CollidersNameBodies)'
  BY <1>1 DEF VisitPair, IInv, GenerationsZero, CollidersNameBodies
<1>4. BodyRefsLive'
  BY <1>1 DEF VisitPair, IInv, BodyRefsLive, client
<1>5. (ColRefsLive /\ VisitsInRange /\ HeardIsOpen /\ PhaseOK)'
  BY <1>1
  DEF VisitPair, IInv, ColRefsLive, VisitsInRange, HeardIsOpen, PhaseOK, client
<1> QED
  BY <1>2, <1>3, <1>4, <1>5 DEF IInv

\* The end of the walk changes nothing else.
LEMMA UpdateReturnsPreserves == IInv /\ UpdateReturns => IInv'
<1> SUFFICES ASSUME IInv, UpdateReturns PROVE IInv'
  OBVIOUS
<1>1. TypeOK'
  BY DEF UpdateReturns, slots, client, history, IInv, TypeOK
<1>2. (GenerationsZero /\ CollidersNameBodies /\ BodyRefsLive /\ ColRefsLive)'
  BY DEF UpdateReturns, slots, client, IInv, GenerationsZero, CollidersNameBodies,
         BodyRefsLive, ColRefsLive
<1>3. (VisitsInRange /\ HeardIsOpen /\ PhaseOK)'
  BY DEF UpdateReturns, slots, history, IInv, VisitsInRange, HeardIsOpen, PhaseOK
<1> QED
  BY <1>1, <1>2, <1>3 DEF IInv

-----------------------------------------------------------------------------
(* The invariant and what follows from it.                                 *)

\* Every step of the world keeps the invariant.
LEMMA StepPreserves == IInv /\ [Next]_vars => IInv'
<1> SUFFICES ASSUME IInv, [Next]_vars PROVE IInv'
  OBVIOUS
<1>1. CASE SetUp \/ TearDown \/ SetContactListener \/ CreateBody
  BY <1>1, SetUpPreserves, TearDownPreserves, SetContactListenerPreserves, CreateBodyPreserves
<1>2. CASE \E ref \in bodyRefs, position \in Places, type \in BodyTypes :
                ConfigureBody(ref, position, type)
  BY <1>2, ConfigureBodyPreserves
<1>3. CASE \E ref \in bodyRefs : DestroyBody(ref)
  BY <1>3, DestroyBodyPreserves
<1>4. CASE \E ref \in bodyRefs : CreateCollider(ref)
  BY <1>4, CreateColliderPreserves
<1>5. CASE \E ref \in colRefs, shape \in Shapes, isTrigger \in TriggerFlags :
                ConfigureCollider(ref, shape, isTrigger)
  BY <1>5, ConfigureColliderPreserves
<1>6. CASE \E ref \in colRefs : DestroyCollider(ref)
  BY <1>6, DestroyColliderPreserves
<1>7. CASE Running
  BY <1>7, UpdatePreserves, VisitPairPreserves, UpdateReturnsPreserves DEF Running
<1>8. CASE UNCHANGED vars
  BY <1>8 DEF vars, slots, client, history, IInv, TypeOK, GenerationsZero, BodyRefsLive,
              ColRefsLive, CollidersNameBodies, VisitsInRange, HeardIsOpen, PhaseOK
<1> QED
  BY <1>1, <1>2, <1>3, <1>4, <1>5, <1>6, <1>7, <1>8 DEF Next

\* The strengthened invariant holds in every state.
THEOREM Invariance == Spec => []IInv
<1>1. IInv /\ [Next]_vars => IInv'
  BY StepPreserves
<1> QED
  BY <1>1, InitEstablishes, PTL DEF Spec

\* Every variable keeps its type, whatever the client creates, destroys and
\* updates: in particular vectors and their generations stay of one length.
THEOREM TypeCorrectness == Spec => []TypeOK
<1>1. IInv => TypeOK
  BY DEF IInv
<1> QED
  BY <1>1, Invariance, PTL

\* Update, which is noexcept, never makes GetBody or GetCollider throw, whatever
\* was created and destroyed before (World.cpp:74-82, 113-121).
THEOREM UpdateCannotThrow == Spec => []UpdateNeverThrows
<1>1. IInv => UpdateNeverThrows
  <2> SUFFICES ASSUME IInv PROVE UpdateNeverThrows
    OBVIOUS
  <2>1. DOMAIN bodies = 1..Len(bodies) /\ DOMAIN colliders = 1..Len(colliders)
    BY LenProperties DEF IInv, TypeOK
  <2>2. \A i \in 1..Len(colliders) : FindsBody(colliders[i].BodyRef)
    BY <2>1 DEF IInv, CollidersNameBodies, GenerationsZero, FindsBody, BodyFound
  <2>3. \A v \in visits : \A ref \in {v.a, v.b} : FindsCollider(ref)
    BY <2>1 DEF IInv, VisitsInRange, GenerationsZero, FindsCollider, ColliderFound
  <2>4. \A v \in visits : \A ref \in {v.a, v.b} : FindsBody(GetCollider(ref).BodyRef)
    BY <2>1, <2>2 DEF IInv, VisitsInRange, GetCollider
  <2> QED
    BY <2>1, <2>2, <2>3, <2>4 DEF UpdateNeverThrows
<1> QED
  BY <1>1, Invariance, PTL

\* CreateBody and CreateCollider hand out a reference nobody holds, for every
\* initial size and through every growth of the vectors.
THEOREM SlotsAreNotShared == Spec => NoSharedSlot
<1>1. IInv /\ CreateBody => bodyRefs' # bodyRefs
  <2> SUFFICES ASSUME IInv, CreateBody, bodyRefs' = bodyRefs PROVE FALSE
    OBVIOUS
  <2> DEFINE full == \A i \in 1..Len(bodies) : IsEnabled(bodies[i])
             size == IF full THEN 2 * Len(bodies) ELSE Len(bodies)
             slot == Resized(bodies, size, DefaultBody)
  <2>1. PICK index \in 1..size :
            /\ ~IsEnabled(slot[index])
            /\ bodyRefs' = bodyRefs \cup
                    {[Index |-> index, GenIndex |-> BodyGenIndices'[index]]}
    BY DEF CreateBody
  <2>2. slot[index] = IF index <= Len(bodies) THEN bodies[index] ELSE DefaultBody
    BY <2>1 DEF Resized
  <2> HIDE DEF size
  <2>3. index \in 1..Len(bodies) /\ IsEnabled(bodies[index])
    <3>1. [Index |-> index, GenIndex |-> BodyGenIndices'[index]] \in bodyRefs
      BY <2>1
    <3>2. PICK ref \in bodyRefs : ref.Index = index
      BY <3>1
    <3> QED
      BY <3>2 DEF IInv, BodyRefsLive
  <2> QED
    BY <2>1, <2>2, <2>3
<1>2. IInv => \A bodyRef \in bodyRefs : CreateCollider(bodyRef) => colRefs' # colRefs
  <2> SUFFICES ASSUME IInv, NEW bodyRef \in bodyRefs, CreateCollider(bodyRef),
                      colRefs' = colRefs
               PROVE  FALSE
    OBVIOUS
  <2> DEFINE full == \A i \in 1..Len(colliders) : colliders[i].IsAttached
             size == IF full THEN 2 * Len(colliders) ELSE Len(colliders)
             slot == Resized(colliders, size, DefaultCollider)
  <2>1. PICK index \in 1..size :
            /\ ~slot[index].IsAttached
            /\ colRefs' = colRefs \cup
                    {[Index |-> index, GenIndex |-> ColliderGenIndices'[index]]}
    BY DEF CreateCollider
  <2>2. slot[index] = IF index <= Len(colliders) THEN colliders[index] ELSE DefaultCollider
    BY <2>1 DEF Resized
  <2> HIDE DEF size
  <2>3. index \in 1..Len(colliders) /\ colliders[index].IsAttached
    <3>1. [Index |-> index, GenIndex |-> ColliderGenIndices'[index]] \in colRefs
      BY <2>1
    <3>2. PICK ref \in colRefs : ref.Index = index
      BY <3>1
    <3> QED
      BY <3>2 DEF IInv, ColRefsLive
  <2> QED
    BY <2>1, <2>2, <2>3
<1>3. ASSUME IInv, [Next]_vars
      PROVE  [/\ CreateBody => bodyRefs' # bodyRefs
              /\ \A ref \in bodyRefs : CreateCollider(ref) => colRefs' # colRefs]_vars
  BY <1>1, <1>2, <1>3
<1> QED
  BY <1>3, Invariance, PTL DEF Spec, NoSharedSlot

\* The trigger callbacks of a pair alternate, over any number of frames, recycled
\* slots and torn-down worlds.
THEOREM EnterAndExitAlternate == Spec => EnterExitAlternate
<1> DEFINE Alternates == /\ Hears("OnTriggerEnter") => HeardPair \notin heard
                         /\ Hears("OnTriggerExit") => HeardPair \in heard
<1>1. ASSUME IInv, calls' = calls \/ calls' = <<>> PROVE Alternates
  <2>1. Len(calls) \in Nat /\ Len(<<>>) = 0
    BY LenProperties DEF IInv, TypeOK
  <2>2. Len(calls') # Len(calls) + 1
    BY <1>1, <2>1
  <2> QED
    BY <2>2 DEF Hears
<1>2. ASSUME IInv, VisitPair PROVE Alternates
  <2>1. PICK v \in visits :
            \/ PhysicalContact(v) \/ PhysicalMiss(v)
            \/ TriggerEnter(v) \/ TriggerExit(v) \/ TriggerUnchanged(v)
    BY <1>2 DEF VisitPair
  <2>2. Pair(v.a, v.b) \subseteq Ref /\ heard = colRefPairs
    BY <1>2 DEF IInv, TypeOK, HeardIsOpen, Pair
  <2>3. ASSUME NEW event \in Events, calls' = Told(event, v)
        PROVE  /\ calls'[Len(calls')] = [event |-> event, pair |-> Pair(v.a, v.b)]
               /\ Len(calls') = Len(calls) + 1
    BY <1>2, <2>2, <2>3 DEF Told, IInv, TypeOK
  <2>4. CASE calls' = calls
    BY <1>1, <1>2, <2>4
  <2>5. CASE PhysicalContact(v) /\ calls' # calls
    BY <2>3, <2>5 DEF PhysicalContact, Events, Hears
  <2>6. CASE PhysicalMiss(v) /\ calls' # calls
    BY <2>3, <2>6 DEF PhysicalMiss, Events, Hears
  <2>7. CASE TriggerEnter(v)
    BY <2>2, <2>3, <2>7 DEF TriggerEnter, Events, Hears, HeardPair
  <2>8. CASE TriggerExit(v)
    BY <2>2, <2>3, <2>8 DEF TriggerExit, Events, Hears, HeardPair
  <2> QED
    BY <2>1, <2>4, <2>5, <2>6, <2>7, <2>8 DEF TriggerUnchanged
<1>3. ASSUME IInv, [Next]_vars PROVE [Alternates]_vars
  <2>1. calls' = calls \/ calls' = <<>> \/ VisitPair
    BY <1>3 DEF Next, Running, vars, history, SetUp, TearDown, SetContactListener,
                CreateBody, ConfigureBody, DestroyBody, CreateCollider, ConfigureCollider,
                DestroyCollider, Update, UpdateReturns
  <2> QED
    BY <1>1, <1>2, <1>3, <2>1
<1> QED
  BY <1>3, Invariance, PTL DEF Spec, EnterExitAlternate

\* No Update moves a STATIC body, by integration or by a contact.
THEOREM StaticBodiesAreStill == Spec => StaticBodiesStay
<1> DEFINE Stay == phase' = "update" => \A i \in DOMAIN bodies :
            bodies[i].Type = "STATIC" => bodies'[i].Position = bodies[i].Position
<1>1. ASSUME IInv, Update PROVE Stay
  <2>1. DOMAIN bodies = 1..Len(bodies)
    BY LenProperties DEF IInv, TypeOK
  <2> QED
    BY <1>1, <2>1 DEF Update, Integrated
<1>2. ASSUME IInv, VisitPair PROVE Stay
  <2>1. DOMAIN bodies = 1..Len(bodies)
    BY LenProperties DEF IInv, TypeOK
  <2>2. PICK v \in visits :
            \/ PhysicalContact(v) \/ PhysicalMiss(v)
            \/ TriggerEnter(v) \/ TriggerExit(v) \/ TriggerUnchanged(v)
    BY <1>2 DEF VisitPair
  <2>3. CASE PhysicalContact(v)
    BY <2>1, <2>3 DEF PhysicalContact, Resolved
  <2>4. CASE bodies' = bodies
    BY <2>4
  <2> QED
    BY <2>2, <2>3, <2>4 DEF PhysicalMiss, TriggerEnter, TriggerExit, TriggerUnchanged
<1>3. ASSUME IInv, [Next]_vars PROVE [Stay]_vars
  <2>1. phase' # "update" \/ Update \/ VisitPair \/ UNCHANGED vars
    BY <1>3 DEF Next, Running, ClientTurn, SetUp, TearDown, SetContactListener,
                CreateBody, ConfigureBody, DestroyBody, CreateCollider, ConfigureCollider,
                DestroyCollider, UpdateReturns
  <2>2. CASE phase' # "update"
    BY <2>2
  <2>3. CASE Update
    BY <1>1, <1>3, <2>3
  <2>4. CASE VisitPair
    BY <1>2, <1>3, <2>4
  <2> QED
    BY <2>1, <2>2, <2>3, <2>4
<1> QED
  BY <1>3, Invariance, PTL DEF Spec, StaticBodiesStay

-----------------------------------------------------------------------------
(* What the walk settles, in a world of triggers.                          *)

\* The walk looks at colliders in use only.
VisitsAttached ==
    \A v \in visits : \A ref \in {v.a, v.b} : colliders[ref.Index].IsAttached

\* Update keeps who is in use, and the walk looks at no one else.
LEMMA UpdateVisitsAttached ==
    ASSUME IInv, Update
    PROVE  /\ Len(colliders') = Len(colliders)
           /\ \A i \in 1..Len(colliders) : colliders'[i].IsAttached = colliders[i].IsAttached
           /\ VisitsAttached'
<1>1. /\ Len(colliders) \in Nat
      /\ \A i \in 1..Len(colliders) : colliders[i] \in Collider
  BY LenProperties, ElementOfSeq DEF IInv, TypeOK
<1>2. /\ colliders' = [i \in 1..Len(colliders) |-> colliders'[i]]
      /\ \A i \in 1..Len(colliders) : colliders'[i].IsAttached = colliders[i].IsAttached
  BY <1>1 DEF Update, Following, Collider
<1>3. colliders' \in [1..Len(colliders) -> {colliders'[i] : i \in 1..Len(colliders)}]
  BY <1>2
<1>4. Len(colliders') = Len(colliders)
  BY <1>1, <1>3, RewrittenSeq
<1>5. \A i \in DOMAIN Aabbs(colliders') : colliders'[i].IsAttached
  BY DEF Aabbs
<1>6. visits' = {[leaf |-> v.leaf, a |-> ColRef(v.a), b |-> ColRef(v.b)] :
                    v \in Visits(Aabbs(colliders'))}
  BY DEF Update
<1>7. \A i : ColRef(i).Index = i
  BY DEF ColRef
<1>8. VisitsAttached'
  <2>1. SUFFICES ASSUME NEW w \in visits', NEW ref \in {w.a, w.b}
                 PROVE  colliders'[ref.Index].IsAttached
    BY DEF VisitsAttached
  <2>2. PICK v \in Visits(Aabbs(colliders')) :
            w = [leaf |-> v.leaf, a |-> ColRef(v.a), b |-> ColRef(v.b)]
    BY <1>6, <2>1
  <2>3. v.a \in DOMAIN Aabbs(colliders') /\ v.b \in DOMAIN Aabbs(colliders')
    BY VisitsAreOfBoxes
  <2> QED
    BY <1>5, <1>7, <2>1, <2>2, <2>3
<1> QED
  BY <1>2, <1>4, <1>8

\* What the broad phase rests on: colliders that overlap have boxes that intersect.
ShapesCovered ==
    /\ \A shape \in Shapes \cup {DefaultShape}, place \in Places :
            Ordered(GetBounds(shape, place))
    /\ \A a, b \in Shapes \cup {DefaultShape}, p, q \in Places :
            OverlapShapes(Translate(a, p), Translate(b, q)) =>
                IntersectRectangles(GetBounds(a, p), GetBounds(b, q))

\* The circles and rectangles the samples use, as their constructors make them.
PlainShapes ==
    /\ Places \subseteq Vec
    /\ \A shape \in Shapes : IsRound(shape) \/ IsBox(shape)

\* The box of a circle or a rectangle has its lower bound first.
LEMMA PlainBounds ==
    ASSUME NEW shape, IsRound(shape) \/ IsBox(shape), NEW place \in Vec
    PROVE  Ordered(GetBounds(shape, place))
<1> DEFINE there == Translate(shape, place)
<1>1. /\ GetBounds(shape, place) = Around(there)
      /\ IsRound(there) \/ IsBox(there)
  BY BoundsAreAround
<1> HIDE DEF there
<1>2. 1..2 = {1, 2}
  OBVIOUS
<1>3. CASE IsRound(there)
  <2>1. there.radius \in Nat /\ there.center[1] \in Int /\ there.center[2] \in Int
    BY <1>3 DEF IsRound, Vec
  <2> QED
    BY <1>1, <1>2, <1>3, <2>1, AroundCircle DEF Ordered
<1>4. CASE IsBox(there)
  BY <1>1, <1>2, <1>4, BoxCoordinates DEF Ordered
<1> QED
  BY <1>1, <1>3, <1>4

\* Circles and rectangles are what the broad phase counts on.
LEMMA PlainShapesCovered == PlainShapes => ShapesCovered
<1> SUFFICES ASSUME PlainShapes PROVE ShapesCovered
  OBVIOUS
<1>1. IsRound(DefaultShape)
  BY DEF DefaultShape, Circle, Abs, IsRound, Vec
<1>2. \A shape \in Shapes \cup {DefaultShape} : IsRound(shape) \/ IsBox(shape)
  BY <1>1 DEF PlainShapes
<1>3. \A place \in Places : place \in Vec
  BY DEF PlainShapes
<1>4. ASSUME NEW a \in Shapes \cup {DefaultShape}, NEW b \in Shapes \cup {DefaultShape},
             NEW p \in Places, NEW q \in Places, OverlapShapes(Translate(a, p), Translate(b, q))
      PROVE  IntersectRectangles(GetBounds(a, p), GetBounds(b, q))
  <2>1. /\ IsRound(a) \/ IsBox(a)
        /\ IsRound(b) \/ IsBox(b)
        /\ p \in Vec /\ q \in Vec
    BY <1>2, <1>3
  <2> QED
    BY <1>4, <2>1, BoundsCover
<1> QED
  BY <1>2, <1>3, <1>4, PlainBounds DEF ShapesCovered

\* The unordered pair of two slots.
Couple(i, j) == Pair(ColRef(i), ColRef(j))

\* What the listener believes of two colliders is what their shapes are.
Settled(i, j) == Overlap(ColRef(i), ColRef(j)) <=> Couple(i, j) \in heard

\* The walk still looks at them.
Pending(i, j) == \E v \in visits : v.a = ColRef(i) /\ v.b = ColRef(j)

\* The walk is sure to look at them: some leaf lists them together, or they overlap,
\* so that their boxes share a leaf.
Compared(i, j) ==
    \/ Couple(i, j) \in ListedTogether
    \/ ShapesCovered /\ Overlap(ColRef(i), ColRef(j))

NoPairTwice == \A m, n \in DOMAIN calls : calls[m].pair = calls[n].pair => m = n

CallsSettled ==
    \A m \in DOMAIN calls : \E i, j \in Attached :
        i < j /\ calls[m].pair = Couple(i, j) /\ Settled(i, j)

WalkSettles ==
    \A i, j \in Attached : i < j /\ Compared(i, j) => Settled(i, j) \/ Pending(i, j)

WalkInv == phase = "update" /\ OnlyTriggers => WalkSettles /\ NoPairTwice /\ CallsSettled

WInv == IInv /\ VisitsAttached /\ WalkInv

\* Slots and their references.
LEMMA SlotsAndRefs ==
    ASSUME IInv
    PROVE  /\ Len(colliders) \in Nat /\ DOMAIN colliders = 1..Len(colliders)
           /\ \A i \in 1..Len(colliders) :
                    /\ colliders[i] \in Collider
                    /\ ColRef(i) = [Index |-> i, GenIndex |-> 0]
                    /\ ColRef(i) \in Ref /\ ColRef(i).Index = i
           /\ \A i \in Attached : i \in 1..Len(colliders) /\ colliders[i].IsAttached
<1>1. Len(colliders) \in Nat /\ DOMAIN colliders = 1..Len(colliders)
  BY LenProperties DEF IInv, TypeOK
<1>2. \A i \in 1..Len(colliders) : colliders[i] \in Collider
  BY ElementOfSeq DEF IInv, TypeOK
<1>3. \A i \in 1..Len(colliders) : ColRef(i) = [Index |-> i, GenIndex |-> 0]
  BY DEF ColRef, IInv, GenerationsZero
<1> QED
  BY <1>1, <1>2, <1>3 DEF Ref, Attached

\* A pair names its two slots.
LEMMA CouplesDiffer ==
    ASSUME IInv, NEW i \in 1..Len(colliders), NEW j \in 1..Len(colliders), i < j,
           NEW x \in 1..Len(colliders), NEW y \in 1..Len(colliders), x < y,
           Couple(i, j) = Couple(x, y)
    PROVE  i = x /\ j = y
<1>1. /\ ColRef(i).Index = i /\ ColRef(j).Index = j
      /\ ColRef(x).Index = x /\ ColRef(y).Index = y
  BY SlotsAndRefs
<1>2. {ColRef(i), ColRef(j)} = {ColRef(x), ColRef(y)}
  BY DEF Couple, Pair
<1>3. /\ ColRef(i) \in {ColRef(x), ColRef(y)} /\ ColRef(j) \in {ColRef(x), ColRef(y)}
  BY <1>2
<1> QED
  BY <1>1, <1>3

\* What a step of the walk does in a world of triggers: it looks at two colliders,
\* and tells the listener when what it believes of them is wrong.
LEMMA VisitSettles ==
    ASSUME IInv, VisitsAttached, OnlyTriggers, VisitPair
    PROVE  /\ UNCHANGED <<bodies, colliders, ColliderGenIndices>>
           /\ \E i, j \in Attached, v \in visits :
                /\ i < j /\ v.a = ColRef(i) /\ v.b = ColRef(j) /\ visits' = visits \ {v}
                /\ \/ calls' = calls /\ heard' = heard /\ Settled(i, j)
                   \/ /\ ~Settled(i, j)
                      /\ heard' = IF Overlap(ColRef(i), ColRef(j))
                                  THEN heard \cup {Couple(i, j)} ELSE heard \ {Couple(i, j)}
                      /\ \E event \in Events :
                            calls' = Append(calls, [event |-> event, pair |-> Couple(i, j)])
<1>1. PICK v \in visits :
        /\ \/ PhysicalContact(v) \/ PhysicalMiss(v)
           \/ TriggerEnter(v) \/ TriggerExit(v) \/ TriggerUnchanged(v)
        /\ visits' = visits \ {v}
  BY DEF VisitPair, Rest
<1> DEFINE i == v.a.Index
           j == v.b.Index
<1>2. i \in Attached /\ j \in Attached /\ i < j
  <2>1. i \in 1..Len(colliders) /\ j \in 1..Len(colliders) /\ i < j
    BY DEF IInv, VisitsInRange
  <2> QED
    BY <2>1, SlotsAndRefs DEF VisitsAttached, Attached
<1>3. v.a = ColRef(i) /\ v.b = ColRef(j)
  <2>1. /\ v.a \in Ref /\ v.b \in Ref /\ v.a.GenIndex = 0 /\ v.b.GenIndex = 0
    BY DEF IInv, TypeOK, VisitsInRange
  <2>2. /\ ColRef(i) = [Index |-> i, GenIndex |-> 0]
        /\ ColRef(j) = [Index |-> j, GenIndex |-> 0]
    BY <1>2, SlotsAndRefs
  <2> QED
    BY <2>1, <2>2 DEF Ref
<1>4. ~IsPhysical(v) /\ contactListener
  BY <1>2 DEF OnlyTriggers, IsPhysical, GetCollider
<1>5. TriggerEnter(v) \/ TriggerExit(v) \/ TriggerUnchanged(v)
  BY <1>1, <1>4 DEF PhysicalContact, PhysicalMiss
<1>6. heard = colRefPairs
  BY DEF IInv, HeardIsOpen
<1> HIDE DEF i, j
<1>7. Pair(v.a, v.b) = Couple(i, j) /\ (Overlap(v.a, v.b) <=> Overlap(ColRef(i), ColRef(j)))
  BY <1>3 DEF Couple
<1>8. UNCHANGED <<bodies, colliders, ColliderGenIndices>>
  BY <1>5 DEF TriggerEnter, TriggerExit, TriggerUnchanged, VisitPair
<1>9. \/ calls' = calls /\ heard' = heard /\ Settled(i, j)
      \/ /\ ~Settled(i, j)
         /\ heard' = IF Overlap(ColRef(i), ColRef(j))
                     THEN heard \cup {Couple(i, j)} ELSE heard \ {Couple(i, j)}
         /\ \E event \in Events :
               calls' = Append(calls, [event |-> event, pair |-> Couple(i, j)])
  <2>1. CASE TriggerUnchanged(v)
    BY <1>4, <1>6, <1>7, <2>1 DEF TriggerUnchanged, Settled
  <2>2. CASE TriggerEnter(v)
    BY <1>6, <1>7, <2>2 DEF TriggerEnter, Settled, Told, Events
  <2>3. CASE TriggerExit(v)
    BY <1>6, <1>7, <2>3 DEF TriggerExit, Settled, Told, Events
  <2> QED
    BY <1>5, <2>1, <2>2, <2>3
<1> QED
  BY <1>1, <1>2, <1>3, <1>8, <1>9

\* Two slots are settled or not by the bodies, the colliders and what was heard.
LEMMA SettledUnchanged ==
    ASSUME UNCHANGED <<bodies, colliders, ColliderGenIndices>>
    PROVE  /\ \A i, j : /\ Couple(i, j)' = Couple(i, j)
                        /\ ColRef(i)' = ColRef(i)
                        /\ Overlap(ColRef(i), ColRef(j))' <=> Overlap(ColRef(i), ColRef(j))
                        /\ Compared(i, j)' <=> Compared(i, j)
           /\ Attached' = Attached /\ ListedTogether' = ListedTogether
<1>1. Attached' = Attached
  BY DEF Attached
<1>2. \A i, j : /\ Couple(i, j)' = Couple(i, j)
                /\ ColRef(i)' = ColRef(i)
                /\ Overlap(ColRef(i), ColRef(j))' <=> Overlap(ColRef(i), ColRef(j))
  BY DEF Couple, Pair, ColRef, Overlap, Placed, GetBody, GetCollider
<1>3. ListedTogether' = ListedTogether
  BY DEF ListedTogether, Aabbs, Pair, ColRef
<1>4. \A i, j : Compared(i, j)' <=> Compared(i, j)
  BY <1>2, <1>3 DEF Compared
<1> QED
  BY <1>1, <1>2, <1>3, <1>4

\* A step of the walk settles the pair it looks at and leaves the others.
LEMMA VisitKeepsWalk == WInv /\ VisitPair => WalkInv'
<1> SUFFICES ASSUME WInv, VisitPair, OnlyTriggers' PROVE (WalkSettles /\ NoPairTwice /\ CallsSettled)'
  BY DEF WalkInv
<1>1. OnlyTriggers /\ phase = "update"
  BY DEF VisitPair, OnlyTriggers, Attached
<1>2. WalkSettles /\ NoPairTwice /\ CallsSettled
  BY <1>1 DEF WInv, WalkInv
<1>3. UNCHANGED <<bodies, colliders, ColliderGenIndices>>
  BY <1>1, VisitSettles DEF WInv
<1>4. PICK i \in Attached, j \in Attached, v \in visits :
        /\ i < j /\ v.a = ColRef(i) /\ v.b = ColRef(j) /\ visits' = visits \ {v}
        /\ \/ calls' = calls /\ heard' = heard /\ Settled(i, j)
           \/ /\ ~Settled(i, j)
              /\ heard' = IF Overlap(ColRef(i), ColRef(j))
                          THEN heard \cup {Couple(i, j)} ELSE heard \ {Couple(i, j)}
              /\ \E event \in Events :
                    calls' = Append(calls, [event |-> event, pair |-> Couple(i, j)])
  BY <1>1, VisitSettles DEF WInv
<1>5. /\ i \in 1..Len(colliders) /\ j \in 1..Len(colliders)
      /\ \A x \in Attached : x \in 1..Len(colliders)
  BY SlotsAndRefs DEF WInv
<1>6. Attached' = Attached
  BY <1>3, SettledUnchanged
<1>7. Settled(i, j)'
  BY <1>3, <1>4, SettledUnchanged DEF Settled
<1>8. ASSUME NEW x \in Attached, NEW y \in Attached, x < y, ~(x = i /\ y = j)
      PROVE  /\ Couple(x, y) # Couple(i, j)
             /\ Settled(x, y)' <=> Settled(x, y)
             /\ Pending(x, y) => Pending(x, y)'
  <2>1. Couple(x, y) # Couple(i, j)
    BY <1>4, <1>5, <1>8, CouplesDiffer DEF WInv
  <2>2. Couple(x, y) \in heard' <=> Couple(x, y) \in heard
    BY <1>4, <2>1
  <2>3. Settled(x, y)' <=> Settled(x, y)
    BY <1>3, <2>2, SettledUnchanged DEF Settled
  <2>4. Pending(x, y) => Pending(x, y)'
    <3>1. SUFFICES ASSUME NEW w \in visits, w.a = ColRef(x), w.b = ColRef(y)
                   PROVE  w \in visits' /\ w.a = ColRef(x)' /\ w.b = ColRef(y)'
      BY DEF Pending
    <3>2. /\ ColRef(x).Index = x /\ ColRef(y).Index = y
          /\ ColRef(i).Index = i /\ ColRef(j).Index = j
      BY <1>5, SlotsAndRefs DEF WInv
    <3>3. w # v
      BY <1>4, <1>8, <3>1, <3>2
    <3> QED
      BY <1>3, <1>4, <3>1, <3>3, SettledUnchanged
  <2> QED
    BY <2>1, <2>3, <2>4
<1>9. WalkSettles'
  <2>1. SUFFICES ASSUME NEW x \in Attached, NEW y \in Attached, x < y, Compared(x, y)'
                 PROVE  Settled(x, y)' \/ Pending(x, y)'
    BY <1>6 DEF WalkSettles
  <2>2. Compared(x, y)
    BY <1>3, <2>1, SettledUnchanged
  <2>3. CASE x = i /\ y = j
    BY <1>7, <2>3
  <2>4. CASE ~(x = i /\ y = j)
    BY <1>2, <1>8, <2>1, <2>2, <2>4 DEF WalkSettles
  <2> QED
    BY <2>3, <2>4
<1>10. CASE calls' = calls /\ heard' = heard
  <2>1. NoPairTwice'
    BY <1>2, <1>10 DEF NoPairTwice
  <2>2. CallsSettled'
    <3>1. \A x, y : (Settled(x, y)' <=> Settled(x, y)) /\ Couple(x, y)' = Couple(x, y)
      BY <1>3, <1>10, SettledUnchanged DEF Settled
    <3> QED
      BY <1>2, <1>6, <1>10, <3>1 DEF CallsSettled
  <2> QED
    BY <1>9, <2>1, <2>2
<1>11. CASE /\ ~Settled(i, j)
            /\ \E event \in Events :
                    calls' = Append(calls, [event |-> event, pair |-> Couple(i, j)])
  <2>1. PICK event \in Events : calls' = Append(calls, [event |-> event, pair |-> Couple(i, j)])
    BY <1>11
  <2>2. /\ Len(calls) \in Nat /\ DOMAIN calls = 1..Len(calls)
        /\ DOMAIN calls' = 1..(Len(calls) + 1)
        /\ calls'[Len(calls) + 1].pair = Couple(i, j)
        /\ \A m \in 1..Len(calls) : calls'[m] = calls[m]
    <3>1. calls \in Seq([event : Events, pair : SUBSET Ref])
      BY DEF WInv, IInv, TypeOK
    <3>2. [event |-> event, pair |-> Couple(i, j)] \in [event : Events, pair : SUBSET Ref]
      BY <1>5, SlotsAndRefs DEF WInv, Couple, Pair
    <3> QED
      BY <2>1, <3>1, <3>2
  <2>3. \A m \in 1..Len(calls) : \E x, y \in Attached :
            /\ x < y /\ calls[m].pair = Couple(x, y) /\ Couple(x, y) # Couple(i, j)
            /\ Settled(x, y)'
    <3>1. TAKE m \in 1..Len(calls)
    <3>2. PICK x \in Attached, y \in Attached :
            x < y /\ calls[m].pair = Couple(x, y) /\ Settled(x, y)
      BY <1>2, <2>2 DEF CallsSettled
    <3>3. ~(x = i /\ y = j)
      BY <1>11, <3>2
    <3> QED
      BY <1>8, <3>2, <3>3
  <2>4. NoPairTwice'
    <3>1. \A m, n \in 1..(Len(calls) + 1) : calls'[m].pair = calls'[n].pair => m = n
      <4>1. TAKE m, n \in 1..(Len(calls) + 1)
      <4>2. m \in 1..Len(calls) \/ m = Len(calls) + 1
        BY <2>2
      <4>3. n \in 1..Len(calls) \/ n = Len(calls) + 1
        BY <2>2
      <4> QED
        BY <1>2, <2>2, <2>3, <4>2, <4>3 DEF NoPairTwice
    <3> QED
      BY <2>2, <3>1 DEF NoPairTwice
  <2>5. CallsSettled'
    <3>1. SUFFICES ASSUME NEW m \in 1..(Len(calls) + 1)
                   PROVE  \E x, y \in Attached :
                            x < y /\ calls'[m].pair = Couple(x, y)' /\ Settled(x, y)'
      BY <1>6, <2>2 DEF CallsSettled
    <3>2. \A x, y : Couple(x, y)' = Couple(x, y)
      BY <1>3, SettledUnchanged
    <3>3. CASE m \in 1..Len(calls)
      BY <2>2, <2>3, <3>2, <3>3
    <3>4. CASE m = Len(calls) + 1
      BY <1>4, <1>7, <2>2, <3>2, <3>4
    <3> QED
      BY <2>2, <3>3, <3>4
  <2> QED
    BY <1>9, <2>4, <2>5
<1> QED
  BY <1>4, <1>10, <1>11

\* Two boxes in a leaf are looked at, the lower slot first.
LEMMA SharedLeafIsVisited ==
    ASSUME NEW aabbs, NEW cell \in Leaves(aabbs, RootBounds(aabbs)), NEW i, NEW j, i < j,
           i \in Reaching(aabbs, RootBounds(aabbs), cell),
           j \in Reaching(aabbs, RootBounds(aabbs), cell)
    PROVE  \E v \in Visits(aabbs) : v.a = i /\ v.b = j
<1> DEFINE root == RootBounds(aabbs)
           Pairs(c) == {p \in Reaching(aabbs, root, c) \X Reaching(aabbs, root, c) : p[1] < p[2]}
           v == [leaf |-> Rank(cell), a |-> i, b |-> j]
<1>1. <<i, j>> \in Pairs(cell) /\ v = [leaf |-> Rank(cell), a |-> <<i, j>>[1], b |-> <<i, j>>[2]]
  OBVIOUS
<1>2. v \in {[leaf |-> Rank(cell), a |-> p[1], b |-> p[2]] : p \in Pairs(cell)}
  BY <1>1
<1>3. v \in Visits(aabbs)
  BY <1>2 DEF Visits
<1> QED
  BY <1>3

\* When the walk of an Update begins, the leaves hold every pair it has to settle:
\* the boxes are those of the shapes where the bodies are now.
LEMMA UpdateStartsWalk == IInv /\ Update => WalkInv'
<1> SUFFICES ASSUME IInv, Update PROVE (WalkSettles /\ NoPairTwice /\ CallsSettled)'
  BY DEF WalkInv
<1>1. calls' = <<>> /\ UNCHANGED ColliderGenIndices /\ colliders' = Following(bodies')
  BY DEF Update
<1>2. PICK aabbs : aabbs = Aabbs(colliders')
  OBVIOUS
<1>3. /\ colliders' \in Seq(Collider) /\ Len(colliders') \in Nat
      /\ DOMAIN colliders' = 1..Len(colliders')
      /\ \A k \in 1..Len(colliders') :
            /\ colliders'[k] \in Collider
            /\ ColRef(k)' = [Index |-> k, GenIndex |-> 0]
            /\ colliders'[k].BodyRef.Index \in DOMAIN bodies'
  <2>1. IInv'
    BY UpdatePreserves
  <2>2. colliders' \in Seq(Collider) /\ bodies' \in Seq(Body)
    BY <2>1 DEF IInv, TypeOK
  <2>3. \A k \in 1..Len(colliders') :
            ColliderGenIndices'[k] = 0 /\ colliders'[k].BodyRef.Index \in 1..Len(bodies')
    BY <2>1 DEF IInv, GenerationsZero, CollidersNameBodies
  <2> QED
    BY <2>2, <2>3, LenProperties, ElementOfSeq DEF ColRef
<1>4. \A k \in DOMAIN bodies' : bodies'[k].Position \in Places
  <2>1. bodies' \in Seq(Body)
    BY UpdatePreserves DEF IInv, TypeOK
  <2>2. \A k \in DOMAIN bodies' : bodies'[k] \in Body
    BY <2>1, LenProperties, ElementOfSeq
  <2> QED
    BY <2>2 DEF Body
<1>5. /\ DOMAIN aabbs = Attached' /\ Attached' \subseteq 1..Len(colliders')
      /\ \A k \in Attached' : aabbs[k] = GetBounds(colliders'[k].Shape, colliders'[k].BodyPosition)
  BY <1>2, <1>3 DEF Aabbs, Attached
<1>6. \A k \in Attached' : colliders'[k].BodyPosition = bodies'[colliders'[k].BodyRef.Index].Position
  <2>1. \A k \in 1..Len(colliders) : colliders[k] \in Collider
    BY ElementOfSeq DEF IInv, TypeOK
  <2>2. DOMAIN colliders' = 1..Len(colliders)
    BY <1>1 DEF Following
  <2> QED
    BY <1>1, <2>1, <2>2 DEF Following, Attached, Collider
<1>7. \A k \in Attached' : /\ colliders'[k].Shape \in Shapes \cup {DefaultShape}
                           /\ colliders'[k].BodyPosition \in Places
  BY <1>3, <1>5 DEF Collider
<1>8. /\ IsFiniteSet(DOMAIN aabbs)
      /\ ShapesCovered => OrderedBoxes(aabbs)
  <2>1. IsFiniteSet(DOMAIN aabbs)
    <3>1. 1 \in Int /\ Len(colliders') \in Int
      BY <1>3
    <3>2. IsFiniteSet(1..Len(colliders'))
      BY <3>1, FS_Interval
    <3> QED
      BY <1>5, <3>2, FS_Subset
  <2>2. ShapesCovered => \A k \in Attached' : Ordered(aabbs[k])
    BY <1>5, <1>7 DEF ShapesCovered
  <2> QED
    BY <1>5, <2>1, <2>2 DEF OrderedBoxes
<1>9. ASSUME NEW i \in Attached', NEW j \in Attached', i < j, Compared(i, j)'
      PROVE  Pending(i, j)'
  <2>1. \E v \in Visits(aabbs) : v.a = i /\ v.b = j
    <3>1. CASE ShapesCovered /\ Overlap(ColRef(i), ColRef(j))'
      <4>1. ColRef(i)'.Index = i /\ ColRef(j)'.Index = j
        BY <1>3, <1>5
      <4>2. OverlapShapes(Translate(colliders'[i].Shape, colliders'[i].BodyPosition),
                          Translate(colliders'[j].Shape, colliders'[j].BodyPosition))
        BY <1>6, <3>1, <4>1 DEF Overlap, Placed, GetCollider, GetBody
      <4>3. IntersectRectangles(aabbs[i], aabbs[j])
        BY <1>5, <1>7, <3>1, <4>2 DEF ShapesCovered
      <4>4. \E cell \in Leaves(aabbs, RootBounds(aabbs)) :
                /\ i \in Reaching(aabbs, RootBounds(aabbs), cell)
                /\ j \in Reaching(aabbs, RootBounds(aabbs), cell)
        BY <1>5, <1>8, <3>1, <4>3, TouchingBoxesShareLeaf
      <4> QED
        BY <1>9, <4>4, SharedLeafIsVisited
    <3>2. CASE (Couple(i, j) \in ListedTogether)'
      <4>1. \A x, y : Couple(x, y)' = Couple(x, y)
        BY <1>1 DEF Couple, Pair, ColRef
      <4>2. PICK v \in Visits(aabbs) : Couple(i, j) = Couple(v.a, v.b)
        BY <1>2, <3>2, <4>1 DEF ListedTogether, Couple
      <4>3. v.a \in Attached' /\ v.b \in Attached' /\ v.a < v.b
        BY <1>5, VisitsAreOfBoxes
      <4>4. Attached' \subseteq 1..Len(colliders)
        BY <1>5, UpdateVisitsAttached
      <4> QED
        BY <1>9, <4>2, <4>3, <4>4, CouplesDiffer
    <3> QED
      BY <1>9, <3>1, <3>2 DEF Compared
  <2>2. PICK v \in Visits(aabbs) : v.a = i /\ v.b = j
    BY <2>1
  <2>3. [leaf |-> v.leaf, a |-> ColRef(v.a), b |-> ColRef(v.b)] \in visits'
    BY <1>2 DEF Update
  <2>4. ColRef(i)' = ColRef(i) /\ ColRef(j)' = ColRef(j)
    BY <1>1 DEF ColRef
  <2> QED
    BY <2>2, <2>3, <2>4 DEF Pending
<1>10. WalkSettles'
  BY <1>9 DEF WalkSettles
<1>11. (NoPairTwice /\ CallsSettled)'
  BY <1>1 DEF NoPairTwice, CallsSettled
<1> QED
  BY <1>10, <1>11

\* The client has its turn between two walks.
LEMMA ClientLeavesWalk ==
    ASSUME IInv, [Next]_vars, ~Running, ~UNCHANGED vars
    PROVE  visits' = {} /\ phase' # "update"
<1>1. CASE SetUp \/ TearDown \/ SetContactListener \/ CreateBody
  BY <1>1 DEF IInv, PhaseOK, SetUp, TearDown, SetContactListener, CreateBody, ClientTurn
<1>2. CASE \/ \E ref \in bodyRefs, position \in Places, type \in BodyTypes :
                  ConfigureBody(ref, position, type)
           \/ \E ref \in bodyRefs : DestroyBody(ref)
  BY <1>2 DEF IInv, PhaseOK, ConfigureBody, DestroyBody, ClientTurn
<1>3. CASE \/ \E ref \in bodyRefs : CreateCollider(ref)
           \/ \E ref \in colRefs, shape \in Shapes, isTrigger \in TriggerFlags :
                  ConfigureCollider(ref, shape, isTrigger)
           \/ \E ref \in colRefs : DestroyCollider(ref)
  BY <1>3 DEF IInv, PhaseOK, CreateCollider, ConfigureCollider, DestroyCollider, ClientTurn
<1> QED
  BY <1>1, <1>2, <1>3 DEF Next

\* What the walk has settled stays settled until the next one begins.
LEMMA StepKeepsWalk == WInv /\ [Next]_vars => WInv'
<1> SUFFICES ASSUME WInv, [Next]_vars PROVE WInv'
  OBVIOUS
<1>1. IInv'
  BY StepPreserves DEF WInv
<1>2. CASE Update
  BY <1>1, <1>2, UpdateVisitsAttached, UpdateStartsWalk DEF WInv
<1>3. CASE VisitPair
  <2>1. visits' \subseteq visits /\ UNCHANGED colliders
    BY <1>3, VisitPairEffect DEF VisitPair, WInv
  <2>2. VisitsAttached'
    BY <2>1 DEF WInv, VisitsAttached
  <2> QED
    BY <1>1, <1>3, <2>2, VisitKeepsWalk DEF WInv
<1>4. CASE UpdateReturns
  BY <1>1, <1>4 DEF UpdateReturns, WInv, VisitsAttached, WalkInv
<1>5. CASE UNCHANGED vars
  <2>1. UNCHANGED <<bodies, colliders, ColliderGenIndices, contactListener, phase, visits,
                    calls, heard>>
    BY <1>5 DEF vars, slots, history
  <2>2. VisitsAttached'
    BY <2>1 DEF WInv, VisitsAttached
  <2>3. \A i, j : /\ Couple(i, j)' = Couple(i, j)
                  /\ Settled(i, j)' <=> Settled(i, j)
                  /\ Pending(i, j)' <=> Pending(i, j)
                  /\ Compared(i, j)' <=> Compared(i, j)
    BY <2>1, SettledUnchanged DEF Settled, Pending
  <2>4. Attached' = Attached
    BY <2>1, SettledUnchanged
  <2>5. /\ WalkSettles' <=> WalkSettles
        /\ NoPairTwice' <=> NoPairTwice
        /\ CallsSettled' <=> CallsSettled
    BY <2>1, <2>3, <2>4 DEF WalkSettles, NoPairTwice, CallsSettled
  <2>6. OnlyTriggers' <=> OnlyTriggers
    BY <2>1, <2>4 DEF OnlyTriggers
  <2> QED
    BY <1>1, <2>1, <2>2, <2>5, <2>6 DEF WInv, WalkInv
<1>6. CASE ~Running /\ ~UNCHANGED vars
  <2>1. visits' = {} /\ phase' # "update"
    BY <1>6, ClientLeavesWalk DEF WInv
  <2> QED
    BY <1>1, <2>1 DEF WInv, VisitsAttached, WalkInv
<1> QED
  BY <1>2, <1>3, <1>4, <1>5, <1>6 DEF Running

\* No walk is under way at the start.
LEMMA InitHasNoWalk == Init => WInv
<1> SUFFICES ASSUME Init PROVE WInv
  OBVIOUS
<1>1. visits = {} /\ phase = "down"
  BY DEF Init
<1> QED
  BY <1>1, InitEstablishes DEF WInv, VisitsAttached, WalkInv

\* The strengthened invariant of the walk, for every client World allows.
LEMMA WalkInvariance == Init /\ [][Next]_vars => []WInv
<1>1. WInv /\ [Next]_vars => WInv'
  BY StepKeepsWalk
<1> QED
  BY <1>1, InitHasNoWalk, PTL

-----------------------------------------------------------------------------
(* What the walk has told when it is done.                                 *)

\* Two attached colliders touch when their shapes overlap where Update looks.
LEMMA TouchingCouples ==
    ASSUME IInv
    PROVE  /\ \A i, j \in Attached : i < j =>
                    (Couple(i, j) \in Touching <=> Overlap(ColRef(i), ColRef(j)))
           /\ \A pair \in Touching : \E i, j \in Attached :
                    i < j /\ pair = Couple(i, j) /\ Overlap(ColRef(i), ColRef(j))
<1>1. \A i \in Attached : i \in 1..Len(colliders) /\ ColRef(i).Index = i
  BY SlotsAndRefs
<1>2. \A i, j \in Attached :
        Overlap(ColRef(i), ColRef(j)) <=> OverlapShapes(Standing(i), Standing(j))
  BY <1>1 DEF Overlap, Placed, GetCollider, GetBody, Standing
<1>3. ASSUME NEW pair \in Touching
      PROVE  \E i, j \in Attached :
                i < j /\ pair = Couple(i, j) /\ Overlap(ColRef(i), ColRef(j))
  <2>1. PICK p \in Attached \X Attached :
            /\ p[1] < p[2] /\ OverlapShapes(Standing(p[1]), Standing(p[2]))
            /\ pair = Pair(ColRef(p[1]), ColRef(p[2]))
    BY <1>3 DEF Touching
  <2>2. p[1] \in Attached /\ p[2] \in Attached
    OBVIOUS
  <2> QED
    BY <1>2, <2>1, <2>2 DEF Couple
<1>4. ASSUME NEW i \in Attached, NEW j \in Attached, i < j, Overlap(ColRef(i), ColRef(j))
      PROVE  Couple(i, j) \in Touching
  <2>1. /\ <<i, j>> \in Attached \X Attached
        /\ <<i, j>>[1] = i /\ <<i, j>>[2] = j
    OBVIOUS
  <2>2. OverlapShapes(Standing(i), Standing(j))
    BY <1>2, <1>4
  <2> QED
    BY <1>4, <2>1, <2>2 DEF Touching, Couple
<1>5. ASSUME NEW i \in Attached, NEW j \in Attached, i < j, Couple(i, j) \in Touching
      PROVE  Overlap(ColRef(i), ColRef(j))
  <2>1. PICK x \in Attached, y \in Attached :
            x < y /\ Couple(i, j) = Couple(x, y) /\ Overlap(ColRef(x), ColRef(y))
    BY <1>3, <1>5
  <2>2. i = x /\ j = y
    BY <1>1, <1>5, <2>1, CouplesDiffer
  <2> QED
    BY <2>1, <2>2
<1> QED
  BY <1>3, <1>4, <1>5

\* A walk that is done has told the listener of every pair that overlaps.
LEMMA WalkDoneIsTold == ShapesCovered /\ WInv => EnterNeverMissed
<1> SUFFICES ASSUME ShapesCovered, WInv, WalkDone, OnlyTriggers, NEW pair \in Touching
             PROVE  pair \in heard
  BY DEF EnterNeverMissed
<1>1. PICK i \in Attached, j \in Attached :
        i < j /\ pair = Couple(i, j) /\ Overlap(ColRef(i), ColRef(j))
  BY TouchingCouples DEF WInv
<1>2. ~Pending(i, j) /\ WalkSettles
  BY DEF WInv, WalkInv, WalkDone, Pending
<1> QED
  BY <1>1, <1>2 DEF WalkSettles, Settled, Compared

\* A pair that is listed is one of two attached colliders.
LEMMA ListedCouples ==
    ASSUME IInv, NEW pair \in ListedTogether
    PROVE  \E i, j \in Attached : i < j /\ pair = Couple(i, j)
<1>1. PICK v \in Visits(Aabbs(colliders)) : pair = Couple(v.a, v.b)
  BY DEF ListedTogether, Couple
<1>2. DOMAIN Aabbs(colliders) = Attached
  BY SlotsAndRefs DEF Aabbs, Attached
<1>3. v.a \in Attached /\ v.b \in Attached /\ v.a < v.b
  BY <1>2, VisitsAreOfBoxes
<1> QED
  BY <1>1, <1>3

\* A walk that is done has settled every pair some leaf listed.
LEMMA WalkDoneIsExact == WInv => ListedPairsExact
<1> SUFFICES ASSUME WInv, WalkDone, OnlyTriggers, NEW pair \in ListedTogether
             PROVE  pair \in heard <=> pair \in Touching
  BY DEF ListedPairsExact
<1>1. PICK i \in Attached, j \in Attached : i < j /\ pair = Couple(i, j)
  BY ListedCouples DEF WInv
<1>2. ~Pending(i, j) /\ WalkSettles
  BY DEF WInv, WalkInv, WalkDone, Pending
<1>3. Settled(i, j)
  BY <1>1, <1>2 DEF WalkSettles, Compared
<1>4. pair \in Touching <=> Overlap(ColRef(i), ColRef(j))
  BY <1>1, TouchingCouples DEF WInv
<1> QED
  BY <1>1, <1>3, <1>4 DEF Settled

\* Whatever was open before and whatever the client did, at the end of an Update
\* the open pairs among those some leaf listed together are exactly the pairs that
\* overlap: for shapes of every kind, worlds of every size, lists and depths of
\* every length, so also for the 300 objects of the trigger sample.
THEOREM ListedPairsAreExact == Spec => []ListedPairsExact
<1>1. WInv => ListedPairsExact
  BY WalkDoneIsExact
<1> QED
  BY <1>1, WalkInvariance, PTL DEF Spec

\* In a world of triggers the quadtree hides no overlap: whatever the client did
\* before, and however the bodies moved, when an Update ends the listener has been
\* told of every pair that overlaps (World.cpp:155-262).  For circles and rectangles
\* of any number, size and place, and every list size and depth of the tree.
THEOREM EveryOverlapIsTold ==
    ASSUME PlainShapes
    PROVE  Spec => []EnterNeverMissed
<1>1. ShapesCovered
  BY PlainShapesCovered
<1>2. WInv => EnterNeverMissed
  BY <1>1, WalkDoneIsTold
<1> QED
  BY <1>2, WalkInvariance, PTL DEF Spec

-----------------------------------------------------------------------------
(* The world implements the contract of its listener.                      *)

\* A pair the walk looks at is touching when its shapes overlap.
LEMMA TouchingIsOverlap ==
    ASSUME IInv, VisitsAttached, NEW v \in visits
    PROVE  Pair(v.a, v.b) \in Touching <=> Overlap(v.a, v.b)
<1>1. v.a \in Ref /\ v.b \in Ref /\ v.a.Index < v.b.Index
  BY DEF IInv, TypeOK, VisitsInRange
<1>2. v.a.Index \in Attached /\ v.b.Index \in Attached
  BY SlotsAndRefs DEF IInv, VisitsInRange, VisitsAttached, Attached
<1>3. v.a = ColRef(v.a.Index) /\ v.b = ColRef(v.b.Index)
  BY <1>1, <1>2, SlotsAndRefs DEF IInv, VisitsInRange, Ref
<1> QED
  BY <1>1, <1>2, <1>3, TouchingCouples DEF Couple

\* Which pairs touch depends on the bodies, the colliders and their generations.
LEMMA TouchingUnchanged ==
    ASSUME UNCHANGED <<bodies, colliders, ColliderGenIndices>>
    PROVE  Touching' = Touching
BY DEF Touching, Attached, Standing, Pair, ColRef

\* A step of the walk is one call of the listener that the contract allows, or
\* none.
LEMMA VisitPairKeepsContract == WInv /\ VisitPair => Listener!Next
<1> SUFFICES ASSUME WInv, IInv, VisitPair PROVE Listener!Next
  BY DEF WInv
<1>1. PICK v \in visits :
            \/ PhysicalContact(v) \/ PhysicalMiss(v)
            \/ TriggerEnter(v) \/ TriggerExit(v) \/ TriggerUnchanged(v)
  BY DEF VisitPair
<1> DEFINE pair == Pair(v.a, v.b)
<1>2. pair \in Touching <=> Overlap(v.a, v.b)
  BY TouchingIsOverlap DEF WInv
<1>3. UNCHANGED bodies => Touching' = Touching
  BY TouchingUnchanged DEF VisitPair
<1>4. \A event : Told(event, v) = Append(calls, [event |-> event, pair |-> pair])
  BY DEF Told
<1>5. ASSUME NEW event \in Events, calls' = Told(event, v)
      PROVE  Len(calls') = Len(calls) + 1 /\ calls'[Len(calls')].pair = pair
  <2>1. [event |-> event, pair |-> pair] \in [event : Events, pair : SUBSET Ref]
    BY DEF IInv, TypeOK, Pair
  <2>2. calls \in Seq([event : Events, pair : SUBSET Ref])
    BY DEF IInv, TypeOK
  <2>3. calls' = Append(calls, [event |-> event, pair |-> pair])
    BY <1>4, <1>5
  <2>4. /\ Len(calls') = Len(calls) + 1
        /\ calls'[Len(calls) + 1] = [event |-> event, pair |-> pair]
    BY <2>1, <2>2, <2>3
  <2> QED
    BY <2>4
<1> HIDE DEF pair
<1>6. CASE UNCHANGED <<calls, colRefPairs>>
  BY <1>6 DEF Listener!Next, Listener!Move
<1>7. CASE PhysicalContact(v) /\ calls' # calls
  <2>1. Listener!OnCollisionEnter(pair) /\ pair \in Touching
    BY <1>2, <1>4, <1>7
    DEF PhysicalContact, Listener!OnCollisionEnter, Listener!Call
  <2> QED
    BY <2>1 DEF Listener!Next
<1>8. CASE PhysicalMiss(v) /\ calls' # calls
  <2>1. calls' = Told("OnCollisionExit", v) /\ UNCHANGED <<bodies, colRefPairs>>
    BY <1>8 DEF PhysicalMiss
  <2>2. pair \notin Touching
    BY <1>2, <1>8 DEF PhysicalMiss
  <2>3. Listener!OnCollisionExit
    BY <1>3, <1>4, <1>5, <2>1, <2>2
    DEF Events, Listener!OnCollisionExit, Listener!Call
  <2> QED
    BY <2>3 DEF Listener!Next
<1>9. CASE TriggerEnter(v)
  <2>1. Listener!OnTriggerEnter(pair) /\ pair \in Touching
    BY <1>2, <1>3, <1>4, <1>9
    DEF pair, TriggerEnter, Emplaced, Listener!OnTriggerEnter, Listener!Call
  <2> QED
    BY <2>1 DEF Listener!Next
<1>10. CASE TriggerExit(v)
  <2>1. Listener!OnTriggerExit(pair) /\ pair \in colRefPairs
    BY <1>2, <1>3, <1>4, <1>10
    DEF pair, TriggerExit, Listener!OnTriggerExit, Listener!Call
  <2> QED
    BY <2>1 DEF Listener!Next
<1> QED
  BY <1>1, <1>6, <1>7, <1>8, <1>9, <1>10 DEF PhysicalContact, PhysicalMiss, TriggerUnchanged

\* Every execution of the world is one the contract of the listener allows, for
\* every world: callbacks are true of the shapes at the moment they are made, in
\* turn, and one at a time, though the leaves were computed before the contacts
\* moved the bodies.
THEOREM WorldKeepsContract == Spec => KeepsContract
<1>1. Init => Listener!Init
  <2> SUFFICES ASSUME Init PROVE Listener!Init
    OBVIOUS
  <2>1. DOMAIN colliders = {}
    BY DEF Init
  <2>2. Touching = {}
    BY <2>1 DEF Touching, Attached
  <2> QED
    BY <2>2 DEF Init, Listener!Init
<1>2. ASSUME WInv, [Next]_vars PROVE [Listener!Next]_(Listener!vars)
  <2>1. CASE UNCHANGED <<calls, colRefPairs>>
    BY <2>1 DEF Listener!Next, Listener!Move
  <2>2. CASE Update
    BY <2>2 DEF Update, Listener!Next, Listener!NewFrame
  <2>3. CASE VisitPair
    BY <1>2, <2>3, VisitPairKeepsContract
  <2>4. CASE TearDown
    <3>1. Touching' = {}
      <4>1. DOMAIN colliders' = {}
        BY <2>4 DEF TearDown
      <4> QED
        BY <4>1 DEF Touching, Attached
    <3> QED
      BY <2>4, <3>1 DEF TearDown, Listener!Next, Listener!TearDown
  <2> QED
    BY <1>2, <2>1, <2>2, <2>3, <2>4
    DEF Next, Running, vars, history, SetUp, SetContactListener, CreateBody, ConfigureBody,
        DestroyBody, CreateCollider, ConfigureCollider, DestroyCollider, UpdateReturns
<1> QED
  BY <1>1, <1>2, WalkInvariance, PTL DEF Spec, KeepsContract, Listener!Spec

=============================================================================
