------------------------------ MODULE Contact ------------------------------
(***************************************************************************)
(* What World leaves open: where a contact sends its bodies                *)
(* (Physics/src/Contact.cpp).  Two bodies with a collider each are moved   *)
(* frame after frame (World::UpdateBodies), and the walk visits their pair *)
(* once for every leaf they share, in the order of their slots.            *)
(*                                                                         *)
(* Quantities are whole multiples of a small unit and a frame lasts one    *)
(* second.  Vectors whose direction the code takes lie on an axis, and the *)
(* shares of the bodies leave no remainder (bounds), so that normals and   *)
(* quotients, which the code computes in floats, are exact.                *)
(***************************************************************************)
EXTENDS Shape

CONSTANTS Positions,     \* bound: where bodies are created
          Velocities,    \* bound: and how fast
          Forces,        \* bound: the forces a client applies
          Masses, Restitutions, Shapes,
          Types,         \* the BodyTypes the client uses
          MaxFrames,     \* bound: frames
          MaxLeaves      \* bound: leaves a pair shares in a frame

ASSUME ContactAssumption ==
    /\ Positions \subseteq Vec /\ Velocities \subseteq Vec /\ Forces \subseteq Vec
    /\ Masses \subseteq Nat \ {0}
    /\ MaxFrames \in Nat /\ MaxLeaves \in Nat
    /\ Restitutions \subseteq {0, 1}
    /\ Types \subseteq {"DYNAMIC", "STATIC"}
    /\ \A shape \in Shapes :
          \/ shape.type = "Circle" /\ shape.center \in Vec /\ shape.radius \in Int
          \/ /\ shape.type = "Rectangle"
             /\ shape.minBound \in Vec /\ shape.maxBound \in Vec
          \/ shape.type = "Polygon"

VARIABLES
    bodies,       \* the two bodies
    colliders,    \* their colliders
    leaves,       \* visits of the pair the running walk still makes
    frames,
    resolved      \* history: the pair was resolved in this frame

vars == <<bodies, colliders, leaves, frames, resolved>>

Other(i) == 3 - i

Bodies ==
    {body \in [Position : Positions, Velocity : Velocities, force : {<<0, 0>>},
               Mass : Masses, Type : Types] :
        body.Type = "STATIC" => body.Velocity = <<0, 0>>}

Init ==
    /\ bodies \in [1..2 -> Bodies]
    /\ colliders \in [1..2 -> [Shape : Shapes, Restitution : Restitutions]]
    /\ leaves = 0 /\ frames = 0 /\ resolved = FALSE

-----------------------------------------------------------------------------
(* Normal and penetration, as the switch of Resolve finds them.            *)

Scale(k, u) == <<k * u[1], k * u[2]>>
Sign(n)     == IF n > 0 THEN 1 ELSE IF n < 0 THEN -1 ELSE 0

OnAxis(u)    == u[1] = 0 \/ u[2] = 0
Length(u)    == Abs(u[1]) + Abs(u[2])
Direction(u) == <<Sign(u[1]), Sign(u[2])>>

Up == <<0, 1>>

DirectionOrUp(u) == IF Length(u) > 0 THEN Direction(u) ELSE Up

\* Bounds in the wrong order are swapped first.
Clamp(x, min, max) ==
    LET low  == IF min > max THEN max ELSE min
        high == IF min > max THEN min ELSE max
    IN  IF x < low THEN low ELSE IF x > high THEN high ELSE x

Placed(bs, i) == Translate(colliders[i].Shape, bs[i].Position)

\* From the point of the other shape that the circle is pushed away from.
CircleDelta(bs, a, b) ==
    LET circle == Placed(bs, a)
        other  == Placed(bs, b)
    IN  Minus(circle.center,
              IF other.type = "Circle" THEN other.center
              ELSE [k \in 1..2 |->
                        Clamp(circle.center[k], other.minBound[k], other.maxBound[k])])

CircleTouch(bs, a, b) ==
    LET delta == CircleDelta(bs, a, b)
        reach == Placed(bs, a).radius
                    + (IF Placed(bs, b).type = "Circle" THEN Placed(bs, b).radius ELSE 0)
    IN  [Normal |-> DirectionOrUp(delta), Penetration |-> reach - Length(delta)]

\* Center and HalfSize are halves of sums: twice them here.
RectangleTouch(bs, a, b) ==
    LET r0 == Placed(bs, a)
        r1 == Placed(bs, b)
        delta == Minus(Plus(r0.minBound, r0.maxBound), Plus(r1.minBound, r1.maxBound))
        depth == [k \in 1..2 |-> (r0.maxBound[k] - r0.minBound[k] + r1.maxBound[k]
                                    - r1.minBound[k] - Abs(delta[k])) \div 2]
        axis  == IF depth[1] < depth[2] THEN <<1, 0>> ELSE <<0, 1>>
    IN  [Normal |-> Scale(IF Dot(delta, axis) > 0 THEN 1 ELSE -1, axis),
         Penetration |-> Dot(depth, axis)]

\* Mutant: the normal points from a to b.
TouchBackwards(bs, a, b) ==
    LET touch == IF Placed(bs, a).type = "Circle" /\ Placed(bs, b).type # "Polygon"
                 THEN CircleTouch(bs, a, b)
                 ELSE RectangleTouch(bs, a, b)
    IN  [touch EXCEPT !.Normal = Scale(-1, @)]

\* No case of the switch is for polygons: Normal and Penetration stay zero.
Touch(bs, a, b) ==
    LET types == <<Placed(bs, a).type, Placed(bs, b).type>>
    IN  IF types[1] = "Circle" /\ types[2] # "Polygon" THEN CircleTouch(bs, a, b)
        ELSE IF types = <<"Rectangle", "Rectangle">> THEN RectangleTouch(bs, a, b)
        ELSE [Normal |-> <<0, 0>>, Penetration |-> 0]

-----------------------------------------------------------------------------
(* What it makes of them.                                                  *)

TotalMass(a, b) == bodies[a].Mass + bodies[b].Mass

\* totalInverseMass is of the sign of this product, for it is TotalMass over the
\* product of the masses.  No body has mass 0; a destroyed one has -1.
SignOfInverseMass == TotalMass(1, 2) * bodies[1].Mass * bodies[2].Mass

\* Mutant: the weights of the bodies are swapped.
HeavyPart(i, whole) == (whole * bodies[i].Mass) \div TotalMass(1, 2)

\* The inverse mass of i over the sum of the two is the other's mass over theirs.
OwnPart(i, whole) == (whole * bodies[Other(i)].Mass) \div TotalMass(1, 2)

CalculateSeparateVelocity(bs, a, b, normal) == Dot(Minus(bs[a].Velocity, bs[b].Velocity), normal)

\* Mutant: the weighted restitutions are added up only.
SumOfRestitutions(velocity) ==
    velocity * (bodies[1].Mass * colliders[1].Restitution
                  + bodies[2].Mass * colliders[2].Restitution)

\* Restitution is the mean of the colliders', weighted by the masses.
Restored(velocity) ==
    (velocity * (bodies[1].Mass * colliders[1].Restitution
                   + bodies[2].Mass * colliders[2].Restitution)) \div TotalMass(1, 2)

IsDynamic(i) == bodies[i].Type = "DYNAMIC"

\* Mutant: the part of a STATIC partner is lost.
OwnGain(i, delta) == IF IsDynamic(i) THEN OwnPart(i, delta) ELSE 0

\* A body takes its own part if it is DYNAMIC, and its partner's when that is STATIC.
Gain(i, delta) ==
    (IF IsDynamic(i) THEN OwnPart(i, delta) ELSE 0)
      + (IF bodies[Other(i)].Type = "STATIC" THEN OwnPart(Other(i), delta) ELSE 0)

\* What is missing to the speed at which the bodies are to part.
deltaVelocity(bs, a, b, normal) ==
    LET separating == CalculateSeparateVelocity(bs, a, b, normal)
    IN  Restored(-separating) - separating

\* Mutant: bodies that part already are not left alone.
BouncedAlways(bs, a, b, normal) ==
    LET delta == deltaVelocity(bs, a, b, normal)
    IN  [bs EXCEPT
            ![a].Velocity = Plus(@, Scale(Gain(a, delta), normal)),
            ![b].Velocity = Minus(@, Scale(Gain(b, delta), normal))]

\* ResolveVelocityAndInterpenetration, which is about velocities only.
Bounced(bs, a, b, normal) ==
    LET delta == deltaVelocity(bs, a, b, normal)
    IN  IF CalculateSeparateVelocity(bs, a, b, normal) > 0 \/ SignOfInverseMass <= 0 THEN bs
        ELSE [bs EXCEPT
                ![a].Velocity = Plus(@, Scale(Gain(a, delta), normal)),
                ![b].Velocity = Minus(@, Scale(Gain(b, delta), normal))]

\* Mutant: the total inverse mass is not looked at.
PushedByTheGone(bs, a, b, touch) ==
    LET Push(i) == IF IsDynamic(i) THEN OwnPart(i, touch.Penetration) ELSE 0
    IN  IF touch.Penetration <= 0 THEN bs
        ELSE [bs EXCEPT ![a].Position = Plus(@, Scale(Push(a), touch.Normal)),
                        ![b].Position = Minus(@, Scale(Push(b), touch.Normal))]

\* ResolveInterpenetration: here the part of a STATIC partner is nobody's.
Pushed(bs, a, b, touch) ==
    LET Push(i) == IF IsDynamic(i) THEN OwnPart(i, touch.Penetration) ELSE 0
    IN  IF touch.Penetration <= 0 \/ SignOfInverseMass <= 0 THEN bs
        ELSE [bs EXCEPT ![a].Position = Plus(@, Scale(Push(a), touch.Normal)),
                        ![b].Position = Minus(@, Scale(Push(b), touch.Normal))]

Solved(bs, a, b, touch) ==
    Pushed(Bounced(bs, a, b, touch.Normal), a, b, touch)

IsSwapped(bs, a, b) ==
    Placed(bs, a).type = "Rectangle" /\ Placed(bs, b).type = "Circle"

\* A rectangle and a circle are swapped and resolved by a recursive call, and then
\* the call goes on to solve the contact that one found.
Resolved(bs, a, b) ==
    IF IsSwapped(bs, a, b)
    THEN LET touch == Touch(bs, b, a)
         IN  Solved(Solved(bs, b, a, touch), b, a, touch)
    ELSE Solved(bs, a, b, Touch(bs, a, b))

\* The contact a visit finds, as Resolve leaves it.
Found(bs) == IF IsSwapped(bs, 1, 2) THEN Touch(bs, 2, 1) ELSE Touch(bs, 1, 2)

-----------------------------------------------------------------------------
InFrame == leaves = 0 /\ frames < MaxFrames

IsEnabled(body) == body.Mass >= 0

\* Body::ApplyForce, once a frame (bound).
ApplyForce(i, force) ==
    /\ InFrame
    /\ IsEnabled(bodies[i])
    /\ bodies[i].force = <<0, 0>>
    /\ bodies' = [bodies EXCEPT ![i].force = Plus(@, force)]
    /\ UNCHANGED <<colliders, leaves, frames, resolved>>

\* World::DestroyBody, of a body that was in contact in this frame, and with no
\* force waiting (bounds).  The collider stays attached, and goes on meeting the other.
DestroyBody(i) ==
    /\ InFrame /\ resolved
    /\ \A k \in 1..2 : IsEnabled(bodies[k]) /\ bodies[k].force = <<0, 0>>
    /\ bodies' = [bodies EXCEPT ![i].Mass = -1]
    /\ UNCHANGED <<colliders, leaves, frames, resolved>>

\* World::UpdateBodies for one body.  Its force is not spent when it is STATIC.
Integrated(body) ==
    LET velocity == Plus(body.Velocity, [k \in 1..2 |-> body.force[k] \div body.Mass])
    IN  IF ~IsEnabled(body) \/ body.Type = "STATIC" THEN body
        ELSE [body EXCEPT !.Velocity = velocity,
                          !.Position = Plus(@, velocity),
                          !.force = <<0, 0>>]

\* UpdateBodies; the quadtree decides how many leaves the pair is visited in.
Update ==
    /\ InFrame
    /\ bodies' = [i \in 1..2 |-> Integrated(bodies[i])]
    /\ leaves' \in 1..MaxLeaves
    /\ frames' = frames + 1
    /\ resolved' = FALSE
    /\ UNCHANGED colliders

\* The direction of the contact is on an axis (bound).
Exact ==
    LET Ok(a, b) == Placed(bodies, a).type = "Circle" /\ Placed(bodies, b).type # "Polygon"
                        => OnAxis(CircleDelta(bodies, a, b))
    IN  Ok(1, 2) /\ Ok(2, 1)

Divides(whole) == \A i \in 1..2 : (whole * bodies[i].Mass) % TotalMass(1, 2) = 0

SolveDivides(bs, a, b, touch) ==
    SignOfInverseMass > 0 =>
        Divides(deltaVelocity(bs, a, b, touch.Normal)) /\ Divides(touch.Penetration)

\* And what the bodies share has no remainder (bound).
SharesDivide ==
    IF IsSwapped(bodies, 1, 2)
    THEN LET touch == Touch(bodies, 2, 1)
         IN  /\ SolveDivides(bodies, 2, 1, touch)
             /\ SolveDivides(Solved(bodies, 2, 1, touch), 2, 1, touch)
    ELSE SolveDivides(bodies, 1, 2, Touch(bodies, 1, 2))

Overlap == OverlapShapes(Placed(bodies, 1), Placed(bodies, 2))

Resolve ==
    /\ leaves > 0
    /\ Overlap
    /\ Exact /\ SharesDivide
    /\ bodies' = Resolved(bodies, 1, 2)
    /\ resolved' = TRUE
    /\ leaves' = leaves - 1
    /\ UNCHANGED <<colliders, frames>>

Miss ==
    /\ leaves > 0
    /\ ~Overlap
    /\ leaves' = leaves - 1
    /\ UNCHANGED <<bodies, colliders, frames, resolved>>

Next ==
    \/ \E i \in 1..2, force \in Forces : ApplyForce(i, force)
    \/ \E i \in 1..2 : DestroyBody(i)
    \/ Update \/ Resolve \/ Miss

Spec == Init /\ [][Next]_vars

-----------------------------------------------------------------------------
(* Properties.                                                             *)

Dynamics == {i \in 1..2 : IsDynamic(i)}

BothThere == \A i \in 1..2 : IsEnabled(bodies[i])

IsSolid == Found(bodies).Normal # <<0, 0>>

\* After a contact was resolved its bodies do not approach each other along its
\* normal, whatever their shapes, positive masses, restitutions and order, and also
\* when one of them is STATIC (Contact.cpp:127-167).
NoApproachAfterContact ==
    [][Resolve /\ BothThere /\ IsSolid /\ Dynamics # {} =>
            LET normal == Found(bodies).Normal
            IN  IF IsSwapped(bodies, 1, 2)
                THEN CalculateSeparateVelocity(bodies', 2, 1, normal) >= 0
                ELSE CalculateSeparateVelocity(bodies', 1, 2, normal) >= 0]_vars

Weighted(bs, Quantity(_)) ==
    Plus(Scale(bs[1].Mass, Quantity(bs[1])), Scale(bs[2].Mass, Quantity(bs[2])))

\* A contact of DYNAMIC bodies keeps their momentum and their centre of mass: what
\* one is given the other gives, though each is written on its own, and twice when
\* a rectangle meets a circle (Contact.cpp:80-85, 145-152, 183-191).
MomentumIsKept ==
    [][Resolve /\ Dynamics = {1, 2} =>
            LET Velocity(body) == body.Velocity
                Position(body) == body.Position
            IN  /\ Weighted(bodies', Velocity) = Weighted(bodies, Velocity)
                /\ Weighted(bodies', Position) = Weighted(bodies, Position)]_vars

\* Twice the kinetic energy of the bodies that move.
Energy(bs) ==
    LET Of(i) == IF IsDynamic(i) THEN bs[i].Mass * LengthSq(bs[i].Velocity) ELSE 0
    IN  Of(1) + Of(2)

\* No contact gains energy, with restitutions of at most 1 and for any masses: a
\* pile of bodies cannot blow itself up (Contact.cpp:112, 130-153).
NoEnergyGained == [][Resolve => Energy(bodies') <= Energy(bodies)]_vars

\* A pair that shares several leaves is resolved in each of them
\* (World.cpp:199-214): the further visits of a frame change no velocity, and move
\* two DYNAMIC bodies of one kind of shape no more.
FurtherVisitsAreHarmless ==
    [][Resolve /\ resolved =>
        /\ \A i \in 1..2 : bodies'[i].Velocity = bodies[i].Velocity
        /\ Dynamics = {1, 2} /\ colliders[1].Shape.type = colliders[2].Shape.type =>
                bodies' = bodies]_vars

\* A destroyed body keeps its collider and its place, but its Mass of -1 makes the
\* total inverse mass of a contact no more than 0: it neither moves nor is moved,
\* also by the recursive call (Contact.cpp:143-145, 177-179, World.cpp:71).
GoneBodiesPushNobody == [][Resolve /\ ~BothThere => bodies' = bodies]_vars

\* A circle and a rectangle of which the one has its centre in the other.
CentreIsInside(bs) ==
    \E i \in 1..2 :
        /\ Placed(bs, i).type = "Circle" /\ Placed(bs, Other(i)).type = "Rectangle"
        /\ RectangleContains(Placed(bs, Other(i)), Placed(bs, i).center)

\* From the centre of the circle to the nearest side of the rectangle around it.
ToNearestSide(bs) ==
    LET circle == IF Placed(bs, 1).type = "Circle" THEN 1 ELSE 2
        centre == Placed(bs, circle).center
        rect   == Placed(bs, Other(circle))
    IN  Min(UNION {{centre[k] - rect.minBound[k], rect.maxBound[k] - centre[k]} : k \in 1..2})

\* How far the shapes are in each other.  Penetration is that only while the centre
\* of a circle is outside the rectangle: further in it stays at the radius.
Depth(bs) == Found(bs).Penetration + (IF CentreIsInside(bs) THEN ToNearestSide(bs) ELSE 0)

\* A correction never leaves the bodies deeper in each other than it found them,
\* nor parts them by more than they were in, also when it is made twice, as long as
\* no centre of a circle is in a rectangle (Contact.cpp:66-75, 169-192).
CorrectionIsBounded ==
    [][Resolve /\ ~CentreIsInside(bodies) =>
            Abs(Depth(bodies')) <= Abs(Depth(bodies))]_vars

-----------------------------------------------------------------------------
(* What a comment promises and the code does not do.                       *)

\* "Resolve the interpenetration between the two colliding bodies." (Contact.h:90):
\* no contact drives its bodies further into each other.
ContactIsNotDeeper == [][Resolve => Depth(bodies') <= Depth(bodies)]_vars

=============================================================================
