--------------------------- MODULE ContactProofs ----------------------------
(***************************************************************************)
(* Proofs about what a contact does to its bodies, for every mass, speed,  *)
(* shape and order.                                                        *)
(***************************************************************************)
EXTENDS Contact, TLAPS

BodyRecord == [Position : Vec, Velocity : Vec, force : Vec, Mass : Masses \cup {-1},
               Type : Types]

\* Two bodies of the makes of those of the state.
SameMakes(bs) ==
    /\ bs \in [1..2 -> BodyRecord]
    /\ \A i \in 1..2 : bs[i].Mass = bodies[i].Mass /\ bs[i].Type = bodies[i].Type

StaticStill(bs) == \A i \in 1..2 : bs[i].Type = "STATIC" => bs[i].Velocity = <<0, 0>>

ContactInv ==
    /\ bodies \in [1..2 -> BodyRecord]
    /\ colliders \in [1..2 -> [Shape : Shapes, Restitution : Restitutions]]
    /\ leaves \in Nat /\ frames \in Nat /\ resolved \in BOOLEAN
    /\ StaticStill(bodies)

\* Neither body was destroyed.
LiveInv == ContactInv /\ BothThere

-----------------------------------------------------------------------------
(* Vectors.                                                                *)

\* The operators on vectors, by coordinates.
LEMMA VectorOps ==
    ASSUME NEW u \in Vec, NEW v \in Vec, NEW g \in Int
    PROVE  /\ u = <<u[1], u[2]>> /\ u[1] \in Int /\ u[2] \in Int
           /\ Plus(u, v) = <<u[1] + v[1], u[2] + v[2]>> /\ Plus(u, v) \in Vec
           /\ Minus(u, v) = <<u[1] - v[1], u[2] - v[2]>> /\ Minus(u, v) \in Vec
           /\ Scale(g, u) = <<g * u[1], g * u[2]>> /\ Scale(g, u) \in Vec
           /\ Dot(u, v) = u[1] * v[1] + u[2] * v[2] /\ Dot(u, v) \in Int
BY DEF Vec, Plus, Minus, Scale, Dot

\* What a step along a normal adds to the component along it, and to the square.
LEMMA StepAlong ==
    ASSUME NEW v \in Vec, NEW n \in Vec, NEW g \in Int
    PROVE  /\ Plus(v, Scale(g, n)) \in Vec /\ Minus(v, Scale(g, n)) \in Vec
           /\ Dot(Plus(v, Scale(g, n)), n) = Dot(v, n) + g * Dot(n, n)
           /\ Dot(Minus(v, Scale(g, n)), n) = Dot(v, n) - g * Dot(n, n)
           /\ LengthSq(Plus(v, Scale(g, n))) = LengthSq(v) + 2 * g * Dot(v, n) + g * g * Dot(n, n)
           /\ LengthSq(Minus(v, Scale(g, n))) = LengthSq(v) - 2 * g * Dot(v, n) + g * g * Dot(n, n)
<1>1. PICK x, y, m, l \in Int : v = <<x, y>> /\ n = <<m, l>>
  BY DEF Vec
<1>2. /\ Plus(v, Scale(g, n)) = <<x + g * m, y + g * l>>
      /\ Minus(v, Scale(g, n)) = <<x - g * m, y - g * l>>
  BY <1>1 DEF Plus, Minus, Scale
<1>3. g * m \in Int /\ g * l \in Int
  OBVIOUS
<1>4. Plus(v, Scale(g, n)) \in Vec /\ Minus(v, Scale(g, n)) \in Vec
  BY <1>2, <1>3 DEF Vec
<1>5. /\ Dot(Plus(v, Scale(g, n)), n) = (x + g * m) * m + (y + g * l) * l
      /\ Dot(Minus(v, Scale(g, n)), n) = (x - g * m) * m + (y - g * l) * l
      /\ LengthSq(Plus(v, Scale(g, n))) = (x + g * m) * (x + g * m) + (y + g * l) * (y + g * l)
      /\ LengthSq(Minus(v, Scale(g, n))) = (x - g * m) * (x - g * m) + (y - g * l) * (y - g * l)
      /\ Dot(v, n) = x * m + y * l /\ Dot(n, n) = m * m + l * l /\ LengthSq(v) = x * x + y * y
  BY <1>1, <1>2 DEF LengthSq, Dot
<1>6. /\ (x + g * m) * m + (y + g * l) * l = (x * m + y * l) + g * (m * m + l * l)
      /\ (x - g * m) * m + (y - g * l) * l = (x * m + y * l) - g * (m * m + l * l)
      /\ (x + g * m) * (x + g * m) + (y + g * l) * (y + g * l)
            = (x * x + y * y) + 2 * g * (x * m + y * l) + g * g * (m * m + l * l)
      /\ (x - g * m) * (x - g * m) + (y - g * l) * (y - g * l)
            = (x * x + y * y) - 2 * g * (x * m + y * l) + g * g * (m * m + l * l)
  OBVIOUS
<1> QED
  BY <1>4, <1>5, <1>6

\* Quotients.
LEMMA Quotient ==
    ASSUME NEW x \in Int, NEW M \in Nat \ {0}
    PROVE  /\ x \div M \in Int /\ M * (x \div M) <= x /\ x < M * (x \div M) + M
           /\ x >= 0 => x \div M >= 0
           /\ x % M = 0 => M * (x \div M) = x
OBVIOUS

LEMMA LiveIsTyped ==
    ASSUME LiveInv
    PROVE  ContactInv
BY DEF LiveInv

-----------------------------------------------------------------------------
(* The shares of two bodies.                                               *)

\* The masses of the bodies.
LEMMA MassesAre ==
    ASSUME LiveInv
    PROVE  /\ TotalMass(1, 2) \in Nat \ {0}
           /\ \A i \in 1..2 :
                /\ Other(i) \in 1..2 /\ Other(Other(i)) = i /\ Other(i) # i
                /\ bodies[i].Mass \in Nat \ {0} /\ bodies[i].Type \in {"DYNAMIC", "STATIC"}
                /\ TotalMass(1, 2) = bodies[i].Mass + bodies[Other(i)].Mass
                /\ \A j \in 1..2 : j = i \/ j = Other(i)
<1>1. \A i \in 1..2 : bodies[i] \in BodyRecord /\ bodies[i].Mass >= 0
  BY DEF LiveInv, ContactInv, BothThere, IsEnabled
<1>2. \A i \in 1..2 : bodies[i].Mass \in Nat \ {0} /\ bodies[i].Type \in {"DYNAMIC", "STATIC"}
  <2> TAKE i \in 1..2
  <2>1. /\ bodies[i].Mass \in Masses \cup {-1} /\ bodies[i].Mass >= 0
        /\ bodies[i].Type \in Types
    BY <1>1 DEF BodyRecord
  <2>2. bodies[i].Mass # -1
    BY <2>1
  <2> QED
    BY <2>1, <2>2, ContactAssumption
<1>3. bodies[1].Mass \in Nat \ {0} /\ bodies[2].Mass \in Nat \ {0} /\ 1..2 = {1, 2}
  BY <1>2
<1>4. /\ Other(1) = 2 /\ Other(2) = 1
      /\ TotalMass(1, 2) = bodies[1].Mass + bodies[2].Mass
  BY DEF Other, TotalMass
<1> QED
  BY <1>2, <1>3, <1>4

\* The total inverse mass is above 0 while no body was destroyed, and only then.
LEMMA InverseMassIs ==
    ASSUME ContactInv
    PROVE  SignOfInverseMass <= 0 <=> ~BothThere
<1>1. PICK m, n \in (Nat \ {0}) \cup {-1} : m = bodies[1].Mass /\ n = bodies[2].Mass
  <2>1. bodies[1] \in BodyRecord /\ bodies[2] \in BodyRecord
    BY DEF ContactInv
  <2> QED
    BY <2>1, ContactAssumption DEF BodyRecord
<1>2. SignOfInverseMass = (m + n) * m * n
  BY <1>1 DEF SignOfInverseMass, TotalMass
<1>3. BothThere <=> m >= 0 /\ n >= 0
  BY <1>1 DEF BothThere, IsEnabled
<1>4. CASE m = -1
  <2>1. (m + n) * m * n = (1 - n) * n
    BY <1>4
  <2>2. (1 - n) * n <= 0
    <3>1. n = -1 \/ n >= 1
      OBVIOUS
    <3>2. n >= 1 => (n - 1) * n >= 0 /\ (1 - n) * n = -((n - 1) * n)
      OBVIOUS
    <3> QED
      BY <3>1, <3>2
  <2> QED
    BY <1>2, <1>3, <1>4, <2>1, <2>2
<1>5. CASE n = -1
  <2>1. (m + n) * m * n = (1 - m) * m
    BY <1>5
  <2>2. (1 - m) * m <= 0
    <3>1. m = -1 \/ m >= 1
      OBVIOUS
    <3>2. m >= 1 => (m - 1) * m >= 0 /\ (1 - m) * m = -((m - 1) * m)
      OBVIOUS
    <3> QED
      BY <3>1, <3>2
  <2> QED
    BY <1>2, <1>3, <1>5, <2>1, <2>2
<1>6. CASE m \in Nat \ {0} /\ n \in Nat \ {0}
  <2>1. (m + n) * m > 0
    BY <1>6
  <2>2. PICK k \in Nat \ {0} : k = (m + n) * m
    BY <1>6, <2>1
  <2>3. k * n > 0
    BY <1>6
  <2> QED
    BY <1>2, <1>3, <1>6, <2>2, <2>3
<1> QED
  BY <1>1, <1>4, <1>5, <1>6

LEMMA InverseMassAbove ==
    ASSUME LiveInv
    PROVE  SignOfInverseMass > 0 /\ ~(SignOfInverseMass <= 0)
<1>1. SignOfInverseMass \in Int
  <2>1. bodies[1].Mass \in Int /\ bodies[2].Mass \in Int
    <3>1. 1 \in 1..2 /\ 2 \in 1..2
      OBVIOUS
    <3> QED
      BY <3>1, MassesAre
  <2>2. \A m, n \in Int : (m + n) * m * n \in Int
    OBVIOUS
  <2> QED
    BY <2>1, <2>2 DEF SignOfInverseMass, TotalMass
<1>2. ~(SignOfInverseMass <= 0)
  BY InverseMassIs DEF LiveInv
<1> HIDE DEF SignOfInverseMass
<1> QED
  BY <1>1, <1>2

\* The parts of a whole are the whole, and as much times the mass on both sides.
LEMMA PartsMakeWhole ==
    ASSUME LiveInv, NEW i \in 1..2, NEW whole \in Int
    PROVE  /\ OwnPart(i, whole) \in Int
           /\ whole >= 0 => OwnPart(i, whole) >= 0
           /\ whole = 0 => OwnPart(i, whole) = 0
           /\ Divides(whole) =>
                /\ OwnPart(i, whole) + OwnPart(Other(i), whole) = whole
                /\ bodies[i].Mass * OwnPart(i, whole)
                        = bodies[Other(i)].Mass * OwnPart(Other(i), whole)
<1>1. PICK k \in 1..2 : k = Other(i)
  BY MassesAre
<1>2. PICK M, m, n \in Nat \ {0} :
          M = TotalMass(1, 2) /\ m = bodies[i].Mass /\ n = bodies[k].Mass
  BY <1>1, MassesAre
<1>3. M = m + n /\ Other(k) = i
  BY <1>1, <1>2, MassesAre
<1>4. OwnPart(i, whole) = (whole * n) \div M /\ OwnPart(k, whole) = (whole * m) \div M
  BY <1>1, <1>2, <1>3 DEF OwnPart
<1>5. whole * n \in Int /\ whole * m \in Int
  OBVIOUS
<1>6. OwnPart(i, whole) \in Int /\ OwnPart(k, whole) \in Int
  BY <1>4, <1>5, Quotient
<1>7. whole >= 0 => OwnPart(i, whole) >= 0
  <2>1. whole >= 0 => whole * n >= 0
    OBVIOUS
  <2> QED
    BY <1>4, <1>5, <2>1, Quotient
<1>8. whole = 0 => OwnPart(i, whole) = 0
  BY <1>4
<1>9. ASSUME Divides(whole)
      PROVE  /\ OwnPart(i, whole) + OwnPart(k, whole) = whole
             /\ m * OwnPart(i, whole) = n * OwnPart(k, whole)
  <2>1. PICK p, q \in Int : p = OwnPart(i, whole) /\ q = OwnPart(k, whole)
    BY <1>6
  <2>2. M * p = whole * n /\ M * q = whole * m
    <3>1. (whole * n) % M = 0 /\ (whole * m) % M = 0
      BY <1>1, <1>2, <1>9 DEF Divides
    <3> QED
      BY <1>4, <1>5, <2>1, <3>1, Quotient
  <2>3. \A x, y \in Int : M * x = M * y => x = y
    <3> SUFFICES ASSUME NEW x \in Int, NEW y \in Int, M * x = M * y, x # y PROVE FALSE
      OBVIOUS
    <3>1. M * (x - y) = 0 /\ x - y # 0
      OBVIOUS
    <3>2. CASE x > y
      <4>1. M * (x - y) > 0
        BY <3>2
      <4> QED
        BY <3>1, <4>1
    <3>3. CASE x < y
      <4>1. M * (y - x) > 0 /\ M * (y - x) = -(M * (x - y))
        BY <3>3
      <4> QED
        BY <3>1, <4>1
    <3> QED
      BY <3>2, <3>3
  <2>4. M * (p + q) = M * whole
    <3>1. M * (p + q) = whole * n + whole * m /\ M * whole = whole * n + whole * m
      BY <1>3, <2>2
    <3> QED
      BY <3>1
  <2>5. M * (m * p) = M * (n * q)
    <3>1. /\ M * (m * p) = m * (M * p) /\ M * (n * q) = n * (M * q)
          /\ m * (whole * n) = n * (whole * m)
      OBVIOUS
    <3> QED
      BY <2>2, <3>1
  <2>6. p + q \in Int /\ m * p \in Int /\ n * q \in Int
    OBVIOUS
  <2>7. p + q = whole
    BY <2>3, <2>4, <2>6
  <2>8. m * p = n * q
    BY <2>3, <2>5, <2>6
  <2> QED
    BY <2>1, <2>7, <2>8
<1> QED
  BY <1>1, <1>2, <1>6, <1>7, <1>8, <1>9

\* What a body gains.  Nothing when it alone is STATIC, and all that is missing
\* between the two in every case: the part of a STATIC partner is not lost.
LEMMA GainsAre ==
    ASSUME LiveInv, NEW i \in 1..2, NEW whole \in Int
    PROVE  /\ Gain(i, whole) \in Int
           /\ whole = 0 => Gain(i, whole) = 0
           /\ ~IsDynamic(i) /\ IsDynamic(Other(i)) => Gain(i, whole) = 0
           /\ IsDynamic(i) /\ IsDynamic(Other(i)) => Gain(i, whole) = OwnPart(i, whole)
           /\ Divides(whole) => Gain(i, whole) + Gain(Other(i), whole) = whole
<1>1. PICK k \in 1..2 : k = Other(i) /\ Other(k) = i
  BY MassesAre
<1>2. /\ IsDynamic(i) <=> bodies[i].Type # "STATIC"
      /\ IsDynamic(k) <=> bodies[k].Type # "STATIC"
  BY MassesAre DEF IsDynamic
<1>3. PICK p \in Int : p = OwnPart(i, whole)
  BY PartsMakeWhole
<1>4. PICK q \in Int : q = OwnPart(k, whole)
  BY PartsMakeWhole
<1>5. /\ Gain(i, whole) = (IF IsDynamic(i) THEN p ELSE 0) + (IF IsDynamic(k) THEN 0 ELSE q)
      /\ Gain(k, whole) = (IF IsDynamic(k) THEN q ELSE 0) + (IF IsDynamic(i) THEN 0 ELSE p)
  BY <1>1, <1>2, <1>3, <1>4 DEF Gain
<1>6. whole = 0 => p = 0 /\ q = 0
  BY <1>3, <1>4, PartsMakeWhole
<1>7. Divides(whole) => p + q = whole
  BY <1>1, <1>3, <1>4, PartsMakeWhole
<1> HIDE DEF Gain
<1>8. /\ Gain(i, whole) \in Int
      /\ whole = 0 => Gain(i, whole) = 0
      /\ ~IsDynamic(i) /\ IsDynamic(k) => Gain(i, whole) = 0
      /\ IsDynamic(i) /\ IsDynamic(k) => Gain(i, whole) = p
      /\ Divides(whole) => Gain(i, whole) + Gain(k, whole) = whole
  BY <1>5, <1>6, <1>7
<1> QED
  BY <1>1, <1>3, <1>8

\* A contact restores no more speed than the bodies had.
LEMMA RestoredBounds ==
    ASSUME LiveInv, NEW speed \in Nat
    PROVE  Restored(speed) \in 0..speed
<1>1. PICK m, n \in Nat \ {0} : m = bodies[1].Mass /\ n = bodies[2].Mass
  BY MassesAre
<1>2. PICK r, t \in {0, 1} : r = colliders[1].Restitution /\ t = colliders[2].Restitution
  <2>1. \A i \in 1..2 : colliders[i] \in [Shape : Shapes, Restitution : Restitutions]
    BY DEF LiveInv, ContactInv
  <2>2. colliders[1].Restitution \in Restitutions /\ colliders[2].Restitution \in Restitutions
    BY <2>1
  <2> QED
    BY <2>2, ContactAssumption
<1>3. PICK M \in Nat \ {0} : M = m + n
  OBVIOUS
<1>4. Restored(speed) = (speed * (m * r + n * t)) \div M
  BY <1>1, <1>2, <1>3 DEF Restored, TotalMass
<1>5. PICK w \in 0..M : w = m * r + n * t
  <2>1. m * r \in 0..m /\ n * t \in 0..n
    BY <1>2
  <2> QED
    BY <1>3, <2>1
<1>6. speed * w \in Int /\ speed * w >= 0 /\ speed * w <= speed * M
  OBVIOUS
<1>7. PICK d \in Int : d = (speed * w) \div M /\ d >= 0 /\ M * d <= speed * w
  BY <1>6, Quotient
<1>8. d <= speed
  <2> SUFFICES ASSUME d > speed PROVE FALSE
    OBVIOUS
  <2>1. M * (d - speed) > 0
    OBVIOUS
  <2>2. M * (d - speed) = M * d - M * speed /\ M * speed = speed * M
    OBVIOUS
  <2> QED
    BY <1>6, <1>7, <2>1, <2>2
<1> QED
  BY <1>4, <1>5, <1>7, <1>8

-----------------------------------------------------------------------------
(* What solving a contact does to two bodies of the makes of the state's.  *)

\* What body i gains along the normal, and how far it is moved.
Gained(bs, a, b, normal, i) ==
    IF CalculateSeparateVelocity(bs, a, b, normal) > 0 THEN 0
    ELSE Gain(i, deltaVelocity(bs, a, b, normal))

Moved(i, touch) ==
    IF touch.Penetration <= 0 \/ ~IsDynamic(i) THEN 0 ELSE OwnPart(i, touch.Penetration)

IsTouch(touch) == touch.Normal \in Vec /\ touch.Penetration \in Int

\* A direction, or the zero vector that a polygon is left with.
IsUnit(normal) == normal = <<0, 0>> \/ Dot(normal, normal) = 1

\* The velocities of bodies of these makes.
LEMMA MakesAre ==
    ASSUME LiveInv, NEW bs, SameMakes(bs), NEW i \in 1..2
    PROVE  /\ bs[i] \in BodyRecord
           /\ bs[i].Velocity \in Vec /\ bs[i].Position \in Vec
           /\ bs[i].Mass = bodies[i].Mass /\ bs[i].Type = bodies[i].Type
<1>1. bs[i] \in BodyRecord
  BY DEF SameMakes
<1> QED
  BY <1>1 DEF SameMakes, BodyRecord

\* The separating velocity and what it lacks.
LEMMA SpeedsAre ==
    ASSUME LiveInv, NEW bs, SameMakes(bs), NEW a \in 1..2, NEW b \in 1..2,
           NEW normal \in Vec
    PROVE  LET s == CalculateSeparateVelocity(bs, a, b, normal)
               delta == deltaVelocity(bs, a, b, normal)
           IN  /\ s \in Int
               /\ s = Dot(bs[a].Velocity, normal) - Dot(bs[b].Velocity, normal)
               /\ delta \in Int \/ s > 0
               /\ s <= 0 => delta \in Int /\ s + delta >= 0 /\ s + delta <= -s
<1> DEFINE s == CalculateSeparateVelocity(bs, a, b, normal)
           delta == deltaVelocity(bs, a, b, normal)
<1>1. PICK u, v \in Vec : u = bs[a].Velocity /\ v = bs[b].Velocity
  BY MakesAre
<1>2. s = Dot(Minus(u, v), normal)
  BY <1>1 DEF CalculateSeparateVelocity
<1>3. Dot(Minus(u, v), normal) = Dot(u, normal) - Dot(v, normal)
  <2>1. PICK x, y, z, w, m, l \in Int : u = <<x, y>> /\ v = <<z, w>> /\ normal = <<m, l>>
    BY DEF Vec
  <2>2. (x - z) * m + (y - w) * l = (x * m + y * l) - (z * m + w * l)
    OBVIOUS
  <2> QED
    BY <2>1, <2>2 DEF Dot, Minus
<1>4. s \in Int /\ s = Dot(u, normal) - Dot(v, normal)
  <2>1. Dot(u, normal) \in Int /\ Dot(v, normal) \in Int
    BY VectorOps
  <2> QED
    BY <1>2, <1>3, <2>1
<1>5. delta = Restored(-s) - s
  BY DEF deltaVelocity
<1>6. ASSUME s <= 0 PROVE delta \in Int /\ s + delta >= 0 /\ s + delta <= -s
  <2>1. PICK n \in Nat : n = -s
    BY <1>4, <1>6
  <2>2. PICK r \in 0..n : r = Restored(n)
    BY RestoredBounds
  <2>3. delta = r - s
    BY <1>5, <2>1, <2>2
  <2> HIDE DEF delta
  <2> QED
    BY <1>4, <2>1, <2>2, <2>3
<1> HIDE DEF s, delta
<1>7. s <= 0 \/ s > 0
  BY <1>4
<1> QED
  BY <1>1, <1>4, <1>6, <1>7 DEF s, delta

\* What the bodies gain and how far they are moved, as numbers; nothing without a
\* normal, and together all that is missing.
LEMMA GainedAre ==
    ASSUME LiveInv, NEW bs, SameMakes(bs), NEW a \in 1..2, NEW normal \in Vec,
           NEW i \in 1..2
    PROVE  LET b == Other(a)
               s == CalculateSeparateVelocity(bs, a, b, normal)
               delta == deltaVelocity(bs, a, b, normal)
           IN  /\ Gained(bs, a, b, normal, i) \in Int
               /\ s <= 0 => Gained(bs, a, b, normal, i) = Gain(i, delta)
               /\ s > 0 => Gained(bs, a, b, normal, i) = 0
               /\ s = 0 => Gained(bs, a, b, normal, i) = 0
               /\ ~IsDynamic(i) /\ IsDynamic(Other(i)) => Gained(bs, a, b, normal, i) = 0
<1> DEFINE b == Other(a)
           s == CalculateSeparateVelocity(bs, a, b, normal)
           delta == deltaVelocity(bs, a, b, normal)
           g == Gained(bs, a, b, normal, i)
<1>0. b \in 1..2
  BY MassesAre
<1>1. s \in Int /\ (s <= 0 => delta \in Int /\ s + delta >= 0 /\ s + delta <= -s)
  BY <1>0, SpeedsAre
<1>2. g = IF s > 0 THEN 0 ELSE Gain(i, delta)
  BY DEF Gained
<1> HIDE DEF s, delta, g, b
<1>3. s <= 0 => Gain(i, delta) \in Int
  BY <1>1, GainsAre
<1>4. s = 0 => delta = 0
  BY <1>1
<1>5. s = 0 => Gain(i, delta) = 0
  BY <1>1, <1>4, GainsAre
<1>6. ~IsDynamic(i) /\ IsDynamic(Other(i)) /\ s <= 0 => Gain(i, delta) = 0
  BY <1>1, GainsAre
<1>7. (s <= 0 \/ s > 0) /\ ~(s <= 0 /\ s > 0)
  BY <1>1
<1>8. /\ g \in Int /\ (s <= 0 => g = Gain(i, delta)) /\ (s > 0 => g = 0) /\ (s = 0 => g = 0)
      /\ ~IsDynamic(i) /\ IsDynamic(Other(i)) => g = 0
  BY <1>1, <1>2, <1>3, <1>5, <1>6, <1>7
<1> QED
  BY <1>8 DEF s, delta, g, b

\* A body that STATIC bodies alone meet has no speed to lose.
LEMMA StaticPairStays ==
    ASSUME LiveInv, NEW bs, SameMakes(bs), StaticStill(bs), NEW a \in 1..2,
           NEW normal \in Vec, NEW i \in 1..2, ~IsDynamic(i)
    PROVE  Gained(bs, a, Other(a), normal, i) = 0
<1>1. CASE IsDynamic(Other(i))
  BY <1>1, GainedAre
<1>2. CASE ~IsDynamic(Other(i))
  <2>1. PICK b \in 1..2 : b = Other(a) /\ (i = a \/ i = b) /\ (Other(i) = a \/ Other(i) = b)
                          /\ Other(i) # i
    BY MassesAre
  <2>2. bodies[a].Type = "STATIC" /\ bodies[b].Type = "STATIC"
    BY <1>2, <2>1, MassesAre DEF IsDynamic
  <2>3. bs[a].Velocity = <<0, 0>> /\ bs[b].Velocity = <<0, 0>>
    BY <2>2, MakesAre DEF StaticStill
  <2>4. CalculateSeparateVelocity(bs, a, b, normal) = 0
    <3>1. Minus(<<0, 0>>, <<0, 0>>) = <<0, 0>>
      BY DEF Minus
    <3>2. Dot(<<0, 0>>, normal) = 0
      BY DEF Vec, Dot
    <3> QED
      BY <2>3, <3>1, <3>2 DEF CalculateSeparateVelocity
  <2> QED
    BY <2>1, <2>4, GainedAre
<1> QED
  BY <1>1, <1>2

\* A contact adds what each body gains along the normal to the one, and takes it
\* from the other; it moves them likewise, and leaves all else as it was.
LEMMA SolvedMoves ==
    ASSUME LiveInv, NEW bs, SameMakes(bs), NEW a \in 1..2, NEW touch, IsTouch(touch)
    PROVE  LET b  == Other(a)
               n  == touch.Normal
               cs == Solved(bs, a, b, touch)
           IN  /\ SameMakes(cs)
               /\ cs[a].Velocity = Plus(bs[a].Velocity, Scale(Gained(bs, a, b, n, a), n))
               /\ cs[b].Velocity = Minus(bs[b].Velocity, Scale(Gained(bs, a, b, n, b), n))
               /\ cs[a].Position = Plus(bs[a].Position, Scale(Moved(a, touch), n))
               /\ cs[b].Position = Minus(bs[b].Position, Scale(Moved(b, touch), n))
<1> DEFINE n == touch.Normal
<1>0. PICK b \in 1..2 : b = Other(a) /\ b # a /\ 1..2 = {a, b}
  <2>1. Other(a) \in 1..2 /\ Other(a) # a
    BY MassesAre
  <2>2. \A j \in 1..2 : j = a \/ j = Other(a)
    BY MassesAre
  <2> QED
    BY <2>1, <2>2
<1>1. PICK g, h \in Int : g = Gained(bs, a, b, n, a) /\ h = Gained(bs, a, b, n, b)
  BY <1>0, GainedAre DEF IsTouch
<1>2. PICK p, q \in Int : p = Moved(a, touch) /\ q = Moved(b, touch)
  BY PartsMakeWhole DEF Moved, IsTouch
<1>3. n \in Vec /\ \A k \in Int : Scale(k, n) \in Vec
  BY VectorOps DEF IsTouch
<1>4. \A u, v \in Vec : Plus(u, v) \in Vec /\ Minus(u, v) \in Vec
  BY VectorOps
<1>5. \A u \in Vec : Plus(u, Scale(0, n)) = u /\ Minus(u, Scale(0, n)) = u
  BY <1>3 DEF Vec, Plus, Minus, Scale
<1>6. PICK cs : cs = Bounced(bs, a, b, n)
  OBVIOUS
<1>7. bs[a] \in BodyRecord /\ bs[b] \in BodyRecord /\ bs \in [{a, b} -> BodyRecord]
  BY <1>0, MakesAre DEF SameMakes
<1>8. /\ bs[a].Velocity \in Vec /\ bs[b].Velocity \in Vec
      /\ bs[a].Position \in Vec /\ bs[b].Position \in Vec
  BY MakesAre
<1>16. ~(SignOfInverseMass <= 0)
  BY InverseMassAbove
<1>9. cs = [bs EXCEPT ![a].Velocity = Plus(@, Scale(g, n)),
                      ![b].Velocity = Minus(@, Scale(h, n))]
  <2>1. CASE CalculateSeparateVelocity(bs, a, b, n) > 0
    <3>1. g = 0 /\ h = 0
      BY <1>1, <2>1 DEF Gained
    <3>2. cs = bs
      BY <1>6, <2>1 DEF Bounced
    <3>3. bs = [bs EXCEPT ![a].Velocity = Plus(@, Scale(0, n)),
                          ![b].Velocity = Minus(@, Scale(0, n))]
      BY <1>0, <1>5, <1>7, <1>8 DEF BodyRecord
    <3> QED
      BY <3>1, <3>2, <3>3
  <2>2. CASE ~(CalculateSeparateVelocity(bs, a, b, n) > 0)
    <3>1. /\ g = Gain(a, deltaVelocity(bs, a, b, n))
          /\ h = Gain(b, deltaVelocity(bs, a, b, n))
      BY <1>1, <2>2 DEF Gained
    <3> QED
      BY <1>6, <1>16, <2>2, <3>1 DEF Bounced
  <2> QED
    BY <2>1, <2>2
<1>10. /\ cs \in [{a, b} -> BodyRecord]
       /\ cs[a].Velocity = Plus(bs[a].Velocity, Scale(g, n))
       /\ cs[b].Velocity = Minus(bs[b].Velocity, Scale(h, n))
       /\ \A i \in {a, b} : /\ cs[i].Position = bs[i].Position
                            /\ cs[i].Mass = bs[i].Mass /\ cs[i].Type = bs[i].Type
  <2> HIDE DEF n
  <2>1. PICK u, v \in Vec : /\ u = Plus(bs[a].Velocity, Scale(g, n))
                            /\ v = Minus(bs[b].Velocity, Scale(h, n))
    BY <1>3, <1>4, <1>8
  <2>2. cs = [bs EXCEPT ![a].Velocity = u, ![b].Velocity = v]
    BY <1>0, <1>7, <1>9, <2>1 DEF BodyRecord
  <2>3. /\ cs \in [{a, b} -> BodyRecord] /\ cs[a].Velocity = u /\ cs[b].Velocity = v
        /\ \A i \in {a, b} : /\ cs[i].Position = bs[i].Position
                             /\ cs[i].Mass = bs[i].Mass /\ cs[i].Type = bs[i].Type
    BY <1>0, <1>7, <2>2 DEF BodyRecord
  <2> QED
    BY <2>1, <2>3
<1>11. PICK ds : ds = Pushed(cs, a, b, touch)
  OBVIOUS
<1>12. ds = [cs EXCEPT ![a].Position = Plus(@, Scale(p, n)),
                       ![b].Position = Minus(@, Scale(q, n))]
  <2>1. CASE touch.Penetration <= 0
    <3>1. p = 0 /\ q = 0 /\ ds = cs
      BY <1>2, <1>11, <2>1 DEF Moved, Pushed
    <3>2. cs = [cs EXCEPT ![a].Position = Plus(@, Scale(0, n)),
                          ![b].Position = Minus(@, Scale(0, n))]
      BY <1>0, <1>5, <1>8, <1>10 DEF BodyRecord
    <3> QED
      BY <3>1, <3>2
  <2>2. CASE ~(touch.Penetration <= 0)
    <3>1. /\ p = IF IsDynamic(a) THEN OwnPart(a, touch.Penetration) ELSE 0
          /\ q = IF IsDynamic(b) THEN OwnPart(b, touch.Penetration) ELSE 0
      BY <1>2, <2>2 DEF Moved
    <3> QED
      BY <1>11, <1>16, <2>2, <3>1 DEF Pushed
  <2> QED
    BY <2>1, <2>2
<1>13. /\ ds \in [{a, b} -> BodyRecord]
       /\ ds[a].Position = Plus(bs[a].Position, Scale(p, n))
       /\ ds[b].Position = Minus(bs[b].Position, Scale(q, n))
       /\ \A i \in {a, b} : /\ ds[i].Velocity = cs[i].Velocity
                            /\ ds[i].Mass = cs[i].Mass /\ ds[i].Type = cs[i].Type
  <2> HIDE DEF n
  <2>1. PICK u, v \in Vec : /\ u = Plus(bs[a].Position, Scale(p, n))
                            /\ v = Minus(bs[b].Position, Scale(q, n))
    BY <1>3, <1>4, <1>8
  <2>2. ds = [cs EXCEPT ![a].Position = u, ![b].Position = v]
    BY <1>0, <1>10, <1>12, <2>1 DEF BodyRecord
  <2>3. /\ ds \in [{a, b} -> BodyRecord] /\ ds[a].Position = u /\ ds[b].Position = v
        /\ \A i \in {a, b} : /\ ds[i].Velocity = cs[i].Velocity
                             /\ ds[i].Mass = cs[i].Mass /\ ds[i].Type = cs[i].Type
    BY <1>0, <1>10, <2>2 DEF BodyRecord
  <2> QED
    BY <2>1, <2>3
<1>14. SameMakes(ds)
  <2>1. \A i \in {a, b} : ds[i].Mass = bodies[i].Mass /\ ds[i].Type = bodies[i].Type
    BY <1>10, <1>13, MakesAre
  <2> QED
    BY <1>0, <1>13, <2>1 DEF SameMakes
<1>15. ds = Solved(bs, a, b, touch)
  BY <1>6, <1>11 DEF Solved
<1> QED
  BY <1>0, <1>1, <1>2, <1>10, <1>13, <1>14, <1>15

\* And a STATIC body stays where it is.
LEMMA SolvedKeepsStill ==
    ASSUME LiveInv, NEW bs, SameMakes(bs), StaticStill(bs), NEW a \in 1..2,
           NEW touch, IsTouch(touch)
    PROVE  StaticStill(Solved(bs, a, Other(a), touch))
<1> DEFINE n == touch.Normal
           cs == Solved(bs, a, Other(a), touch)
<1>1. SUFFICES ASSUME NEW i \in 1..2, cs[i].Type = "STATIC" PROVE cs[i].Velocity = <<0, 0>>
  BY DEF StaticStill
<1>2. bodies[i].Type = "STATIC" /\ bs[i].Type = "STATIC"
  BY <1>1, SolvedMoves, MakesAre DEF SameMakes
<1>3. bs[i].Velocity = <<0, 0>> /\ ~IsDynamic(i)
  BY <1>2 DEF StaticStill, IsDynamic
<1>4. Gained(bs, a, Other(a), n, i) = 0
  BY <1>3, StaticPairStays DEF IsTouch
<1>5. Plus(<<0, 0>>, Scale(0, n)) = <<0, 0>> /\ Minus(<<0, 0>>, Scale(0, n)) = <<0, 0>>
  BY DEF IsTouch, Vec, Plus, Minus, Scale
<1>6. /\ cs[a].Velocity = Plus(bs[a].Velocity, Scale(Gained(bs, a, Other(a), n, a), n))
      /\ cs[Other(a)].Velocity
            = Minus(bs[Other(a)].Velocity, Scale(Gained(bs, a, Other(a), n, Other(a)), n))
  BY SolvedMoves
<1>7. i = a \/ i = Other(a)
  BY MassesAre
<1> QED
  BY <1>3, <1>4, <1>5, <1>6, <1>7

-----------------------------------------------------------------------------
(* Speed, momentum and energy of bodies that are solved once.              *)

\* What a contact with exact shares gives its bodies: nothing if they part, else
\* all that is missing, and by their masses if both are DYNAMIC.
LEMMA SharesAre ==
    ASSUME LiveInv, NEW bs, SameMakes(bs), StaticStill(bs), NEW a \in 1..2,
           NEW touch, IsTouch(touch), IsUnit(touch.Normal),
           SolveDivides(bs, a, Other(a), touch)
    PROVE  LET b == Other(a)
               n == touch.Normal
               s == CalculateSeparateVelocity(bs, a, b, n)
               g == Gained(bs, a, b, n, a)
               h == Gained(bs, a, b, n, b)
           IN  /\ s \in Int /\ g \in Int /\ h \in Int /\ Dot(n, n) \in Int
               /\ s + g + h >= 0
               /\ (g = 0 /\ h = 0) \/ s + (s + g + h) <= 0
               /\ ~IsDynamic(a) => g = 0
               /\ ~IsDynamic(b) => h = 0
               /\ Dot(n, n) * g = g /\ Dot(n, n) * h = h
               /\ g >= 0 /\ h >= 0
               /\ IsDynamic(a) /\ IsDynamic(b) => bodies[a].Mass * g = bodies[b].Mass * h
<1> DEFINE n == touch.Normal
<1>0. PICK b \in 1..2 : b = Other(a) /\ a = Other(b)
  BY MassesAre
<1>1. PICK s \in Int : s = CalculateSeparateVelocity(bs, a, b, n)
  BY <1>0, SpeedsAre DEF IsTouch
<1>2. PICK g, h \in Int : g = Gained(bs, a, b, n, a) /\ h = Gained(bs, a, b, n, b)
  BY <1>0, GainedAre DEF IsTouch
<1>3. /\ s > 0 => g = 0 /\ h = 0
      /\ s = 0 => g = 0 /\ h = 0
  <2>1. n \in Vec
    BY DEF IsTouch
  <2> HIDE DEF n
  <2>2. /\ s > 0 => g = 0
        /\ s = 0 => g = 0
    BY <1>0, <1>1, <1>2, <2>1, GainedAre
  <2>3. /\ s > 0 => h = 0
        /\ s = 0 => h = 0
    BY <1>0, <1>1, <1>2, <2>1, GainedAre
  <2> QED
    BY <2>2, <2>3
<1>4. /\ ~IsDynamic(a) => g = 0
      /\ ~IsDynamic(b) => h = 0
  BY <1>0, <1>2, StaticPairStays DEF IsTouch
<1>5. ASSUME s < 0
      PROVE  /\ s + g + h >= 0 /\ s + (s + g + h) <= 0 /\ g >= 0 /\ h >= 0
             /\ IsDynamic(a) /\ IsDynamic(b) => bodies[a].Mass * g = bodies[b].Mass * h
  <2>0. s <= 0 /\ n \in Vec
    BY <1>5 DEF IsTouch
  <2>1. PICK delta \in Int : delta = deltaVelocity(bs, a, b, n) /\ s + delta >= 0 /\ s + delta <= -s
    <3> HIDE DEF n
    <3> QED
      BY <1>0, <1>1, <2>0, SpeedsAre
  <2>2. g = Gain(a, delta) /\ h = Gain(b, delta)
    <3>1. ~(s > 0)
      BY <1>5
    <3> QED
      BY <1>1, <1>2, <2>1, <3>1 DEF Gained
  <2>3. Divides(delta)
    BY <1>0, <2>1, InverseMassAbove DEF SolveDivides
  <2>4. g + h = delta
    BY <1>0, <2>2, <2>3, GainsAre
  <2>5. delta >= 0
    BY <1>5, <2>1
  <2>6. ASSUME IsDynamic(a), IsDynamic(b)
        PROVE  g >= 0 /\ h >= 0 /\ bodies[a].Mass * g = bodies[b].Mass * h
    <3>1. g = OwnPart(a, delta) /\ h = OwnPart(b, delta)
      BY <1>0, <2>2, <2>6, GainsAre
    <3> QED
      BY <1>0, <2>3, <2>5, <3>1, PartsMakeWhole
  <2>7. g >= 0 /\ h >= 0
    <3>1. CASE g = 0 \/ h = 0
      BY <2>4, <2>5, <3>1
    <3>2. CASE IsDynamic(a) /\ IsDynamic(b)
      BY <2>6, <3>2
    <3> QED
      BY <1>4, <3>1, <3>2
  <2> QED
    BY <2>1, <2>4, <2>6, <2>7
<1>6. Dot(n, n) \in Int /\ Dot(n, n) * g = g /\ Dot(n, n) * h = h
  <2>1. CASE n = <<0, 0>>
    <3>1. \A u \in Vec : Dot(u, <<0, 0>>) = 0
      BY DEF Vec, Dot
    <3>2. s = 0
      <4>1. s = Dot(bs[a].Velocity, n) - Dot(bs[b].Velocity, n)
        BY <1>0, <1>1, SpeedsAre DEF IsTouch
      <4> QED
        BY <2>1, <3>1, <4>1, MakesAre
    <3>3. Dot(n, n) = 0
      BY <2>1, <3>1 DEF Vec
    <3> QED
      BY <1>3, <3>2, <3>3
  <2>2. CASE Dot(n, n) = 1
    BY <2>2
  <2> QED
    BY <2>1, <2>2 DEF IsUnit
<1>7. /\ s + g + h >= 0
      /\ (g = 0 /\ h = 0) \/ s + (s + g + h) <= 0
      /\ g >= 0 /\ h >= 0
      /\ IsDynamic(a) /\ IsDynamic(b) => bodies[a].Mass * g = bodies[b].Mass * h
  <2>1. CASE s < 0
    BY <1>5, <2>1
  <2>2. CASE s >= 0
    <3>1. g = 0 /\ h = 0
      BY <1>3, <2>2
    <3>2. bodies[a].Mass * 0 = bodies[b].Mass * 0
      BY <1>0, MassesAre
    <3> QED
      BY <2>2, <3>1, <3>2
  <2> QED
    BY <2>1, <2>2
<1> QED
  BY <1>0, <1>1, <1>2, <1>4, <1>6, <1>7

\* Solved bodies part along a normal.
LEMMA SolvedPart ==
    ASSUME LiveInv, NEW bs, SameMakes(bs), StaticStill(bs), NEW a \in 1..2,
           NEW touch, IsTouch(touch), IsUnit(touch.Normal), touch.Normal # <<0, 0>>,
           SolveDivides(bs, a, Other(a), touch)
    PROVE  CalculateSeparateVelocity(Solved(bs, a, Other(a), touch), a, Other(a), touch.Normal)
                >= 0
<1> DEFINE b == Other(a)
           n == touch.Normal
           cs == Solved(bs, a, b, touch)
<1>0. b \in 1..2 /\ n \in Vec /\ Dot(n, n) = 1
  BY MassesAre DEF IsTouch, IsUnit
<1>1. SameMakes(cs)
  BY SolvedMoves
<1>2. PICK g, h, s \in Int :
          /\ g = Gained(bs, a, b, n, a) /\ h = Gained(bs, a, b, n, b)
          /\ s = CalculateSeparateVelocity(bs, a, b, n)
          /\ s + g + h >= 0
  BY SharesAre
<1>3. PICK u, v \in Vec : u = bs[a].Velocity /\ v = bs[b].Velocity
  BY <1>0, MakesAre
<1>4. cs[a].Velocity = Plus(u, Scale(g, n)) /\ cs[b].Velocity = Minus(v, Scale(h, n))
  BY <1>2, <1>3, SolvedMoves
<1>5. s = Dot(u, n) - Dot(v, n)
  BY <1>0, <1>2, <1>3, SpeedsAre
<1>6. CalculateSeparateVelocity(cs, a, b, n)
        = Dot(Plus(u, Scale(g, n)), n) - Dot(Minus(v, Scale(h, n)), n)
  <2> HIDE DEF cs, b, n
  <2> QED
    BY <1>0, <1>1, <1>4, SpeedsAre
<1>7. /\ Dot(Plus(u, Scale(g, n)), n) = Dot(u, n) + g * 1
      /\ Dot(Minus(v, Scale(h, n)), n) = Dot(v, n) - h * 1
      /\ Dot(u, n) \in Int /\ Dot(v, n) \in Int
  <2> HIDE DEF n
  <2>1. Dot(Plus(u, Scale(g, n)), n) = Dot(u, n) + g * 1
    BY <1>0, StepAlong
  <2>2. Dot(Minus(v, Scale(h, n)), n) = Dot(v, n) - h * 1
    BY <1>0, StepAlong
  <2>3. Dot(u, n) \in Int /\ Dot(v, n) \in Int
    BY <1>0, VectorOps
  <2> QED
    BY <2>1, <2>2, <2>3
<1> HIDE DEF cs, b, n
<1>8. CalculateSeparateVelocity(cs, a, b, n) = s + g + h
  BY <1>5, <1>6, <1>7
<1> QED
  BY <1>2, <1>8 DEF cs, b, n

\* The sum of two vectors that are given by their coordinates.
LEMMA PlusPair ==
    ASSUME NEW z, NEW w, NEW x, NEW y
    PROVE  Plus(<<z, w>>, <<x, y>>) = <<z + x, w + y>>
BY DEF Plus

\* Steps that two masses take along a normal, one each way and by their masses,
\* leave the weighted sum where it was.
LEMMA BalanceIsKept ==
    ASSUME NEW u \in Vec, NEW v \in Vec, NEW n \in Vec, NEW m \in Int, NEW k \in Int,
           NEW g \in Int, NEW h \in Int, m * g = k * h
    PROVE  LET x == Plus(u, Scale(g, n))
               y == Minus(v, Scale(h, n))
           IN  /\ Plus(Scale(m, x), Scale(k, y)) = Plus(Scale(m, u), Scale(k, v))
               /\ Plus(Scale(k, y), Scale(m, x)) = Plus(Scale(k, v), Scale(m, u))
<1>1. PICK p, q, r, t, c, d \in Int : u = <<p, q>> /\ v = <<r, t>> /\ n = <<c, d>>
  BY DEF Vec
<1>2. /\ Plus(u, Scale(g, n)) = <<p + g * c, q + g * d>>
      /\ Minus(v, Scale(h, n)) = <<r - h * c, t - h * d>>
  BY <1>1 DEF Plus, Minus, Scale
<1>3. \A z, e, f \in Int :
          m * (z + g * e) + k * (f - h * e) = m * z + k * f + ((m * g) * e - (k * h) * e)
  OBVIOUS
<1>4. PICK j \in Int : j = m * g /\ j = k * h
  OBVIOUS
<1>5. \A z, e, f \in Int :
          m * (z + g * e) + k * (f - h * e) = m * z + k * f
  <2> TAKE z, e, f \in Int
  <2>1. m * (z + g * e) + k * (f - h * e) = m * z + k * f + (j * e - j * e)
    BY <1>3, <1>4
  <2>2. j * e - j * e = 0 /\ m * z + k * f \in Int
    OBVIOUS
  <2> QED
    BY <2>1, <2>2
<1>6. /\ m * (p + g * c) + k * (r - h * c) = m * p + k * r
      /\ m * (q + g * d) + k * (t - h * d) = m * q + k * t
  BY <1>5
<1>7. \A z, w \in Int : z + w = w + z
  OBVIOUS
<1>8. /\ k * (r - h * c) + m * (p + g * c) = k * r + m * p
      /\ k * (t - h * d) + m * (q + g * d) = k * t + m * q
  <2>1. /\ k * (r - h * c) \in Int /\ m * (p + g * c) \in Int /\ k * r \in Int /\ m * p \in Int
        /\ k * (t - h * d) \in Int /\ m * (q + g * d) \in Int /\ k * t \in Int /\ m * q \in Int
    OBVIOUS
  <2> QED
    BY <1>6, <1>7, <2>1
<1>9. /\ Scale(m, Plus(u, Scale(g, n))) = <<m * (p + g * c), m * (q + g * d)>>
      /\ Scale(k, Minus(v, Scale(h, n))) = <<k * (r - h * c), k * (t - h * d)>>
      /\ Scale(m, u) = <<m * p, m * q>> /\ Scale(k, v) = <<k * r, k * t>>
  BY <1>1, <1>2 DEF Scale
<1>10. /\ Plus(Scale(m, Plus(u, Scale(g, n))), Scale(k, Minus(v, Scale(h, n))))
            = Plus(Scale(m, u), Scale(k, v))
       /\ Plus(Scale(k, Minus(v, Scale(h, n))), Scale(m, Plus(u, Scale(g, n))))
            = Plus(Scale(k, v), Scale(m, u))
  <2>1. /\ Plus(Scale(m, Plus(u, Scale(g, n))), Scale(k, Minus(v, Scale(h, n))))
            = <<m * (p + g * c) + k * (r - h * c), m * (q + g * d) + k * (t - h * d)>>
        /\ Plus(Scale(k, Minus(v, Scale(h, n))), Scale(m, Plus(u, Scale(g, n))))
            = <<k * (r - h * c) + m * (p + g * c), k * (t - h * d) + m * (q + g * d)>>
        /\ Plus(Scale(m, u), Scale(k, v)) = <<m * p + k * r, m * q + k * t>>
        /\ Plus(Scale(k, v), Scale(m, u)) = <<k * r + m * p, k * t + m * q>>
    <3>1. /\ Plus(<<m * (p + g * c), m * (q + g * d)>>, <<k * (r - h * c), k * (t - h * d)>>)
                = <<m * (p + g * c) + k * (r - h * c), m * (q + g * d) + k * (t - h * d)>>
          /\ Plus(<<k * (r - h * c), k * (t - h * d)>>, <<m * (p + g * c), m * (q + g * d)>>)
                = <<k * (r - h * c) + m * (p + g * c), k * (t - h * d) + m * (q + g * d)>>
          /\ Plus(<<m * p, m * q>>, <<k * r, k * t>>) = <<m * p + k * r, m * q + k * t>>
          /\ Plus(<<k * r, k * t>>, <<m * p, m * q>>) = <<k * r + m * p, k * t + m * q>>
      BY PlusPair
    <3> QED
      BY <1>9, <3>1, Zenon
  <2> QED
    BY <1>6, <1>8, <2>1, Zenon
<1> QED
  BY <1>10

\* The change of a square, weighted: no gain if a body is slowed on balance.
LEMMA NoGain ==
    ASSUME NEW m \in Nat, NEW L \in Int, NEW g \in Nat, NEW d \in Int, NEW N \in Int,
           N * g = g
    PROVE  /\ m * (L + 2 * g * d + g * g * N) = m * L + (m * g) * (2 * d + g)
           /\ m * (L - 2 * g * d + g * g * N) = m * L + (m * g) * (g - 2 * d)
<1>1. g * g * N = g * g
  <2>1. g * g * N = g * (N * g)
    OBVIOUS
  <2> QED
    BY <2>1
<1>2. /\ m * (L + 2 * g * d + g * g) = m * L + (m * g) * (2 * d + g)
      /\ m * (L - 2 * g * d + g * g) = m * L + (m * g) * (g - 2 * d)
  OBVIOUS
<1> QED
  BY <1>1, <1>2

\* A contact that is solved gains no energy.
LEMMA SolvedGainsNoEnergy ==
    ASSUME LiveInv, NEW bs, SameMakes(bs), StaticStill(bs), NEW a \in 1..2,
           NEW touch, IsTouch(touch), IsUnit(touch.Normal),
           SolveDivides(bs, a, Other(a), touch)
    PROVE  Energy(Solved(bs, a, Other(a), touch)) <= Energy(bs)
<1> DEFINE n == touch.Normal
<1>0. PICK b \in 1..2 : b = Other(a) /\ a = Other(b) /\ a # b
  BY MassesAre
<1>1. PICK cs : cs = Solved(bs, a, b, touch)
  OBVIOUS
<1>2. n \in Vec
  BY DEF IsTouch
<1>3. PICK u, v \in Vec : u = bs[a].Velocity /\ v = bs[b].Velocity
  BY <1>0, MakesAre
<1>4. PICK m, k \in Nat \ {0} : m = bodies[a].Mass /\ k = bodies[b].Mass
  BY <1>0, MassesAre
<1>5. /\ CalculateSeparateVelocity(bs, a, b, n) \in Int
       /\ Gained(bs, a, b, n, a) \in Int /\ Gained(bs, a, b, n, b) \in Int
       /\ Dot(n, n) \in Int
  BY <1>0, SharesAre
<1>6. PICK s, g, h, N \in Int :
          /\ s = CalculateSeparateVelocity(bs, a, b, n)
          /\ g = Gained(bs, a, b, n, a) /\ h = Gained(bs, a, b, n, b)
          /\ N = Dot(n, n)
  BY <1>5
<1>7. /\ (g = 0 /\ h = 0) \/ s + (s + g + h) <= 0
      /\ ~IsDynamic(a) => g = 0
      /\ ~IsDynamic(b) => h = 0
      /\ N * g = g /\ N * h = h /\ g >= 0 /\ h >= 0
      /\ IsDynamic(a) /\ IsDynamic(b) => m * g = k * h
  <2>1. LET B == Other(a)
            S == CalculateSeparateVelocity(bs, a, B, n)
            G == Gained(bs, a, B, n, a)
            H == Gained(bs, a, B, n, B)
        IN  /\ (G = 0 /\ H = 0) \/ S + (S + G + H) <= 0
            /\ ~IsDynamic(a) => G = 0
            /\ ~IsDynamic(B) => H = 0
            /\ Dot(n, n) * G = G /\ Dot(n, n) * H = H
            /\ G >= 0 /\ H >= 0
            /\ IsDynamic(a) /\ IsDynamic(B) => bodies[a].Mass * G = bodies[B].Mass * H
    BY SharesAre
  <2> QED
    BY <1>0, <1>4, <1>6, <2>1
<1>8. /\ cs[a].Velocity = Plus(u, Scale(g, n)) /\ cs[b].Velocity = Minus(v, Scale(h, n))
      /\ SameMakes(cs)
  <2>1. /\ cs[a].Velocity = Plus(bs[a].Velocity, Scale(Gained(bs, a, b, n, a), n))
        /\ cs[b].Velocity = Minus(bs[b].Velocity, Scale(Gained(bs, a, b, n, b), n))
        /\ SameMakes(cs)
    <3>1. LET B == Other(a)
              S == Solved(bs, a, B, touch)
          IN  /\ S[a].Velocity = Plus(bs[a].Velocity, Scale(Gained(bs, a, B, n, a), n))
              /\ S[B].Velocity = Minus(bs[B].Velocity, Scale(Gained(bs, a, B, n, B), n))
              /\ SameMakes(S)
      BY SolvedMoves
    <3> QED
      BY <1>0, <1>1, <3>1
  <2> QED
    BY <1>3, <1>6, <2>1
<1> HIDE DEF n
<1>9. PICK d, e, L, K \in Int :
          d = Dot(u, n) /\ e = Dot(v, n) /\ L = LengthSq(u) /\ K = LengthSq(v)
  BY <1>2, VectorOps DEF LengthSq
<1>10. s = d - e
  <2>1. CalculateSeparateVelocity(bs, a, b, n)
            = Dot(bs[a].Velocity, n) - Dot(bs[b].Velocity, n)
    BY <1>0, <1>2, SpeedsAre
  <2> QED
    BY <1>3, <1>9, <1>6, <2>1
<1>11. /\ LengthSq(cs[a].Velocity) = L + 2 * g * d + g * g * N
      /\ LengthSq(cs[b].Velocity) = K - 2 * h * e + h * h * N
  <2>1. LengthSq(Plus(u, Scale(g, n))) = LengthSq(u) + 2 * g * Dot(u, n) + g * g * Dot(n, n)
    BY <1>2, StepAlong
  <2>2. LengthSq(Minus(v, Scale(h, n))) = LengthSq(v) - 2 * h * Dot(v, n) + h * h * Dot(n, n)
    BY <1>2, StepAlong
  <2> QED
    BY <1>8, <1>9, <1>6, <2>1, <2>2
<1>12. PICK x, y, z, w \in Int :
          /\ x = m * L /\ y = k * K
          /\ z = (m * g) * (2 * d + g) /\ w = (k * h) * (h - 2 * e)
  <2>1. /\ m * L \in Int /\ k * K \in Int
        /\ (m * g) * (2 * d + g) \in Int /\ (k * h) * (h - 2 * e) \in Int
    OBVIOUS
  <2> QED
    BY <2>1
<1>13. /\ m * LengthSq(u) = x /\ k * LengthSq(v) = y
       /\ m * LengthSq(cs[a].Velocity) = x + z /\ k * LengthSq(cs[b].Velocity) = y + w
  <2>1. m * (L + 2 * g * d + g * g * N) = x + z
    BY <1>7, <1>12, NoGain
  <2>2. k * (K - 2 * h * e + h * h * N) = y + w
    BY <1>7, <1>12, NoGain
  <2> QED
    BY <1>9, <1>11, <1>12, <2>1, <2>2
<1>14. /\ ~IsDynamic(a) => g = 0
       /\ ~IsDynamic(b) => h = 0
  BY <1>7
<1>15. IsDynamic(a) /\ IsDynamic(b) => z + w <= 0
  <2> SUFFICES ASSUME IsDynamic(a), IsDynamic(b) PROVE z + w <= 0
    OBVIOUS
  <2>1. PICK j \in Nat : j = m * g /\ j = k * h
    <3>1. m * g \in Nat /\ m * g = k * h
      BY <1>7
    <3> QED
      BY <3>1
  <2>2. z + w = j * (2 * d + g) + j * (h - 2 * e)
    BY <1>12, <2>1
  <2>3. z + w = j * (s + (s + g + h))
    <3>1. j * (2 * d + g) + j * (h - 2 * e) = j * ((d - e) + ((d - e) + g + h))
      OBVIOUS
    <3> QED
      BY <1>10, <2>2, <3>1
  <2>4. CASE g = 0 /\ h = 0
    <3>1. j = 0
      BY <2>1, <2>4
    <3> QED
      BY <2>3, <3>1
  <2>5. CASE s + (s + g + h) <= 0
    <3>1. PICK f \in Nat : f = -(s + (s + g + h))
      BY <2>5
    <3>2. j * f >= 0 /\ j * (-f) = -(j * f) /\ s + (s + g + h) = -f
      BY <3>1
    <3> QED
      BY <2>3, <3>2
  <2> QED
    BY <1>7, <2>4, <2>5
<1>16. IsDynamic(a) /\ ~IsDynamic(b) => z <= 0
  <2> SUFFICES ASSUME IsDynamic(a), ~IsDynamic(b) PROVE z <= 0
    OBVIOUS
  <2>1. e = 0 /\ h = 0
    <3>1. bs[b].Type = "STATIC"
      BY <1>0, MakesAre, MassesAre DEF IsDynamic
    <3>2. v = <<0, 0>>
      BY <1>0, <1>3, <3>1 DEF StaticStill
    <3> QED
      BY <1>2, <1>7, <1>9, <3>2 DEF Dot, Vec
  <2>2. g = 0 \/ 2 * d + g <= 0
    BY <1>7, <1>10, <2>1
  <2>3. m * g \in Nat
    BY <1>7
  <2>4. \A i \in Nat, f \in Int : f <= 0 => i * f <= 0
    OBVIOUS
  <2>5. g = 0 => z = 0
    BY <1>12
  <2> QED
    BY <1>12, <2>2, <2>3, <2>4, <2>5
<1>17. ~IsDynamic(a) /\ IsDynamic(b) => w <= 0
  <2> SUFFICES ASSUME ~IsDynamic(a), IsDynamic(b) PROVE w <= 0
    OBVIOUS
  <2>1. d = 0 /\ g = 0
    <3>1. bs[a].Type = "STATIC"
      BY <1>0, MakesAre, MassesAre DEF IsDynamic
    <3>2. u = <<0, 0>>
      BY <1>0, <1>3, <3>1 DEF StaticStill
    <3> QED
      BY <1>2, <1>7, <1>9, <3>2 DEF Dot, Vec
  <2>2. h = 0 \/ h - 2 * e <= 0
    BY <1>7, <1>10, <2>1
  <2>3. k * h \in Nat
    BY <1>7
  <2>4. \A i \in Nat, f \in Int : f <= 0 => i * f <= 0
    OBVIOUS
  <2>5. h = 0 => w = 0
    BY <1>12
  <2> QED
    BY <1>12, <2>2, <2>3, <2>4, <2>5
<1>18. /\ Energy(bs) = (IF IsDynamic(a) THEN x ELSE 0) + (IF IsDynamic(b) THEN y ELSE 0)
       /\ Energy(cs) = (IF IsDynamic(a) THEN x + z ELSE 0) + (IF IsDynamic(b) THEN y + w ELSE 0)
  <2>1. /\ bs[a].Mass = m /\ bs[b].Mass = k /\ cs[a].Mass = m /\ cs[b].Mass = k
    BY <1>0, <1>4, <1>8, MakesAre
  <2>2. (a = 1 /\ b = 2) \/ (a = 2 /\ b = 1)
    <3>1. a \in {1, 2} /\ b \in {1, 2}
      OBVIOUS
    <3> QED
      BY <1>0, <3>1
  <2>3. CASE a = 1 /\ b = 2
    BY <1>3, <1>13, <2>1, <2>3 DEF Energy
  <2>4. CASE a = 2 /\ b = 1
    <3>1. /\ Energy(bs) = (IF IsDynamic(b) THEN y ELSE 0) + (IF IsDynamic(a) THEN x ELSE 0)
          /\ Energy(cs) = (IF IsDynamic(b) THEN y + w ELSE 0) + (IF IsDynamic(a) THEN x + z ELSE 0)
      BY <1>3, <1>13, <2>1, <2>4 DEF Energy
    <3> QED
      BY <3>1
  <2> QED
    BY <2>2, <2>3, <2>4
<1>19. Energy(cs) <= Energy(bs)
  BY <1>15, <1>16, <1>17, <1>18
<1> QED
  BY <1>0, <1>1, <1>19

-----------------------------------------------------------------------------
(* The contact that a visit finds.                                         *)

IsCircle(shape) == shape.type = "Circle" /\ shape.center \in Vec /\ shape.radius \in Int

IsRectangle(shape) ==
    shape.type = "Rectangle" /\ shape.minBound \in Vec /\ shape.maxBound \in Vec

\* The shapes at the positions of their bodies.
LEMMA PlacedIs ==
    ASSUME ContactInv, NEW i \in 1..2
    PROVE  \/ IsCircle(Placed(bodies, i))
           \/ IsRectangle(Placed(bodies, i))
           \/ Placed(bodies, i).type = "Polygon"
<1>1. colliders[i].Shape \in Shapes /\ bodies[i].Position \in Vec
  <2>1. bodies[i] \in BodyRecord /\ colliders[i] \in [Shape : Shapes, Restitution : Restitutions]
    BY DEF ContactInv
  <2> QED
    BY <2>1 DEF BodyRecord
<1>2. PICK shape \in Shapes : shape = colliders[i].Shape
  BY <1>1
<1>3. PICK pos \in Vec : pos = bodies[i].Position
  BY <1>1
<1>4. Placed(bodies, i) = Translate(shape, pos)
  BY <1>2, <1>3 DEF Placed
<1>5. \A u \in Vec : Plus(u, pos) \in Vec
  BY VectorOps
<1>6. IsCircle(shape) \/ IsRectangle(shape) \/ shape.type = "Polygon"
  BY ContactAssumption DEF IsCircle, IsRectangle
<1>7. CASE IsCircle(shape)
  <2>1. Translate(shape, pos) = Circle(Plus(shape.center, pos), shape.radius)
    BY <1>7 DEF Translate, IsCircle
  <2>2. Abs(shape.radius) \in Int
    BY <1>7 DEF IsCircle, Abs
  <2> QED
    BY <1>4, <1>5, <1>7, <2>1, <2>2 DEF IsCircle, Circle
<1>8. CASE IsRectangle(shape)
  <2>1. Translate(shape, pos) = Rectangle(Plus(shape.minBound, pos), Plus(shape.maxBound, pos))
    BY <1>8 DEF Translate, IsRectangle
  <2> QED
    BY <1>4, <1>5, <1>8, <2>1 DEF IsRectangle, Rectangle
<1>9. CASE shape.type = "Polygon"
  BY <1>4, <1>9 DEF Translate, Polygon
<1> QED
  BY <1>6, <1>7, <1>8, <1>9

\* The vector a circle is pushed along.
LEMMA CircleDeltaIs ==
    ASSUME ContactInv, NEW a \in 1..2, NEW b \in 1..2,
           Placed(bodies, a).type = "Circle", Placed(bodies, b).type # "Polygon"
    PROVE  CircleDelta(bodies, a, b) \in Vec
<1>1. PICK p, q : p = Placed(bodies, a) /\ q = Placed(bodies, b)
  OBVIOUS
<1>2. p.center \in Vec /\ (IsCircle(q) \/ IsRectangle(q))
  BY <1>1, PlacedIs DEF IsCircle, IsRectangle
<1>3. PICK u \in Vec : u = p.center
  BY <1>2
<1>4. \A v : v[1] \in Int /\ v[2] \in Int => Minus(u, v) \in Vec
  BY DEF Vec, Minus
<1>5. CASE IsCircle(q)
  <2>1. CircleDelta(bodies, a, b) = Minus(u, q.center)
    BY <1>1, <1>3, <1>5 DEF CircleDelta, IsCircle
  <2>2. q.center[1] \in Int /\ q.center[2] \in Int
    BY <1>5 DEF IsCircle, Vec
  <2> QED
    BY <1>4, <2>1, <2>2
<1>6. CASE IsRectangle(q)
  <2>1. CircleDelta(bodies, a, b)
            = Minus(u, [k \in 1..2 |-> Clamp(u[k], q.minBound[k], q.maxBound[k])])
    BY <1>1, <1>3, <1>6 DEF CircleDelta, IsRectangle
  <2>2. \A k \in 1..2 : u[k] \in Int /\ q.minBound[k] \in Int /\ q.maxBound[k] \in Int
    BY <1>6 DEF IsRectangle, Vec
  <2>3. \A x, y, z \in Int : Clamp(x, y, z) \in Int
    BY DEF Clamp
  <2>4. PICK v : v = [k \in 1..2 |-> Clamp(u[k], q.minBound[k], q.maxBound[k])]
    OBVIOUS
  <2>5. v[1] \in Int /\ v[2] \in Int
    <3>1. v[1] = Clamp(u[1], q.minBound[1], q.maxBound[1])
          /\ v[2] = Clamp(u[2], q.minBound[2], q.maxBound[2])
      BY <2>4
    <3>2. /\ u[1] \in Int /\ q.minBound[1] \in Int /\ q.maxBound[1] \in Int
          /\ u[2] \in Int /\ q.minBound[2] \in Int /\ q.maxBound[2] \in Int
      BY <2>2
    <3>3. Clamp(u[1], q.minBound[1], q.maxBound[1]) \in Int
      BY <2>3, <3>2
    <3>4. Clamp(u[2], q.minBound[2], q.maxBound[2]) \in Int
      BY <2>3, <3>2
    <3> QED
      BY <3>1, <3>3, <3>4, Zenon
  <2> QED
    BY <1>4, <2>1, <2>4, <2>5
<1> QED
  BY <1>2, <1>5, <1>6

\* A vector on an axis has a direction of length 1; without a length it is Up.
LEMMA DirectionIsUnit ==
    ASSUME NEW u \in Vec
    PROVE  /\ DirectionOrUp(u) \in Vec /\ Length(u) \in Int
           /\ OnAxis(u) => IsUnit(DirectionOrUp(u))
<1>1. PICK x, y \in Int : u = <<x, y>>
  BY DEF Vec
<1>2. Length(u) = Abs(x) + Abs(y) /\ Abs(x) \in Nat /\ Abs(y) \in Nat
  BY <1>1 DEF Length, Abs
<1>3. Length(u) > 0 <=> x # 0 \/ y # 0
  BY <1>2 DEF Abs
<1>4. PICK c, d \in {-1, 0, 1} : /\ c = Sign(x) /\ d = Sign(y)
                                 /\ c = 0 <=> x = 0
                                 /\ d = 0 <=> y = 0
  BY DEF Sign
<1>5. DirectionOrUp(u) = IF x # 0 \/ y # 0 THEN <<c, d>> ELSE <<0, 1>>
  BY <1>1, <1>3, <1>4 DEF DirectionOrUp, Direction, Up
<1>6. CASE x # 0 \/ y # 0
  <2>1. DirectionOrUp(u) = <<c, d>>
    BY <1>5, <1>6
  <2>2. OnAxis(u) => c = 0 \/ d = 0
    BY <1>1, <1>4 DEF OnAxis
  <2>3. OnAxis(u) => c * c + d * d = 1
    <3>1. c # 0 \/ d # 0
      BY <1>4, <1>6
    <3>2. \A f \in {-1, 0, 1} : f * f = IF f = 0 THEN 0 ELSE 1
      OBVIOUS
    <3>3. PICK i, j \in Int : i = c * c /\ j = d * d
      OBVIOUS
    <3>4. i = (IF c = 0 THEN 0 ELSE 1) /\ j = IF d = 0 THEN 0 ELSE 1
      BY <3>2, <3>3
    <3> QED
      BY <2>2, <3>1, <3>3, <3>4
  <2>4. Dot(<<c, d>>, <<c, d>>) = c * c + d * d /\ <<c, d>> \in Vec
    BY DEF Dot, Vec
  <2> QED
    BY <1>2, <2>1, <2>3, <2>4 DEF IsUnit
<1>7. CASE ~(x # 0 \/ y # 0)
  BY <1>2, <1>5, <1>7 DEF IsUnit, Dot, Vec
<1> QED
  BY <1>6, <1>7

\* The touch of two rectangles has one of the four directions of the axes.
LEMMA RectangleTouchIs ==
    ASSUME ContactInv, NEW a \in 1..2, NEW b \in 1..2,
           Placed(bodies, a).type = "Rectangle", Placed(bodies, b).type = "Rectangle"
    PROVE  IsTouch(RectangleTouch(bodies, a, b)) /\ IsUnit(RectangleTouch(bodies, a, b).Normal)
<1>1. PICK r0, r1 : r0 = Placed(bodies, a) /\ r1 = Placed(bodies, b)
  OBVIOUS
<1>2. /\ r0.minBound \in Vec /\ r0.maxBound \in Vec
      /\ r1.minBound \in Vec /\ r1.maxBound \in Vec
  BY <1>1, PlacedIs DEF IsCircle, IsRectangle
<1>3. PICK delta \in Vec :
          delta = Minus(Plus(r0.minBound, r0.maxBound), Plus(r1.minBound, r1.maxBound))
  <2>1. \A u, v \in Vec : Plus(u, v) \in Vec /\ Minus(u, v) \in Vec
    BY VectorOps
  <2> QED
    BY <1>2, <2>1
<1>4. PICK depth : depth = [k \in 1..2 |-> (r0.maxBound[k] - r0.minBound[k] + r1.maxBound[k]
                                              - r1.minBound[k] - Abs(delta[k])) \div 2]
  OBVIOUS
<1>5. depth[1] \in Int /\ depth[2] \in Int
  <2>1. \A k \in 1..2 : /\ r0.minBound[k] \in Int /\ r0.maxBound[k] \in Int
                        /\ r1.minBound[k] \in Int /\ r1.maxBound[k] \in Int
                        /\ delta[k] \in Int
    BY <1>2 DEF Vec
  <2>2. \A x \in Int : Abs(x) \in Int
    BY DEF Abs
  <2>3. \A x \in Int : x \div 2 \in Int
    OBVIOUS
  <2>4. \A k \in 1..2 : (r0.maxBound[k] - r0.minBound[k] + r1.maxBound[k]
                            - r1.minBound[k] - Abs(delta[k])) \div 2 \in Int
    BY <2>1, <2>2, <2>3
  <2> QED
    BY <1>4, <2>4
<1>6. PICK axis \in {<<1, 0>>, <<0, 1>>} :
          axis = IF depth[1] < depth[2] THEN <<1, 0>> ELSE <<0, 1>>
  OBVIOUS
<1>7. PICK c \in {1, -1} : c = IF Dot(delta, axis) > 0 THEN 1 ELSE -1
  OBVIOUS
<1>8. PICK touch : touch = RectangleTouch(bodies, a, b)
  OBVIOUS
<1>9. touch = [Normal |-> Scale(c, axis), Penetration |-> Dot(depth, axis)]
  BY <1>1, <1>3, <1>4, <1>6, <1>7, <1>8 DEF RectangleTouch
<1>10. Dot(depth, axis) \in Int
  BY <1>5, <1>6 DEF Dot
<1>11. Scale(c, axis) \in Vec /\ Dot(Scale(c, axis), Scale(c, axis)) = 1
  <2>1. PICK x, y \in Int : axis = <<x, y>> /\ ((x = 1 /\ y = 0) \/ (x = 0 /\ y = 1))
    BY <1>6
  <2> QED
    BY <1>6, <1>7 DEF Scale, Dot, Vec
<1> QED
  BY <1>8, <1>9, <1>10, <1>11 DEF IsTouch, IsUnit

\* Every contact has a normal and a penetration, and the normal is a direction if
\* the one it is taken from is on an axis.
LEMMA TouchIs ==
    ASSUME ContactInv, NEW a \in 1..2, NEW b \in 1..2
    PROVE  /\ IsTouch(Touch(bodies, a, b))
           /\ (Placed(bodies, a).type = "Circle" /\ Placed(bodies, b).type # "Polygon"
                    => OnAxis(CircleDelta(bodies, a, b)))
                => IsUnit(Touch(bodies, a, b).Normal)
<1>1. PICK p, q : p = Placed(bodies, a).type /\ q = Placed(bodies, b).type
  OBVIOUS
<1>2. CASE p = "Circle" /\ q # "Polygon"
  <2>1. PICK u \in Vec : u = CircleDelta(bodies, a, b)
    BY <1>1, <1>2, CircleDeltaIs
  <2>2. Touch(bodies, a, b) = CircleTouch(bodies, a, b)
    BY <1>1, <1>2 DEF Touch
  <2>3. PICK r \in Int : r = Placed(bodies, a).radius
                                + (IF q = "Circle" THEN Placed(bodies, b).radius ELSE 0)
    <3>1. Placed(bodies, a).radius \in Int
      BY <1>1, <1>2, PlacedIs DEF IsCircle, IsRectangle
    <3>2. q = "Circle" => Placed(bodies, b).radius \in Int
      BY <1>1, PlacedIs DEF IsCircle, IsRectangle
    <3> QED
      BY <3>1, <3>2
  <2>4. CircleTouch(bodies, a, b) = [Normal |-> DirectionOrUp(u), Penetration |-> r - Length(u)]
    BY <1>1, <2>1, <2>3 DEF CircleTouch
  <2>5. r - Length(u) \in Int
    BY DirectionIsUnit
  <2> QED
    BY <1>1, <1>2, <2>1, <2>2, <2>4, <2>5, DirectionIsUnit DEF IsTouch
<1>3. CASE p = "Rectangle" /\ q = "Rectangle"
  <2>1. Touch(bodies, a, b) = RectangleTouch(bodies, a, b)
    BY <1>1, <1>3 DEF Touch
  <2> QED
    BY <1>1, <1>3, <2>1, RectangleTouchIs
<1>4. CASE ~(p = "Circle" /\ q # "Polygon") /\ ~(p = "Rectangle" /\ q = "Rectangle")
  <2>1. Touch(bodies, a, b) = [Normal |-> <<0, 0>>, Penetration |-> 0]
    BY <1>1, <1>4 DEF Touch
  <2> QED
    BY <2>1 DEF IsTouch, IsUnit, Vec
<1> QED
  BY <1>2, <1>3, <1>4

-----------------------------------------------------------------------------
(* A visit of the pair.                                                    *)

\* The momentum of two bodies, and their centre of mass times their mass.
Momentum(bs) == Plus(Scale(bs[1].Mass, bs[1].Velocity), Scale(bs[2].Mass, bs[2].Velocity))

Center(bs) == Plus(Scale(bs[1].Mass, bs[1].Position), Scale(bs[2].Mass, bs[2].Position))

\* Solving a contact of DYNAMIC bodies keeps both.
LEMMA SolvedKeepsMomentum ==
    ASSUME LiveInv, NEW bs, SameMakes(bs), StaticStill(bs), NEW a \in 1..2,
           NEW touch, IsTouch(touch), IsUnit(touch.Normal),
           SolveDivides(bs, a, Other(a), touch), \A i \in 1..2 : IsDynamic(i)
    PROVE  /\ Momentum(Solved(bs, a, Other(a), touch)) = Momentum(bs)
           /\ Center(Solved(bs, a, Other(a), touch)) = Center(bs)
<1>1. PICK b \in 1..2 : b = Other(a) /\ a = Other(b) /\ a # b
  BY MassesAre
<1>2. PICK n \in Vec : n = touch.Normal
  BY DEF IsTouch
<1>3. PICK cs : cs = Solved(bs, a, b, touch)
  OBVIOUS
<1>4. PICK m, k \in Nat \ {0} : m = bodies[a].Mass /\ k = bodies[b].Mass
  BY MassesAre
<1>5. SameMakes(cs)
  BY <1>1, <1>3, SolvedMoves
<1>6. bs[a].Mass = m /\ cs[a].Mass = m /\ bs[b].Mass = k /\ cs[b].Mass = k
  BY <1>4, <1>5, MakesAre
<1>7. PICK g, h \in Int : g = Gained(bs, a, b, n, a) /\ h = Gained(bs, a, b, n, b)
  BY <1>1, GainedAre
<1>8. m * g = k * h
  <2>1. bodies[a].Mass * Gained(bs, a, Other(a), touch.Normal, a)
            = bodies[Other(a)].Mass * Gained(bs, a, Other(a), touch.Normal, Other(a))
    <3>1. IsDynamic(a) /\ IsDynamic(Other(a))
      BY <1>1
    <3> QED
      BY <3>1, SharesAre
  <2> QED
    BY <1>1, <1>2, <1>4, <1>7, <2>1
<1>9. PICK p, q \in Int : p = Moved(a, touch) /\ q = Moved(b, touch)
  BY PartsMakeWhole DEF Moved, IsTouch
<1>10. m * p = k * q
  <2>1. CASE touch.Penetration <= 0
    <3>1. p = 0 /\ q = 0
      BY <1>9, <2>1 DEF Moved
    <3> QED
      BY <3>1
  <2>2. CASE ~(touch.Penetration <= 0)
    <3>1. p = OwnPart(a, touch.Penetration) /\ q = OwnPart(b, touch.Penetration)
      BY <1>9, <2>2 DEF Moved
    <3>2. Divides(touch.Penetration) /\ touch.Penetration \in Int
      BY InverseMassAbove DEF SolveDivides, IsTouch
    <3>3. bodies[a].Mass * OwnPart(a, touch.Penetration)
                = bodies[Other(a)].Mass * OwnPart(Other(a), touch.Penetration)
      BY <3>2, PartsMakeWhole
    <3> QED
      BY <1>1, <1>4, <3>1, <3>3
  <2> QED
    BY <2>1, <2>2
<1>11. PICK u, v, x, y \in Vec : /\ u = bs[a].Velocity /\ v = bs[b].Velocity
                                 /\ x = bs[a].Position /\ y = bs[b].Position
  BY MakesAre
<1>12. /\ cs[a].Velocity = Plus(u, Scale(g, n)) /\ cs[b].Velocity = Minus(v, Scale(h, n))
       /\ cs[a].Position = Plus(x, Scale(p, n)) /\ cs[b].Position = Minus(y, Scale(q, n))
  <2>1. LET B == Other(a)
            S == Solved(bs, a, B, touch)
        IN  /\ S[a].Velocity
                 = Plus(bs[a].Velocity, Scale(Gained(bs, a, B, touch.Normal, a), touch.Normal))
            /\ S[B].Velocity
                 = Minus(bs[B].Velocity, Scale(Gained(bs, a, B, touch.Normal, B), touch.Normal))
            /\ S[a].Position = Plus(bs[a].Position, Scale(Moved(a, touch), touch.Normal))
            /\ S[B].Position = Minus(bs[B].Position, Scale(Moved(B, touch), touch.Normal))
    BY SolvedMoves
  <2> QED
    BY <1>1, <1>2, <1>3, <1>7, <1>9, <1>11, <2>1
<1>13. /\ Plus(Scale(m, cs[a].Velocity), Scale(k, cs[b].Velocity)) = Plus(Scale(m, u), Scale(k, v))
       /\ Plus(Scale(k, cs[b].Velocity), Scale(m, cs[a].Velocity)) = Plus(Scale(k, v), Scale(m, u))
  BY <1>8, <1>12, BalanceIsKept
<1>14. /\ Plus(Scale(m, cs[a].Position), Scale(k, cs[b].Position)) = Plus(Scale(m, x), Scale(k, y))
       /\ Plus(Scale(k, cs[b].Position), Scale(m, cs[a].Position)) = Plus(Scale(k, y), Scale(m, x))
  BY <1>10, <1>12, BalanceIsKept
<1>15. (a = 1 /\ b = 2) \/ (a = 2 /\ b = 1)
  <2>1. a \in {1, 2} /\ b \in {1, 2}
    OBVIOUS
  <2> QED
    BY <1>1, <2>1
<1>16. CASE a = 1 /\ b = 2
  BY <1>3, <1>1, <1>6, <1>11, <1>13, <1>14, <1>16 DEF Momentum, Center
<1>17. CASE a = 2 /\ b = 1
  BY <1>3, <1>1, <1>6, <1>11, <1>13, <1>14, <1>17 DEF Momentum, Center
<1> QED
  BY <1>15, <1>16, <1>17

\* What a visit solves: the contact it finds, once, or twice when it is swapped.
LEMMA VisitIs ==
    ASSUME LiveInv, Resolve
    PROVE  \E a, touch, cs :
              /\ a \in 1..2
              /\ a = IF IsSwapped(bodies, 1, 2) THEN 2 ELSE 1
              /\ touch = Found(bodies) /\ IsTouch(touch) /\ IsUnit(touch.Normal)
              /\ cs = Solved(bodies, a, Other(a), touch)
              /\ SolveDivides(bodies, a, Other(a), touch)
              /\ \/ bodies' = cs
                 \/ /\ IsSwapped(bodies, 1, 2) /\ SolveDivides(cs, a, Other(a), touch)
                    /\ bodies' = Solved(cs, a, Other(a), touch)
<1>1. Exact /\ SharesDivide /\ bodies' = Resolved(bodies, 1, 2)
  BY DEF Resolve
<1>2. Other(1) = 2 /\ Other(2) = 1 /\ 1 \in 1..2 /\ 2 \in 1..2
  BY DEF Other
<1>3. CASE IsSwapped(bodies, 1, 2)
  <2>1. PICK touch : touch = Touch(bodies, 2, 1)
    OBVIOUS
  <2>2. PICK cs : cs = Solved(bodies, 2, 1, touch)
    OBVIOUS
  <2>3. SolveDivides(bodies, 2, 1, touch) /\ SolveDivides(cs, 2, 1, touch)
    BY <1>1, <1>3, <2>1, <2>2 DEF SharesDivide
  <2>4. bodies' = Solved(cs, 2, 1, touch)
    BY <1>1, <1>3, <2>1, <2>2 DEF Resolved
  <2>5. touch = Found(bodies)
    BY <1>3, <2>1 DEF Found
  <2>6. IsTouch(touch) /\ IsUnit(touch.Normal)
    <3>1. Placed(bodies, 2).type = "Circle" /\ Placed(bodies, 1).type # "Polygon"
            => OnAxis(CircleDelta(bodies, 2, 1))
      BY <1>1 DEF Exact
    <3> QED
      BY <1>2, <2>1, <3>1, TouchIs, LiveIsTyped
  <2> QED
    BY <1>2, <1>3, <2>2, <2>3, <2>4, <2>5, <2>6
<1>4. CASE ~IsSwapped(bodies, 1, 2)
  <2>1. PICK touch : touch = Touch(bodies, 1, 2)
    OBVIOUS
  <2>2. PICK cs : cs = Solved(bodies, 1, 2, touch)
    OBVIOUS
  <2>3. SolveDivides(bodies, 1, 2, touch)
    BY <1>1, <1>4, <2>1 DEF SharesDivide
  <2>4. bodies' = cs
    BY <1>1, <1>4, <2>1, <2>2 DEF Resolved
  <2>5. touch = Found(bodies)
    BY <1>4, <2>1 DEF Found
  <2>6. IsTouch(touch) /\ IsUnit(touch.Normal)
    <3>1. Placed(bodies, 1).type = "Circle" /\ Placed(bodies, 2).type # "Polygon"
            => OnAxis(CircleDelta(bodies, 1, 2))
      BY <1>1 DEF Exact
    <3> QED
      BY <1>2, <2>1, <3>1, TouchIs, LiveIsTyped
  <2> QED
    BY <1>2, <1>4, <2>2, <2>3, <2>4, <2>5, <2>6
<1> QED
  BY <1>3, <1>4

\* The bodies of a state and those that a visit solved once are of its makes.
LEMMA MakesOfState ==
    ASSUME LiveInv
    PROVE  /\ SameMakes(bodies) /\ StaticStill(bodies)
           /\ \A a \in 1..2 : \A touch : IsTouch(touch) =>
                /\ SameMakes(Solved(bodies, a, Other(a), touch))
                /\ StaticStill(Solved(bodies, a, Other(a), touch))
<1>1. SameMakes(bodies) /\ StaticStill(bodies)
  BY DEF LiveInv, ContactInv, SameMakes
<1>2. ASSUME NEW a \in 1..2, NEW touch, IsTouch(touch)
      PROVE  /\ SameMakes(Solved(bodies, a, Other(a), touch))
             /\ StaticStill(Solved(bodies, a, Other(a), touch))
  BY <1>1, <1>2, SolvedMoves, SolvedKeepsStill
<1> QED
  BY <1>1, <1>2

\* A body that was destroyed is not moved by a visit, and moves no other.
LEMMA GoneStay ==
    ASSUME ContactInv, Resolve, ~BothThere
    PROVE  bodies' = bodies
<1>1. SignOfInverseMass <= 0
  BY InverseMassIs
<1>2. \A bs, a, b, touch : Solved(bs, a, b, touch) = bs
  BY <1>1 DEF Solved, Bounced, Pushed
<1>3. Resolved(bodies, 1, 2) = bodies
  BY <1>2 DEF Resolved
<1> QED
  BY <1>3 DEF Resolve

\* The shapes of the bodies are what they were made with: vectors, masses and
\* types stay of their kinds, and no step, contacts included, gives a STATIC body a
\* velocity (Contact.cpp:148-166).
THEOREM ContactTyped == Spec => []ContactInv
<1>1. Init => ContactInv
  <2> SUFFICES ASSUME Init PROVE ContactInv
    OBVIOUS
  <2>1. Bodies \subseteq BodyRecord
    BY ContactAssumption DEF Bodies, BodyRecord, Vec
  <2>2. \A body \in Bodies : body.Type = "STATIC" => body.Velocity = <<0, 0>>
    BY DEF Bodies
  <2> QED
    BY <2>1, <2>2 DEF Init, ContactInv, StaticStill
<1>2. ContactInv /\ [Next]_vars => ContactInv'
  <2> SUFFICES ASSUME ContactInv, [Next]_vars PROVE ContactInv'
    OBVIOUS
  <2>0. bodies \in [1..2 -> BodyRecord] /\ StaticStill(bodies)
    BY DEF ContactInv
  <2>1. ASSUME NEW i \in 1..2, NEW force \in Forces, ApplyForce(i, force) PROVE ContactInv'
    <3>1. PICK f : f = Plus(bodies[i].force, force)
      OBVIOUS
    <3>2. bodies' = [bodies EXCEPT ![i].force = f]
      BY <2>1, <3>1 DEF ApplyForce
    <3>3. f \in Vec
      <4>1. bodies[i].force \in Vec /\ force \in Vec
        BY <2>0, ContactAssumption DEF BodyRecord
      <4>2. \A u, v \in Vec : Plus(u, v) \in Vec
        BY VectorOps
      <4> QED
        BY <3>1, <4>1, <4>2
    <3>4. bodies' \in [1..2 -> BodyRecord]
      BY <2>0, <3>2, <3>3 DEF BodyRecord
    <3>5. \A j \in 1..2 : bodies'[j].Velocity = bodies[j].Velocity /\ bodies'[j].Type = bodies[j].Type
      BY <2>0, <3>2 DEF BodyRecord
    <3> QED
      BY <2>0, <2>1, <3>4, <3>5 DEF ApplyForce, ContactInv, StaticStill
  <2>6. ASSUME NEW i \in 1..2, DestroyBody(i) PROVE ContactInv'
    <3>1. bodies' = [bodies EXCEPT ![i].Mass = -1]
      BY <2>6 DEF DestroyBody
    <3>2. bodies' \in [1..2 -> BodyRecord]
      BY <2>0, <3>1 DEF BodyRecord
    <3>3. \A j \in 1..2 : bodies'[j].Velocity = bodies[j].Velocity /\ bodies'[j].Type = bodies[j].Type
      BY <2>0, <3>1 DEF BodyRecord
    <3> QED
      BY <2>0, <2>6, <3>2, <3>3 DEF DestroyBody, ContactInv, StaticStill
  <2>2. CASE Update
    <3>1. ASSUME NEW body \in BodyRecord, body.Type = "STATIC" => body.Velocity = <<0, 0>>
          PROVE  /\ Integrated(body) \in BodyRecord
                 /\ Integrated(body).Type = body.Type
                 /\ body.Type = "STATIC" => Integrated(body).Velocity = <<0, 0>>
      <4>1. CASE body.Type = "STATIC" \/ ~IsEnabled(body)
        BY <3>1, <4>1 DEF Integrated
      <4>2. CASE body.Type # "STATIC" /\ IsEnabled(body)
        <5>1. PICK push : push = [k \in 1..2 |-> body.force[k] \div body.Mass]
          OBVIOUS
        <5>2. push[1] \in Int /\ push[2] \in Int
          <6>1. body.force[1] \in Int /\ body.force[2] \in Int /\ body.Mass \in Nat \ {0}
            <7>1. /\ body.force \in Vec /\ body.Mass \in Masses \cup {-1}
                  /\ body.Mass >= 0
              BY <4>2 DEF BodyRecord, IsEnabled
            <7>2. body.Mass # -1
              BY <7>1
            <7> QED
              BY <7>1, <7>2, ContactAssumption DEF Vec
          <6>2. body.force[1] \div body.Mass \in Int /\ body.force[2] \div body.Mass \in Int
            BY <6>1, Quotient
          <6> QED
            BY <5>1, <6>2
        <5>3. PICK velocity : velocity = Plus(body.Velocity, push)
          OBVIOUS
        <5>4. velocity \in Vec
          BY <5>2, <5>3 DEF BodyRecord, Vec, Plus
        <5>5. PICK position \in Vec : position = Plus(body.Position, velocity)
          <6>1. Plus(body.Position, velocity) \in Vec
            BY <5>4 DEF BodyRecord, Vec, Plus
          <6> QED
            BY <6>1
        <5>6. Integrated(body) = [body EXCEPT !.Velocity = velocity, !.Position = position,
                                              !.force = <<0, 0>>]
          BY <4>2, <5>1, <5>3, <5>5 DEF Integrated, BodyRecord
        <5>7. <<0, 0>> \in Vec
          BY DEF Vec
        <5> QED
          BY <4>2, <5>4, <5>5, <5>6, <5>7 DEF BodyRecord
      <4> QED
        BY <4>1, <4>2
    <3>2. \A j \in 1..2 : /\ Integrated(bodies[j]) \in BodyRecord
                          /\ Integrated(bodies[j]).Type = bodies[j].Type
                          /\ bodies[j].Type = "STATIC" => Integrated(bodies[j]).Velocity = <<0, 0>>
      BY <2>0, <3>1 DEF StaticStill
    <3>3. bodies' = [j \in 1..2 |-> Integrated(bodies[j])]
      BY <2>2 DEF Update
    <3>4. bodies' \in [1..2 -> BodyRecord] /\ StaticStill(bodies)'
      BY <3>2, <3>3 DEF StaticStill
    <3>5. leaves' \in Nat /\ frames' \in Nat /\ resolved' \in BOOLEAN /\ colliders' = colliders
      <4>1. leaves' \in 1..MaxLeaves /\ MaxLeaves \in Nat
        BY <2>2, ContactAssumption DEF Update
      <4>2. leaves' \in Nat
        BY <4>1
      <4>3. /\ frames \in Nat /\ frames' = frames + 1
            /\ resolved' = FALSE /\ colliders' = colliders
        BY <2>2 DEF Update, ContactInv
      <4>4. frames' \in Nat
        BY <4>3
      <4>5. resolved' \in BOOLEAN
        BY <4>3, Zenon
      <4> QED
        BY <4>2, <4>3, <4>4, <4>5, Zenon
    <3> QED
      BY <3>4, <3>5 DEF ContactInv
  <2>7. CASE Resolve /\ ~BothThere
    <3>1. bodies' = bodies
      BY <2>7, GoneStay
    <3> QED
      BY <2>7, <3>1 DEF Resolve, ContactInv, StaticStill
  <2>3. CASE Resolve /\ BothThere
    <3>0. LiveInv
      BY <2>3 DEF LiveInv
    <3>1. PICK a, touch, cs :
             /\ a \in 1..2
             /\ IsTouch(touch)
             /\ cs = Solved(bodies, a, Other(a), touch)
             /\ bodies' = cs \/ bodies' = Solved(cs, a, Other(a), touch)
      BY <2>3, <3>0, VisitIs
    <3>2. SameMakes(cs) /\ StaticStill(cs)
      BY <3>0, <3>1, MakesOfState
    <3>3. SameMakes(Solved(cs, a, Other(a), touch)) /\ StaticStill(Solved(cs, a, Other(a), touch))
      BY <3>0, <3>1, <3>2, SolvedMoves, SolvedKeepsStill
    <3>4. bodies' \in [1..2 -> BodyRecord] /\ StaticStill(bodies')
      BY <3>1, <3>2, <3>3 DEF SameMakes
    <3>5. leaves' \in Nat /\ resolved' \in BOOLEAN /\ colliders' = colliders /\ frames' = frames
      BY <2>3 DEF Resolve, ContactInv
    <3> QED
      BY <3>4, <3>5 DEF ContactInv, StaticStill
  <2>4. CASE Miss
    BY <2>4 DEF Miss, ContactInv, StaticStill
  <2>5. CASE UNCHANGED vars
    BY <2>5 DEF vars, ContactInv, StaticStill
  <2> QED
    BY <2>1, <2>2, <2>3, <2>4, <2>5, <2>6, <2>7 DEF Next
<1> QED
  BY <1>1, <1>2, PTL DEF Spec

\* The energy of bodies is a number.
LEMMA EnergyIs ==
    ASSUME ContactInv, NEW bs, SameMakes(bs)
    PROVE  Energy(bs) \in Int
<1>1. ASSUME NEW i \in {1, 2} PROVE bs[i].Mass * LengthSq(bs[i].Velocity) \in Int
  <2>0. bs[i] \in BodyRecord
    BY DEF SameMakes
  <2>1. bs[i].Velocity \in Vec
    BY <2>0 DEF BodyRecord
  <2>2. LengthSq(bs[i].Velocity) \in Int
    <3>1. \A u \in Vec : Dot(u, u) \in Int
      BY VectorOps
    <3> QED
      BY <2>1, <3>1 DEF LengthSq
  <2>3. bs[i].Mass \in Int
    <3>1. bs[i].Mass \in Masses \cup {-1}
      BY <2>0 DEF BodyRecord
    <3>2. \A m \in Masses : m \in Nat
      BY ContactAssumption
    <3>3. -1 \in Int
      OBVIOUS
    <3> QED
      BY <3>1, <3>2, <3>3
  <2> QED
    BY <2>2, <2>3
<1> QED
  BY <1>1 DEF Energy

\* No visit gains energy, whichever bodies are STATIC and in whichever order they
\* come: for every mass and every restitution of at most 1 (Contact.cpp:126-167).
THEOREM ContactGainsNoEnergy == Spec => NoEnergyGained
<1>1. ContactInv /\ BothThere /\ Resolve => Energy(bodies') <= Energy(bodies)
  <2> SUFFICES ASSUME ContactInv, BothThere, Resolve PROVE Energy(bodies') <= Energy(bodies)
    OBVIOUS
  <2>0. LiveInv
    BY DEF LiveInv
  <2>1. PICK a, touch, cs :
           /\ a \in 1..2
           /\ IsTouch(touch) /\ IsUnit(touch.Normal)
           /\ cs = Solved(bodies, a, Other(a), touch)
           /\ SolveDivides(bodies, a, Other(a), touch)
           /\ \/ bodies' = cs
              \/ SolveDivides(cs, a, Other(a), touch) /\ bodies' = Solved(cs, a, Other(a), touch)
    BY <2>0, VisitIs
  <2>2. SameMakes(bodies) /\ StaticStill(bodies) /\ SameMakes(cs) /\ StaticStill(cs)
    BY <2>0, <2>1, MakesOfState
  <2>3. Energy(cs) <= Energy(bodies)
    BY <2>0, <2>1, <2>2, SolvedGainsNoEnergy
  <2>4. SolveDivides(cs, a, Other(a), touch) => Energy(Solved(cs, a, Other(a), touch)) <= Energy(cs)
    BY <2>0, <2>1, <2>2, SolvedGainsNoEnergy
  <2>5. \A bs : SameMakes(bs) => Energy(bs) \in Int
    BY EnergyIs
  <2>6. SameMakes(Solved(cs, a, Other(a), touch))
    BY <2>0, <2>1, <2>2, SolvedMoves
  <2>7. /\ Energy(bodies) \in Int /\ Energy(cs) \in Int
        /\ Energy(Solved(cs, a, Other(a), touch)) \in Int
    BY <2>2, <2>5, <2>6
  <2> QED
    BY <2>1, <2>3, <2>4, <2>7
<1>2. ContactInv /\ ~BothThere /\ Resolve => Energy(bodies') <= Energy(bodies)
  <2> SUFFICES ASSUME ContactInv, ~BothThere, Resolve PROVE Energy(bodies') <= Energy(bodies)
    OBVIOUS
  <2>1. Energy(bodies) \in Int
    BY EnergyIs DEF ContactInv, SameMakes
  <2>2. Energy(bodies') = Energy(bodies)
    BY GoneStay
  <2> HIDE DEF Energy
  <2> QED
    BY <2>1, <2>2
<1> QED
  BY <1>1, <1>2, ContactTyped, PTL DEF NoEnergyGained

\* Whatever its bodies are, unless one is destroyed, they do not approach each other
\* along the normal of a contact that was resolved (Contact.cpp:126-167).
THEOREM ContactPartsBodies == Spec => NoApproachAfterContact
<1>1. ContactInv /\ Resolve /\ BothThere /\ IsSolid =>
          IF IsSwapped(bodies, 1, 2)
          THEN CalculateSeparateVelocity(bodies', 2, 1, Found(bodies).Normal) >= 0
          ELSE CalculateSeparateVelocity(bodies', 1, 2, Found(bodies).Normal) >= 0
  <2> SUFFICES ASSUME ContactInv, Resolve, BothThere, IsSolid
               PROVE  IF IsSwapped(bodies, 1, 2)
                      THEN CalculateSeparateVelocity(bodies', 2, 1, Found(bodies).Normal) >= 0
                      ELSE CalculateSeparateVelocity(bodies', 1, 2, Found(bodies).Normal) >= 0
    OBVIOUS
  <2>0. LiveInv
    BY DEF LiveInv
  <2>1. PICK a, touch, cs :
           /\ a \in 1..2
           /\ a = IF IsSwapped(bodies, 1, 2) THEN 2 ELSE 1
           /\ touch = Found(bodies) /\ IsTouch(touch) /\ IsUnit(touch.Normal)
           /\ cs = Solved(bodies, a, Other(a), touch)
           /\ SolveDivides(bodies, a, Other(a), touch)
           /\ \/ bodies' = cs
              \/ SolveDivides(cs, a, Other(a), touch) /\ bodies' = Solved(cs, a, Other(a), touch)
    BY <2>0, VisitIs
  <2>2. SameMakes(bodies) /\ StaticStill(bodies) /\ SameMakes(cs) /\ StaticStill(cs)
    BY <2>0, <2>1, MakesOfState
  <2>3. touch.Normal # <<0, 0>>
    BY <2>1 DEF IsSolid
  <2>4. CalculateSeparateVelocity(cs, a, Other(a), touch.Normal) >= 0
    BY <2>1, <2>2, <2>3, <2>0, SolvedPart
  <2>5. SolveDivides(cs, a, Other(a), touch) =>
          CalculateSeparateVelocity(Solved(cs, a, Other(a), touch), a, Other(a), touch.Normal) >= 0
    BY <2>1, <2>2, <2>3, <2>0, SolvedPart
  <2>6. CalculateSeparateVelocity(bodies', a, Other(a), touch.Normal) >= 0
    BY <2>1, <2>4, <2>5
  <2>7. Other(1) = 2 /\ Other(2) = 1
    BY DEF Other
  <2> QED
    BY <2>1, <2>6, <2>7
<1> QED
  BY <1>1, ContactTyped, PTL DEF NoApproachAfterContact

\* Two DYNAMIC bodies keep their momentum and their centre of mass in a contact,
\* by whatever order and however often it is solved (Contact.cpp:145-152, 183-191).
THEOREM ContactKeepsMomentum == Spec => MomentumIsKept
<1>1. ContactInv /\ Resolve /\ BothThere /\ Dynamics = {1, 2} =>
          Momentum(bodies') = Momentum(bodies) /\ Center(bodies') = Center(bodies)
  <2> SUFFICES ASSUME ContactInv, Resolve, BothThere, Dynamics = {1, 2}
               PROVE  Momentum(bodies') = Momentum(bodies) /\ Center(bodies') = Center(bodies)
    OBVIOUS
  <2>0. LiveInv
    BY DEF LiveInv
  <2>1. PICK a, touch, cs :
           /\ a \in 1..2
           /\ IsTouch(touch) /\ IsUnit(touch.Normal)
           /\ cs = Solved(bodies, a, Other(a), touch)
           /\ SolveDivides(bodies, a, Other(a), touch)
           /\ \/ bodies' = cs
              \/ SolveDivides(cs, a, Other(a), touch) /\ bodies' = Solved(cs, a, Other(a), touch)
    BY <2>0, VisitIs
  <2>2. SameMakes(bodies) /\ StaticStill(bodies) /\ SameMakes(cs) /\ StaticStill(cs)
    BY <2>0, <2>1, MakesOfState
  <2>3. \A i \in 1..2 : IsDynamic(i)
    <3>1. 1..2 = {1, 2}
      OBVIOUS
    <3> QED
      BY <3>1 DEF Dynamics
  <2>4. Momentum(cs) = Momentum(bodies) /\ Center(cs) = Center(bodies)
    BY <2>1, <2>2, <2>3, <2>0, SolvedKeepsMomentum
  <2>5. SolveDivides(cs, a, Other(a), touch) =>
           /\ Momentum(Solved(cs, a, Other(a), touch)) = Momentum(cs)
           /\ Center(Solved(cs, a, Other(a), touch)) = Center(cs)
    BY <2>1, <2>2, <2>3, <2>0, SolvedKeepsMomentum
  <2> QED
    BY <2>1, <2>4, <2>5
<1>2. ContactInv /\ Resolve /\ Dynamics = {1, 2} =>
          LET Velocity(body) == body.Velocity
              Position(body) == body.Position
          IN  /\ Weighted(bodies', Velocity) = Weighted(bodies, Velocity)
              /\ Weighted(bodies', Position) = Weighted(bodies, Position)
  <2>1. ContactInv /\ Resolve /\ ~BothThere => bodies' = bodies
    BY GoneStay
  <2> QED
    BY <1>1, <2>1 DEF Weighted, Momentum, Center
<1> QED
  BY <1>2, ContactTyped, PTL DEF MomentumIsKept

\* A contact with a destroyed body moves neither, for every mass, shape, type and
\* order (Contact.cpp:143-145, 177-179, World.cpp:71).
THEOREM ContactWithGoneIsVoid == Spec => GoneBodiesPushNobody
<1>1. ContactInv /\ Resolve /\ ~BothThere => bodies' = bodies
  BY GoneStay
<1> QED
  BY <1>1, ContactTyped, PTL DEF GoneBodiesPushNobody

-----------------------------------------------------------------------------
(* The contact that is found after bodies were pushed along its normal.    *)

\* A placed shape moves as its body does.
LEMMA PlacedMoves ==
    ASSUME ContactInv, NEW ds, NEW i \in 1..2, NEW step \in Vec,
           ds[i].Position = Plus(bodies[i].Position, step)
    PROVE  LET old == Placed(bodies, i)
               new == Placed(ds, i)
           IN  /\ new.type = old.type
               /\ IsCircle(old) => new.center = Plus(old.center, step) /\ new.radius = old.radius
               /\ IsRectangle(old) => /\ new.minBound = Plus(old.minBound, step)
                                      /\ new.maxBound = Plus(old.maxBound, step)
<1>1. colliders[i].Shape \in Shapes /\ bodies[i].Position \in Vec
  <2>1. bodies[i] \in BodyRecord /\ colliders[i] \in [Shape : Shapes, Restitution : Restitutions]
    BY DEF ContactInv
  <2> QED
    BY <2>1 DEF BodyRecord
<1>2. PICK shape \in Shapes : shape = colliders[i].Shape
  BY <1>1
<1>3. PICK pos \in Vec : pos = bodies[i].Position
  BY <1>1
<1>4. Placed(bodies, i) = Translate(shape, pos) /\ Placed(ds, i) = Translate(shape, Plus(pos, step))
  BY <1>2, <1>3 DEF Placed
<1>5. \A u \in Vec : Plus(u, Plus(pos, step)) = Plus(Plus(u, pos), step)
  <2> TAKE u \in Vec
  <2>1. PICK c, d, e, f, g, h \in Int : u = <<c, d>> /\ pos = <<e, f>> /\ step = <<g, h>>
    BY DEF Vec
  <2>2. c + (e + g) = (c + e) + g /\ d + (f + h) = (d + f) + h
    OBVIOUS
  <2>3. /\ Plus(u, Plus(pos, step)) = <<c + (e + g), d + (f + h)>>
        /\ Plus(Plus(u, pos), step) = <<(c + e) + g, (d + f) + h>>
    BY <2>1 DEF Plus
  <2> QED
    BY <2>2, <2>3
<1>6. IsCircle(shape) \/ IsRectangle(shape) \/ shape.type = "Polygon"
  BY ContactAssumption DEF IsCircle, IsRectangle
<1>7. CASE IsCircle(shape)
  <2>1. \A u \in Vec : Translate(shape, u) = Circle(Plus(shape.center, u), shape.radius)
    BY <1>7 DEF Translate, IsCircle
  <2>2. Plus(pos, step) \in Vec
    BY VectorOps
  <2> QED
    BY <1>4, <1>5, <1>7, <2>1, <2>2 DEF IsCircle, IsRectangle, Circle
<1>8. CASE IsRectangle(shape)
  <2>1. \A u \in Vec :
            Translate(shape, u) = Rectangle(Plus(shape.minBound, u), Plus(shape.maxBound, u))
    BY <1>8 DEF Translate, IsRectangle
  <2>2. Plus(pos, step) \in Vec
    BY VectorOps
  <2> QED
    BY <1>4, <1>5, <1>8, <2>1, <2>2 DEF IsRectangle, IsCircle, Rectangle
<1>9. CASE shape.type = "Polygon"
  BY <1>4, <1>9 DEF Translate, Polygon, IsCircle, IsRectangle
<1> QED
  BY <1>6, <1>7, <1>8, <1>9

\* How far a coordinate is from an interval.
Gap(z, min, max) == z - Clamp(z, min, max)

\* Directions and lengths on the axes.
LEMMA DirectionIs ==
    ASSUME NEW c \in Int
    PROVE  /\ c > 0 => /\ DirectionOrUp(<<c, 0>>) = <<1, 0>> /\ Length(<<c, 0>>) = c
                       /\ DirectionOrUp(<<0, c>>) = <<0, 1>> /\ Length(<<0, c>>) = c
           /\ c < 0 => /\ DirectionOrUp(<<c, 0>>) = <<-1, 0>> /\ Length(<<c, 0>>) = -c
                       /\ DirectionOrUp(<<0, c>>) = <<0, -1>> /\ Length(<<0, c>>) = -c
           /\ c = 0 => DirectionOrUp(<<0, c>>) = <<0, 1>> /\ Length(<<0, c>>) = 0
<1>1. /\ c > 0 => Abs(c) = c /\ Sign(c) = 1
      /\ c < 0 => Abs(c) = -c /\ Sign(c) = -1
      /\ Abs(0) = 0 /\ Sign(0) = 0
  BY DEF Abs, Sign
<1>2. Length(<<c, 0>>) = Abs(c) + Abs(0) /\ Length(<<0, c>>) = Abs(0) + Abs(c)
  BY DEF Length
<1>3. /\ c > 0 => Length(<<c, 0>>) = c /\ Length(<<0, c>>) = c
      /\ c < 0 => Length(<<c, 0>>) = -c /\ Length(<<0, c>>) = -c
      /\ c = 0 => Length(<<0, c>>) = 0
  BY <1>1, <1>2
<1>4. /\ Direction(<<c, 0>>) = <<Sign(c), Sign(0)>>
      /\ Direction(<<0, c>>) = <<Sign(0), Sign(c)>>
  BY DEF Direction
<1>5. CASE c > 0
  <2>1. Length(<<c, 0>>) > 0 /\ Length(<<0, c>>) > 0
    BY <1>3, <1>5
  <2> QED
    BY <1>1, <1>3, <1>4, <1>5, <2>1 DEF DirectionOrUp
<1>6. CASE c < 0
  <2>1. Length(<<c, 0>>) > 0 /\ Length(<<0, c>>) > 0
    BY <1>3, <1>6
  <2> QED
    BY <1>1, <1>3, <1>4, <1>6, <2>1 DEF DirectionOrUp
<1>7. CASE c = 0
  BY <1>3, <1>7 DEF DirectionOrUp, Up
<1> QED
  BY <1>5, <1>6, <1>7

\* A step along its own direction makes a vector longer by as much.  One from the
\* origin goes up, by as much as the step or less.
LEMMA StepOut ==
    ASSUME NEW u \in Vec, OnAxis(u), NEW t \in Nat, NEW w,
           \/ w = Plus(u, Scale(t, DirectionOrUp(u)))
           \/ u = <<0, 0>> /\ \E e \in 0..t : w = <<0, e>>
    PROVE  /\ DirectionOrUp(w) = DirectionOrUp(u)
           /\ Length(w) \in Int /\ Length(u) <= Length(w) /\ Length(w) <= Length(u) + t
           /\ w = Plus(u, Scale(t, DirectionOrUp(u))) => Length(w) = Length(u) + t
<1>1. PICK x, y \in Int : u = <<x, y>> /\ (x = 0 \/ y = 0)
  BY DEF Vec, OnAxis
<1>2. \A c, d \in Int : Plus(<<x, y>>, Scale(t, <<c, d>>)) = <<x + t * c, y + t * d>>
  BY DEF Plus, Scale
<1>3. CASE x > 0
  <2>1. DirectionOrUp(u) = <<1, 0>> /\ Length(u) = x
    <3>1. u = <<x, 0>>
      BY <1>1, <1>3
    <3> QED
      BY <1>3, <3>1, DirectionIs
  <2>2. w = <<x + t, 0>>
    <3>1. u # <<0, 0>>
      BY <1>1, <1>3
    <3>2. w = Plus(<<x, y>>, Scale(t, <<1, 0>>))
      BY <1>1, <2>1, <3>1
    <3>3. w = <<x + t * 1, y + t * 0>> /\ t * 1 = t /\ t * 0 = 0 /\ y + 0 = 0
      BY <1>1, <1>2, <1>3, <3>2
    <3> QED
      BY <3>3
  <2>3. x + t \in Int /\ x + t > 0
    BY <1>3
  <2>4. DirectionOrUp(w) = <<1, 0>> /\ Length(w) = x + t
    BY <2>2, <2>3, DirectionIs
  <2> QED
    BY <2>1, <2>3, <2>4
<1>4. CASE x < 0
  <2>1. DirectionOrUp(u) = <<-1, 0>> /\ Length(u) = -x
    <3>1. u = <<x, 0>>
      BY <1>1, <1>4
    <3> QED
      BY <1>4, <3>1, DirectionIs
  <2>2. w = <<x - t, 0>>
    <3>1. u # <<0, 0>>
      BY <1>1, <1>4
    <3>2. w = Plus(<<x, y>>, Scale(t, <<-1, 0>>))
      BY <1>1, <2>1, <3>1
    <3>3. w = <<x + t * (-1), y + t * 0>> /\ t * (-1) = -t /\ t * 0 = 0 /\ y + 0 = 0
      BY <1>1, <1>2, <1>4, <3>2
    <3>4. x + (-t) = x - t
      OBVIOUS
    <3> QED
      BY <3>3, <3>4
  <2>3. x - t \in Int /\ x - t < 0 /\ -(x - t) = -x + t
    BY <1>4
  <2>4. DirectionOrUp(w) = <<-1, 0>> /\ Length(w) = -(x - t)
    BY <2>2, <2>3, DirectionIs
  <2> QED
    BY <2>1, <2>3, <2>4
<1>5. CASE x = 0 /\ y < 0
  <2>1. DirectionOrUp(u) = <<0, -1>> /\ Length(u) = -y
    BY <1>1, <1>5, DirectionIs
  <2>2. w = <<0, y - t>>
    <3>1. u # <<0, 0>>
      BY <1>1, <1>5
    <3>2. w = Plus(<<x, y>>, Scale(t, <<0, -1>>))
      BY <1>1, <2>1, <3>1
    <3>3. w = <<x + t * 0, y + t * (-1)>> /\ t * (-1) = -t /\ t * 0 = 0 /\ x + 0 = 0
      BY <1>1, <1>2, <1>5, <3>2
    <3>4. y + (-t) = y - t
      OBVIOUS
    <3> QED
      BY <3>3, <3>4
  <2>3. y - t \in Int /\ y - t < 0 /\ -(y - t) = -y + t
    BY <1>5
  <2>4. DirectionOrUp(w) = <<0, -1>> /\ Length(w) = -(y - t)
    BY <2>2, <2>3, DirectionIs
  <2> QED
    BY <2>1, <2>3, <2>4
<1>6. CASE x = 0 /\ y >= 0
  <2>1. DirectionOrUp(u) = <<0, 1>> /\ Length(u) = y
    <3>1. u = <<0, y>>
      BY <1>1, <1>6
    <3>2. CASE y > 0
      BY <3>1, <3>2, DirectionIs
    <3>3. CASE y = 0
      BY <3>1, <3>3, DirectionIs
    <3> QED
      BY <1>6, <3>2, <3>3
  <2>2. Plus(u, Scale(t, DirectionOrUp(u))) = <<0, y + t>>
    <3>1. Plus(u, Scale(t, DirectionOrUp(u))) = <<x + t * 0, y + t * 1>>
      BY <1>1, <1>2, <2>1
    <3>2. t * 0 = 0 /\ x + 0 = 0 /\ t * 1 = t
      BY <1>6
    <3> QED
      BY <3>1, <3>2
  <2>3. PICK e \in Int : w = <<0, e>> /\ y <= e /\ e <= y + t
    <3>1. CASE w = Plus(u, Scale(t, DirectionOrUp(u)))
      BY <2>2, <3>1
    <3>2. CASE u = <<0, 0>> /\ \E e \in 0..t : w = <<0, e>>
      <4>1. y = 0
        BY <1>1, <3>2
      <4> QED
        BY <3>2, <4>1
    <3> QED
      BY <3>1, <3>2
  <2>4. e >= 0
    BY <1>6, <2>3
  <2>5. DirectionOrUp(w) = <<0, 1>> /\ Length(w) = e
    <3>1. CASE e > 0
      BY <2>3, <3>1, DirectionIs
    <3>2. CASE e = 0
      BY <2>3, <3>2, DirectionIs
    <3> QED
      BY <2>4, <3>1, <3>2
  <2>6. w = Plus(u, Scale(t, DirectionOrUp(u))) => e = y + t
    BY <2>2, <2>3
  <2> QED
    BY <2>1, <2>3, <2>5, <2>6
<1> QED
  BY <1>1, <1>3, <1>4, <1>5, <1>6

\* The touch of two rectangles of so much size together, their centres apart by so
\* much (twice both).
RectanglesAt(size, delta) ==
    LET depth == [k \in 1..2 |-> (size[k] - Abs(delta[k])) \div 2]
        axis  == IF depth[1] < depth[2] THEN <<1, 0>> ELSE <<0, 1>>
    IN  [Normal |-> Scale(IF Dot(delta, axis) > 0 THEN 1 ELSE -1, axis),
         Penetration |-> Dot(depth, axis)]

TouchBy(i, j, x, y) ==
    IF i < j THEN [Normal |-> <<IF x > 0 THEN 1 ELSE -1, 0>>, Penetration |-> i]
             ELSE [Normal |-> <<0, IF y > 0 THEN 1 ELSE -1>>, Penetration |-> j]

\* By coordinates.
LEMMA RectanglesAtIs ==
    ASSUME NEW c \in Int, NEW d \in Int, NEW x \in Int, NEW y \in Int
    PROVE  RectanglesAt(<<c, d>>, <<x, y>>)
             = TouchBy((c - Abs(x)) \div 2, (d - Abs(y)) \div 2, x, y)
<1>0. PICK i, j \in Int : i = (c - Abs(x)) \div 2 /\ j = (d - Abs(y)) \div 2
  <2>1. c - Abs(x) \in Int /\ d - Abs(y) \in Int
    BY DEF Abs
  <2>2. \A z \in Int : z \div 2 \in Int
    OBVIOUS
  <2> QED
    BY <2>1, <2>2
<1>1. PICK depth : depth = [k \in 1..2 |-> (<<c, d>>[k] - Abs(<<x, y>>[k])) \div 2]
  OBVIOUS
<1>2. depth[1] = i /\ depth[2] = j
  BY <1>0, <1>1
<1>3. CASE i < j
  <2>1. Dot(<<x, y>>, <<1, 0>>) = x /\ Dot(depth, <<1, 0>>) = i
    BY <1>2 DEF Dot
  <2>2. \A f \in {1, -1} : Scale(f, <<1, 0>>) = <<f, 0>>
    BY DEF Scale
  <2>3. RectanglesAt(<<c, d>>, <<x, y>>)
            = [Normal |-> Scale(IF x > 0 THEN 1 ELSE -1, <<1, 0>>), Penetration |-> i]
    BY <1>1, <1>2, <1>3, <2>1 DEF RectanglesAt
  <2> QED
    BY <1>0, <1>3, <2>2, <2>3 DEF TouchBy
<1>4. CASE ~(i < j)
  <2>1. Dot(<<x, y>>, <<0, 1>>) = y /\ Dot(depth, <<0, 1>>) = j
    BY <1>2 DEF Dot
  <2>2. \A f \in {1, -1} : Scale(f, <<0, 1>>) = <<0, f>>
    BY DEF Scale
  <2>3. RectanglesAt(<<c, d>>, <<x, y>>)
            = [Normal |-> Scale(IF y > 0 THEN 1 ELSE -1, <<0, 1>>), Penetration |-> j]
    BY <1>1, <1>2, <1>4, <2>1 DEF RectanglesAt
  <2> QED
    BY <1>0, <1>4, <2>2, <2>3 DEF TouchBy
<1> QED
  BY <1>3, <1>4

\* Rectangles that are pushed along their normal touch along it still, and are in
\* each other by as much less.
LEMMA RectanglesStep ==
    ASSUME NEW size \in Vec, NEW delta \in Vec, NEW t \in Nat
    PROVE  LET touch == RectanglesAt(size, delta)
           IN  RectanglesAt(size, Plus(delta, Scale(2 * t, touch.Normal)))
                 = [Normal |-> touch.Normal, Penetration |-> touch.Penetration - t]
<1>1. PICK c, d, x, y \in Int : size = <<c, d>> /\ delta = <<x, y>>
  BY DEF Vec
<1>2. PICK touch : touch = RectanglesAt(size, delta)
  OBVIOUS
<1>3. PICK i, j \in Int : i = (c - Abs(x)) \div 2 /\ j = (d - Abs(y)) \div 2
  <2>1. c - Abs(x) \in Int /\ d - Abs(y) \in Int
    BY DEF Abs
  <2>2. \A z \in Int : z \div 2 \in Int
    OBVIOUS
  <2> QED
    BY <2>1, <2>2
<1>4. \A z \in Int : (z - 2 * t) \div 2 = (z \div 2) - t
  OBVIOUS
<1>5. \A z, w \in Int :
          /\ z > 0 => w - Abs(z + 2 * t) = (w - Abs(z)) - 2 * t
          /\ ~(z > 0) => w - Abs(z - 2 * t) = (w - Abs(z)) - 2 * t
          /\ w - Abs(z) \in Int
  BY DEF Abs
<1>6. \A z, w \in Int :
          /\ z > 0 => (w - Abs(z + 2 * t)) \div 2 = ((w - Abs(z)) \div 2) - t
          /\ ~(z > 0) => (w - Abs(z - 2 * t)) \div 2 = ((w - Abs(z)) \div 2) - t
  BY <1>4, <1>5
<1>7. \A e, f \in Int : Plus(delta, Scale(2 * t, <<e, f>>)) = <<x + (2 * t) * e, y + (2 * t) * f>>
  BY <1>1 DEF Plus, Scale
<1>8. (2 * t) * 1 = 2 * t /\ (2 * t) * (-1) = -(2 * t) /\ (2 * t) * 0 = 0 /\ x + 0 = x /\ y + 0 = y
      /\ x + (-(2 * t)) = x - 2 * t /\ y + (-(2 * t)) = y - 2 * t
  OBVIOUS
<1>9. CASE i < j
  <2>1. CASE x > 0
    <3>1. touch.Normal = <<1, 0>> /\ touch.Penetration = i
      <4>1. touch = RectanglesAt(<<c, d>>, <<x, y>>)
        BY <1>1, <1>2
      <4>2. touch = [Normal |-> <<1, 0>>, Penetration |-> i]
        <5>1. touch = TouchBy(i, j, x, y)
          BY <1>3, <4>1, RectanglesAtIs
        <5> QED
          BY <1>9, <2>1, <5>1 DEF TouchBy
      <4> QED
        BY <4>2
    <3>2. Plus(delta, Scale(2 * t, touch.Normal)) = <<x + 2 * t, y>>
      BY <1>7, <1>8, <3>1
    <3>3. (c - Abs(x + 2 * t)) \div 2 = i - t /\ i - t < j /\ x + 2 * t > 0
      BY <1>3, <1>6, <1>9, <2>1
    <3>4. RectanglesAt(size, <<x + 2 * t, y>>) = [Normal |-> <<1, 0>>, Penetration |-> i - t]
      <4>1. PICK z, w \in Int : z = x + 2 * t /\ w = i - t
        OBVIOUS
      <4>2. RectanglesAt(<<c, d>>, <<z, y>>) = [Normal |-> <<1, 0>>, Penetration |-> w]
        <5>1. RectanglesAt(<<c, d>>, <<z, y>>) = TouchBy(w, j, z, y)
          BY <1>3, <3>3, <4>1, RectanglesAtIs
        <5> QED
          BY <3>3, <4>1, <5>1 DEF TouchBy
      <4> QED
        BY <1>1, <4>1, <4>2
    <3> QED
      BY <1>2, <3>1, <3>2, <3>4
  <2>2. CASE ~(x > 0)
    <3>1. touch.Normal = <<-1, 0>> /\ touch.Penetration = i
      <4>1. touch = RectanglesAt(<<c, d>>, <<x, y>>)
        BY <1>1, <1>2
      <4>2. touch = [Normal |-> <<-1, 0>>, Penetration |-> i]
        <5>1. touch = TouchBy(i, j, x, y)
          BY <1>3, <4>1, RectanglesAtIs
        <5> QED
          BY <1>9, <2>2, <5>1 DEF TouchBy
      <4> QED
        BY <4>2
    <3>2. Plus(delta, Scale(2 * t, touch.Normal)) = <<x - 2 * t, y>>
      BY <1>7, <1>8, <3>1
    <3>3. (c - Abs(x - 2 * t)) \div 2 = i - t /\ i - t < j /\ ~(x - 2 * t > 0)
      BY <1>3, <1>6, <1>9, <2>2
    <3>4. RectanglesAt(size, <<x - 2 * t, y>>) = [Normal |-> <<-1, 0>>, Penetration |-> i - t]
      <4>1. PICK z, w \in Int : z = x - 2 * t /\ w = i - t
        OBVIOUS
      <4>2. RectanglesAt(<<c, d>>, <<z, y>>) = [Normal |-> <<-1, 0>>, Penetration |-> w]
        <5>1. RectanglesAt(<<c, d>>, <<z, y>>) = TouchBy(w, j, z, y)
          BY <1>3, <3>3, <4>1, RectanglesAtIs
        <5> QED
          BY <3>3, <4>1, <5>1 DEF TouchBy
      <4> QED
        BY <1>1, <4>1, <4>2
    <3> QED
      BY <1>2, <3>1, <3>2, <3>4
  <2> QED
    BY <2>1, <2>2
<1>10. CASE ~(i < j)
  <2>1. CASE y > 0
    <3>1. touch.Normal = <<0, 1>> /\ touch.Penetration = j
      <4>1. touch = RectanglesAt(<<c, d>>, <<x, y>>)
        BY <1>1, <1>2
      <4>2. touch = [Normal |-> <<0, 1>>, Penetration |-> j]
        <5>1. touch = TouchBy(i, j, x, y)
          BY <1>3, <4>1, RectanglesAtIs
        <5> QED
          BY <1>10, <2>1, <5>1 DEF TouchBy
      <4> QED
        BY <4>2
    <3>2. Plus(delta, Scale(2 * t, touch.Normal)) = <<x, y + 2 * t>>
      BY <1>7, <1>8, <3>1
    <3>3. (d - Abs(y + 2 * t)) \div 2 = j - t /\ ~(i < j - t) /\ y + 2 * t > 0
      BY <1>3, <1>6, <1>10, <2>1
    <3>4. RectanglesAt(size, <<x, y + 2 * t>>) = [Normal |-> <<0, 1>>, Penetration |-> j - t]
      <4>1. PICK z, w \in Int : z = y + 2 * t /\ w = j - t
        OBVIOUS
      <4>2. RectanglesAt(<<c, d>>, <<x, z>>) = [Normal |-> <<0, 1>>, Penetration |-> w]
        <5>1. RectanglesAt(<<c, d>>, <<x, z>>) = TouchBy(i, w, x, z)
          BY <1>3, <3>3, <4>1, RectanglesAtIs
        <5> QED
          BY <3>3, <4>1, <5>1 DEF TouchBy
      <4> QED
        BY <1>1, <4>1, <4>2
    <3> QED
      BY <1>2, <3>1, <3>2, <3>4
  <2>2. CASE ~(y > 0)
    <3>1. touch.Normal = <<0, -1>> /\ touch.Penetration = j
      <4>1. touch = RectanglesAt(<<c, d>>, <<x, y>>)
        BY <1>1, <1>2
      <4>2. touch = [Normal |-> <<0, -1>>, Penetration |-> j]
        <5>1. touch = TouchBy(i, j, x, y)
          BY <1>3, <4>1, RectanglesAtIs
        <5> QED
          BY <1>10, <2>2, <5>1 DEF TouchBy
      <4> QED
        BY <4>2
    <3>2. Plus(delta, Scale(2 * t, touch.Normal)) = <<x, y - 2 * t>>
      BY <1>7, <1>8, <3>1
    <3>3. (d - Abs(y - 2 * t)) \div 2 = j - t /\ ~(i < j - t) /\ ~(y - 2 * t > 0)
      BY <1>3, <1>6, <1>10, <2>2
    <3>4. RectanglesAt(size, <<x, y - 2 * t>>) = [Normal |-> <<0, -1>>, Penetration |-> j - t]
      <4>1. PICK z, w \in Int : z = y - 2 * t /\ w = j - t
        OBVIOUS
      <4>2. RectanglesAt(<<c, d>>, <<x, z>>) = [Normal |-> <<0, -1>>, Penetration |-> w]
        <5>1. RectanglesAt(<<c, d>>, <<x, z>>) = TouchBy(i, w, x, z)
          BY <1>3, <3>3, <4>1, RectanglesAtIs
        <5> QED
          BY <3>3, <4>1, <5>1 DEF TouchBy
      <4> QED
        BY <1>1, <4>1, <4>2
    <3> QED
      BY <1>2, <3>1, <3>2, <3>4
  <2> QED
    BY <2>1, <2>2
<1> QED
  BY <1>9, <1>10

\* Bodies a and b of ds are those of the state, pushed by p and q along the normal.
PushedApart(ds, a, b, p, q, normal) ==
    /\ ds[a].Position = Plus(bodies[a].Position, Scale(p, normal))
    /\ ds[b].Position = Plus(bodies[b].Position, Scale(-q, normal))

\* What a circle is pushed along, after it was pushed.
LEMMA CircleDeltaMoves ==
    ASSUME ContactInv, NEW a \in 1..2, NEW b \in 1..2,
           Placed(bodies, a).type = "Circle", Placed(bodies, b).type # "Polygon",
           OnAxis(CircleDelta(bodies, a, b)), NEW ds, NEW p \in Nat, NEW q \in Nat,
           PushedApart(ds, a, b, p, q, DirectionOrUp(CircleDelta(bodies, a, b)))
    PROVE  LET u == CircleDelta(bodies, a, b)
               w == CircleDelta(ds, a, b)
           IN  /\ \/ w = Plus(u, Scale(p + q, DirectionOrUp(u)))
                  \/ u = <<0, 0>> /\ \E e \in 0..(p + q) : w = <<0, e>>
               /\ Placed(bodies, b).type = "Circle" => w = Plus(u, Scale(p + q, DirectionOrUp(u)))
<1>1. PICK u \in Vec : u = CircleDelta(bodies, a, b)
  BY CircleDeltaIs
<1>2. PICK n \in Vec : n = DirectionOrUp(u)
  BY DirectionIsUnit
<1>3. PICK m, l \in Int : n = <<m, l>>
  BY DEF Vec
<1>4. Scale(p, n) = <<p * m, p * l>> /\ Scale(-q, n) = <<(-q) * m, (-q) * l>>
      /\ Scale(p, n) \in Vec /\ Scale(-q, n) \in Vec
  BY <1>3 DEF Scale, Vec
<1>5. PICK r0, r1, s0, s1 : /\ r0 = Placed(bodies, a) /\ s0 = Placed(ds, a)
                            /\ r1 = Placed(bodies, b) /\ s1 = Placed(ds, b)
  OBVIOUS
<1>6. /\ ds[a].Position = Plus(bodies[a].Position, Scale(p, n))
      /\ ds[b].Position = Plus(bodies[b].Position, Scale(-q, n))
  BY <1>1, <1>2 DEF PushedApart
<1>7. /\ IsCircle(r0) /\ (IsCircle(r1) \/ IsRectangle(r1))
  BY <1>5, PlacedIs DEF IsCircle, IsRectangle
<1>8. s0.center = Plus(r0.center, <<p * m, p * l>>) /\ s0.type = "Circle"
  BY <1>4, <1>5, <1>6, <1>7, PlacedMoves
<1>9. PICK x, y \in Int : r0.center = <<x, y>>
  BY <1>7 DEF IsCircle, Vec
<1>10. s0.center = <<x + p * m, y + p * l>>
  BY <1>8, <1>9, PlusPair
<1>11. PICK t \in Nat : t = p + q
  OBVIOUS
<1>12. \A z, e \in Int : (z + p * e) - (-q) * e = z + t * e /\ t * e = p * e + q * e
  BY <1>11
<1>13. CASE IsCircle(r1)
  <2>1. s1.center = Plus(r1.center, <<(-q) * m, (-q) * l>>) /\ s1.type = "Circle"
    BY <1>4, <1>5, <1>6, <1>13, PlacedMoves DEF IsCircle
  <2>2. PICK c, d \in Int : r1.center = <<c, d>>
    BY <1>13 DEF IsCircle, Vec
  <2>3. s1.center = <<c + (-q) * m, d + (-q) * l>>
    BY <2>1, <2>2, PlusPair
  <2>4. u = <<x - c, y - d>>
    BY <1>1, <1>5, <1>9, <1>13, <2>2 DEF CircleDelta, Minus, IsCircle
  <2>5. CircleDelta(ds, a, b) = Minus(s0.center, s1.center)
    BY <1>5, <2>1 DEF CircleDelta
  <2>6. CircleDelta(ds, a, b)
            = <<(x + p * m) - (c + (-q) * m), (y + p * l) - (d + (-q) * l)>>
    BY <1>10, <2>3, <2>5 DEF Minus
  <2>7. Plus(u, Scale(t, n)) = <<(x - c) + t * m, (y - d) + t * l>>
    BY <1>3, <2>4 DEF Plus, Scale
  <2>8. /\ (x + p * m) - (c + (-q) * m) = (x - c) + t * m
        /\ (y + p * l) - (d + (-q) * l) = (y - d) + t * l
    <3>1. /\ (x + p * m) - (c + (-q) * m) = (x - c) + (p * m + q * m)
          /\ (y + p * l) - (d + (-q) * l) = (y - d) + (p * l + q * l)
      OBVIOUS
    <3> QED
      BY <1>12, <3>1
  <2>9. CircleDelta(ds, a, b) = Plus(u, Scale(t, n))
    BY <2>6, <2>7, <2>8
  <2> QED
    BY <1>1, <1>2, <1>11, <2>9
<1>14. CASE IsRectangle(r1)
  <2>1. /\ s1.minBound = Plus(r1.minBound, <<(-q) * m, (-q) * l>>)
        /\ s1.maxBound = Plus(r1.maxBound, <<(-q) * m, (-q) * l>>)
        /\ s1.type = "Rectangle"
    BY <1>4, <1>5, <1>6, <1>14, PlacedMoves DEF IsRectangle
  <2>2. PICK c, d, f, g \in Int : r1.minBound = <<c, d>> /\ r1.maxBound = <<f, g>>
    BY <1>14 DEF IsRectangle, Vec
  <2>3. /\ s1.minBound = <<c + (-q) * m, d + (-q) * l>>
        /\ s1.maxBound = <<f + (-q) * m, g + (-q) * l>>
    BY <2>1, <2>2, PlusPair
  <2>4. u = <<Gap(x, c, f), Gap(y, d, g)>>
    <3>1. PICK v : v = [k \in 1..2 |-> Clamp(r0.center[k], r1.minBound[k], r1.maxBound[k])]
      OBVIOUS
    <3>2. v[1] = Clamp(x, c, f) /\ v[2] = Clamp(y, d, g)
      BY <1>9, <2>2, <3>1
    <3>3. u = Minus(r0.center, v)
      BY <1>1, <1>5, <1>14, <3>1 DEF CircleDelta, IsRectangle
    <3> QED
      BY <1>9, <3>2, <3>3 DEF Minus, Gap
  <2>5. CircleDelta(ds, a, b)
            = <<Gap(x + p * m, c + (-q) * m, f + (-q) * m),
                Gap(y + p * l, d + (-q) * l, g + (-q) * l)>>
    <3>1. PICK v : v = [k \in 1..2 |-> Clamp(s0.center[k], s1.minBound[k], s1.maxBound[k])]
      OBVIOUS
    <3>2. /\ v[1] = Clamp(x + p * m, c + (-q) * m, f + (-q) * m)
          /\ v[2] = Clamp(y + p * l, d + (-q) * l, g + (-q) * l)
      BY <1>10, <2>3, <3>1
    <3>3. CircleDelta(ds, a, b) = Minus(s0.center, v)
      BY <1>5, <2>1, <3>1 DEF CircleDelta
    <3> QED
      BY <1>10, <3>2, <3>3 DEF Minus, Gap
  <2>6. CircleDelta(ds, a, b) = <<Gap(x + t * m, c, f), Gap(y + t * l, d, g)>>
    <3>1. \A z, e, h, i \in Int :
             Gap(z + p * e, h + (-q) * e, i + (-q) * e) = Gap(z + t * e, h, i)
      <4> TAKE z, e, h, i \in Int
      <4>1. PICK j, k \in Int : j = p * e /\ k = q * e
        OBVIOUS
      <4>2. h + (-q) * e = h - k /\ i + (-q) * e = i - k /\ t * e = j + k
        BY <1>12, <4>1
      <4>3. Gap(z + j, h - k, i - k) = Gap(z + (j + k), h, i)
        BY DEF Gap, Clamp
      <4> QED
        BY <4>1, <4>2, <4>3
    <3> QED
      BY <2>5, <3>1
  <2>7. PICK i, j \in Int : i = Gap(x, c, f) /\ j = Gap(y, d, g)
    <3>1. Gap(x, c, f) \in Int /\ Gap(y, d, g) \in Int
      BY DEF Gap, Clamp
    <3> QED
      BY <3>1
  <2>8. u = <<i, j>> /\ (i = 0 \/ j = 0)
    BY <1>1, <2>4, <2>7 DEF OnAxis
  <2>9. /\ i > 0 => Gap(x + t, c, f) = i + t
        /\ i < 0 => Gap(x + (-t), c, f) = i + (-t)
        /\ j > 0 => Gap(y + t, d, g) = j + t
        /\ j < 0 => Gap(y + (-t), d, g) = j + (-t)
        /\ j = 0 => Gap(y + t, d, g) \in 0..t
    <3>1. -t \in Int /\ -t <= 0 /\ t >= 0
      OBVIOUS
    <3>2. /\ i > 0 => Gap(x + t, c, f) = i + t
          /\ i < 0 => Gap(x + (-t), c, f) = i + (-t)
      BY <2>7, <3>1 DEF Gap, Clamp
    <3>3. /\ j > 0 => Gap(y + t, d, g) = j + t
          /\ j < 0 => Gap(y + (-t), d, g) = j + (-t)
          /\ j = 0 => Gap(y + t, d, g) \in 0..t
      BY <2>7, <3>1 DEF Gap, Clamp
    <3> QED
      BY <3>2, <3>3
  <2>10. t * 1 = t /\ t * 0 = 0 /\ t * (-1) = -t /\ x + 0 = x /\ y + 0 = y
         /\ i + 0 = i /\ j + 0 = j
    OBVIOUS
  <2>11. Plus(u, Scale(t, n)) = <<i + t * m, j + t * l>>
    BY <1>3, <2>8 DEF Plus, Scale
  <2>12. CASE i > 0
    <3>1. n = <<1, 0>>
      <4>1. u = <<i, 0>>
        BY <2>8, <2>12
      <4> QED
        BY <1>2, <2>12, <4>1, DirectionIs
    <3>2. m = 1 /\ l = 0
      BY <1>3, <3>1
    <3>3. CircleDelta(ds, a, b) = <<i + t, j>> /\ Plus(u, Scale(t, n)) = <<i + t, j>>
      BY <2>6, <2>7, <2>9, <2>10, <2>11, <2>12, <3>2
    <3> QED
      BY <1>1, <1>2, <1>5, <1>11, <1>14, <3>3 DEF IsRectangle
  <2>13. CASE i < 0
    <3>1. n = <<-1, 0>>
      <4>1. u = <<i, 0>>
        BY <2>8, <2>13
      <4> QED
        BY <1>2, <2>13, <4>1, DirectionIs
    <3>2. m = -1 /\ l = 0
      BY <1>3, <3>1
    <3>3. CircleDelta(ds, a, b) = <<i + (-t), j>> /\ Plus(u, Scale(t, n)) = <<i + (-t), j>>
      BY <2>6, <2>7, <2>9, <2>10, <2>11, <2>13, <3>2
    <3> QED
      BY <1>1, <1>2, <1>5, <1>11, <1>14, <3>3 DEF IsRectangle
  <2>14. CASE i = 0 /\ j > 0
    <3>1. n = <<0, 1>>
      BY <1>2, <2>8, <2>14, DirectionIs
    <3>2. m = 0 /\ l = 1
      BY <1>3, <3>1
    <3>3. CircleDelta(ds, a, b) = <<i, j + t>> /\ Plus(u, Scale(t, n)) = <<i, j + t>>
      BY <2>6, <2>7, <2>9, <2>10, <2>11, <2>14, <3>2
    <3> QED
      BY <1>1, <1>2, <1>5, <1>11, <1>14, <3>3 DEF IsRectangle
  <2>15. CASE i = 0 /\ j < 0
    <3>1. n = <<0, -1>>
      BY <1>2, <2>8, <2>15, DirectionIs
    <3>2. m = 0 /\ l = -1
      BY <1>3, <3>1
    <3>3. CircleDelta(ds, a, b) = <<i, j + (-t)>> /\ Plus(u, Scale(t, n)) = <<i, j + (-t)>>
      BY <2>6, <2>7, <2>9, <2>10, <2>11, <2>15, <3>2
    <3> QED
      BY <1>1, <1>2, <1>5, <1>11, <1>14, <3>3 DEF IsRectangle
  <2>16. CASE i = 0 /\ j = 0
    <3>1. n = <<0, 1>>
      BY <1>2, <2>8, <2>16, DirectionIs
    <3>2. m = 0 /\ l = 1
      BY <1>3, <3>1
    <3>3. PICK e \in 0..t : e = Gap(y + t, d, g)
      BY <2>9, <2>16
    <3>4. CircleDelta(ds, a, b) = <<0, e>> /\ u = <<0, 0>>
      BY <2>6, <2>7, <2>8, <2>10, <2>16, <3>2, <3>3
    <3> QED
      BY <1>1, <1>2, <1>5, <1>11, <1>14, <3>4 DEF IsRectangle
  <2> QED
    BY <2>12, <2>13, <2>14, <2>15, <2>16
<1> QED
  BY <1>7, <1>13, <1>14

\* Both sizes of two rectangles, and twice what is between their centres.
Sizes(r0, r1) == <<r0.maxBound[1] - r0.minBound[1] + r1.maxBound[1] - r1.minBound[1],
                   r0.maxBound[2] - r0.minBound[2] + r1.maxBound[2] - r1.minBound[2]>>

Between(r0, r1) == Minus(Plus(r0.minBound, r0.maxBound), Plus(r1.minBound, r1.maxBound))

LEMMA RectanglesTouch ==
    ASSUME NEW bs, NEW a, NEW b, IsRectangle(Placed(bs, a)), IsRectangle(Placed(bs, b))
    PROVE  RectangleTouch(bs, a, b)
             = RectanglesAt(Sizes(Placed(bs, a), Placed(bs, b)), Between(Placed(bs, a), Placed(bs, b)))
<1>1. PICK r0, r1 : r0 = Placed(bs, a) /\ r1 = Placed(bs, b)
  OBVIOUS
<1>2. PICK delta, size : delta = Between(r0, r1) /\ size = Sizes(r0, r1)
  OBVIOUS
<1>3. PICK depth : depth = [k \in 1..2 |-> (size[k] - Abs(delta[k])) \div 2]
  OBVIOUS
<1>4. [k \in 1..2 |-> (r0.maxBound[k] - r0.minBound[k] + r1.maxBound[k]
                         - r1.minBound[k] - Abs(delta[k])) \div 2] = depth
  <2>1. \A k \in 1..2 : size[k] = r0.maxBound[k] - r0.minBound[k] + r1.maxBound[k] - r1.minBound[k]
    <3>1. \A k \in 1..2 : k = 1 \/ k = 2
      OBVIOUS
    <3> QED
      BY <1>2, <3>1 DEF Sizes
  <2>2. \A k \in 1..2 :
           (r0.maxBound[k] - r0.minBound[k] + r1.maxBound[k] - r1.minBound[k]
              - Abs(delta[k])) \div 2 = (size[k] - Abs(delta[k])) \div 2
    <3> TAKE k \in 1..2
    <3>1. PICK c, d, e, f, g \in Int :
             /\ c = r0.maxBound[k] /\ d = r0.minBound[k]
             /\ e = r1.maxBound[k] /\ f = r1.minBound[k] /\ g = Abs(delta[k])
      <4>1. delta \in Vec
        <5>1. \A u, v \in Vec : Plus(u, v) \in Vec /\ Minus(u, v) \in Vec
          BY VectorOps
        <5> QED
          BY <1>1, <1>2, <5>1 DEF Between, IsRectangle
      <4>2. /\ r0.maxBound[k] \in Int /\ r0.minBound[k] \in Int
            /\ r1.maxBound[k] \in Int /\ r1.minBound[k] \in Int /\ delta[k] \in Int
        BY <1>1, <4>1 DEF IsRectangle, Vec
      <4>3. \A z \in Int : Abs(z) \in Int
        BY DEF Abs
      <4> QED
        BY <4>2, <4>3
    <3>2. c - d + e - f - g = (c - d + e - f) - g
      OBVIOUS
    <3>3. size[k] = c - d + e - f
      BY <2>1, <3>1
    <3> QED
      BY <3>1, <3>2, <3>3
  <2> QED
    BY <1>3, <2>2, Zenon
<1>5. PICK axis : axis = IF depth[1] < depth[2] THEN <<1, 0>> ELSE <<0, 1>>
  OBVIOUS
<1>6. RectangleTouch(bs, a, b)
          = [Normal |-> Scale(IF Dot(delta, axis) > 0 THEN 1 ELSE -1, axis),
             Penetration |-> Dot(depth, axis)]
  BY <1>1, <1>2, <1>4, <1>5 DEF RectangleTouch, Between
<1>7. RectanglesAt(size, delta)
          = [Normal |-> Scale(IF Dot(delta, axis) > 0 THEN 1 ELSE -1, axis),
             Penetration |-> Dot(depth, axis)]
  BY <1>3, <1>5 DEF RectanglesAt
<1> QED
  BY <1>1, <1>2, <1>6, <1>7

\* Rectangles that were pushed apart.
LEMMA RectangleTouchMoves ==
    ASSUME ContactInv, NEW a \in 1..2, NEW b \in 1..2,
           Placed(bodies, a).type = "Rectangle", Placed(bodies, b).type = "Rectangle",
           NEW ds, NEW p \in Nat, NEW q \in Nat,
           PushedApart(ds, a, b, p, q, RectangleTouch(bodies, a, b).Normal)
    PROVE  LET touch == RectangleTouch(bodies, a, b)
           IN  RectangleTouch(ds, a, b)
                 = [Normal |-> touch.Normal, Penetration |-> touch.Penetration - (p + q)]
<1>1. PICK touch : touch = RectangleTouch(bodies, a, b)
  OBVIOUS
<1>2. PICK n \in Vec : n = touch.Normal
  BY <1>1, RectangleTouchIs DEF IsTouch
<1>3. PICK m, l \in Int : n = <<m, l>>
  BY DEF Vec
<1>4. Scale(p, n) = <<p * m, p * l>> /\ Scale(-q, n) = <<(-q) * m, (-q) * l>>
      /\ Scale(p, n) \in Vec /\ Scale(-q, n) \in Vec
  BY <1>3 DEF Scale, Vec
<1>5. PICK r0, r1, s0, s1 : /\ r0 = Placed(bodies, a) /\ s0 = Placed(ds, a)
                            /\ r1 = Placed(bodies, b) /\ s1 = Placed(ds, b)
  OBVIOUS
<1>6. /\ ds[a].Position = Plus(bodies[a].Position, Scale(p, n))
      /\ ds[b].Position = Plus(bodies[b].Position, Scale(-q, n))
  BY <1>1, <1>2 DEF PushedApart
<1>7. IsRectangle(r0) /\ IsRectangle(r1)
  BY <1>5, PlacedIs DEF IsCircle, IsRectangle
<1>8. /\ s0.minBound = Plus(r0.minBound, <<p * m, p * l>>)
      /\ s0.maxBound = Plus(r0.maxBound, <<p * m, p * l>>)
  BY <1>4, <1>5, <1>6, <1>7, PlacedMoves
<1>9. /\ s1.minBound = Plus(r1.minBound, <<(-q) * m, (-q) * l>>)
      /\ s1.maxBound = Plus(r1.maxBound, <<(-q) * m, (-q) * l>>)
  BY <1>4, <1>5, <1>6, <1>7, PlacedMoves
<1>10. PICK c, d, e, f \in Int : r0.minBound = <<c, d>> /\ r0.maxBound = <<e, f>>
  BY <1>7 DEF IsRectangle, Vec
<1>11. PICK g, h, i, j \in Int : r1.minBound = <<g, h>> /\ r1.maxBound = <<i, j>>
  BY <1>7 DEF IsRectangle, Vec
<1>12. PICK t \in Nat : t = p + q
  OBVIOUS
<1>13. PICK pm, pl, qm, ql \in Int : pm = p * m /\ pl = p * l /\ qm = q * m /\ ql = q * l
  OBVIOUS
<1>14. /\ s0.minBound = <<c + pm, d + pl>> /\ s0.maxBound = <<e + pm, f + pl>>
  BY <1>8, <1>10, <1>13, PlusPair
<1>15. /\ s1.minBound = <<g - qm, h - ql>> /\ s1.maxBound = <<i - qm, j - ql>>
  <2>1. (-q) * m = -qm /\ (-q) * l = -ql
    BY <1>13
  <2>2. s1.minBound = <<g + (-qm), h + (-ql)>> /\ s1.maxBound = <<i + (-qm), j + (-ql)>>
    BY <1>9, <1>11, <2>1, PlusPair
  <2> QED
    BY <2>2
<1>16. PICK size \in Vec : size = Sizes(r0, r1) /\ size = <<e - c + i - g, f - d + j - h>>
  <2>1. Sizes(r0, r1) = <<e - c + i - g, f - d + j - h>>
    BY <1>10, <1>11 DEF Sizes
  <2> QED
    BY <2>1 DEF Vec
<1>17. PICK delta \in Vec : /\ delta = Between(r0, r1)
                            /\ delta = <<(c + e) - (g + i), (d + f) - (h + j)>>
  <2>1. Between(r0, r1) = <<(c + e) - (g + i), (d + f) - (h + j)>>
    BY <1>10, <1>11 DEF Between, Plus, Minus
  <2> QED
    BY <2>1 DEF Vec
<1>18. Sizes(s0, s1) = size
  <2>1. Sizes(s0, s1) = <<(e + pm) - (c + pm) + (i - qm) - (g - qm),
                          (f + pl) - (d + pl) + (j - ql) - (h - ql)>>
    BY <1>14, <1>15 DEF Sizes
  <2>2. /\ (e + pm) - (c + pm) + (i - qm) - (g - qm) = e - c + i - g
        /\ (f + pl) - (d + pl) + (j - ql) - (h - ql) = f - d + j - h
    OBVIOUS
  <2> QED
    BY <1>16, <2>1, <2>2
<1>19. Between(s0, s1) = Plus(delta, Scale(2 * t, n))
  <2>1. Between(s0, s1) = <<((c + pm) + (e + pm)) - ((g - qm) + (i - qm)),
                            ((d + pl) + (f + pl)) - ((h - ql) + (j - ql))>>
    BY <1>14, <1>15 DEF Between, Plus, Minus
  <2>2. (2 * t) * m = 2 * (pm + qm) /\ (2 * t) * l = 2 * (pl + ql)
    <3>1. t * m = pm + qm /\ t * l = pl + ql
      BY <1>12, <1>13
    <3>2. (2 * t) * m = 2 * (t * m) /\ (2 * t) * l = 2 * (t * l)
      OBVIOUS
    <3> QED
      BY <3>1, <3>2
  <2>3. /\ ((c + pm) + (e + pm)) - ((g - qm) + (i - qm)) = ((c + e) - (g + i)) + 2 * (pm + qm)
        /\ ((d + pl) + (f + pl)) - ((h - ql) + (j - ql)) = ((d + f) - (h + j)) + 2 * (pl + ql)
    OBVIOUS
  <2>4. Plus(delta, Scale(2 * t, n))
            = <<((c + e) - (g + i)) + (2 * t) * m, ((d + f) - (h + j)) + (2 * t) * l>>
    BY <1>3, <1>17 DEF Plus, Scale
  <2> QED
    BY <2>1, <2>2, <2>3, <2>4
<1>20. touch = RectanglesAt(size, delta)
  BY <1>1, <1>5, <1>7, <1>16, <1>17, RectanglesTouch
<1>21. RectangleTouch(ds, a, b) = RectanglesAt(size, Plus(delta, Scale(2 * t, n)))
  <2>1. IsRectangle(s0) /\ IsRectangle(s1)
    <3>1. s0.type = "Rectangle" /\ s1.type = "Rectangle"
      BY <1>4, <1>5, <1>6, <1>7, PlacedMoves DEF IsRectangle
    <3> QED
      BY <1>14, <1>15, <3>1 DEF IsRectangle, Vec
  <2> QED
    BY <2>1, <1>5, <1>18, <1>19, RectanglesTouch
<1>22. RectanglesAt(size, Plus(delta, Scale(2 * t, RectanglesAt(size, delta).Normal)))
          = [Normal |-> RectanglesAt(size, delta).Normal,
             Penetration |-> RectanglesAt(size, delta).Penetration - t]
  BY RectanglesStep
<1>23. RectangleTouch(ds, a, b) = [Normal |-> touch.Normal, Penetration |-> touch.Penetration - t]
  BY <1>2, <1>20, <1>21, <1>22
<1> QED
  BY <1>1, <1>12, <1>23

\* Whatever the shapes: a contact that pushed its bodies apart is found with the
\* same normal, no deeper, and no less deep than by as much as they were pushed.
LEMMA TouchMoves ==
    ASSUME ContactInv, NEW a \in 1..2, NEW b \in 1..2,
           Placed(bodies, a).type = "Circle" /\ Placed(bodies, b).type # "Polygon"
                => OnAxis(CircleDelta(bodies, a, b)),
           NEW ds, NEW p \in Nat, NEW q \in Nat,
           PushedApart(ds, a, b, p, q, Touch(bodies, a, b).Normal)
    PROVE  LET old == Touch(bodies, a, b)
               new == Touch(ds, a, b)
           IN  /\ new.Normal = old.Normal /\ new.Penetration \in Int
               /\ old.Penetration - (p + q) <= new.Penetration
               /\ new.Penetration <= old.Penetration
               /\ Placed(bodies, a).type = Placed(bodies, b).type =>
                    \/ old.Penetration = 0 /\ new.Penetration = 0
                    \/ new.Penetration = old.Penetration - (p + q)
<1>1. PICK r0, r1, s0, s1 : /\ r0 = Placed(bodies, a) /\ s0 = Placed(ds, a)
                            /\ r1 = Placed(bodies, b) /\ s1 = Placed(ds, b)
  OBVIOUS
<1>2. PICK old, new : old = Touch(bodies, a, b) /\ new = Touch(ds, a, b)
  OBVIOUS
<1>3. PICK n \in Vec : n = old.Normal
  BY <1>2, TouchIs DEF IsTouch
<1>4. old.Penetration \in Int
  BY <1>2, TouchIs DEF IsTouch
<1>5. Scale(p, n) \in Vec /\ Scale(-q, n) \in Vec
  <2>1. \A k \in Int : Scale(k, n) \in Vec
    BY VectorOps
  <2> QED
    BY <2>1
<1>6. /\ ds[a].Position = Plus(bodies[a].Position, Scale(p, n))
      /\ ds[b].Position = Plus(bodies[b].Position, Scale(-q, n))
  BY <1>2, <1>3 DEF PushedApart
<1>7. /\ s0.type = r0.type /\ s1.type = r1.type
      /\ IsCircle(r0) => s0.radius = r0.radius
      /\ IsCircle(r1) => s1.radius = r1.radius
  BY <1>1, <1>5, <1>6, PlacedMoves
<1>8. PICK t \in Nat : t = p + q
  OBVIOUS
<1>9. CASE r0.type = "Circle" /\ r1.type # "Polygon"
  <2>1. PICK u \in Vec : u = CircleDelta(bodies, a, b) /\ OnAxis(u)
    BY <1>1, <1>9, CircleDeltaIs
  <2>2. PICK w : w = CircleDelta(ds, a, b)
    OBVIOUS
  <2>3. IsCircle(r0) /\ (IsCircle(r1) \/ IsRectangle(r1))
    BY <1>1, <1>9, PlacedIs DEF IsCircle, IsRectangle
  <2>4. PICK r \in Int : /\ r = r0.radius + (IF r1.type = "Circle" THEN r1.radius ELSE 0)
                         /\ r = s0.radius + (IF s1.type = "Circle" THEN s1.radius ELSE 0)
    BY <1>7, <2>3 DEF IsCircle, IsRectangle
  <2>5. old = [Normal |-> DirectionOrUp(u), Penetration |-> r - Length(u)]
    BY <1>1, <1>2, <1>9, <2>1, <2>4 DEF Touch, CircleTouch
  <2>6. new = [Normal |-> DirectionOrUp(w), Penetration |-> r - Length(w)]
    BY <1>1, <1>2, <1>7, <1>9, <2>2, <2>4 DEF Touch, CircleTouch
  <2>7. PushedApart(ds, a, b, p, q, DirectionOrUp(u))
    BY <1>2, <2>5
  <2>8. /\ \/ w = Plus(u, Scale(t, DirectionOrUp(u)))
           \/ u = <<0, 0>> /\ \E e \in 0..t : w = <<0, e>>
        /\ r1.type = "Circle" => w = Plus(u, Scale(t, DirectionOrUp(u)))
    BY <1>1, <1>8, <1>9, <2>1, <2>2, <2>7, CircleDeltaMoves
  <2>9. /\ DirectionOrUp(w) = DirectionOrUp(u)
        /\ Length(w) \in Int /\ Length(u) <= Length(w) /\ Length(w) <= Length(u) + t
        /\ w = Plus(u, Scale(t, DirectionOrUp(u))) => Length(w) = Length(u) + t
    BY <2>1, <2>8, StepOut
  <2>10. Length(u) \in Int
    BY DirectionIsUnit
  <2>11. PICK i, j \in Int : i = Length(u) /\ j = Length(w)
    BY <2>9, <2>10
  <2>12. /\ new.Normal = old.Normal
         /\ old.Penetration = r - i /\ new.Penetration = r - j
    BY <2>5, <2>6, <2>9, <2>11
  <2>13. i <= j /\ j <= i + t /\ (r1.type = "Circle" => j = i + t)
    BY <2>8, <2>9, <2>11
  <2>14. /\ new.Normal = old.Normal /\ new.Penetration \in Int
         /\ old.Penetration - t <= new.Penetration /\ new.Penetration <= old.Penetration
         /\ r0.type = r1.type => new.Penetration = old.Penetration - t
    BY <1>9, <2>12, <2>13
  <2> QED
    BY <1>1, <1>2, <1>8, <2>14
<1>10. CASE r0.type = "Rectangle" /\ r1.type = "Rectangle"
  <2>1. old = RectangleTouch(bodies, a, b) /\ new = RectangleTouch(ds, a, b)
    BY <1>1, <1>2, <1>7, <1>10 DEF Touch
  <2>2. PushedApart(ds, a, b, p, q, RectangleTouch(bodies, a, b).Normal)
    BY <1>2, <2>1
  <2>3. new = [Normal |-> old.Normal, Penetration |-> old.Penetration - t]
    BY <1>1, <1>8, <1>10, <2>1, <2>2, RectangleTouchMoves
  <2>4. new.Normal = old.Normal /\ new.Penetration = old.Penetration - t
    BY <2>3
  <2>5. /\ new.Normal = old.Normal /\ new.Penetration \in Int
        /\ old.Penetration - t <= new.Penetration /\ new.Penetration <= old.Penetration
        /\ new.Penetration = old.Penetration - t
    BY <1>4, <2>4
  <2> QED
    BY <1>2, <1>8, <2>5
<1>11. CASE /\ ~(r0.type = "Circle" /\ r1.type # "Polygon")
            /\ ~(r0.type = "Rectangle" /\ r1.type = "Rectangle")
  <2>1. /\ old = [Normal |-> <<0, 0>>, Penetration |-> 0]
        /\ new = [Normal |-> <<0, 0>>, Penetration |-> 0]
    BY <1>1, <1>2, <1>7, <1>11 DEF Touch
  <2>2. new.Normal = old.Normal /\ old.Penetration = 0 /\ new.Penetration = 0
    BY <2>1
  <2> QED
    BY <1>2, <1>8, <2>2
<1> QED
  BY <1>9, <1>10, <1>11

-----------------------------------------------------------------------------
(* Visits that follow each other.                                          *)

\* What the bodies are moved by, in numbers: both together by no more than they
\* are in each other, and two DYNAMIC ones by exactly that.
LEMMA MovedAre ==
    ASSUME LiveInv, NEW a \in 1..2, NEW touch, IsTouch(touch), Divides(touch.Penetration)
    PROVE  /\ Moved(a, touch) \in Nat /\ Moved(Other(a), touch) \in Nat
           /\ touch.Penetration <= 0 => Moved(a, touch) + Moved(Other(a), touch) = 0
           /\ touch.Penetration > 0 =>
                /\ Moved(a, touch) + Moved(Other(a), touch) <= touch.Penetration
                /\ IsDynamic(a) /\ IsDynamic(Other(a)) =>
                        Moved(a, touch) + Moved(Other(a), touch) = touch.Penetration
<1>1. PICK b \in 1..2 : b = Other(a) /\ a = Other(b)
  BY MassesAre
<1>2. PICK d \in Int : d = touch.Penetration /\ Divides(d)
  BY DEF IsTouch
<1>3. PICK p, q \in Int : p = OwnPart(a, d) /\ q = OwnPart(b, d)
  BY <1>1, PartsMakeWhole
<1>4. d > 0 => p >= 0 /\ q >= 0 /\ p + q = d
  <2>1. d > 0 => d >= 0
    OBVIOUS
  <2>2. d >= 0 => p >= 0 /\ q >= 0
    BY <1>3, PartsMakeWhole
  <2>3. p + q = d
    BY <1>1, <1>2, <1>3, PartsMakeWhole
  <2> QED
    BY <2>1, <2>2, <2>3
<1>5. /\ Moved(a, touch) = IF d <= 0 \/ ~IsDynamic(a) THEN 0 ELSE p
      /\ Moved(b, touch) = IF d <= 0 \/ ~IsDynamic(b) THEN 0 ELSE q
  BY <1>2, <1>3 DEF Moved
<1>6. d <= 0 \/ d > 0
  OBVIOUS
<1>7. CASE d <= 0
  <2>1. Moved(a, touch) = 0 /\ Moved(b, touch) = 0 /\ ~(d > 0)
    BY <1>5, <1>7
  <2> QED
    BY <1>1, <1>2, <2>1
<1>8. CASE d > 0
  <2>1. ~(d <= 0)
    BY <1>8
  <2>2. /\ Moved(a, touch) = IF IsDynamic(a) THEN p ELSE 0
        /\ Moved(b, touch) = IF IsDynamic(b) THEN q ELSE 0
    BY <1>5, <2>1
  <2>3. /\ Moved(a, touch) \in Nat /\ Moved(b, touch) \in Nat
        /\ Moved(a, touch) + Moved(b, touch) <= d
        /\ IsDynamic(a) /\ IsDynamic(b) => Moved(a, touch) + Moved(b, touch) = d
    BY <1>4, <1>8, <2>2
  <2> QED
    BY <1>1, <1>2, <2>1, <2>3
<1> QED
  BY <1>6, <1>7, <1>8

\* What a visit pushes its bodies by: nothing unless they are in each other, twice
\* as far as they are at the most, and two of one kind of shape by just as much.
LEMMA VisitMoves ==
    ASSUME LiveInv, Resolve
    PROVE  \E a, p, q :
              /\ a \in 1..2 /\ p \in Nat /\ q \in Nat
              /\ a = IF IsSwapped(bodies, 1, 2) THEN 2 ELSE 1
              /\ PushedApart(bodies', a, Other(a), p, q, Found(bodies).Normal)
              /\ Found(bodies).Penetration <= 0 => p + q = 0
              /\ Found(bodies).Penetration > 0 =>
                    /\ p + q <= 2 * Found(bodies).Penetration
                    /\ ~IsSwapped(bodies, 1, 2) /\ (\A i \in 1..2 : IsDynamic(i)) =>
                            p + q = Found(bodies).Penetration
<1>1. PICK a, touch, cs :
         /\ a \in 1..2
         /\ a = IF IsSwapped(bodies, 1, 2) THEN 2 ELSE 1
         /\ touch = Found(bodies) /\ IsTouch(touch)
         /\ cs = Solved(bodies, a, Other(a), touch)
         /\ SolveDivides(bodies, a, Other(a), touch)
         /\ \/ bodies' = cs
            \/ IsSwapped(bodies, 1, 2) /\ bodies' = Solved(cs, a, Other(a), touch)
  BY VisitIs
<1>2. PICK b \in 1..2 : b = Other(a)
  BY <1>1, MassesAre
<1>3. PICK n \in Vec : n = touch.Normal
  BY <1>1 DEF IsTouch
<1>4. SameMakes(bodies) /\ SameMakes(cs)
  BY <1>1, MakesOfState
<1>5. PICK d \in Int : d = touch.Penetration
  BY <1>1 DEF IsTouch
<1>6. PICK p, q \in Nat : p = Moved(a, touch) /\ q = Moved(b, touch)
  BY <1>1, <1>2, MovedAre, InverseMassAbove DEF SolveDivides
<1>7. /\ d <= 0 => p + q = 0
      /\ d > 0 => p + q <= d /\ (IsDynamic(a) /\ IsDynamic(b) => p + q = d)
  BY <1>1, <1>2, <1>5, <1>6, MovedAre, InverseMassAbove DEF SolveDivides
<1>8. \A u \in Vec : \A k \in Int : /\ Minus(u, Scale(k, n)) = Plus(u, Scale(-k, n))
                                    /\ Plus(u, Scale(k, n)) \in Vec
                                    /\ Minus(u, Scale(k, n)) \in Vec
  <2> TAKE u \in Vec, k \in Int
  <2>1. PICK x, y, m, l \in Int : u = <<x, y>> /\ n = <<m, l>>
    BY DEF Vec
  <2>2. PICK i, j \in Int : i = k * m /\ j = k * l
    OBVIOUS
  <2>3. (-k) * m = -i /\ (-k) * l = -j
    BY <2>2
  <2>4. Scale(k, n) = <<i, j>> /\ Scale(-k, n) = <<-i, -j>>
    BY <2>1, <2>2, <2>3 DEF Scale
  <2>5. /\ Minus(u, Scale(k, n)) = <<x - i, y - j>>
        /\ Plus(u, Scale(-k, n)) = <<x + (-i), y + (-j)>>
        /\ Plus(u, Scale(k, n)) = <<x + i, y + j>>
    BY <2>1, <2>4 DEF Plus, Minus
  <2>6. x - i = x + (-i) /\ y - j = y + (-j)
    OBVIOUS
  <2> QED
    BY <2>5, <2>6 DEF Vec
<1>9. PICK u, v \in Vec : u = bodies[a].Position /\ v = bodies[b].Position
  BY <1>1, <1>4, MakesAre
<1>10. /\ cs[a].Position = Plus(u, Scale(p, n))
       /\ cs[b].Position = Minus(v, Scale(q, n))
  <2>1. /\ cs[a].Position = Plus(bodies[a].Position, Scale(Moved(a, touch), touch.Normal))
        /\ cs[Other(a)].Position
                = Minus(bodies[Other(a)].Position, Scale(Moved(Other(a), touch), touch.Normal))
    <3>1. /\ Solved(bodies, a, Other(a), touch)[a].Position
                  = Plus(bodies[a].Position, Scale(Moved(a, touch), touch.Normal))
          /\ Solved(bodies, a, Other(a), touch)[Other(a)].Position
                  = Minus(bodies[Other(a)].Position, Scale(Moved(Other(a), touch), touch.Normal))
      <4>1. a \in 1..2 /\ IsTouch(touch)
        BY <1>1
      <4> QED
        BY <1>4, <4>1, SolvedMoves
    <3> QED
      BY <1>1, <3>1
  <2> QED
    BY <1>2, <1>3, <1>6, <1>9, <2>1
<1>11. CASE bodies' = cs
  <2>1. PushedApart(bodies', a, b, p, q, n)
    BY <1>8, <1>9, <1>10, <1>11 DEF PushedApart
  <2>2. d > 0 => p + q <= 2 * d /\ ((\A i \in 1..2 : IsDynamic(i)) => p + q = d)
    BY <1>1, <1>2, <1>7
  <2> QED
    BY <1>1, <1>2, <1>3, <1>5, <1>7, <2>1, <2>2
<1>12. CASE IsSwapped(bodies, 1, 2) /\ bodies' = Solved(cs, a, b, touch)
  <2>1. /\ bodies'[a].Position = Plus(cs[a].Position, Scale(p, n))
        /\ bodies'[b].Position = Minus(cs[b].Position, Scale(q, n))
    BY <1>1, <1>2, <1>3, <1>4, <1>6, <1>12, SolvedMoves
  <2>2. \A w \in Vec : \A k \in Int : Plus(Plus(w, Scale(k, n)), Scale(k, n)) = Plus(w, Scale(k + k, n))
    <3> TAKE w \in Vec, k \in Int
    <3>1. PICK x, y, m, l \in Int : w = <<x, y>> /\ n = <<m, l>>
      BY DEF Vec
    <3>2. PICK i, j \in Int : i = k * m /\ j = k * l
      OBVIOUS
    <3>3. (k + k) * m = i + i /\ (k + k) * l = j + j
      BY <3>2
    <3>4. Scale(k, n) = <<i, j>> /\ Scale(k + k, n) = <<i + i, j + j>>
      BY <3>1, <3>2, <3>3 DEF Scale
    <3>5. /\ Plus(Plus(w, Scale(k, n)), Scale(k, n)) = <<(x + i) + i, (y + j) + j>>
          /\ Plus(w, Scale(k + k, n)) = <<x + (i + i), y + (j + j)>>
      BY <3>1, <3>4 DEF Plus
    <3>6. (x + i) + i = x + (i + i) /\ (y + j) + j = y + (j + j)
      OBVIOUS
    <3> QED
      BY <3>5, <3>6
  <2>3. bodies'[a].Position = Plus(u, Scale(p + p, n))
    BY <1>9, <1>10, <2>1, <2>2
  <2>4. bodies'[b].Position = Plus(v, Scale(-(q + q), n))
    <3>1. -q \in Int /\ (-q) + (-q) = -(q + q)
      OBVIOUS
    <3>2. cs[b].Position = Plus(v, Scale(-q, n)) /\ Plus(v, Scale(-q, n)) \in Vec
      BY <1>8, <1>9, <1>10, <3>1
    <3>3. bodies'[b].Position = Plus(Plus(v, Scale(-q, n)), Scale(-q, n))
      BY <1>8, <2>1, <3>2
    <3>4. Plus(Plus(v, Scale(-q, n)), Scale(-q, n)) = Plus(v, Scale((-q) + (-q), n))
      BY <2>2, <3>1
    <3> QED
      BY <3>1, <3>3, <3>4
  <2>5. PushedApart(bodies', a, b, p + p, q + q, n)
    BY <1>9, <2>3, <2>4 DEF PushedApart
  <2>6. PICK p2, q2 \in Nat : p2 = p + p /\ q2 = q + q
    OBVIOUS
  <2>7. /\ d <= 0 => p2 + q2 = 0
        /\ d > 0 => p2 + q2 <= 2 * d
    BY <1>7, <2>6
  <2> QED
    BY <1>1, <1>2, <1>3, <1>5, <1>12, <2>5, <2>6, <2>7
<1> QED
  BY <1>1, <1>2, <1>11, <1>12

\* The shapes stay of their kinds.
LEMMA KindsStay ==
    ASSUME LiveInv, Resolve
    PROVE  \A i \in 1..2 : Placed(bodies', i).type = Placed(bodies, i).type
<1>1. PICK a, p, q :
         /\ a \in 1..2 /\ p \in Nat /\ q \in Nat
         /\ a = IF IsSwapped(bodies, 1, 2) THEN 2 ELSE 1
         /\ PushedApart(bodies', a, Other(a), p, q, Found(bodies).Normal)
  BY VisitMoves
<1>2. PICK b \in 1..2 : b = Other(a)
  BY <1>1, MassesAre
<1>3. IsTouch(Found(bodies))
  BY TouchIs, LiveIsTyped DEF Found
<1>4. PICK n \in Vec : n = Found(bodies).Normal
  BY <1>3 DEF IsTouch
<1>5. \A k \in Int : Scale(k, n) \in Vec
  BY VectorOps
<1>6. -q \in Int
  BY <1>1
<1>7. /\ bodies'[a].Position = Plus(bodies[a].Position, Scale(p, n))
      /\ bodies'[b].Position = Plus(bodies[b].Position, Scale(-q, n))
      /\ Scale(p, n) \in Vec /\ Scale(-q, n) \in Vec
  BY <1>1, <1>2, <1>4, <1>5, <1>6 DEF PushedApart
<1>8. Placed(bodies', a).type = Placed(bodies, a).type
  BY <1>1, <1>7, PlacedMoves, LiveIsTyped
<1>9. Placed(bodies', b).type = Placed(bodies, b).type
  BY <1>7, PlacedMoves, LiveIsTyped
<1>10. \A i \in 1..2 : i = a \/ i = b
  BY <1>1, <1>2, MassesAre
<1> QED
  BY <1>8, <1>9, <1>10

\* And what the next visit would find.
LEMMA FoundAgain ==
    ASSUME LiveInv, Resolve
    PROVE  LET old == Found(bodies)
               new == Found(bodies')
           IN  /\ IsSwapped(bodies', 1, 2) = IsSwapped(bodies, 1, 2)
               /\ new.Normal = old.Normal
               /\ old.Penetration \in Int /\ new.Penetration \in Int
               /\ old.Penetration <= 0 => new.Penetration = old.Penetration
               /\ old.Penetration > 0 => /\ -old.Penetration <= new.Penetration
                                         /\ new.Penetration <= old.Penetration
               /\ /\ \A i \in 1..2 : IsDynamic(i)
                  /\ colliders[1].Shape.type = colliders[2].Shape.type
                  => new.Penetration <= 0
<1>1. PICK a, p, q :
         /\ a \in 1..2 /\ p \in Nat /\ q \in Nat
         /\ a = IF IsSwapped(bodies, 1, 2) THEN 2 ELSE 1
         /\ PushedApart(bodies', a, Other(a), p, q, Found(bodies).Normal)
         /\ Found(bodies).Penetration <= 0 => p + q = 0
         /\ Found(bodies).Penetration > 0 =>
               /\ p + q <= 2 * Found(bodies).Penetration
               /\ ~IsSwapped(bodies, 1, 2) /\ (\A i \in 1..2 : IsDynamic(i)) =>
                       p + q = Found(bodies).Penetration
  BY VisitMoves
<1>2. PICK b \in 1..2 : b = Other(a)
  BY <1>1, MassesAre
<1>3. Other(1) = 2 /\ Other(2) = 1
  BY DEF Other
<1>4. PICK old : old = Found(bodies) /\ old = Touch(bodies, a, b)
  BY <1>1, <1>2, <1>3 DEF Found
<1>5. IsTouch(old)
  BY <1>1, <1>2, <1>4, TouchIs, LiveIsTyped
<1>6. \A i \in 1..2 : Placed(bodies', i).type = Placed(bodies, i).type
  BY KindsStay
<1>7. IsSwapped(bodies', 1, 2) = IsSwapped(bodies, 1, 2)
  BY <1>6 DEF IsSwapped
<1>8. PICK new : new = Found(bodies') /\ new = Touch(bodies', a, b)
  BY <1>1, <1>2, <1>3, <1>7 DEF Found
<1>9. Placed(bodies, a).type = "Circle" /\ Placed(bodies, b).type # "Polygon"
          => OnAxis(CircleDelta(bodies, a, b))
  <2>1. Exact
    BY DEF Resolve
  <2> QED
    BY <1>1, <1>2, <1>3, <2>1 DEF Exact
<1>10. PICK d \in Int : d = old.Penetration
  BY <1>5 DEF IsTouch
<1>11. /\ new.Normal = old.Normal /\ new.Penetration \in Int
       /\ d - (p + q) <= new.Penetration /\ new.Penetration <= d
       /\ Placed(bodies, a).type = Placed(bodies, b).type =>
            \/ d = 0 /\ new.Penetration = 0
            \/ new.Penetration = d - (p + q)
  BY <1>1, <1>2, <1>4, <1>8, <1>9, <1>10, TouchMoves, LiveIsTyped
<1>12. PICK e \in Int : e = new.Penetration
  BY <1>11
<1>13. PICK t \in Nat : t = p + q
  BY <1>1
<1>14. /\ d <= 0 => t = 0
       /\ d > 0 => t <= 2 * d
  BY <1>1, <1>4, <1>10, <1>13
<1>15. /\ d <= 0 => e = d
       /\ d > 0 => -d <= e /\ e <= d
  BY <1>11, <1>12, <1>13, <1>14
<1>16. ASSUME \A i \in 1..2 : IsDynamic(i), colliders[1].Shape.type = colliders[2].Shape.type
       PROVE  e <= 0
  <2>1. \A i \in 1..2 : Placed(bodies, i).type = colliders[i].Shape.type
    <3> TAKE i \in 1..2
    <3>1. colliders[i].Shape \in Shapes
      BY DEF LiveInv, ContactInv
    <3>2. colliders[i].Shape.type \in {"Circle", "Rectangle", "Polygon"}
      BY <3>1, ContactAssumption
    <3> QED
      BY <3>2 DEF Placed, Translate, Circle, Rectangle, Polygon
  <2>2. Placed(bodies, 1).type = Placed(bodies, 2).type
    BY <1>16, <2>1
  <2>3. Placed(bodies, a).type = Placed(bodies, b).type
    BY <1>1, <1>2, <1>3, <2>2
  <2>4. ~IsSwapped(bodies, 1, 2)
    BY <2>2 DEF IsSwapped
  <2>5. d > 0 => t = d
    BY <1>1, <1>4, <1>10, <1>13, <1>16, <2>4
  <2> QED
    BY <1>11, <1>12, <1>13, <1>14, <2>3, <2>5
<1> QED
  BY <1>4, <1>7, <1>8, <1>10, <1>11, <1>12, <1>15, <1>16

\* A circle whose centre is in the rectangle after they were pushed apart had it
\* there before: it is pushed away from the nearest point of the rectangle.
LEMMA CentreWasIn ==
    ASSUME ContactInv, NEW a \in 1..2, NEW b \in 1..2,
           Placed(bodies, a).type = "Circle", Placed(bodies, b).type = "Rectangle",
           OnAxis(CircleDelta(bodies, a, b)),
           NEW ds, NEW p \in Nat, NEW q \in Nat,
           PushedApart(ds, a, b, p, q, Touch(bodies, a, b).Normal),
           RectangleContains(Placed(ds, b), Placed(ds, a).center)
    PROVE  RectangleContains(Placed(bodies, b), Placed(bodies, a).center)
<1>1. PICK r0, r1, s0, s1 : /\ r0 = Placed(bodies, a) /\ s0 = Placed(ds, a)
                            /\ r1 = Placed(bodies, b) /\ s1 = Placed(ds, b)
  OBVIOUS
<1>2. IsCircle(r0) /\ IsRectangle(r1)
  BY <1>1, PlacedIs DEF IsCircle, IsRectangle
<1>3. PICK u \in Vec : u = CircleDelta(bodies, a, b) /\ OnAxis(u)
  BY CircleDeltaIs
<1>4. Touch(bodies, a, b).Normal = DirectionOrUp(u)
  BY <1>3 DEF Touch, CircleTouch
<1>5. PICK n \in Vec : n = DirectionOrUp(u)
  BY DirectionIsUnit
<1>6. PICK w : w = CircleDelta(ds, a, b)
  OBVIOUS
<1>7. Length(u) <= Length(w) /\ Length(w) \in Int
  <2>1. PICK t \in Nat : t = p + q
    OBVIOUS
  <2>2. \/ w = Plus(u, Scale(t, DirectionOrUp(u)))
        \/ u = <<0, 0>> /\ \E e \in 0..t : w = <<0, e>>
    BY <1>3, <1>4, <1>6, <2>1, CircleDeltaMoves
  <2> QED
    BY <1>3, <2>2, StepOut
<1>8. Scale(p, n) \in Vec /\ Scale(-q, n) \in Vec
  <2>1. \A k \in Int : Scale(k, n) \in Vec
    BY VectorOps
  <2> QED
    BY <2>1
<1>9. PICK i, j, h, k \in Int : Scale(p, n) = <<i, j>> /\ Scale(-q, n) = <<h, k>>
  BY <1>8 DEF Vec
<1>10. /\ ds[a].Position = Plus(bodies[a].Position, Scale(p, n))
       /\ ds[b].Position = Plus(bodies[b].Position, Scale(-q, n))
  BY <1>4, <1>5 DEF PushedApart
<1>11. PICK x, y \in Int : r0.center = <<x, y>>
  BY <1>2 DEF IsCircle, Vec
<1>12. PICK c, d, f, g \in Int : r1.minBound = <<c, d>> /\ r1.maxBound = <<f, g>>
  BY <1>2 DEF IsRectangle, Vec
<1>13. /\ s0.center = <<x + i, y + j>> /\ s1.type = "Rectangle"
       /\ s1.minBound = <<c + h, d + k>> /\ s1.maxBound = <<f + h, g + k>>
  <2>1. s0.center = Plus(r0.center, <<i, j>>)
    BY <1>1, <1>2, <1>8, <1>9, <1>10, PlacedMoves
  <2>2. /\ s1.minBound = Plus(r1.minBound, <<h, k>>) /\ s1.maxBound = Plus(r1.maxBound, <<h, k>>)
        /\ s1.type = "Rectangle"
    BY <1>1, <1>2, <1>8, <1>9, <1>10, PlacedMoves
  <2> QED
    BY <1>11, <1>12, <2>1, <2>2, PlusPair
<1>14. /\ c + h <= x + i /\ x + i <= f + h
       /\ d + k <= y + j /\ y + j <= g + k
  <2>1. /\ s1.minBound[1] <= s0.center[1] /\ s0.center[1] <= s1.maxBound[1]
        /\ s1.minBound[2] <= s0.center[2] /\ s0.center[2] <= s1.maxBound[2]
    BY <1>1 DEF RectangleContains
  <2> QED
    BY <1>13, <2>1
<1>15. w = <<0, 0>>
  <2>1. PICK v : v = [l \in 1..2 |-> Clamp(s0.center[l], s1.minBound[l], s1.maxBound[l])]
    OBVIOUS
  <2>2. v[1] = Clamp(x + i, c + h, f + h) /\ v[2] = Clamp(y + j, d + k, g + k)
    BY <1>13, <2>1
  <2>3. Clamp(x + i, c + h, f + h) = x + i /\ Clamp(y + j, d + k, g + k) = y + j
    BY <1>14 DEF Clamp
  <2>4. w = Minus(s0.center, v)
    BY <1>1, <1>6, <1>13, <2>1 DEF CircleDelta
  <2> QED
    BY <1>13, <2>2, <2>3, <2>4 DEF Minus
<1>16. u = <<0, 0>>
  <2>1. PICK e, m \in Int : u = <<e, m>>
    BY DEF Vec
  <2>2. Length(w) = 0
    BY <1>15 DEF Length, Abs
  <2>3. Length(u) = Abs(e) + Abs(m)
    BY <2>1 DEF Length
  <2>4. e = 0 /\ m = 0
    BY <1>7, <2>2, <2>3 DEF Abs
  <2> QED
    BY <2>1, <2>4
<1>17. Clamp(x, c, f) = x /\ Clamp(y, d, g) = y
  <2>1. PICK v : v = [l \in 1..2 |-> Clamp(r0.center[l], r1.minBound[l], r1.maxBound[l])]
    OBVIOUS
  <2>2. v[1] = Clamp(x, c, f) /\ v[2] = Clamp(y, d, g)
    BY <1>11, <1>12, <2>1
  <2>3. u = Minus(r0.center, v)
    BY <1>1, <1>2, <1>3, <2>1 DEF CircleDelta, IsRectangle
  <2>4. u = <<x - Clamp(x, c, f), y - Clamp(y, d, g)>>
    BY <1>11, <2>2, <2>3 DEF Minus
  <2>5. PICK e, m \in Int : e = Clamp(x, c, f) /\ m = Clamp(y, d, g)
    <3>1. Clamp(x, c, f) \in Int /\ Clamp(y, d, g) \in Int
      BY DEF Clamp
    <3> QED
      BY <3>1
  <2>6. x - e = 0 /\ y - m = 0
    BY <1>16, <2>4, <2>5
  <2> QED
    BY <2>5, <2>6
<1>18. c <= x /\ x <= f /\ d <= y /\ y <= g
  <2>1. c <= f /\ d <= g
    BY <1>14
  <2> QED
    BY <1>17, <2>1 DEF Clamp
<1>19. \A l \in 1..2 : r1.minBound[l] <= r0.center[l] /\ r0.center[l] <= r1.maxBound[l]
  <2> TAKE l \in 1..2
  <2>1. l = 1 \/ l = 2
    OBVIOUS
  <2> QED
    BY <1>11, <1>12, <1>18, <2>1
<1> QED
  BY <1>1, <1>19 DEF RectangleContains

\* So no visit puts the centre of a circle into a rectangle.
LEMMA CentreStaysOut ==
    ASSUME LiveInv, Resolve, ~CentreIsInside(bodies)
    PROVE  ~CentreIsInside(bodies')
<1> SUFFICES ASSUME CentreIsInside(bodies') PROVE FALSE
  OBVIOUS
<1>1. PICK i \in 1..2 :
          /\ Placed(bodies', i).type = "Circle" /\ Placed(bodies', Other(i)).type = "Rectangle"
          /\ RectangleContains(Placed(bodies', Other(i)), Placed(bodies', i).center)
  BY DEF CentreIsInside
<1>2. PICK a, p, q :
         /\ a \in 1..2 /\ p \in Nat /\ q \in Nat
         /\ a = IF IsSwapped(bodies, 1, 2) THEN 2 ELSE 1
         /\ PushedApart(bodies', a, Other(a), p, q, Found(bodies).Normal)
  BY VisitMoves
<1>3. \A k \in 1..2 : Placed(bodies', k).type = Placed(bodies, k).type
  BY KindsStay
<1>4. Other(1) = 2 /\ Other(2) = 1 /\ Other(i) \in 1..2
  BY MassesAre DEF Other
<1>5. Placed(bodies, i).type = "Circle" /\ Placed(bodies, Other(i)).type = "Rectangle"
  BY <1>1, <1>3, <1>4
<1>6. a = i
  <2>1. i = 1 \/ i = 2
    OBVIOUS
  <2> QED
    BY <1>2, <1>4, <1>5, <2>1 DEF IsSwapped
<1>7. Found(bodies) = Touch(bodies, a, Other(a))
  BY <1>2, <1>4 DEF Found
<1>8. OnAxis(CircleDelta(bodies, a, Other(a)))
  <2>1. Exact
    BY DEF Resolve
  <2>2. a = 1 \/ a = 2
    BY <1>2
  <2> QED
    BY <1>4, <1>5, <1>6, <2>1, <2>2 DEF Exact
<1>9. RectangleContains(Placed(bodies, Other(i)), Placed(bodies, i).center)
  BY <1>1, <1>2, <1>4, <1>5, <1>6, <1>7, <1>8, CentreWasIn, LiveIsTyped
<1> QED
  BY <1>5, <1>9 DEF CentreIsInside

\* As long as no centre of a circle is in a rectangle, a correction leaves no
\* contact deeper than it was, nor further apart than it was deep: for every shape,
\* mass and type, also when it is made twice by the recursive call
\* (Contact.cpp:66-83, 169-192).
THEOREM ContactCorrectsBounded == Spec => CorrectionIsBounded
<1>1. ContactInv /\ Resolve /\ ~CentreIsInside(bodies) =>
          Abs(Depth(bodies')) <= Abs(Depth(bodies))
  <2> SUFFICES ASSUME ContactInv, Resolve, ~CentreIsInside(bodies)
               PROVE  Abs(Depth(bodies')) <= Abs(Depth(bodies))
    OBVIOUS
  <2>1. CASE ~BothThere
    <3>1. bodies' = bodies
      BY <2>1, GoneStay
    <3>2. PICK d \in Int : d = Found(bodies).Penetration
      BY TouchIs DEF Found, IsTouch
    <3>3. Depth(bodies) = d + 0 /\ Depth(bodies') = d + 0
      BY <3>1, <3>2 DEF Depth
    <3> QED
      BY <3>3 DEF Abs
  <2>2. CASE BothThere
    <3>1. LiveInv
      BY <2>2 DEF LiveInv
    <3>2. PICK d, e \in Int : d = Found(bodies).Penetration /\ e = Found(bodies').Penetration
      BY <3>1, FoundAgain
    <3>3. /\ d <= 0 => e = d
          /\ d > 0 => -d <= e /\ e <= d
      BY <3>1, <3>2, FoundAgain
    <3>4. ~CentreIsInside(bodies')
      BY <3>1, CentreStaysOut
    <3>5. Depth(bodies) = d + 0 /\ Depth(bodies') = e + 0
      BY <3>2, <3>4 DEF Depth
    <3>6. Abs(e) <= Abs(d)
      BY <3>3 DEF Abs
    <3> QED
      BY <3>5, <3>6
  <2> QED
    BY <2>1, <2>2
<1> QED
  BY <1>1, ContactTyped, PTL DEF CorrectionIsBounded

\* How fast the bodies part along the normal of the contact a visit finds.
Parting(bs) ==
    IF IsSwapped(bs, 1, 2) THEN CalculateSeparateVelocity(bs, 2, 1, Found(bs).Normal)
                           ELSE CalculateSeparateVelocity(bs, 1, 2, Found(bs).Normal)

\* What the visits of a frame that are still to come meet, once one has resolved.
SettledInv ==
    resolved /\ leaves > 0 /\ BothThere =>
        /\ Parting(bodies) >= 0
        /\ (\A i \in 1..2 : IsDynamic(i)) /\ colliders[1].Shape.type = colliders[2].Shape.type
                => Found(bodies).Penetration <= 0

\* Bodies that do not approach each other keep their velocities, and stay as they
\* are if they are not in each other either.
LEMMA PartedStay ==
    ASSUME LiveInv, NEW bs, SameMakes(bs), NEW a \in 1..2, NEW touch, IsTouch(touch),
           CalculateSeparateVelocity(bs, a, Other(a), touch.Normal) >= 0
    PROVE  /\ \A i \in 1..2 : Solved(bs, a, Other(a), touch)[i].Velocity = bs[i].Velocity
           /\ touch.Penetration <= 0 => Solved(bs, a, Other(a), touch) = bs
<1>1. PICK b \in 1..2 : b = Other(a) /\ b # a /\ 1..2 = {a, b}
  <2>1. Other(a) \in 1..2 /\ Other(a) # a
    BY MassesAre
  <2>2. \A j \in 1..2 : j = a \/ j = Other(a)
    BY MassesAre
  <2> QED
    BY <2>1, <2>2
<1>2. PICK n \in Vec : n = touch.Normal
  BY DEF IsTouch
<1>3. PICK s \in Int : s = CalculateSeparateVelocity(bs, a, b, n) /\ s >= 0
  BY <1>1, <1>2, SpeedsAre
<1>4. \A i \in 1..2 : Gained(bs, a, b, n, i) = 0
  <2> TAKE i \in 1..2
  <2>1. s > 0 \/ s = 0
    BY <1>3
  <2>2. /\ CalculateSeparateVelocity(bs, a, Other(a), n) = 0 => Gained(bs, a, Other(a), n, i) = 0
        /\ CalculateSeparateVelocity(bs, a, Other(a), n) > 0 => Gained(bs, a, Other(a), n, i) = 0
    BY GainedAre
  <2> QED
    BY <1>1, <1>3, <2>1, <2>2
<1>5. \A u \in Vec : Plus(u, Scale(0, n)) = u /\ Minus(u, Scale(0, n)) = u
  BY <1>2 DEF Vec, Plus, Minus, Scale
<1>6. /\ bs[a].Velocity \in Vec /\ bs[b].Velocity \in Vec
      /\ bs[a] \in BodyRecord /\ bs[b] \in BodyRecord /\ bs \in [{a, b} -> BodyRecord]
  BY <1>1, MakesAre DEF SameMakes
<1>7. ASSUME NEW i \in 1..2
      PROVE  Solved(bs, a, Other(a), touch)[i].Velocity = bs[i].Velocity
  <2>1. /\ Solved(bs, a, Other(a), touch)[a].Velocity
              = Plus(bs[a].Velocity, Scale(Gained(bs, a, Other(a), touch.Normal, a), touch.Normal))
        /\ Solved(bs, a, Other(a), touch)[Other(a)].Velocity
              = Minus(bs[Other(a)].Velocity,
                      Scale(Gained(bs, a, Other(a), touch.Normal, Other(a)), touch.Normal))
    BY SolvedMoves
  <2>2. Gained(bs, a, Other(a), touch.Normal, a) = 0 /\ Gained(bs, a, Other(a), touch.Normal, Other(a)) = 0
    BY <1>1, <1>2, <1>4
  <2>3. i = a \/ i = b
    BY <1>1
  <2> QED
    BY <1>1, <1>2, <1>5, <1>6, <2>1, <2>2, <2>3
<1>9. ~(SignOfInverseMass <= 0)
  BY InverseMassAbove
<1>8. ASSUME touch.Penetration <= 0
      PROVE  Solved(bs, a, Other(a), touch) = bs
  <2>1. Bounced(bs, a, b, n) = bs
    <3>1. CASE s > 0
      BY <1>3, <3>1 DEF Bounced
    <3>2. CASE s = 0
      <4>1. ~(CalculateSeparateVelocity(bs, a, b, n) > 0)
        BY <1>3, <3>2
      <4>2. /\ Gain(a, deltaVelocity(bs, a, b, n)) = 0
            /\ Gain(b, deltaVelocity(bs, a, b, n)) = 0
        BY <1>1, <1>4, <4>1 DEF Gained
      <4>3. Bounced(bs, a, b, n) = [bs EXCEPT ![a].Velocity = Plus(@, Scale(0, n)),
                                              ![b].Velocity = Minus(@, Scale(0, n))]
        BY <4>1, <4>2, <1>9 DEF Bounced
      <4>4. bs = [bs EXCEPT ![a].Velocity = Plus(@, Scale(0, n)),
                            ![b].Velocity = Minus(@, Scale(0, n))]
        BY <1>1, <1>5, <1>6 DEF BodyRecord
      <4> QED
        BY <4>3, <4>4
    <3> QED
      BY <1>3, <3>1, <3>2
  <2>2. Pushed(bs, a, b, touch) = bs
    BY <1>8 DEF Pushed
  <2> QED
    BY <1>1, <1>2, <2>1, <2>2 DEF Solved
<1> QED
  BY <1>7, <1>8

\* The bodies part after a visit, whatever its contact.
LEMMA VisitParts ==
    ASSUME LiveInv, Resolve
    PROVE  Parting(bodies') >= 0
<1>1. PICK a, touch, cs :
         /\ a \in 1..2
         /\ a = IF IsSwapped(bodies, 1, 2) THEN 2 ELSE 1
         /\ touch = Found(bodies) /\ IsTouch(touch) /\ IsUnit(touch.Normal)
         /\ cs = Solved(bodies, a, Other(a), touch)
         /\ SolveDivides(bodies, a, Other(a), touch)
         /\ \/ bodies' = cs
            \/ SolveDivides(cs, a, Other(a), touch) /\ bodies' = Solved(cs, a, Other(a), touch)
  BY VisitIs
<1>2. SameMakes(bodies) /\ StaticStill(bodies) /\ SameMakes(cs) /\ StaticStill(cs)
  BY <1>1, MakesOfState
<1>3. SameMakes(bodies')
  BY <1>1, <1>2, SolvedMoves
<1>4. Parting(bodies') = CalculateSeparateVelocity(bodies', a, Other(a), touch.Normal)
  <2>1. Other(1) = 2 /\ Other(2) = 1
    BY DEF Other
  <2>2. IsSwapped(bodies', 1, 2) = IsSwapped(bodies, 1, 2) /\ Found(bodies').Normal = touch.Normal
    BY <1>1, FoundAgain
  <2> QED
    BY <1>1, <2>1, <2>2 DEF Parting
<1>5. CASE touch.Normal # <<0, 0>>
  <2>1. CalculateSeparateVelocity(cs, a, Other(a), touch.Normal) >= 0
    BY <1>1, <1>2, <1>5, SolvedPart
  <2>2. SolveDivides(cs, a, Other(a), touch) =>
          CalculateSeparateVelocity(Solved(cs, a, Other(a), touch), a, Other(a), touch.Normal) >= 0
    BY <1>1, <1>2, <1>5, SolvedPart
  <2> QED
    BY <1>1, <1>4, <2>1, <2>2
<1>6. CASE touch.Normal = <<0, 0>>
  <2>1. \A u \in Vec : Dot(u, <<0, 0>>) = 0
    BY DEF Vec, Dot
  <2>2. Other(a) \in 1..2
    BY <1>1, MassesAre
  <2>3. bodies'[a].Velocity \in Vec /\ bodies'[Other(a)].Velocity \in Vec
    BY <1>1, <1>3, <2>2, MakesAre
  <2>4. \A u, v \in Vec : Minus(u, v) \in Vec
    BY VectorOps
  <2>5. CalculateSeparateVelocity(bodies', a, Other(a), touch.Normal) = 0
    BY <1>6, <2>1, <2>3, <2>4 DEF CalculateSeparateVelocity
  <2> QED
    BY <1>4, <2>5
<1> QED
  BY <1>5, <1>6

\* In the visits that follow a resolution in a frame the bodies part already, and
\* two DYNAMIC ones of one kind of shape are not in each other any more.
LEMMA SettledAlways == Spec => []SettledInv
<1>1. Init => SettledInv
  BY DEF Init, SettledInv
<1>2. ContactInv /\ SettledInv /\ [Next]_vars => SettledInv'
  <2> SUFFICES ASSUME ContactInv, SettledInv, [Next]_vars PROVE SettledInv'
    OBVIOUS
  <2>1. ASSUME NEW i \in 1..2, NEW force \in Forces, ApplyForce(i, force)
        PROVE  SettledInv'
    <3>1. ~(leaves > 0)'
      BY <2>1 DEF ApplyForce, InFrame
    <3> QED
      BY <3>1 DEF SettledInv
  <2>2. CASE Update
    BY <2>2 DEF Update, SettledInv
  <2>6. ASSUME NEW i \in 1..2, DestroyBody(i) PROVE SettledInv'
    <3>1. ~(leaves > 0)'
      BY <2>6 DEF DestroyBody, InFrame
    <3> QED
      BY <3>1 DEF SettledInv
  <2>7. CASE Resolve /\ ~BothThere
    <3>1. bodies' = bodies
      BY <2>7, GoneStay
    <3> QED
      BY <2>7, <3>1 DEF SettledInv, BothThere
  <2>3. CASE Resolve /\ BothThere
    <3>0. LiveInv
      BY <2>3 DEF LiveInv
    <3>1. colliders' = colliders
      BY <2>3 DEF Resolve
    <3>2. \A i \in 1..2 : bodies'[i].Type = bodies[i].Type
      <4>1. SameMakes(bodies')
        <5>1. PICK a, touch, cs :
                 /\ a \in 1..2 /\ IsTouch(touch)
                 /\ cs = Solved(bodies, a, Other(a), touch)
                 /\ bodies' = cs \/ bodies' = Solved(cs, a, Other(a), touch)
          BY <2>3, <3>0, VisitIs
        <5>2. SameMakes(bodies) /\ SameMakes(cs)
          BY <3>0, <5>1, MakesOfState
        <5> QED
          BY <3>0, <5>1, <5>2, SolvedMoves
      <4> QED
        BY <3>0, <4>1, MakesAre
    <3>3. /\ Parting(bodies)' = Parting(bodies')
          /\ Found(bodies)' = Found(bodies')
      BY <3>1 DEF Parting, Found, IsSwapped, Touch, CircleTouch, RectangleTouch,
                  CircleDelta, Placed, CalculateSeparateVelocity
    <3>4. (\A i \in 1..2 : IsDynamic(i))' => \A i \in 1..2 : IsDynamic(i)
      BY <3>2 DEF IsDynamic
    <3>5. Parting(bodies') >= 0
      BY <2>3, <3>0, VisitParts
    <3>6. /\ \A i \in 1..2 : IsDynamic(i)
          /\ colliders[1].Shape.type = colliders[2].Shape.type
          => Found(bodies').Penetration <= 0
      BY <2>3, <3>0, FoundAgain
    <3> QED
      BY <3>1, <3>3, <3>4, <3>5, <3>6 DEF SettledInv
  <2>4. CASE Miss
    <3>1. bodies' = bodies /\ colliders' = colliders /\ resolved' = resolved /\ leaves > 0
      BY <2>4 DEF Miss
    <3>2. /\ Parting(bodies)' = Parting(bodies) /\ Found(bodies)' = Found(bodies)
          /\ (\A i \in 1..2 : IsDynamic(i)' = IsDynamic(i)) /\ BothThere' = BothThere
      BY <3>1 DEF BothThere, Parting, Found, IsSwapped, Touch, CircleTouch, RectangleTouch,
                  CircleDelta, Placed, CalculateSeparateVelocity, IsDynamic
    <3> QED
      BY <3>1, <3>2 DEF SettledInv
  <2>5. CASE UNCHANGED vars
    <3>1. bodies' = bodies /\ colliders' = colliders /\ resolved' = resolved /\ leaves' = leaves
      BY <2>5 DEF vars
    <3>2. /\ Parting(bodies)' = Parting(bodies) /\ Found(bodies)' = Found(bodies)
          /\ (\A i \in 1..2 : IsDynamic(i)' = IsDynamic(i)) /\ BothThere' = BothThere
      BY <3>1 DEF BothThere, Parting, Found, IsSwapped, Touch, CircleTouch, RectangleTouch,
                  CircleDelta, Placed, CalculateSeparateVelocity, IsDynamic
    <3> QED
      BY <3>1, <3>2 DEF SettledInv
  <2> QED
    BY <2>1, <2>2, <2>3, <2>4, <2>5, <2>6, <2>7 DEF Next
<1> QED
  BY <1>1, <1>2, ContactTyped, PTL DEF Spec

\* A pair that was resolved in one leaf and is visited in the next is given no
\* velocity there, and is not moved if both are DYNAMIC and of one kind of shape,
\* for every mass, size and number of leaves (World.cpp:199-214).
THEOREM ContactFurtherVisits == Spec => FurtherVisitsAreHarmless
<1>1. ContactInv /\ BothThere /\ SettledInv /\ Resolve /\ resolved =>
          /\ \A i \in 1..2 : bodies'[i].Velocity = bodies[i].Velocity
          /\ Dynamics = {1, 2} /\ colliders[1].Shape.type = colliders[2].Shape.type =>
                bodies' = bodies
  <2> SUFFICES ASSUME ContactInv, BothThere, SettledInv, Resolve, resolved
               PROVE  /\ \A i \in 1..2 : bodies'[i].Velocity = bodies[i].Velocity
                      /\ Dynamics = {1, 2} /\ colliders[1].Shape.type = colliders[2].Shape.type =>
                            bodies' = bodies
    OBVIOUS
  <2>0. LiveInv
    BY DEF LiveInv
  <2>1. PICK a, touch, cs :
           /\ a \in 1..2
           /\ a = IF IsSwapped(bodies, 1, 2) THEN 2 ELSE 1
           /\ touch = Found(bodies) /\ IsTouch(touch)
           /\ cs = Solved(bodies, a, Other(a), touch)
           /\ \/ bodies' = cs
              \/ bodies' = Solved(cs, a, Other(a), touch)
    BY <2>0, VisitIs
  <2>2. SameMakes(bodies) /\ SameMakes(cs)
    BY <2>0, <2>1, MakesOfState
  <2>3. PICK b \in 1..2 : b = Other(a) /\ \A i \in 1..2 : i = a \/ i = b
    BY <2>0, <2>1, MassesAre
  <2>4. /\ Parting(bodies) >= 0
        /\ (\A i \in 1..2 : IsDynamic(i)) /\ colliders[1].Shape.type = colliders[2].Shape.type
                => touch.Penetration <= 0
    BY <2>1 DEF SettledInv, Resolve
  <2>5. CalculateSeparateVelocity(bodies, a, Other(a), touch.Normal) >= 0
    <3>1. Other(1) = 2 /\ Other(2) = 1
      BY DEF Other
    <3> QED
      BY <2>1, <2>4, <3>1 DEF Parting
  <2>6. /\ \A i \in 1..2 : cs[i].Velocity = bodies[i].Velocity
        /\ touch.Penetration <= 0 => cs = bodies
    BY <2>1, <2>2, <2>5, <2>0, PartedStay
  <2>7. CalculateSeparateVelocity(cs, a, Other(a), touch.Normal) >= 0
    BY <2>1, <2>3, <2>5, <2>6 DEF CalculateSeparateVelocity
  <2>8. /\ \A i \in 1..2 : Solved(cs, a, Other(a), touch)[i].Velocity = cs[i].Velocity
        /\ touch.Penetration <= 0 => Solved(cs, a, Other(a), touch) = cs
    BY <2>1, <2>2, <2>7, <2>0, PartedStay
  <2>9. Dynamics = {1, 2} => \A i \in 1..2 : IsDynamic(i)
    BY DEF Dynamics
  <2> QED
    BY <2>1, <2>4, <2>6, <2>8, <2>9
<1>2. ContactInv /\ ~BothThere /\ Resolve =>
          /\ \A i \in 1..2 : bodies'[i].Velocity = bodies[i].Velocity
          /\ Dynamics = {1, 2} /\ colliders[1].Shape.type = colliders[2].Shape.type =>
                bodies' = bodies
  BY GoneStay
<1> QED
  BY <1>1, <1>2, ContactTyped, SettledAlways, PTL DEF FurtherVisitsAreHarmless

=============================================================================
