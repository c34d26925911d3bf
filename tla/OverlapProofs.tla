--------------------------- MODULE OverlapProofs ----------------------------
(***************************************************************************)
(* Proofs about the narrow phase for every shape and place.                *)
(***************************************************************************)
EXTENDS Overlap, GeometryProofs

IsCollider(col) == IsShape(col.Shape) /\ col.BodyPosition \in Vec

OverlapInv == IsCollider(colA) /\ IsCollider(colB)

-----------------------------------------------------------------------------
\* The constants are what the lemmas ask for.
LEMMA CollidersAreShapes == \A col \in Colliders : IsCollider(col)
BY ShapesAssumption DEF Colliders, IsCollider, IsShape, IsCircle, IsRectangle, IsPolygon

\* The two colliders stay what they are.
LEMMA OverlapInvariance == Spec => []OverlapInv
<1>1. Init => OverlapInv
  <2>1. IsCollider(DefaultCollider)
    <3>1. <<0, 0>> \in Vec /\ Abs(1) \in Int
      BY DEF Vec, Abs
    <3>2. IsCircle(Circle(<<0, 0>>, 1))
      BY <3>1 DEF Circle, IsCircle
    <3> QED
      BY <3>1, <3>2 DEF DefaultCollider, IsCollider, IsShape
  <2> QED
    BY <2>1 DEF Init, OverlapInv
<1>2. OverlapInv /\ [Next]_vars => OverlapInv'
  BY CollidersAreShapes DEF OverlapInv, Next, ConfigureA, ConfigureB, vars
<1> QED
  BY <1>1, <1>2, PTL DEF Spec

-----------------------------------------------------------------------------
\* For all shapes wherever they are, whichever of the two has the lower slot: the
\* answer is the same.
THEOREM OverlapStaysSymmetric == Spec => []OverlapIsSymmetric
<1>1. ASSUME OverlapInv PROVE OverlapIsSymmetric
  <2>1. IsShape(Placed(colA)) /\ IsShape(Placed(colB))
    BY <1>1, TranslatedShape DEF OverlapInv, IsCollider, Placed
  <2> QED
    BY <2>1, DispatchSymmetric DEF OverlapIsSymmetric, OverlapOf
<1> QED
  BY <1>1, OverlapInvariance, PTL

-----------------------------------------------------------------------------
(* The broad phase.                                                        *)

\* A polygon with vertices, and what is not one.  (Of a flat rectangle the separating
\* axis test tries one axis twice.)
OutlineMeets(a, b) == IsOutline(a) /\ a.vertices # <<>> /\ (IsRound(b) \/ IsSolid(b))

\* Every pair but two polygons.  (Between those the test finds the gaps only when both
\* are convex, which nothing makes a client's polygons.)
NotTwoPolygons(a, b) ==
    \/ (IsRound(a) \/ IsBox(a)) /\ (IsRound(b) \/ IsBox(b))
    \/ OutlineMeets(a, b)
    \/ OutlineMeets(b, a)

\* The bounds of a polygon and another shape that it overlaps.
LEMMA OutlineCovers ==
    ASSUME NEW a, NEW b, OutlineMeets(a, b), NEW p \in Vec, NEW q \in Vec,
           \/ OverlapShapes(Translate(a, p), Translate(b, q))
           \/ OverlapShapes(Translate(b, q), Translate(a, p))
    PROVE  /\ IntersectRectangles(GetBounds(a, p), GetBounds(b, q))
           /\ IntersectRectangles(GetBounds(b, q), GetBounds(a, p))
<1>1. Translate(a, p).type = "Polygon"
  BY OutlineInBounds DEF IsOutline, OutlineMeets
<1>2. CASE IsRound(b)
  <2>1. Translate(b, q).type = "Circle"
    BY <1>2, BoundsAreAround DEF IsRound
  <2>2. IntersectPolygonCircle(Translate(a, p), Translate(b, q))
    BY <1>1, <2>1 DEF OverlapShapes
  <2> QED
    BY <1>2, <2>2, OutlineCircleCover DEF OutlineMeets
<1>3. CASE IsSolid(b)
  <2>1. Translate(b, q).type = "Rectangle"
    BY <1>3, BoundsAreAround DEF IsSolid, IsBox
  <2>2. IntersectPolygons(Translate(a, p), RectToPolygon(Translate(b, q)))
    BY <1>1, <2>1 DEF OverlapShapes
  <2> QED
    BY <1>3, <2>2, OutlineRectangleCover DEF OutlineMeets
<1> QED
  BY <1>2, <1>3 DEF OutlineMeets

\* Whatever the sizes, outlines and places: any two colliders but two polygons have
\* bounding boxes that intersect when World::Overlap finds that they overlap
\* (Shape.h:201-262 and 356-411, Collider::GetBounds).
THEOREM OverlapLiesInBounds ==
    Spec => [](NotTwoPolygons(colA.Shape, colB.Shape) => BoundsCoverOverlap)
<1>1. ASSUME OverlapInv, NotTwoPolygons(colA.Shape, colB.Shape) PROVE BoundsCoverOverlap
  <2> SUFFICES ASSUME OverlapOf(colA, colB)
               PROVE  IntersectRectangles(Bounds(colA), Bounds(colB))
    BY DEF BoundsCoverOverlap
  <2>1. PICK a, b, p, q : /\ a = colA.Shape /\ b = colB.Shape
                          /\ p = colA.BodyPosition /\ q = colB.BodyPosition
    OBVIOUS
  <2>2. p \in Vec /\ q \in Vec /\ NotTwoPolygons(a, b)
    BY <1>1, <2>1 DEF OverlapInv, IsCollider
  <2>3. OverlapShapes(Translate(a, p), Translate(b, q))
    BY <2>1 DEF OverlapOf, Placed
  <2>4. IntersectRectangles(GetBounds(a, p), GetBounds(b, q))
    BY <2>2, <2>3, BoundsCover, OutlineCovers DEF NotTwoPolygons
  <2> QED
    BY <2>1, <2>4 DEF Bounds
<1> QED
  BY <1>1, OverlapInvariance, PTL

-----------------------------------------------------------------------------
(* What World::Overlap says of a circle is what the solid shapes do.       *)

\* The circles' own test is the one of their distance.
LEMMA CirclesMeet ==
    ASSUME NEW a, IsRound(a), NEW b, IsRound(b)
    PROVE  IntersectCircles(a, b) <=> Meet(a, b)
<1>1. a.type = "Circle" /\ b.type = "Circle" /\ a.radius \in Int /\ b.radius \in Int
  BY DEF IsRound
<1>2. (a.radius + b.radius) * (a.radius + b.radius)
        = a.radius * a.radius + 2 * a.radius * b.radius + b.radius * b.radius
  BY <1>1
<1> QED
  BY <1>1, <1>2 DEF IntersectCircles, Meet

\* A point as far from a line as the end it is within the radius of, or less.
LEMMA CrossBound ==
    ASSUME NEW s \in Int, NEW t \in Int, NEW u \in Int, NEW v \in Int, NEW R \in Int,
           s * s + t * t <= R
    PROVE  (s * v - t * u) * (s * v - t * u) <= R * (u * u + v * v)
<1>1. PICK dot \in Int, len \in Int, cross \in Int, d \in Int :
          /\ dot = s * u + t * v /\ len = u * u + v * v /\ cross = s * v - t * u
          /\ d = s * s + t * t
  OBVIOUS
<1>2. cross * cross + dot * dot = d * len
  BY <1>1, Lagrange
<1>3. dot * dot >= 0 /\ len >= 0 /\ dot * dot \in Int /\ cross * cross \in Int
  BY <1>1
<1>4. d * len <= R * len
  <2>1. (R - d) * len >= 0 /\ (R - d) * len = R * len - d * len
    BY <1>1, <1>3
  <2>2. R * len \in Int /\ d * len \in Int
    OBVIOUS
  <2> QED
    BY <2>1, <2>2
<1>5. cross * cross <= R * len
  <2>1. R * len \in Int /\ d * len \in Int
    OBVIOUS
  <2> QED
    BY <1>2, <1>3, <1>4, <2>1
<1> QED
  BY <1>1, <1>5

\* The side from a to b, and a point, in numbers: (s, t) leads from a to the point
\* and (u, v) along the side.
InNumbers(p, a, b, s, t, u, v) ==
    /\ s = p[1] - a[1] /\ t = p[2] - a[2] /\ u = b[1] - a[1] /\ v = b[2] - a[2]
    /\ Turn(a, b, p) = u * t - v * s
    /\ LengthSq(Minus(p, a)) = s * s + t * t
    /\ LengthSq(Minus(p, b)) = (s - u) * (s - u) + (t - v) * (t - v)
    /\ Dot(Minus(p, a), Minus(b, a)) = s * u + t * v
    /\ Dot(Minus(p, a), Minus(p, b)) = s * (s - u) + t * (t - v)
    /\ Dot(Minus(p, b), Minus(a, b)) = u * u + v * v - (s * u + t * v)
    /\ LengthSq(Minus(b, a)) = u * u + v * v
    /\ LengthSq(Minus(a, b)) = u * u + v * v

\* Every side and point are.
LEMMA SideInNumbers ==
    ASSUME NEW p \in Vec, NEW a \in Vec, NEW b \in Vec
    PROVE  \E s, t, u, v \in Int : InNumbers(p, a, b, s, t, u, v)
<1>1. PICK s, t, u, v \in Int :
          s = p[1] - a[1] /\ t = p[2] - a[2] /\ u = b[1] - a[1] /\ v = b[2] - a[2]
  BY DEF Vec
<1>2. /\ p[1] \in Int /\ p[2] \in Int /\ a[1] \in Int /\ a[2] \in Int /\ b[1] \in Int /\ b[2] \in Int
  BY DEF Vec
<1>3. /\ p[1] - b[1] = s - u /\ p[2] - b[2] = t - v
      /\ a[1] - b[1] = -u /\ a[2] - b[2] = -v
  BY <1>1, <1>2
<1>4. /\ Turn(a, b, p) = u * t - v * s
      /\ LengthSq(Minus(p, a)) = s * s + t * t
      /\ LengthSq(Minus(p, b)) = (s - u) * (s - u) + (t - v) * (t - v)
      /\ Dot(Minus(p, a), Minus(b, a)) = s * u + t * v
      /\ Dot(Minus(p, a), Minus(p, b)) = s * (s - u) + t * (t - v)
      /\ LengthSq(Minus(b, a)) = u * u + v * v
  BY <1>1, <1>3 DEF Turn, LengthSq, Dot, Minus
<1>5. /\ Dot(Minus(p, b), Minus(a, b)) = (s - u) * (-u) + (t - v) * (-v)
      /\ LengthSq(Minus(a, b)) = (-u) * (-u) + (-v) * (-v)
  BY <1>1, <1>3 DEF LengthSq, Dot, Minus
<1>6. /\ (s - u) * (-u) + (t - v) * (-v) = u * u + v * v - (s * u + t * v)
      /\ (-u) * (-u) + (-v) * (-v) = u * u + v * v
  OBVIOUS
<1>7. InNumbers(p, a, b, s, t, u, v)
  BY <1>1, <1>4, <1>5, <1>6 DEF InNumbers
<1> QED
  BY <1>7

\* A circle that contains an end of a side is near the side: the foot on it, if there
\* is one, is not farther than the end.
LEMMA EndIsNear ==
    ASSUME NEW p \in Vec, NEW a \in Vec, NEW b \in Vec, NEW r \in Nat,
           LengthSq(Minus(p, a)) <= r * r \/ LengthSq(Minus(p, b)) <= r * r
    PROVE  Near(p, r, <<a, b>>)
<1> PICK s, t, u, v \in Int : InNumbers(p, a, b, s, t, u, v)
  BY SideInNumbers
<1>1. /\ Turn(a, b, p) = u * t - v * s
      /\ LengthSq(Minus(p, a)) = s * s + t * t
      /\ LengthSq(Minus(p, b)) = (s - u) * (s - u) + (t - v) * (t - v)
      /\ LengthSq(Minus(b, a)) = u * u + v * v
  BY DEF InNumbers
<1>2. PICK R \in Int : R = r * r
  OBVIOUS
<1>3. PICK cross \in Int : cross = s * v - t * u
  OBVIOUS
<1>4. cross * cross <= R * (u * u + v * v)
  <2>1. CASE s * s + t * t <= R
    BY <1>3, <2>1, CrossBound
  <2>2. CASE (s - u) * (s - u) + (t - v) * (t - v) <= R
    <3>1. s - u \in Int /\ t - v \in Int
      OBVIOUS
    <3>2. ((s - u) * v - (t - v) * u) * ((s - u) * v - (t - v) * u) <= R * (u * u + v * v)
      BY <2>2, <3>1, CrossBound
    <3>3. (s - u) * v - (t - v) * u = cross
      BY <1>3
    <3> QED
      BY <3>2, <3>3
  <2> QED
    BY <1>1, <1>2, <2>1, <2>2
<1>5. Turn(a, b, p) * Turn(a, b, p) = cross * cross
  BY <1>1, <1>3
<1>6. Turn(a, b, p) * Turn(a, b, p) <= r * r * LengthSq(Minus(b, a))
  BY <1>1, <1>2, <1>4, <1>5
<1> QED
  BY <1>6 DEF Near

\* The distance to a segment that the test of the code computes is the distance to it,
\* up to the ends, which it tests apart.
LEMMA SegmentIsNear ==
    ASSUME NEW circle, IsRound(circle), NEW a \in Vec, NEW b \in Vec
    PROVE  Near(circle.center, circle.radius, <<a, b>>) <=>
              \/ SegmentWithinRadius(b, a, circle)
              \/ CircleContains(circle, a) \/ CircleContains(circle, b)
<1>1. PICK p \in Vec, r \in Nat : p = circle.center /\ r = circle.radius
  BY DEF IsRound
<1> PICK s, t, u, v \in Int : InNumbers(p, a, b, s, t, u, v)
  BY SideInNumbers
<1>2. /\ Turn(a, b, p) = u * t - v * s
      /\ LengthSq(Minus(p, b)) = (s - u) * (s - u) + (t - v) * (t - v)
      /\ Dot(Minus(p, a), Minus(b, a)) = s * u + t * v
      /\ Dot(Minus(p, b), Minus(a, b)) = u * u + v * v - (s * u + t * v)
      /\ LengthSq(Minus(b, a)) = u * u + v * v
      /\ LengthSq(Minus(a, b)) = u * u + v * v
  BY DEF InNumbers
<1>3. PICK R \in Int, len \in Int, dot \in Int, cross \in Int, d \in Int :
          /\ R = r * r /\ len = u * u + v * v /\ dot = s * u + t * v /\ cross = s * v - t * u
          /\ d = (s - u) * (s - u) + (t - v) * (t - v)
  OBVIOUS
<1>4. /\ CircleContains(circle, a) <=> LengthSq(Minus(p, a)) <= R
      /\ CircleContains(circle, b) <=> d <= R
  BY <1>1, <1>2, <1>3 DEF CircleContains
<1>5. Near(p, r, <<a, b>>) <=>
          IF 0 < dot /\ dot < len THEN cross * cross <= R * len
          ELSE CircleContains(circle, a) \/ CircleContains(circle, b)
  <2>1. Turn(a, b, p) * Turn(a, b, p) = cross * cross
    BY <1>2, <1>3
  <2>2. /\ Dot(Minus(p, a), Minus(b, a)) = dot /\ LengthSq(Minus(b, a)) = len
        /\ LengthSq(Minus(p, b)) = d
    BY <1>2, <1>3
  <2>3. Near(p, r, <<a, b>>) <=>
            IF 0 < dot /\ dot < len THEN cross * cross <= R * len
            ELSE LengthSq(Minus(p, a)) <= R \/ d <= R
    BY <1>3, <2>1, <2>2 DEF Near
  <2> QED
    BY <1>4, <2>3
<1>6. SegmentWithinRadius(b, a, circle) <=>
          \/ len # 0 /\ len - dot <= 0 /\ CircleContains(circle, b)
          \/ len # 0 /\ len - dot >= len /\ CircleContains(circle, a)
          \/ 0 < len - dot /\ len - dot < len /\ (d - R) * len <= (len - dot) * (len - dot)
  <2>1. /\ Dot(Minus(p, b), Minus(a, b)) = len - dot /\ LengthSq(Minus(a, b)) = len
        /\ LengthSq(Minus(p, b)) = d
    BY <1>2, <1>3
  <2> QED
    BY <1>1, <1>3, <2>1 DEF SegmentWithinRadius
<1>7. cross * cross <= R * len <=> (d - R) * len <= (len - dot) * (len - dot)
  <2>1. PICK s1 \in Int, t1 \in Int : s1 = s - u /\ t1 = t - v
    OBVIOUS
  <2>2. /\ (s1 * v - t1 * u) * (s1 * v - t1 * u) + (s1 * u + t1 * v) * (s1 * u + t1 * v)
             = (s1 * s1 + t1 * t1) * (u * u + v * v)
    BY Lagrange
  <2>3. /\ s1 * v - t1 * u = cross /\ s1 * u + t1 * v = dot - len
        /\ s1 * s1 + t1 * t1 = d /\ u * u + v * v = len
    BY <1>3, <2>1
  <2>4. cross * cross + (dot - len) * (dot - len) = d * len
    BY <2>2, <2>3
  <2>5. /\ (dot - len) * (dot - len) = (len - dot) * (len - dot)
        /\ (d - R) * len = d * len - R * len
    OBVIOUS
  <2>6. /\ cross * cross \in Int /\ d * len \in Int /\ R * len \in Int
        /\ (len - dot) * (len - dot) \in Int
    OBVIOUS
  <2> QED
    BY <2>4, <2>5, <2>6
<1>8. Near(p, r, <<a, b>>) <=>
          SegmentWithinRadius(b, a, circle) \/ CircleContains(circle, a) \/ CircleContains(circle, b)
  <2>1. CASE 0 < dot /\ dot < len
    <3>1. 0 < len - dot /\ len - dot < len
      BY <2>1
    <3>2. CircleContains(circle, a) \/ CircleContains(circle, b) => Near(p, r, <<a, b>>)
      BY <1>1, EndIsNear DEF CircleContains
    <3>3. SegmentWithinRadius(b, a, circle) <=> (d - R) * len <= (len - dot) * (len - dot)
      BY <1>6, <3>1
    <3>4. Near(p, r, <<a, b>>) <=> SegmentWithinRadius(b, a, circle)
      BY <1>5, <1>7, <2>1, <3>3
    <3> QED
      BY <3>2, <3>4
  <2>2. CASE ~(0 < dot /\ dot < len)
    <3>1. ~(0 < len - dot /\ len - dot < len)
      BY <2>2
    <3> QED
      BY <1>5, <1>6, <2>2, <3>1
  <2> QED
    BY <2>1, <2>2
<1> QED
  BY <1>1, <1>8

\* A polygon and a circle: the vertices and the segments between them are what the
\* outline is made of.
LEMMA OutlineIsTouched ==
    ASSUME NEW outline, IsOutline(outline), NEW circle, IsRound(circle)
    PROVE  IntersectPolygonCircle(outline, circle) <=> TouchesOutline(circle, outline)
<1>1. PICK n, vs : /\ vs = outline.vertices /\ n = Len(vs) /\ n \in Nat
                  /\ DOMAIN vs = 1..n /\ \A i \in 1..n : vs[i] \in Vec
  BY DEF IsOutline
<1>2. Sides(outline) = Edges(outline)
  BY DEF Sides, AsPolygon, IsOutline
<1>3. Edges(outline) = {<<vs[IF i = 1 THEN n ELSE i - 1], vs[i]>> : i \in 1..n}
  BY <1>1 DEF Edges
<1>4. ASSUME NEW edge \in Edges(outline)
      PROVE  \E i, j \in 1..n : edge = <<vs[j], vs[i]>> /\ vs[i] \in Vec /\ vs[j] \in Vec
  <2>1. PICK i \in 1..n : edge = <<vs[IF i = 1 THEN n ELSE i - 1], vs[i]>>
    BY <1>3
  <2>2. PICK j \in 1..n : j = IF i = 1 THEN n ELSE i - 1
    BY <1>1
  <2> QED
    BY <1>1, <2>1, <2>2
<1>5. ASSUME IntersectPolygonCircle(outline, circle) PROVE TouchesOutline(circle, outline)
  <2>1. CASE \E i \in 1..n : CircleContains(circle, vs[i])
    <3>1. PICK i \in 1..n : CircleContains(circle, vs[i])
      BY <2>1
    <3>2. PICK j \in 1..n : j = IF i = 1 THEN n ELSE i - 1
      BY <1>1
    <3>3. <<vs[j], vs[i]>> \in Edges(outline) /\ vs[i] \in Vec /\ vs[j] \in Vec
      BY <1>1, <1>3, <3>2
    <3>4. Near(circle.center, circle.radius, <<vs[j], vs[i]>>)
      BY <3>1, <3>3, SegmentIsNear
    <3> QED
      BY <1>2, <3>3, <3>4 DEF TouchesOutline
  <2>2. CASE \E edge \in Edges(outline) : SegmentWithinRadius(edge[2], edge[1], circle)
    <3>1. PICK edge \in Edges(outline) : SegmentWithinRadius(edge[2], edge[1], circle)
      BY <2>2
    <3>2. PICK i, j \in 1..n : edge = <<vs[j], vs[i]>> /\ vs[i] \in Vec /\ vs[j] \in Vec
      BY <1>4
    <3>3. Near(circle.center, circle.radius, edge)
      BY <3>1, <3>2, SegmentIsNear
    <3> QED
      BY <1>2, <3>3 DEF TouchesOutline
  <2> QED
    BY <1>1, <1>5, <2>1, <2>2 DEF IntersectPolygonCircle
<1>6. ASSUME TouchesOutline(circle, outline) PROVE IntersectPolygonCircle(outline, circle)
  <2>1. PICK edge \in Edges(outline) : Near(circle.center, circle.radius, edge)
    BY <1>2, <1>6 DEF TouchesOutline
  <2>2. PICK i, j \in 1..n : edge = <<vs[j], vs[i]>> /\ vs[i] \in Vec /\ vs[j] \in Vec
    BY <1>4
  <2>3. \/ SegmentWithinRadius(edge[2], edge[1], circle)
        \/ CircleContains(circle, vs[i]) \/ CircleContains(circle, vs[j])
    BY <2>1, <2>2, SegmentIsNear
  <2> QED
    BY <1>1, <2>3 DEF IntersectPolygonCircle
<1> QED
  BY <1>5, <1>6

\* How far a number is from zero, by its square.
LEMMA SquareWithin ==
    ASSUME NEW w \in Int, w # 0, NEW y \in Int, NEW r \in Nat
    PROVE  /\ (w * y) * (w * y) <= r * r * (w * w) <=> -r <= y /\ y <= r
           /\ y * y <= r * r <=> -r <= y /\ y <= r
<1>1. PICK yy \in Int, rr \in Int, ww \in Int : yy = y * y /\ rr = r * r /\ ww = w * w
  OBVIOUS
<1>2. yy <= rr <=> -r <= y /\ y <= r
  <2>1. CASE -r <= y /\ y <= r
    <3>1. (r - y) * (r + y) >= 0 /\ (r - y) * (r + y) = r * r - y * y
      BY <2>1
    <3> QED
      BY <1>1, <2>1, <3>1
  <2>2. CASE y > r
    <3>1. (y - r) * (y + r) > 0 /\ (y - r) * (y + r) = y * y - r * r
      BY <2>2
    <3> QED
      BY <1>1, <2>2, <3>1
  <2>3. CASE y < -r
    <3>1. (-y - r) * (r - y) > 0 /\ (-y - r) * (r - y) = y * y - r * r
      BY <2>3
    <3> QED
      BY <1>1, <2>3, <3>1
  <2> QED
    BY <2>1, <2>2, <2>3
<1>3. ww > 0
  BY <1>1
<1>4. (w * y) * (w * y) = ww * yy /\ r * r * (w * w) = ww * rr
  BY <1>1
<1>5. ww * yy <= ww * rr <=> yy <= rr
  <2>1. CASE yy <= rr
    <3>1. ww * (rr - yy) >= 0 /\ ww * (rr - yy) = ww * rr - ww * yy
          /\ ww * rr \in Int /\ ww * yy \in Int
      BY <1>3, <2>1
    <3> QED
      BY <2>1, <3>1
  <2>2. CASE yy > rr
    <3>1. ww * (yy - rr) > 0 /\ ww * (yy - rr) = ww * yy - ww * rr
          /\ ww * rr \in Int /\ ww * yy \in Int
      BY <1>3, <2>2
    <3> QED
      BY <2>2, <3>1
  <2> QED
    BY <2>1, <2>2
<1> QED
  BY <1>1, <1>2, <1>4, <1>5

\* Strictly between zero and another number.
LEMMA StrictlyBetween ==
    ASSUME NEW x \in Int, NEW w \in Int
    PROVE  0 < x * w /\ x * w < w * w <=> (0 < x /\ x < w) \/ (w < x /\ x < 0)
<1>1. CASE w > 0
  <2>1. 0 < x * w <=> 0 < x
    <3>1. CASE x > 0
      BY <1>1, <3>1
    <3>2. CASE x <= 0
      <4>1. (-x) * w >= 0 /\ (-x) * w = -(x * w)
        BY <1>1, <3>2
      <4> QED
        BY <3>2, <4>1
    <3> QED
      BY <3>1, <3>2
  <2>2. x * w < w * w <=> x < w
    <3>1. CASE x < w
      <4>1. (w - x) * w > 0 /\ (w - x) * w = w * w - x * w /\ w * w \in Int /\ x * w \in Int
        BY <1>1, <3>1
      <4> QED
        BY <3>1, <4>1
    <3>2. CASE x >= w
      <4>1. (x - w) * w >= 0 /\ (x - w) * w = x * w - w * w /\ w * w \in Int /\ x * w \in Int
        BY <1>1, <3>2
      <4> QED
        BY <3>2, <4>1
    <3> QED
      BY <3>1, <3>2
  <2> QED
    BY <1>1, <2>1, <2>2
<1>2. CASE w < 0
  <2>1. 0 < x * w <=> x < 0
    <3>1. CASE x < 0
      <4>1. (-x) * (-w) > 0 /\ (-x) * (-w) = x * w
        BY <1>2, <3>1
      <4> QED
        BY <3>1, <4>1
    <3>2. CASE x >= 0
      <4>1. x * (-w) >= 0 /\ x * (-w) = -(x * w)
        BY <1>2, <3>2
      <4> QED
        BY <3>2, <4>1
    <3> QED
      BY <3>1, <3>2
  <2>2. x * w < w * w <=> w < x
    <3>1. CASE w < x
      <4>1. (x - w) * (-w) > 0 /\ (x - w) * (-w) = w * w - x * w /\ w * w \in Int /\ x * w \in Int
        BY <1>2, <3>1
      <4> QED
        BY <3>1, <4>1
    <3>2. CASE w >= x
      <4>1. (w - x) * (-w) >= 0 /\ (w - x) * (-w) = x * w - w * w /\ w * w \in Int /\ x * w \in Int
        BY <1>2, <3>2
      <4> QED
        BY <3>2, <4>1
    <3> QED
      BY <3>1, <3>2
  <2> QED
    BY <1>2, <2>1, <2>2
<1>3. CASE w = 0
  BY <1>3
<1> QED
  BY <1>1, <1>2, <1>3

\* Near a side that lies along an axis: beside it, or in a circle around an end.
Beside(p, r, a, b, k, l) ==
    /\ (a[k] < p[k] /\ p[k] < b[k]) \/ (b[k] < p[k] /\ p[k] < a[k])
    /\ -r <= p[l] - a[l] /\ p[l] - a[l] <= r

\* The segment from a to b along axis k.
Along(a, b, k, l) == a[l] = b[l] /\ a[k] # b[k]

\* What it is to be near such a side.
LEMMA NearAlong ==
    ASSUME NEW p \in Vec, NEW r \in Nat, NEW a \in Vec, NEW b \in Vec,
           NEW k \in {1, 2}, Along(a, b, k, 3 - k)
    PROVE  Near(p, r, <<a, b>>) <=>
              \/ Beside(p, r, a, b, k, 3 - k)
              \/ LengthSq(Minus(p, a)) <= r * r
              \/ LengthSq(Minus(p, b)) <= r * r
<1> PICK s, t, u, v \in Int : InNumbers(p, a, b, s, t, u, v)
  BY SideInNumbers
<1>1. /\ s = p[1] - a[1] /\ t = p[2] - a[2] /\ u = b[1] - a[1] /\ v = b[2] - a[2]
      /\ Turn(a, b, p) = u * t - v * s
      /\ Dot(Minus(p, a), Minus(b, a)) = s * u + t * v
      /\ LengthSq(Minus(b, a)) = u * u + v * v
  BY DEF InNumbers
<1>2. /\ p[1] \in Int /\ p[2] \in Int /\ a[1] \in Int /\ a[2] \in Int /\ b[1] \in Int /\ b[2] \in Int
  BY DEF Vec
<1>3. PICK w, x, y \in Int : w = b[k] - a[k] /\ x = p[k] - a[k] /\ y = p[3 - k] - a[3 - k]
  BY <1>2
<1>4. w # 0 /\ Turn(a, b, p) * Turn(a, b, p) = (w * y) * (w * y)
      /\ Dot(Minus(p, a), Minus(b, a)) = x * w /\ LengthSq(Minus(b, a)) = w * w
  <2>1. CASE k = 1
    <3>1. w = u /\ x = s /\ y = t /\ v = 0 /\ w # 0
      <4>1. 3 - k = 2
        BY <2>1
      <4>2. /\ w = b[1] - a[1] /\ x = p[1] - a[1] /\ y = p[2] - a[2]
            /\ a[2] = b[2] /\ a[1] # b[1]
        BY <1>3, <2>1, <4>1 DEF Along
      <4>3. w # 0 /\ b[2] - a[2] = 0
        BY <1>2, <4>2
      <4> QED
        BY <1>1, <4>2, <4>3
    <3>2. v * s = 0 /\ t * v = 0 /\ v * v = 0
      BY <3>1
    <3> QED
      BY <1>1, <3>1, <3>2
  <2>2. CASE k = 2
    <3>1. w = v /\ x = t /\ y = s /\ u = 0 /\ w # 0
      <4>1. 3 - k = 1
        BY <2>2
      <4>2. /\ w = b[2] - a[2] /\ x = p[2] - a[2] /\ y = p[1] - a[1]
            /\ a[1] = b[1] /\ a[2] # b[2]
        BY <1>3, <2>2, <4>1 DEF Along
      <4>3. w # 0 /\ b[1] - a[1] = 0
        BY <1>2, <4>2
      <4> QED
        BY <1>1, <4>2, <4>3
    <3>2. u * t = 0 /\ s * u = 0 /\ u * u = 0 /\ (-(w * y)) * (-(w * y)) = (w * y) * (w * y)
      BY <3>1
    <3>3. Turn(a, b, p) = -(w * y)
      BY <1>1, <3>1, <3>2
    <3> QED
      BY <1>1, <3>1, <3>2, <3>3
  <2> QED
    BY <2>1, <2>2
<1>5. PICK foot \in Int, len \in Int : foot = x * w /\ len = w * w
  OBVIOUS
<1>6. Near(p, r, <<a, b>>) <=>
          IF 0 < foot /\ foot < len THEN (w * y) * (w * y) <= r * r * len
          ELSE LengthSq(Minus(p, a)) <= r * r \/ LengthSq(Minus(p, b)) <= r * r
  BY <1>4, <1>5 DEF Near
<1>7. Beside(p, r, a, b, k, 3 - k) <=>
          0 < foot /\ foot < len /\ (w * y) * (w * y) <= r * r * len
  <2>1. 0 < foot /\ foot < len <=> (0 < x /\ x < w) \/ (w < x /\ x < 0)
    BY <1>5, StrictlyBetween
  <2>2. (w * y) * (w * y) <= r * r * len <=> -r <= y /\ y <= r
    BY <1>4, <1>5, SquareWithin
  <2>3. a[k] \in Int /\ p[k] \in Int /\ b[k] \in Int
    BY <1>2
  <2>4. /\ 0 < x <=> a[k] < p[k]
        /\ x < w <=> p[k] < b[k]
        /\ w < x <=> b[k] < p[k]
        /\ x < 0 <=> p[k] < a[k]
    BY <1>3, <2>3
  <2> QED
    BY <1>3, <2>1, <2>2, <2>4 DEF Beside
<1>8. LengthSq(Minus(p, a)) <= r * r \/ LengthSq(Minus(p, b)) <= r * r => Near(p, r, <<a, b>>)
  BY EndIsNear
<1> QED
  BY <1>6, <1>7, <1>8

-----------------------------------------------------------------------------
(* And what it says of rectangles.                                         *)

\* A rectangle with an inside, in numbers.
BoxNumbers(rect, left, right, low, high) ==
    /\ rect.type = "Rectangle"
    /\ rect.minBound = <<left, low>> /\ rect.maxBound = <<right, high>>
    /\ left < right /\ low < high

\* Every solid rectangle has them.
LEMMA SolidInNumbers ==
    ASSUME NEW rect, IsSolid(rect)
    PROVE  \E left, right, low, high \in Int : BoxNumbers(rect, left, right, low, high)
<1>1. PICK left, right, low, high :
          /\ left = rect.minBound[1] /\ right = rect.maxBound[1]
          /\ low = rect.minBound[2] /\ high = rect.maxBound[2]
  OBVIOUS
<1>2. rect.minBound \in Vec /\ rect.maxBound \in Vec /\ rect.type = "Rectangle"
  BY DEF IsSolid, IsBox
<1>3. left < right /\ low < high
  BY <1>1 DEF IsSolid
<1>4. /\ left \in Int /\ right \in Int /\ low \in Int /\ high \in Int
      /\ rect.minBound = <<left, low>> /\ rect.maxBound = <<right, high>>
  BY <1>1, <1>2 DEF Vec
<1> QED
  BY <1>2, <1>3, <1>4 DEF BoxNumbers

\* The four sides, as they follow each other from the corner at (right, low).
LEMMA SidesAre ==
    ASSUME NEW rect, NEW left \in Int, NEW right \in Int, NEW low \in Int, NEW high \in Int,
           BoxNumbers(rect, left, right, low, high)
    PROVE  Sides(rect) = {<<<<right, low>>, <<left, low>>>>, <<<<left, low>>, <<left, high>>>>,
                          <<<<left, high>>, <<right, high>>>>, <<<<right, high>>, <<right, low>>>>}
<1>1. PICK vs : vs = <<<<left, low>>, <<left, high>>, <<right, high>>, <<right, low>>>>
  OBVIOUS
<1>2. RectToPolygon(rect) = Polygon(vs)
  BY <1>1 DEF BoxNumbers, RectToPolygon
<1>3. Sides(rect) = Edges(Polygon(vs))
  BY <1>2 DEF Sides, AsPolygon, BoxNumbers
<1>4. Len(vs) = 4 /\ vs[1] = <<left, low>> /\ vs[2] = <<left, high>>
      /\ vs[3] = <<right, high>> /\ vs[4] = <<right, low>>
  BY <1>1
<1>5. Edges(Polygon(vs)) = {<<vs[IF i = 1 THEN 4 ELSE i - 1], vs[i]>> : i \in 1..4}
  BY <1>4 DEF Edges, Polygon
<1>6. {<<vs[IF i = 1 THEN 4 ELSE i - 1], vs[i]>> : i \in 1..4} =
          {<<vs[4], vs[1]>>, <<vs[1], vs[2]>>, <<vs[2], vs[3]>>, <<vs[3], vs[4]>>}
  <2>1. 1..4 = {1, 2, 3, 4} /\ 2 - 1 = 1 /\ 3 - 1 = 2 /\ 4 - 1 = 3
    OBVIOUS
  <2> QED
    BY <2>1
<1> QED
  BY <1>3, <1>4, <1>5, <1>6

\* A factor keeps or turns the sign.
LEMMA SignOfProduct ==
    ASSUME NEW w \in Int, w > 0, NEW x \in Int
    PROVE  /\ w * x >= 0 <=> x >= 0
           /\ w * x <= 0 <=> x <= 0
           /\ w * x = 0 <=> x = 0
           /\ (-w) * x = -(w * x) /\ w * x \in Int
<1>1. (-w) * x = -(w * x) /\ w * x \in Int
  OBVIOUS
<1>2. CASE x > 0
  <2>1. w * x > 0
    BY <1>2
  <2> QED
    BY <1>1, <1>2, <2>1
<1>3. CASE x = 0
  BY <1>1, <1>3
<1>4. CASE x < 0
  <2>1. w * (-x) > 0 /\ w * (-x) = -(w * x)
    BY <1>4
  <2> QED
    BY <1>1, <1>4, <2>1
<1> QED
  BY <1>2, <1>3, <1>4

\* The points inside a rectangle, by its sides, are those its Contains takes.
LEMMA InsideIsContained ==
    ASSUME NEW rect, IsSolid(rect), NEW p \in Vec
    PROVE  Inside(rect, p) <=> RectangleContains(rect, p)
<1>1. PICK left, right, low, high \in Int : BoxNumbers(rect, left, right, low, high)
  BY SolidInNumbers
<1>2. PICK x, y \in Int : p = <<x, y>>
  BY DEF Vec
<1>3. PICK w, h \in Int : w = right - left /\ h = high - low /\ w > 0 /\ h > 0
  BY <1>1 DEF BoxNumbers
<1>4. /\ Turn(<<right, low>>, <<left, low>>, p) = -(w * (y - low))
      /\ Turn(<<left, low>>, <<left, high>>, p) = -(h * (x - left))
      /\ Turn(<<left, high>>, <<right, high>>, p) = w * (y - high)
      /\ Turn(<<right, high>>, <<right, low>>, p) = h * (x - right)
  <2>1. /\ Turn(<<right, low>>, <<left, low>>, p) = (left - right) * (y - low) - (low - low) * (x - right)
        /\ Turn(<<left, low>>, <<left, high>>, p) = (left - left) * (y - low) - (high - low) * (x - left)
        /\ Turn(<<left, high>>, <<right, high>>, p) = (right - left) * (y - high) - (high - high) * (x - left)
        /\ Turn(<<right, high>>, <<right, low>>, p) = (right - right) * (y - high) - (low - high) * (x - right)
    BY <1>2 DEF Turn
  <2> QED
    BY <1>3, <2>1
<1>5. /\ w * (y - low) \in Int /\ h * (x - left) \in Int
      /\ w * (y - high) \in Int /\ h * (x - right) \in Int
      /\ w * (y - low) >= 0 <=> y >= low
      /\ w * (y - low) <= 0 <=> y <= low
      /\ h * (x - left) >= 0 <=> x >= left
      /\ h * (x - left) <= 0 <=> x <= left
      /\ w * (y - high) >= 0 <=> y >= high
      /\ w * (y - high) <= 0 <=> y <= high
      /\ h * (x - right) >= 0 <=> x >= right
      /\ h * (x - right) <= 0 <=> x <= right
  <2>1. ASSUME NEW k \in Int, k > 0, NEW m \in Int, NEW n \in Int
        PROVE  /\ k * (m - n) \in Int
               /\ k * (m - n) >= 0 <=> m >= n
               /\ k * (m - n) <= 0 <=> m <= n
    <3>1. PICK d \in Int : d = m - n
      OBVIOUS
    <3>2. k * d \in Int /\ (k * d >= 0 <=> d >= 0) /\ (k * d <= 0 <=> d <= 0)
      BY <2>1, SignOfProduct
    <3> QED
      BY <3>1, <3>2
  <2> QED
    BY <1>3, <2>1
<1>6. RectangleContains(rect, p) <=> left <= x /\ x <= right /\ low <= y /\ y <= high
  <2>1. 1..2 = {1, 2}
    OBVIOUS
  <2> QED
    BY <1>1, <1>2, <2>1 DEF RectangleContains, BoxNumbers
<1> PICK s1, s2, s3, s4 :
      /\ s1 = <<<<right, low>>, <<left, low>>>> /\ s2 = <<<<left, low>>, <<left, high>>>>
      /\ s3 = <<<<left, high>>, <<right, high>>>> /\ s4 = <<<<right, high>>, <<right, low>>>>
  OBVIOUS
<1>9. /\ Sides(rect) = {s1, s2, s3, s4}
      /\ s1[1] = <<right, low>> /\ s1[2] = <<left, low>>
      /\ s2[1] = <<left, low>> /\ s2[2] = <<left, high>>
      /\ s3[1] = <<left, high>> /\ s3[2] = <<right, high>>
      /\ s4[1] = <<right, high>> /\ s4[2] = <<right, low>>
  BY <1>1, SidesAre
<1>10. (\A side \in Sides(rect) : Turn(side[1], side[2], p) <= 0) <=>
          left <= x /\ x <= right /\ low <= y /\ y <= high
  <2>1. (\A side \in Sides(rect) : Turn(side[1], side[2], p) <= 0) <=>
            /\ Turn(<<right, low>>, <<left, low>>, p) <= 0
            /\ Turn(<<left, low>>, <<left, high>>, p) <= 0
            /\ Turn(<<left, high>>, <<right, high>>, p) <= 0
            /\ Turn(<<right, high>>, <<right, low>>, p) <= 0
    BY <1>9
  <2> QED
    BY <1>4, <1>5, <2>1
<1>11. ~(\A side \in Sides(rect) : Turn(side[1], side[2], p) >= 0)
  <2>1. SUFFICES ASSUME \A side \in Sides(rect) : Turn(side[1], side[2], p) >= 0
                 PROVE  FALSE
    OBVIOUS
  <2>2. /\ Turn(<<right, low>>, <<left, low>>, p) >= 0
        /\ Turn(<<left, high>>, <<right, high>>, p) >= 0
    BY <2>1, <1>9
  <2>3. y <= low /\ y >= high /\ low < high
    BY <1>1, <1>4, <1>5, <2>2 DEF BoxNumbers
  <2> QED
    BY <2>3
<1> QED
  BY <1>6, <1>10, <1>11 DEF Inside

\* Straight above, below or beside a corner, a circle reaches it.
LEMMA CornerReached ==
    ASSUME NEW circle, IsRound(circle), NEW x \in Int, NEW y \in Int,
           circle.center = <<x, y>>, NEW px \in Int, NEW py \in Int,
           \/ x = px /\ -circle.radius <= y - py /\ y - py <= circle.radius
           \/ y = py /\ -circle.radius <= x - px /\ x - px <= circle.radius
    PROVE  CircleContains(circle, <<px, py>>)
<1>1. PICK r \in Nat : r = circle.radius
  BY DEF IsRound
<1>2. (x - px) * (x - px) + (y - py) * (y - py) <= r * r
  <2>1. CASE x = px
    <3>1. (y - py) * (y - py) <= r * r
      <4>1. \/ -r <= y - py /\ y - py <= r
            \/ y - py = 0
        BY <1>1
      <4>2. y - py \in Int /\ -r <= y - py /\ y - py <= r
        BY <4>1
      <4> QED
        BY <4>2, SquareWithin
    <3>2. (x - px) * (x - px) = 0
      BY <2>1
    <3> QED
      BY <3>1, <3>2
  <2>2. CASE y = py
    <3>1. (x - px) * (x - px) <= r * r
      <4>1. \/ -r <= x - px /\ x - px <= r
            \/ x - px = 0
        BY <1>1
      <4>2. x - px \in Int /\ -r <= x - px /\ x - px <= r
        BY <4>1
      <4> QED
        BY <4>2, SquareWithin
    <3>2. (y - py) * (y - py) = 0
      BY <2>2
    <3> QED
      BY <3>1, <3>2
  <2> QED
    BY <2>1, <2>2
<1>3. LengthSq(Minus(circle.center, <<px, py>>)) = (x - px) * (x - px) + (y - py) * (y - py)
  BY DEF LengthSq, Dot, Minus
<1> QED
  BY <1>1, <1>2, <1>3 DEF CircleContains

\* The widened rectangles and the corner circles are together the points that are
\* within the radius of the rectangle.
LEMMA RectangleIsTouched ==
    ASSUME NEW rect, IsSolid(rect), NEW circle, IsRound(circle)
    PROVE  IntersectRectangleCircle(rect, circle) <=>
                TouchesOutline(circle, rect) \/ Inside(rect, circle.center)
<1>1. PICK left, right, low, high \in Int : BoxNumbers(rect, left, right, low, high)
  BY SolidInNumbers
<1>2. left < right /\ low < high /\ rect.minBound = <<left, low>> /\ rect.maxBound = <<right, high>>
  BY <1>1 DEF BoxNumbers
<1>3. PICK x, y \in Int, r \in Nat : circle.center = <<x, y>> /\ circle.radius = r
  BY DEF IsRound, Vec
<1>4. PICK a, b, c, d : a = <<left, low>> /\ b = <<left, high>> /\ c = <<right, high>> /\ d = <<right, low>>
  OBVIOUS
<1>5. a \in Vec /\ b \in Vec /\ c \in Vec /\ d \in Vec /\ circle.center \in Vec
  BY <1>3, <1>4 DEF Vec
<1>6. /\ a[1] = left /\ a[2] = low /\ b[1] = left /\ b[2] = high
      /\ c[1] = right /\ c[2] = high /\ d[1] = right /\ d[2] = low
      /\ circle.center[1] = x /\ circle.center[2] = y
  BY <1>3, <1>4
<1> DEFINE Reached == \/ CircleContains(circle, a) \/ CircleContains(circle, b)
                      \/ CircleContains(circle, c) \/ CircleContains(circle, d)
           Over == left < x /\ x < right
           Level == low < y /\ y < high
\* The corners.
<1>7. /\ x = left /\ -r <= y - low /\ y - low <= r => CircleContains(circle, a)
      /\ y = low /\ -r <= x - left /\ x - left <= r => CircleContains(circle, a)
      /\ x = left /\ -r <= y - high /\ y - high <= r => CircleContains(circle, b)
      /\ y = high /\ -r <= x - left /\ x - left <= r => CircleContains(circle, b)
      /\ x = right /\ -r <= y - high /\ y - high <= r => CircleContains(circle, c)
      /\ y = high /\ -r <= x - right /\ x - right <= r => CircleContains(circle, c)
      /\ x = right /\ -r <= y - low /\ y - low <= r => CircleContains(circle, d)
      /\ y = low /\ -r <= x - right /\ x - right <= r => CircleContains(circle, d)
  BY <1>3, <1>4, CornerReached
\* The sides.
<1>8. ASSUME NEW m \in Vec, NEW n \in Vec, NEW k \in {1, 2}, Along(m, n, k, 3 - k)
      PROVE  Near(circle.center, circle.radius, <<m, n>>) <=>
                \/ Beside(circle.center, r, m, n, k, 3 - k)
                \/ CircleContains(circle, m) \/ CircleContains(circle, n)
  BY <1>3, <1>5, <1>8, NearAlong DEF CircleContains
<1>9. /\ Near(circle.center, circle.radius, <<d, a>>) <=>
            \/ Over /\ -r <= y - low /\ y - low <= r
            \/ CircleContains(circle, d) \/ CircleContains(circle, a)
      /\ Near(circle.center, circle.radius, <<b, c>>) <=>
            \/ Over /\ -r <= y - high /\ y - high <= r
            \/ CircleContains(circle, b) \/ CircleContains(circle, c)
  <2>1. 3 - 1 = 2 /\ 1 \in {1, 2}
    OBVIOUS
  <2>2. Along(d, a, 1, 2) /\ Along(b, c, 1, 2)
    BY <1>2, <1>6 DEF Along
  <2>3. /\ Beside(circle.center, r, d, a, 1, 2) <=> Over /\ -r <= y - low /\ y - low <= r
        /\ Beside(circle.center, r, b, c, 1, 2) <=> Over /\ -r <= y - high /\ y - high <= r
    BY <1>2, <1>6 DEF Beside
  <2>4. /\ Near(circle.center, circle.radius, <<d, a>>) <=>
            \/ Beside(circle.center, r, d, a, 1, 2)
            \/ CircleContains(circle, d) \/ CircleContains(circle, a)
        /\ Near(circle.center, circle.radius, <<b, c>>) <=>
            \/ Beside(circle.center, r, b, c, 1, 2)
            \/ CircleContains(circle, b) \/ CircleContains(circle, c)
    BY <1>5, <1>8, <2>1, <2>2
  <2> HIDE DEF Over
  <2> QED
    BY <2>3, <2>4
<1>10. /\ Near(circle.center, circle.radius, <<a, b>>) <=>
            \/ Level /\ -r <= x - left /\ x - left <= r
            \/ CircleContains(circle, a) \/ CircleContains(circle, b)
       /\ Near(circle.center, circle.radius, <<c, d>>) <=>
            \/ Level /\ -r <= x - right /\ x - right <= r
            \/ CircleContains(circle, c) \/ CircleContains(circle, d)
  <2>1. 3 - 2 = 1 /\ 2 \in {1, 2}
    OBVIOUS
  <2>2. Along(a, b, 2, 1) /\ Along(c, d, 2, 1)
    BY <1>2, <1>6 DEF Along
  <2>3. /\ Beside(circle.center, r, a, b, 2, 1) <=> Level /\ -r <= x - left /\ x - left <= r
        /\ Beside(circle.center, r, c, d, 2, 1) <=> Level /\ -r <= x - right /\ x - right <= r
    BY <1>2, <1>6 DEF Beside
  <2>4. /\ Near(circle.center, circle.radius, <<a, b>>) <=>
            \/ Beside(circle.center, r, a, b, 2, 1)
            \/ CircleContains(circle, a) \/ CircleContains(circle, b)
        /\ Near(circle.center, circle.radius, <<c, d>>) <=>
            \/ Beside(circle.center, r, c, d, 2, 1)
            \/ CircleContains(circle, c) \/ CircleContains(circle, d)
    BY <1>5, <1>8, <2>1, <2>2
  <2> HIDE DEF Level
  <2> QED
    BY <2>3, <2>4
<1>11. Sides(rect) = {<<d, a>>, <<a, b>>, <<b, c>>, <<c, d>>}
  BY <1>1, <1>4, SidesAre
<1>12. TouchesOutline(circle, rect) <=>
          \/ Near(circle.center, circle.radius, <<d, a>>)
          \/ Near(circle.center, circle.radius, <<a, b>>)
          \/ Near(circle.center, circle.radius, <<b, c>>)
          \/ Near(circle.center, circle.radius, <<c, d>>)
  BY <1>11 DEF TouchesOutline
<1>13. Inside(rect, circle.center) <=> left <= x /\ x <= right /\ low <= y /\ y <= high
  <2>1. 1..2 = {1, 2}
    OBVIOUS
  <2>2. RectangleContains(rect, circle.center) <=> left <= x /\ x <= right /\ low <= y /\ y <= high
    BY <1>2, <1>6, <2>1 DEF RectangleContains
  <2> QED
    BY <1>5, <2>2, InsideIsContained
<1>14. IntersectRectangleCircle(rect, circle) <=>
          \/ left <= x /\ x <= right /\ low <= y /\ y <= high
          \/ left - r <= x /\ x <= right + r /\ low <= y /\ y <= high
          \/ left <= x /\ x <= right /\ low - r <= y /\ y <= high + r
          \/ Reached
  <2>1. 1..2 = {1, 2}
    OBVIOUS
  <2>2. ASSUME NEW dx \in Int, NEW dy \in Int
        PROVE  RectangleContains(Rectangle(Minus(rect.minBound, <<dx, dy>>),
                                           Plus(rect.maxBound, <<dx, dy>>)), circle.center) <=>
                  left - dx <= x /\ x <= right + dx /\ low - dy <= y /\ y <= high + dy
    BY <1>2, <1>6, <2>1 DEF RectangleContains, Rectangle, Minus, Plus
  <2>3. RectangleContains(rect, circle.center) <=> left <= x /\ x <= right /\ low <= y /\ y <= high
    BY <1>2, <1>6, <2>1 DEF RectangleContains
  <2>4. {<<m, n>> : m \in {rect.minBound[1], rect.maxBound[1]},
                    n \in {rect.minBound[2], rect.maxBound[2]}} = {a, b, c, d}
    BY <1>2, <1>4
  <2>5. /\ RectangleContains(Rectangle(Minus(rect.minBound, <<r, 0>>),
                                       Plus(rect.maxBound, <<r, 0>>)), circle.center) <=>
                left - r <= x /\ x <= right + r /\ low <= y /\ y <= high
        /\ RectangleContains(Rectangle(Minus(rect.minBound, <<0, r>>),
                                       Plus(rect.maxBound, <<0, r>>)), circle.center) <=>
                left <= x /\ x <= right /\ low - r <= y /\ y <= high + r
    BY <2>2
  <2> QED
    BY <1>3, <2>3, <2>4, <2>5 DEF IntersectRectangleCircle
<1>15. ASSUME IntersectRectangleCircle(rect, circle)
       PROVE  TouchesOutline(circle, rect) \/ Inside(rect, circle.center)
  <2>1. CASE Reached
    BY <1>9, <1>10, <1>12, <2>1
  <2>2. CASE left - r <= x /\ x <= right + r /\ low <= y /\ y <= high
    <3>1. \/ left <= x /\ x <= right
          \/ -r <= x - left /\ x - left <= r
          \/ -r <= x - right /\ x - right <= r
      BY <2>2
    <3>2. Level \/ y = low \/ y = high
      BY <2>2
    <3> HIDE DEF Level
    <3> QED
      BY <1>7, <1>9, <1>10, <1>12, <1>13, <2>2, <3>1, <3>2
  <2>3. CASE left <= x /\ x <= right /\ low - r <= y /\ y <= high + r
    <3>1. \/ low <= y /\ y <= high
          \/ -r <= y - low /\ y - low <= r
          \/ -r <= y - high /\ y - high <= r
      BY <2>3
    <3>2. Over \/ x = left \/ x = right
      BY <2>3
    <3> HIDE DEF Over
    <3> QED
      BY <1>7, <1>9, <1>10, <1>12, <1>13, <2>3, <3>1, <3>2
  <2> QED
    BY <1>13, <1>14, <1>15, <2>1, <2>2, <2>3
<1>16. ASSUME TouchesOutline(circle, rect) \/ Inside(rect, circle.center)
       PROVE  IntersectRectangleCircle(rect, circle)
  <2>1. CASE Reached \/ Inside(rect, circle.center)
    BY <1>13, <1>14, <2>1
  <2>2. CASE \/ Over /\ -r <= y - low /\ y - low <= r
             \/ Over /\ -r <= y - high /\ y - high <= r
    <3>1. left <= x /\ x <= right /\ low - r <= y /\ y <= high + r
      BY <1>2, <2>2
    <3> QED
      BY <1>14, <3>1
  <2>3. CASE \/ Level /\ -r <= x - left /\ x - left <= r
             \/ Level /\ -r <= x - right /\ x - right <= r
    <3>1. left - r <= x /\ x <= right + r /\ low <= y /\ y <= high
      BY <1>2, <2>3
    <3> QED
      BY <1>14, <3>1
  <2> HIDE DEF Over, Level
  <2> QED
    BY <1>9, <1>10, <1>12, <1>16, <2>1, <2>2, <2>3
<1> QED
  BY <1>15, <1>16

\* Between zero and another number, by a product.
LEMMA BetweenByProduct ==
    ASSUME NEW x \in Int, NEW w \in Int
    PROVE  x * (x - w) <= 0 <=> (0 <= x /\ x <= w) \/ (w <= x /\ x <= 0)
<1>1. CASE x > 0
  <2>1. x * (x - w) <= 0 <=> x - w <= 0
    BY <1>1, SignOfProduct
  <2> QED
    BY <1>1, <2>1
<1>2. CASE x = 0
  BY <1>2
<1>3. CASE x < 0
  <2>1. (-x) * (w - x) <= 0 <=> w - x <= 0
    <3>1. -x \in Int /\ -x > 0 /\ w - x \in Int
      BY <1>3
    <3> QED
      BY <3>1, SignOfProduct
  <2>2. (-x) * (w - x) = x * (x - w)
    OBVIOUS
  <2> QED
    BY <1>3, <2>1, <2>2
<1> QED
  BY <1>1, <1>2, <1>3

\* Numbers on opposite sides of zero are so when multiplied.
LEMMA OppositeProducts ==
    ASSUME NEW w \in Int, w # 0, NEW x \in Int, NEW y \in Int
    PROVE  Opposite(w * x, w * y) <=> (x < 0 /\ y > 0) \/ (x > 0 /\ y < 0)
<1>1. ASSUME NEW k \in Int, k > 0, NEW n \in Int
      PROVE  k * n \in Int /\ (k * n > 0 <=> n > 0) /\ (k * n < 0 <=> n < 0)
  BY <1>1, SignOfProduct
<1>2. CASE w > 0
  BY <1>1, <1>2 DEF Opposite
<1>3. CASE w < 0
  <2>1. PICK k \in Int : k = -w /\ k > 0
    BY <1>3
  <2>2. w * x = -(k * x) /\ w * y = -(k * y)
    BY <2>1
  <2> QED
    BY <1>1, <2>1, <2>2 DEF Opposite
<1> QED
  BY <1>2, <1>3

\* Turns from a segment along an axis are distances from it, times its length.
LEMMA TurnsAlong ==
    ASSUME NEW m \in Vec, NEW n \in Vec, NEW p \in Vec
    PROVE  /\ Along(m, n, 1, 2) => Turn(m, n, p) = (n[1] - m[1]) * (p[2] - m[2])
           /\ Along(m, n, 2, 1) => Turn(m, n, p) = (m[2] - n[2]) * (p[1] - m[1])
<1> PICK s, t, u, v \in Int : InNumbers(p, m, n, s, t, u, v)
  BY SideInNumbers
<1>1. /\ s = p[1] - m[1] /\ t = p[2] - m[2] /\ u = n[1] - m[1] /\ v = n[2] - m[2]
      /\ Turn(m, n, p) = u * t - v * s
  BY DEF InNumbers
<1>2. /\ p[1] \in Int /\ p[2] \in Int /\ m[1] \in Int /\ m[2] \in Int /\ n[1] \in Int /\ n[2] \in Int
  BY DEF Vec
<1>3. ASSUME Along(m, n, 1, 2) PROVE Turn(m, n, p) = (n[1] - m[1]) * (p[2] - m[2])
  <2>1. v = 0
    BY <1>1, <1>2, <1>3 DEF Along
  <2>2. v * s = 0 /\ u * t \in Int
    BY <2>1
  <2> QED
    BY <1>1, <2>2
<1>4. ASSUME Along(m, n, 2, 1) PROVE Turn(m, n, p) = (m[2] - n[2]) * (p[1] - m[1])
  <2>1. u = 0
    BY <1>1, <1>2, <1>4 DEF Along
  <2>2. u * t = 0 /\ v * s \in Int /\ (-v) * s = -(v * s)
    BY <2>1
  <2>3. m[2] - n[2] = -v
    BY <1>1, <1>2
  <2> QED
    BY <1>1, <2>2, <2>3
<1> QED
  BY <1>3, <1>4

\* The points of a segment between two points of a box are in the box.
LEMMA OnSegmentInBox ==
    ASSUME NEW box, box.minBound \in Vec, box.maxBound \in Vec,
           NEW m \in Vec, RectangleContains(box, m), NEW n \in Vec, RectangleContains(box, n),
           Along(m, n, 1, 2) \/ Along(m, n, 2, 1), NEW p \in Vec, OnSegment(<<m, n>>, p)
    PROVE  RectangleContains(box, p)
<1> PICK s, t, u, v \in Int : InNumbers(p, m, n, s, t, u, v)
  BY SideInNumbers
<1>1. /\ s = p[1] - m[1] /\ t = p[2] - m[2] /\ u = n[1] - m[1] /\ v = n[2] - m[2]
      /\ Turn(m, n, p) = u * t - v * s
      /\ Dot(Minus(p, m), Minus(p, n)) = s * (s - u) + t * (t - v)
  BY DEF InNumbers
<1>2. u * t - v * s = 0 /\ s * (s - u) + t * (t - v) <= 0
  BY <1>1 DEF OnSegment
<1>3. /\ p[1] \in Int /\ p[2] \in Int /\ m[1] \in Int /\ m[2] \in Int /\ n[1] \in Int /\ n[2] \in Int
  BY DEF Vec
<1>4. ASSUME NEW w \in Int, NEW x \in Int, w * x = 0, w # 0 PROVE x = 0
  <2>1. CASE w > 0
    BY <1>4, <2>1, SignOfProduct
  <2>2. CASE w < 0
    <3>1. PICK k \in Int : k = -w /\ k > 0
      BY <2>2
    <3>2. k * x = 0
      BY <1>4, <3>1
    <3> QED
      BY <3>1, <3>2, SignOfProduct
  <2> QED
    BY <1>4, <2>1, <2>2
<1>5. /\ (0 <= s /\ s <= u) \/ (u <= s /\ s <= 0)
      /\ (0 <= t /\ t <= v) \/ (v <= t /\ t <= 0)
  <2>1. CASE Along(m, n, 1, 2)
    <3>1. u # 0 /\ v = 0
      <4>1. m[2] = n[2] /\ m[1] # n[1]
        BY <2>1 DEF Along
      <4>2. u = n[1] - m[1] /\ v = n[2] - m[2]
        BY <1>1
      <4> QED
        BY <1>3, <4>1, <4>2
    <3>2. v * s = 0 /\ u * t \in Int
      BY <3>1
    <3>3. u * t = 0
      BY <1>2, <3>2
    <3>4. t = 0
      BY <1>4, <3>1, <3>3
    <3>5. t * (t - v) = 0 /\ s * (s - u) \in Int
      BY <3>4
    <3>6. s * (s - u) <= 0
      BY <1>2, <3>5
    <3> QED
      BY <3>1, <3>4, <3>6, BetweenByProduct
  <2>2. CASE Along(m, n, 2, 1)
    <3>1. v # 0 /\ u = 0
      <4>1. m[1] = n[1] /\ m[2] # n[2]
        BY <2>2 DEF Along
      <4>2. u = n[1] - m[1] /\ v = n[2] - m[2]
        BY <1>1
      <4> QED
        BY <1>3, <4>1, <4>2
    <3>2. u * t = 0 /\ v * s \in Int
      BY <3>1
    <3>3. v * s = 0
      BY <1>2, <3>2
    <3>4. s = 0
      BY <1>4, <3>1, <3>3
    <3>5. s * (s - u) = 0 /\ t * (t - v) \in Int
      BY <3>4
    <3>6. t * (t - v) <= 0
      BY <1>2, <3>5
    <3> QED
      BY <3>1, <3>4, <3>6, BetweenByProduct
  <2> QED
    BY <2>1, <2>2
<1>6. /\ (m[1] <= p[1] /\ p[1] <= n[1]) \/ (n[1] <= p[1] /\ p[1] <= m[1])
      /\ (m[2] <= p[2] /\ p[2] <= n[2]) \/ (n[2] <= p[2] /\ p[2] <= m[2])
  BY <1>1, <1>3, <1>5
<1>7. ASSUME NEW k \in 1..2 PROVE box.minBound[k] <= p[k] /\ p[k] <= box.maxBound[k]
  <2>1. box.minBound[k] \in Int /\ box.maxBound[k] \in Int
    BY DEF Vec
  <2>2. /\ box.minBound[k] <= m[k] /\ m[k] <= box.maxBound[k]
        /\ box.minBound[k] <= n[k] /\ n[k] <= box.maxBound[k]
    BY DEF RectangleContains
  <2>3. (m[k] <= p[k] /\ p[k] <= n[k]) \/ (n[k] <= p[k] /\ p[k] <= m[k])
    BY <1>6
  <2>4. m[k] \in Int /\ n[k] \in Int /\ p[k] \in Int
    BY <1>3
  <2> QED
    BY <2>1, <2>2, <2>3, <2>4
<1> QED
  BY <1>7 DEF RectangleContains

\* A side of a solid rectangle.
LEMMA SideOfSolid ==
    ASSUME NEW rect, IsSolid(rect), NEW side \in Sides(rect)
    PROVE  /\ side = <<side[1], side[2]>> /\ side[1] \in Vec /\ side[2] \in Vec
           /\ RectangleContains(rect, side[1]) /\ RectangleContains(rect, side[2])
           /\ Along(side[1], side[2], 1, 2) \/ Along(side[1], side[2], 2, 1)
<1>1. PICK left, right, low, high \in Int : BoxNumbers(rect, left, right, low, high)
  BY SolidInNumbers
<1>2. left < right /\ low < high /\ rect.minBound = <<left, low>> /\ rect.maxBound = <<right, high>>
  BY <1>1 DEF BoxNumbers
<1>3. PICK x1, x2 \in {left, right}, y1, y2 \in {low, high} :
          /\ side = <<<<x1, y1>>, <<x2, y2>>>>
          /\ (x1 # x2 /\ y1 = y2) \/ (x1 = x2 /\ y1 # y2)
  <2>1. \/ side = <<<<right, low>>, <<left, low>>>>
        \/ side = <<<<left, low>>, <<left, high>>>>
        \/ side = <<<<left, high>>, <<right, high>>>>
        \/ side = <<<<right, high>>, <<right, low>>>>
    BY <1>1, SidesAre
  <2>2. left # right /\ low # high
    BY <1>2
  <2>3. CASE side = <<<<right, low>>, <<left, low>>>>
    BY <2>2, <2>3
  <2>4. CASE side = <<<<left, low>>, <<left, high>>>>
    BY <2>2, <2>4
  <2>5. CASE side = <<<<left, high>>, <<right, high>>>>
    BY <2>2, <2>5
  <2>6. CASE side = <<<<right, high>>, <<right, low>>>>
    BY <2>2, <2>6
  <2> QED
    BY <2>1, <2>3, <2>4, <2>5, <2>6
<1>4. side = <<side[1], side[2]>> /\ side[1] = <<x1, y1>> /\ side[2] = <<x2, y2>>
  BY <1>3
<1>5. ASSUME NEW x \in {left, right}, NEW y \in {low, high}
      PROVE  <<x, y>> \in Vec /\ RectangleContains(rect, <<x, y>>)
  <2>1. left <= x /\ x <= right /\ low <= y /\ y <= high /\ x \in Int /\ y \in Int
    BY <1>2
  <2>2. 1..2 = {1, 2}
    OBVIOUS
  <2> QED
    BY <1>2, <2>1, <2>2 DEF RectangleContains, Vec
<1> QED
  BY <1>3, <1>4, <1>5 DEF Along

\* Where two sides cross, each running through the other, there is a point of both
\* boxes: one of the sides is level and the other upright.
LEMMA CrossingPoint ==
    ASSUME NEW a, a.minBound \in Vec, a.maxBound \in Vec,
           NEW b, b.minBound \in Vec, b.maxBound \in Vec,
           NEW m \in Vec, RectangleContains(a, m), NEW n \in Vec, RectangleContains(a, n),
           Along(m, n, 1, 2) \/ Along(m, n, 2, 1),
           NEW o \in Vec, RectangleContains(b, o), NEW q \in Vec, RectangleContains(b, q),
           Along(o, q, 1, 2) \/ Along(o, q, 2, 1),
           Opposite(Turn(m, n, o), Turn(m, n, q)), Opposite(Turn(o, q, m), Turn(o, q, n))
    PROVE  \E p \in Vec : RectangleContains(a, p) /\ RectangleContains(b, p)
<1>1. /\ m[1] \in Int /\ m[2] \in Int /\ n[1] \in Int /\ n[2] \in Int
      /\ o[1] \in Int /\ o[2] \in Int /\ q[1] \in Int /\ q[2] \in Int
  BY DEF Vec
<1>2. ASSUME NEW box, box.minBound \in Vec, box.maxBound \in Vec,
             NEW e \in Vec, RectangleContains(box, e), NEW f \in Vec, RectangleContains(box, f),
             NEW x \in Int, NEW y \in Int,
             (e[1] <= x /\ x <= f[1]) \/ (f[1] <= x /\ x <= e[1]),
             (e[2] <= y /\ y <= f[2]) \/ (f[2] <= y /\ y <= e[2])
      PROVE  RectangleContains(box, <<x, y>>)
  <2>1. 1 \in 1..2 /\ 2 \in 1..2 /\ 1..2 = {1, 2}
    OBVIOUS
  <2>2. /\ box.minBound[1] \in Int /\ box.maxBound[1] \in Int
        /\ box.minBound[2] \in Int /\ box.maxBound[2] \in Int
        /\ e[1] \in Int /\ e[2] \in Int /\ f[1] \in Int /\ f[2] \in Int
    BY <1>2 DEF Vec
  <2>3. /\ box.minBound[1] <= e[1] /\ e[1] <= box.maxBound[1]
        /\ box.minBound[2] <= e[2] /\ e[2] <= box.maxBound[2]
        /\ box.minBound[1] <= f[1] /\ f[1] <= box.maxBound[1]
        /\ box.minBound[2] <= f[2] /\ f[2] <= box.maxBound[2]
    BY <1>2, <2>1 DEF RectangleContains
  <2>4. /\ box.minBound[1] <= x /\ x <= box.maxBound[1]
        /\ box.minBound[2] <= y /\ y <= box.maxBound[2]
    BY <1>2, <2>2, <2>3
  <2> QED
    BY <2>1, <2>4 DEF RectangleContains
\* A level side that both ends of another are on opposite sides of, and an upright one.
<1>3. ASSUME NEW e \in Vec, NEW f \in Vec, NEW g \in Vec, NEW h \in Vec,
             Opposite(Turn(e, f, g), Turn(e, f, h))
      PROVE  /\ Along(e, f, 1, 2) => (g[2] < e[2] /\ e[2] < h[2]) \/ (h[2] < e[2] /\ e[2] < g[2])
             /\ Along(e, f, 2, 1) => (g[1] < e[1] /\ e[1] < h[1]) \/ (h[1] < e[1] /\ e[1] < g[1])
  <2>1. /\ e[1] \in Int /\ e[2] \in Int /\ f[1] \in Int /\ f[2] \in Int
        /\ g[1] \in Int /\ g[2] \in Int /\ h[1] \in Int /\ h[2] \in Int
    BY <1>3 DEF Vec
  <2>2. ASSUME Along(e, f, 1, 2)
        PROVE  (g[2] < e[2] /\ e[2] < h[2]) \/ (h[2] < e[2] /\ e[2] < g[2])
    <3>1. PICK w, x, y \in Int : w = f[1] - e[1] /\ x = g[2] - e[2] /\ y = h[2] - e[2]
      BY <2>1
    <3>2. w # 0
      <4>1. e[1] # f[1]
        BY <2>2 DEF Along
      <4> QED
        BY <2>1, <3>1, <4>1
    <3>3. Opposite(w * x, w * y)
      BY <1>3, <2>2, <3>1, TurnsAlong
    <3>4. (x < 0 /\ y > 0) \/ (x > 0 /\ y < 0)
      BY <3>2, <3>3, OppositeProducts
    <3> QED
      BY <2>1, <3>1, <3>4
  <2>3. ASSUME Along(e, f, 2, 1)
        PROVE  (g[1] < e[1] /\ e[1] < h[1]) \/ (h[1] < e[1] /\ e[1] < g[1])
    <3>1. PICK w, x, y \in Int : w = e[2] - f[2] /\ x = g[1] - e[1] /\ y = h[1] - e[1]
      BY <2>1
    <3>2. w # 0
      <4>1. e[2] # f[2]
        BY <2>3 DEF Along
      <4> QED
        BY <2>1, <3>1, <4>1
    <3>3. Opposite(w * x, w * y)
      BY <1>3, <2>3, <3>1, TurnsAlong
    <3>4. (x < 0 /\ y > 0) \/ (x > 0 /\ y < 0)
      BY <3>2, <3>3, OppositeProducts
    <3> QED
      BY <2>1, <3>1, <3>4
  <2> QED
    BY <2>2, <2>3
<1>4. /\ Along(m, n, 1, 2) => (o[2] < m[2] /\ m[2] < q[2]) \/ (q[2] < m[2] /\ m[2] < o[2])
      /\ Along(m, n, 2, 1) => (o[1] < m[1] /\ m[1] < q[1]) \/ (q[1] < m[1] /\ m[1] < o[1])
      /\ Along(o, q, 1, 2) => (m[2] < o[2] /\ o[2] < n[2]) \/ (n[2] < o[2] /\ o[2] < m[2])
      /\ Along(o, q, 2, 1) => (m[1] < o[1] /\ o[1] < n[1]) \/ (n[1] < o[1] /\ o[1] < m[1])
  BY <1>3
<1>5. CASE Along(m, n, 1, 2) /\ Along(o, q, 2, 1)
  <2>1. /\ (o[2] < m[2] /\ m[2] < q[2]) \/ (q[2] < m[2] /\ m[2] < o[2])
        /\ (m[1] < o[1] /\ o[1] < n[1]) \/ (n[1] < o[1] /\ o[1] < m[1])
        /\ m[2] = n[2] /\ o[1] = q[1]
    BY <1>4, <1>5 DEF Along
  <2>2. /\ (o[2] <= m[2] /\ m[2] <= q[2]) \/ (q[2] <= m[2] /\ m[2] <= o[2])
        /\ (m[1] <= o[1] /\ o[1] <= n[1]) \/ (n[1] <= o[1] /\ o[1] <= m[1])
        /\ m[2] <= m[2] /\ m[2] <= n[2] /\ o[1] <= o[1] /\ o[1] <= q[1]
    BY <1>1, <2>1
  <2>3. RectangleContains(a, <<o[1], m[2]>>)
    BY <1>1, <1>2, <2>2
  <2>4. RectangleContains(b, <<o[1], m[2]>>)
    BY <1>1, <1>2, <2>2
  <2>5. <<o[1], m[2]>> \in Vec
    BY <1>1 DEF Vec
  <2> QED
    BY <2>3, <2>4, <2>5
<1>6. CASE Along(m, n, 2, 1) /\ Along(o, q, 1, 2)
  <2>1. /\ (o[1] < m[1] /\ m[1] < q[1]) \/ (q[1] < m[1] /\ m[1] < o[1])
        /\ (m[2] < o[2] /\ o[2] < n[2]) \/ (n[2] < o[2] /\ o[2] < m[2])
        /\ m[1] = n[1] /\ o[2] = q[2]
    BY <1>4, <1>6 DEF Along
  <2>2. /\ (o[1] <= m[1] /\ m[1] <= q[1]) \/ (q[1] <= m[1] /\ m[1] <= o[1])
        /\ (m[2] <= o[2] /\ o[2] <= n[2]) \/ (n[2] <= o[2] /\ o[2] <= m[2])
        /\ m[1] <= m[1] /\ m[1] <= n[1] /\ o[2] <= o[2] /\ o[2] <= q[2]
    BY <1>1, <2>1
  <2>3. RectangleContains(a, <<m[1], o[2]>>)
    BY <1>1, <1>2, <2>2
  <2>4. RectangleContains(b, <<m[1], o[2]>>)
    BY <1>1, <1>2, <2>2
  <2>5. <<m[1], o[2]>> \in Vec
    BY <1>1 DEF Vec
  <2> QED
    BY <2>3, <2>4, <2>5
\* Sides along the same axis do not cross.
<1>7. CASE Along(m, n, 1, 2) /\ Along(o, q, 1, 2)
  <2>1. o[2] = q[2] /\ ((o[2] < m[2] /\ m[2] < q[2]) \/ (q[2] < m[2] /\ m[2] < o[2]))
    BY <1>4, <1>7 DEF Along
  <2> QED
    BY <1>1, <2>1
<1>8. CASE Along(m, n, 2, 1) /\ Along(o, q, 2, 1)
  <2>1. o[1] = q[1] /\ ((o[1] < m[1] /\ m[1] < q[1]) \/ (q[1] < m[1] /\ m[1] < o[1]))
    BY <1>4, <1>8 DEF Along
  <2> QED
    BY <1>1, <2>1
<1> QED
  BY <1>5, <1>6, <1>7, <1>8

\* The left side of one rectangle and the lower side of the other, where the corner
\* between their lines is in both.
LEMMA SidesCross ==
    ASSUME NEW a, NEW l1 \in Int, NEW r1 \in Int, NEW d1 \in Int, NEW u1 \in Int,
           BoxNumbers(a, l1, r1, d1, u1),
           NEW b, NEW l2 \in Int, NEW r2 \in Int, NEW d2 \in Int, NEW u2 \in Int,
           BoxNumbers(b, l2, r2, d2, u2),
           l2 <= l1, l1 <= r2, d1 <= d2, d2 <= u1
    PROVE  \E s \in Sides(a), t \in Sides(b) : Cross(s, t)
<1>1. l1 < r1 /\ d1 < u1 /\ l2 < r2 /\ d2 < u2
  BY DEF BoxNumbers
<1>2. PICK m, n, o, q : m = <<l1, d1>> /\ n = <<l1, u1>> /\ o = <<r2, d2>> /\ q = <<l2, d2>>
  OBVIOUS
<1>3. /\ m \in Vec /\ n \in Vec /\ o \in Vec /\ q \in Vec
      /\ m[1] = l1 /\ m[2] = d1 /\ n[1] = l1 /\ n[2] = u1
      /\ o[1] = r2 /\ o[2] = d2 /\ q[1] = l2 /\ q[2] = d2
  BY <1>2 DEF Vec
<1>4. PICK s, t : s = <<m, n>> /\ t = <<o, q>>
  OBVIOUS
<1>5. s \in Sides(a) /\ t \in Sides(b)
  BY <1>2, <1>4, SidesAre
<1>6. s[1] = m /\ s[2] = n /\ t[1] = o /\ t[2] = q
  BY <1>4
<1>7. Along(m, n, 2, 1) /\ Along(o, q, 1, 2)
  BY <1>1, <1>3 DEF Along
<1>8. /\ Turn(m, n, o) = (d1 - u1) * (r2 - l1) /\ Turn(m, n, q) = (d1 - u1) * (l2 - l1)
      /\ Turn(o, q, m) = (l2 - r2) * (d1 - d2) /\ Turn(o, q, n) = (l2 - r2) * (u1 - d2)
  BY <1>3, <1>7, TurnsAlong
<1>9. /\ Dot(Minus(o, m), Minus(o, n)) = (r2 - l1) * (r2 - l1) + (d2 - d1) * (d2 - u1)
      /\ Dot(Minus(q, m), Minus(q, n)) = (l2 - l1) * (l2 - l1) + (d2 - d1) * (d2 - u1)
      /\ Dot(Minus(m, o), Minus(m, q)) = (l1 - r2) * (l1 - l2) + (d1 - d2) * (d1 - d2)
      /\ Dot(Minus(n, o), Minus(n, q)) = (l1 - r2) * (l1 - l2) + (u1 - d2) * (u1 - d2)
  BY <1>3 DEF Dot, Minus
<1>10. (d2 - d1) * (d2 - u1) <= 0 /\ (l1 - r2) * (l1 - l2) <= 0
  <2>1. ASSUME NEW x \in Int, NEW y \in Int, x >= 0, y <= 0 PROVE x * y <= 0
    <3>1. x * (-y) >= 0 /\ x * (-y) = -(x * y)
      BY <2>1
    <3> QED
      BY <3>1
  <2>2. (d2 - d1) * (d2 - u1) <= 0
    <3>1. d2 - d1 \in Int /\ d2 - u1 \in Int /\ d2 - d1 >= 0 /\ d2 - u1 <= 0
      OBVIOUS
    <3> QED
      BY <2>1, <3>1
  <2>3. (l1 - l2) * (l1 - r2) <= 0
    <3>1. l1 - l2 \in Int /\ l1 - r2 \in Int /\ l1 - l2 >= 0 /\ l1 - r2 <= 0
      OBVIOUS
    <3> QED
      BY <2>1, <3>1
  <2>4. (l1 - l2) * (l1 - r2) = (l1 - r2) * (l1 - l2)
    OBVIOUS
  <2> QED
    BY <2>2, <2>3, <2>4
<1>11. CASE l1 = r2
  <2>1. (r2 - l1) * (r2 - l1) = 0 /\ (d1 - u1) * (r2 - l1) = 0
    BY <1>11
  <2>2. OnSegment(s, o)
    BY <1>6, <1>8, <1>9, <1>10, <2>1 DEF OnSegment
  <2> QED
    BY <1>5, <1>6, <2>2 DEF Cross
<1>12. CASE l1 = l2
  <2>1. (l2 - l1) * (l2 - l1) = 0 /\ (d1 - u1) * (l2 - l1) = 0
    BY <1>12
  <2>2. OnSegment(s, q)
    BY <1>6, <1>8, <1>9, <1>10, <2>1 DEF OnSegment
  <2> QED
    BY <1>5, <1>6, <2>2 DEF Cross
<1>13. CASE d2 = d1
  <2>1. (d1 - d2) * (d1 - d2) = 0 /\ (l2 - r2) * (d1 - d2) = 0
    BY <1>13
  <2>2. OnSegment(t, m)
    BY <1>6, <1>8, <1>9, <1>10, <2>1 DEF OnSegment
  <2> QED
    BY <1>5, <1>6, <2>2 DEF Cross
<1>14. CASE d2 = u1
  <2>1. (u1 - d2) * (u1 - d2) = 0 /\ (l2 - r2) * (u1 - d2) = 0
    BY <1>14
  <2>2. OnSegment(t, n)
    BY <1>6, <1>8, <1>9, <1>10, <2>1 DEF OnSegment
  <2> QED
    BY <1>5, <1>6, <2>2 DEF Cross
<1>15. CASE l2 < l1 /\ l1 < r2 /\ d1 < d2 /\ d2 < u1
  <2>1. /\ d1 - u1 \in Int /\ d1 - u1 # 0 /\ l2 - r2 \in Int /\ l2 - r2 # 0
        /\ r2 - l1 > 0 /\ l2 - l1 < 0 /\ d1 - d2 < 0 /\ u1 - d2 > 0
        /\ r2 - l1 \in Int /\ l2 - l1 \in Int /\ d1 - d2 \in Int /\ u1 - d2 \in Int
    BY <1>1, <1>15
  <2>2. Opposite((d1 - u1) * (r2 - l1), (d1 - u1) * (l2 - l1))
    BY <2>1, OppositeProducts
  <2>3. Opposite((l2 - r2) * (d1 - d2), (l2 - r2) * (u1 - d2))
    BY <2>1, OppositeProducts
  <2>4. Opposite(Turn(s[1], s[2], t[1]), Turn(s[1], s[2], t[2]))
        /\ Opposite(Turn(t[1], t[2], s[1]), Turn(t[1], t[2], s[2]))
    BY <1>6, <1>8, <2>2, <2>3
  <2> QED
    BY <1>5, <2>4 DEF Cross
<1> QED
  BY <1>11, <1>12, <1>13, <1>14, <1>15

\* Boxes with a point in common intersect.
LEMMA PointInBoth ==
    ASSUME NEW a, IsSolid(a), NEW b, IsSolid(b), NEW p \in Vec,
           RectangleContains(a, p), RectangleContains(b, p)
    PROVE  IntersectRectangles(a, b)
<1> SUFFICES ASSUME NEW k \in 1..2
             PROVE  a.maxBound[k] >= b.minBound[k] /\ a.minBound[k] <= b.maxBound[k]
  BY DEF IntersectRectangles
<1>1. /\ a.minBound \in Vec /\ a.maxBound \in Vec /\ b.minBound \in Vec /\ b.maxBound \in Vec
  BY DEF IsSolid, IsBox
<1>2. /\ a.minBound[k] \in Int /\ a.maxBound[k] \in Int /\ p[k] \in Int
      /\ b.minBound[k] \in Int /\ b.maxBound[k] \in Int
  BY <1>1 DEF Vec
<1>3. /\ a.minBound[k] <= p[k] /\ p[k] <= a.maxBound[k]
      /\ b.minBound[k] <= p[k] /\ p[k] <= b.maxBound[k]
  BY DEF RectangleContains
<1> QED
  BY <1>2, <1>3

\* The corner at the left of one rectangle that is lower left of the other's is in it.
LEMMA CornerInside ==
    ASSUME NEW a, NEW l1 \in Int, NEW r1 \in Int, NEW d1 \in Int, NEW u1 \in Int,
           BoxNumbers(a, l1, r1, d1, u1),
           NEW b, IsSolid(b), NEW l2 \in Int, NEW r2 \in Int, NEW d2 \in Int, NEW u2 \in Int,
           BoxNumbers(b, l2, r2, d2, u2),
           l2 <= l1, l1 <= r2, d2 <= d1, d1 <= u2
    PROVE  \E p \in Corners(a) : Inside(b, p)
<1>1. PICK p, side : p = <<l1, d1>> /\ side = <<p, <<l1, u1>>>>
  OBVIOUS
<1>2. side \in Sides(a) /\ side[1] = p
  BY <1>1, SidesAre
<1>3. p \in Vec /\ p[1] = l1 /\ p[2] = d1
  BY <1>1 DEF Vec
<1>4. RectangleContains(b, p)
  <2>1. 1..2 = {1, 2}
    OBVIOUS
  <2>2. /\ b.minBound[1] = l2 /\ b.minBound[2] = d2 /\ b.maxBound[1] = r2 /\ b.maxBound[2] = u2
    BY DEF BoxNumbers
  <2> QED
    BY <1>3, <2>1, <2>2 DEF RectangleContains
<1>5. p \in Corners(a)
  BY <1>2 DEF Corners
<1> QED
  BY <1>3, <1>4, <1>5, InsideIsContained

\* Two rectangles intersect, by their bounds, when they have a point in common.
LEMMA RectanglesMeet ==
    ASSUME NEW a, IsSolid(a), NEW b, IsSolid(b)
    PROVE  IntersectRectangles(a, b) <=> Meet(a, b)
<1>1. PICK l1, r1, d1, u1 \in Int : BoxNumbers(a, l1, r1, d1, u1)
  BY SolidInNumbers
<1>2. PICK l2, r2, d2, u2 \in Int : BoxNumbers(b, l2, r2, d2, u2)
  BY SolidInNumbers
<1>3. a.type = "Rectangle" /\ b.type = "Rectangle"
  BY <1>1, <1>2 DEF BoxNumbers
<1>4. Meet(a, b) <=> \/ \E p \in Corners(a) : Inside(b, p)
                     \/ \E p \in Corners(b) : Inside(a, p)
                     \/ \E s \in Sides(a), t \in Sides(b) : Cross(s, t)
  BY <1>3 DEF Meet
<1>5. ASSUME IntersectRectangles(a, b) PROVE Meet(a, b)
  <2>1. l2 <= r1 /\ l1 <= r2 /\ d2 <= u1 /\ d1 <= u2
    <3>1. /\ a.minBound[1] = l1 /\ a.minBound[2] = d1 /\ a.maxBound[1] = r1 /\ a.maxBound[2] = u1
          /\ b.minBound[1] = l2 /\ b.minBound[2] = d2 /\ b.maxBound[1] = r2 /\ b.maxBound[2] = u2
      BY <1>1, <1>2 DEF BoxNumbers
    <3> QED
      BY <1>5, <3>1, BoxesIntersect
  <2>2. CASE l2 <= l1 /\ d2 <= d1
    BY <1>1, <1>2, <1>4, <2>1, <2>2, CornerInside
  <2>3. CASE l1 <= l2 /\ d1 <= d2
    BY <1>1, <1>2, <1>4, <2>1, <2>3, CornerInside
  <2>4. CASE l2 <= l1 /\ d1 <= d2
    BY <1>1, <1>2, <1>4, <2>1, <2>4, SidesCross
  <2>5. CASE l1 <= l2 /\ d2 <= d1
    <3>1. PICK t \in Sides(b), s \in Sides(a) : Cross(t, s)
      BY <1>1, <1>2, <2>1, <2>5, SidesCross
    <3>2. Cross(s, t)
      BY <3>1 DEF Cross
    <3> QED
      BY <1>4, <3>2
  <2> QED
    BY <2>2, <2>3, <2>4, <2>5
<1>6. ASSUME Meet(a, b) PROVE IntersectRectangles(a, b)
  <2>1. /\ a.minBound \in Vec /\ a.maxBound \in Vec /\ b.minBound \in Vec /\ b.maxBound \in Vec
    BY DEF IsSolid, IsBox
  <2>2. ASSUME NEW c, IsSolid(c), NEW p \in Corners(c)
        PROVE  p \in Vec /\ RectangleContains(c, p)
    BY <2>2, SideOfSolid DEF Corners
  <2>3. CASE \E p \in Corners(a) : Inside(b, p)
    BY <2>2, <2>3, InsideIsContained, PointInBoth
  <2>4. CASE \E p \in Corners(b) : Inside(a, p)
    BY <2>2, <2>4, InsideIsContained, PointInBoth
  <2>5. CASE \E s \in Sides(a), t \in Sides(b) : Cross(s, t)
    <3>1. PICK s \in Sides(a), t \in Sides(b) : Cross(s, t)
      BY <2>5
    <3>2. PICK m, n, o, q : m = s[1] /\ n = s[2] /\ o = t[1] /\ q = t[2]
      OBVIOUS
    <3>3. /\ s = <<m, n>> /\ m \in Vec /\ n \in Vec
          /\ RectangleContains(a, m) /\ RectangleContains(a, n)
          /\ Along(m, n, 1, 2) \/ Along(m, n, 2, 1)
      BY <3>2, SideOfSolid
    <3>4. /\ t = <<o, q>> /\ o \in Vec /\ q \in Vec
          /\ RectangleContains(b, o) /\ RectangleContains(b, q)
          /\ Along(o, q, 1, 2) \/ Along(o, q, 2, 1)
      BY <3>2, SideOfSolid
    <3>5. CASE \E end \in {1, 2} : OnSegment(s, t[end]) \/ OnSegment(t, s[end])
      <4>1. \/ OnSegment(s, o) \/ OnSegment(s, q) \/ OnSegment(t, m) \/ OnSegment(t, n)
        BY <3>2, <3>5
      <4>2. CASE OnSegment(s, o)
        <5>1. RectangleContains(a, o)
          BY <2>1, <3>3, <3>4, <4>2, OnSegmentInBox
        <5> QED
          BY <3>4, <5>1, PointInBoth
      <4>3. CASE OnSegment(s, q)
        <5>1. RectangleContains(a, q)
          BY <2>1, <3>3, <3>4, <4>3, OnSegmentInBox
        <5> QED
          BY <3>4, <5>1, PointInBoth
      <4>4. CASE OnSegment(t, m)
        <5>1. RectangleContains(b, m)
          BY <2>1, <3>3, <3>4, <4>4, OnSegmentInBox
        <5> QED
          BY <3>3, <5>1, PointInBoth
      <4>5. CASE OnSegment(t, n)
        <5>1. RectangleContains(b, n)
          BY <2>1, <3>3, <3>4, <4>5, OnSegmentInBox
        <5> QED
          BY <3>3, <5>1, PointInBoth
      <4> QED
        BY <4>1, <4>2, <4>3, <4>4, <4>5
    <3>6. CASE /\ Opposite(Turn(m, n, o), Turn(m, n, q))
               /\ Opposite(Turn(o, q, m), Turn(o, q, n))
      <4>1. \E p \in Vec : RectangleContains(a, p) /\ RectangleContains(b, p)
        BY <2>1, <3>3, <3>4, <3>6, CrossingPoint
      <4> QED
        BY <4>1, PointInBoth
    <3> QED
      BY <3>1, <3>2, <3>5, <3>6 DEF Cross
  <2> QED
    BY <1>4, <1>6, <2>3, <2>4, <2>5
<1> QED
  BY <1>5, <1>6

-----------------------------------------------------------------------------
(* The narrow phase as a whole.                                            *)

\* A circle and anything, or two rectangles.
CircleAndAny(a, b) == IsRound(a) /\ (IsRound(b) \/ IsSolid(b) \/ IsOutline(b))

RoundOrSolid(a, b) == CircleAndAny(a, b) \/ CircleAndAny(b, a) \/ (IsSolid(a) /\ IsSolid(b))

\* They stay what they are where their bodies are.
LEMMA PlacedShape ==
    ASSUME NEW shape, NEW p \in Vec
    PROVE  /\ IsRound(shape) => IsRound(Translate(shape, p))
           /\ IsOutline(shape) => IsOutline(Translate(shape, p))
           /\ IsSolid(shape) => IsSolid(Translate(shape, p))
<1>1. ASSUME IsSolid(shape) PROVE IsSolid(Translate(shape, p))
  <2>1. IsBox(Translate(shape, p))
    BY <1>1, BoundsAreAround DEF IsSolid
  <2>2. PICK left, right, low, high \in Int : BoxNumbers(shape, left, right, low, high)
    BY <1>1, SolidInNumbers
  <2>3. p[1] \in Int /\ p[2] \in Int
    BY DEF Vec
  <2>4. /\ Translate(shape, p).minBound = <<left + p[1], low + p[2]>>
        /\ Translate(shape, p).maxBound = <<right + p[1], high + p[2]>>
    BY <2>2 DEF Translate, BoxNumbers, Rectangle, Plus
  <2>5. left + p[1] < right + p[1] /\ low + p[2] < high + p[2]
    BY <2>2, <2>3 DEF BoxNumbers
  <2>6. 1..2 = {1, 2}
    OBVIOUS
  <2> QED
    BY <2>1, <2>4, <2>5, <2>6 DEF IsSolid
<1> QED
  BY <1>1, BoundsAreAround, OutlineInBounds

\* The test of a circle and any other shape.
LEMMA CircleMeets ==
    ASSUME NEW a, NEW b, CircleAndAny(a, b)
    PROVE  /\ (OverlapShapes(a, b) <=> Meet(a, b)) \/ Swallowed(b, a)
           /\ (OverlapShapes(b, a) <=> Meet(b, a)) \/ Swallowed(b, a)
<1>1. a.type = "Circle" /\ IsRound(a)
  BY DEF CircleAndAny, IsRound
<1>2. CASE IsRound(b)
  <2>1. b.type = "Circle"
    BY <1>2 DEF IsRound
  <2> QED
    BY <1>1, <1>2, <2>1, CirclesMeet DEF OverlapShapes
<1>3. CASE IsSolid(b)
  <2>1. b.type = "Rectangle"
    BY <1>3 DEF IsSolid, IsBox
  <2>2. /\ OverlapShapes(a, b) <=> IntersectRectangleCircle(b, a)
        /\ OverlapShapes(b, a) <=> IntersectRectangleCircle(b, a)
    BY <1>1, <2>1 DEF OverlapShapes
  <2>3. /\ Meet(a, b) <=> TouchesOutline(a, b) \/ Inside(b, a.center)
        /\ Meet(b, a) <=> TouchesOutline(a, b) \/ Inside(b, a.center)
    BY <1>1, <2>1 DEF Meet
  <2> QED
    BY <1>1, <1>3, <2>2, <2>3, RectangleIsTouched
<1>4. CASE IsOutline(b)
  <2>1. b.type = "Polygon"
    BY <1>4 DEF IsOutline
  <2>2. /\ OverlapShapes(a, b) <=> IntersectPolygonCircle(b, a)
        /\ OverlapShapes(b, a) <=> IntersectPolygonCircle(b, a)
    BY <1>1, <2>1 DEF OverlapShapes
  <2>3. /\ Meet(a, b) <=> TouchesOutline(a, b) \/ Inside(b, a.center)
        /\ Meet(b, a) <=> TouchesOutline(a, b) \/ Inside(b, a.center)
    BY <1>1, <2>1 DEF Meet
  <2>4. IntersectPolygonCircle(b, a) <=> TouchesOutline(a, b)
    BY <1>1, <1>4, OutlineIsTouched
  <2>5. Swallowed(b, a) <=> Inside(b, a.center) /\ ~TouchesOutline(a, b)
    BY <1>1, <2>1 DEF Swallowed
  <2> QED
    BY <2>2, <2>3, <2>4, <2>5
<1> QED
  BY <1>2, <1>3, <1>4 DEF CircleAndAny

\* Whatever the sizes and places, and whichever comes first: of a circle and any
\* shape, and of two rectangles, World::Overlap says that they overlap exactly when
\* they have a point in common, or the one is swallowed by the other
\* (Shape.h:201-262 and 356-386).
THEOREM OverlapMeansMeeting ==
    Spec => [](RoundOrSolid(colA.Shape, colB.Shape) => OverlapIsGeometricButSwallowed)
<1>1. ASSUME OverlapInv, RoundOrSolid(colA.Shape, colB.Shape)
      PROVE  OverlapIsGeometricButSwallowed
  <2>1. PICK a, b : a = Placed(colA) /\ b = Placed(colB)
    OBVIOUS
  <2>2. RoundOrSolid(a, b)
    BY <1>1, <2>1, PlacedShape DEF OverlapInv, IsCollider, Placed, RoundOrSolid, CircleAndAny
  <2>3. CASE CircleAndAny(a, b)
    BY <2>1, <2>3, CircleMeets DEF OverlapIsGeometricButSwallowed, OverlapOf
  <2>4. CASE CircleAndAny(b, a)
    BY <2>1, <2>4, CircleMeets DEF OverlapIsGeometricButSwallowed, OverlapOf
  <2>5. CASE IsSolid(a) /\ IsSolid(b)
    <3>1. OverlapShapes(a, b) <=> IntersectRectangles(a, b)
      <4>1. a.type = "Rectangle" /\ b.type = "Rectangle"
        BY <2>5 DEF IsSolid, IsBox
      <4> QED
        BY <4>1 DEF OverlapShapes
    <3>2. OverlapShapes(a, b) <=> Meet(a, b)
      BY <2>5, <3>1, RectanglesMeet
    <3> QED
      BY <2>1, <3>2 DEF OverlapIsGeometricButSwallowed, OverlapOf
  <2> QED
    BY <2>2, <2>3, <2>4, <2>5 DEF RoundOrSolid
<1> QED
  BY <1>1, OverlapInvariance, PTL

=============================================================================
