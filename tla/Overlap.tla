------------------------------ MODULE Overlap ------------------------------
(***************************************************************************)
(* Two colliders wandering over each other: the narrow phase (World::      *)
(* Overlap and the Intersect overloads of Shape.h) against the geometry it *)
(* stands for, and against the bounding boxes of the broad phase.          *)
(***************************************************************************)
EXTENDS Shape

CONSTANTS Shapes,     \* local shapes the colliders may have
          Places      \* positions of their bodies

ASSUME ShapesAssumption ==
    /\ Places \subseteq Vec
    /\ \A shape \in Shapes :
          \/ shape.type = "Circle" /\ shape.center \in Vec /\ shape.radius \in Int
          \/ /\ shape.type = "Rectangle"
             /\ shape.minBound \in Vec /\ shape.maxBound \in Vec
          \/ shape.type = "Polygon"

VARIABLES colA, colB  \* [Shape, BodyPosition]: all that Overlap and GetBounds read

vars == <<colA, colB>>

Colliders == [Shape : Shapes, BodyPosition : Places]

Placed(col) == Translate(col.Shape, col.BodyPosition)

Bounds(col) == GetBounds(col.Shape, col.BodyPosition)

OverlapOf(a, b) == OverlapShapes(Placed(a), Placed(b))

DefaultCollider == [Shape |-> Circle(<<0, 0>>, 1), BodyPosition |-> <<0, 0>>]

Init == colA = DefaultCollider /\ colB = DefaultCollider

\* The application sets a collider up, or its body moves.
ConfigureA == colA' \in Colliders /\ UNCHANGED colB

ConfigureB == colB' \in Colliders /\ UNCHANGED colA

Next == ConfigureA \/ ConfigureB

Spec == Init /\ [][Next]_vars

-----------------------------------------------------------------------------
(* The solid shapes and when they meet, defined without separating axes,   *)
(* widened rectangles or corner circles.  Polygons are convex, as the      *)
(* separating axis test assumes.                                           *)

\* Twice the signed area of the triangle u, v, w.
Turn(u, v, w) == (v[1] - u[1]) * (w[2] - u[2]) - (v[2] - u[2]) * (w[1] - u[1])

AsPolygon(shape) == IF shape.type = "Rectangle" THEN RectToPolygon(shape) ELSE shape

Sides(shape) == Edges(AsPolygon(shape))

Corners(shape) == {edge[1] : edge \in Sides(shape)}

Inside(shape, point) ==
    \/ \A side \in Sides(shape) : Turn(side[1], side[2], point) >= 0
    \/ \A side \in Sides(shape) : Turn(side[1], side[2], point) <= 0

OnSegment(side, point) ==
    /\ Turn(side[1], side[2], point) = 0
    /\ Dot(Minus(point, side[1]), Minus(point, side[2])) <= 0

Opposite(m, n) == (m < 0 /\ n > 0) \/ (m > 0 /\ n < 0)

Cross(s, t) ==
    \/ \E end \in {1, 2} : OnSegment(s, t[end]) \/ OnSegment(t, s[end])
    \/ /\ Opposite(Turn(s[1], s[2], t[1]), Turn(s[1], s[2], t[2]))
       /\ Opposite(Turn(t[1], t[2], s[1]), Turn(t[1], t[2], s[2]))

\* The square of the distance from a point to a segment is at most the square
\* of the radius: to its line when the foot lies on it, to an end otherwise.
Near(point, radius, side) ==
    LET along == Minus(side[2], side[1])
        foot  == Dot(Minus(point, side[1]), along)
    IN  IF 0 < foot /\ foot < LengthSq(along)
        THEN Turn(side[1], side[2], point) * Turn(side[1], side[2], point)
                <= radius * radius * LengthSq(along)
        ELSE \E end \in {1, 2} : LengthSq(Minus(point, side[end])) <= radius * radius

TouchesOutline(circle, shape) ==
    \E side \in Sides(shape) : Near(circle.center, circle.radius, side)

Meet(a, b) ==
    CASE a.type = "Circle" /\ b.type = "Circle" ->
            LengthSq(Minus(a.center, b.center))
                <= a.radius * a.radius + 2 * a.radius * b.radius + b.radius * b.radius
      [] a.type = "Circle" /\ b.type # "Circle" ->
            TouchesOutline(a, b) \/ Inside(b, a.center)
      [] a.type # "Circle" /\ b.type = "Circle" ->
            TouchesOutline(b, a) \/ Inside(a, b.center)
      [] a.type # "Circle" /\ b.type # "Circle" ->
            \/ \E p \in Corners(a) : Inside(b, p)
            \/ \E p \in Corners(b) : Inside(a, p)
            \/ \E s \in Sides(a), t \in Sides(b) : Cross(s, t)

-----------------------------------------------------------------------------
(* Properties.                                                             *)

\* "Check if two colliders overlap" (World.h:116): Overlap says yes exactly when
\* the two solid shapes have a point in common.
OverlapIsGeometric == OverlapOf(colA, colB) <=> Meet(Placed(colA), Placed(colB))

\* A circle inside a polygon whose outline it does not touch.
Swallowed(polygon, circle) ==
    /\ polygon.type = "Polygon" /\ circle.type = "Circle"
    /\ Inside(polygon, circle.center) /\ ~TouchesOutline(circle, polygon)

\* The same for every pair of shapes but a circle wholly inside a polygon, which
\* the polygon-circle overload (Shape.h:356-386) takes for apart.
OverlapIsGeometricButSwallowed ==
    \/ OverlapOf(colA, colB) <=> Meet(Placed(colA), Placed(colB))
    \/ Swallowed(Placed(colA), Placed(colB)) \/ Swallowed(Placed(colB), Placed(colA))

\* The nine-way dispatch gives the same answer whichever collider has the lower
\* slot: the walk pairs them in slot order, and the trigger set ignores it.
OverlapIsSymmetric == OverlapOf(colA, colB) <=> OverlapOf(colB, colA)

\* The broad phase is conservative: colliders that overlap have bounding boxes
\* that intersect, so no overlap can hide behind GetBounds.
BoundsCoverOverlap ==
    OverlapOf(colA, colB) => IntersectRectangles(Bounds(colA), Bounds(colB))

=============================================================================
