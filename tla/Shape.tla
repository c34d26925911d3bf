------------------------------- MODULE Shape -------------------------------
(***************************************************************************)
(* The collision shapes of the engine (Physics/include/Shape.h) and the    *)
(* bounding boxes of colliders (Physics/src/Collider.cpp): circles,        *)
(* axis-aligned rectangles and polygons, the six Intersect overloads, the  *)
(* dispatch World::Overlap makes over them, and Collider::GetBounds.       *)
(*                                                                         *)
(* Coordinates are integers: float rounding is abstracted away, every      *)
(* comparison is made exactly (a quotient is compared after multiplying by *)
(* its denominator).  XMVECTORs are pairs: z and w are zero throughout.    *)
(***************************************************************************)
EXTENDS Integers, Sequences, FiniteSetsExt

CONSTANT FLT_MAX        \* numeric_limits<float>::max(), above every coordinate

ASSUME FloatAssumption == FLT_MAX \in Nat \ {0}

\* numeric_limits<float>::min() is the smallest POSITIVE normal float (about
\* 1e-38), not the most negative one; next to integer coordinates it is 0.
FLT_MIN == 0

Abs(n) == IF n < 0 THEN -n ELSE n

-----------------------------------------------------------------------------
(* Vectors.                                                                *)

Vec == Int \X Int

Plus(u, v)    == <<u[1] + v[1], u[2] + v[2]>>
Minus(u, v)   == <<u[1] - v[1], u[2] - v[2]>>
Dot(u, v)     == u[1] * v[1] + u[2] * v[2]
LengthSq(u)   == Dot(u, u)

-----------------------------------------------------------------------------
(* The three alternatives of the std::variant a collider holds.            *)

Circle(center, radius) ==
    [type |-> "Circle", center |-> center, radius |-> Abs(radius)]

Rectangle(minBound, maxBound) ==
    [type |-> "Rectangle", minBound |-> minBound, maxBound |-> maxBound]

Polygon(vertices) == [type |-> "Polygon", vertices |-> vertices]

\* operator+ of each class: the shape moved to the position of its body.
Translate(shape, vec) ==
    CASE shape.type = "Circle"    -> Circle(Plus(shape.center, vec), shape.radius)
      [] shape.type = "Rectangle" -> Rectangle(Plus(shape.minBound, vec),
                                               Plus(shape.maxBound, vec))
      [] shape.type = "Polygon"   -> Polygon([i \in DOMAIN shape.vertices |->
                                                Plus(shape.vertices[i], vec)])

CircleContains(circle, point) ==
    LengthSq(Minus(circle.center, point)) <= circle.radius * circle.radius

RectangleContains(rect, point) ==
    \A k \in 1..2 : rect.minBound[k] <= point[k] /\ point[k] <= rect.maxBound[k]

-----------------------------------------------------------------------------
(* The Intersect overloads.                                                *)

IntersectCircles(c1, c2) ==
    LengthSq(Minus(c1.center, c2.center))
        <= (c1.radius + c2.radius) * (c1.radius + c2.radius)

IntersectRectangles(r1, r2) ==
    \A k \in 1..2 : /\ r1.maxBound[k] >= r2.minBound[k]
                    /\ r1.minBound[k] <= r2.maxBound[k]

\* Mutant: without the corner circles.
IntersectWidenedOnly(rect, circle) ==
    \/ RectangleContains(Rectangle(Minus(rect.minBound, <<circle.radius, 0>>),
                                   Plus(rect.maxBound, <<circle.radius, 0>>)), circle.center)
    \/ RectangleContains(Rectangle(Minus(rect.minBound, <<0, circle.radius>>),
                                   Plus(rect.maxBound, <<0, circle.radius>>)), circle.center)

\* The rectangle widened by the radius along x, then along y, then the four
\* corner circles.
IntersectRectangleCircle(rect, circle) ==
    LET r == circle.radius
        Widened(dx, dy) == Rectangle(Minus(rect.minBound, <<dx, dy>>),
                                     Plus(rect.maxBound, <<dx, dy>>))
        corners == {<<x, y>> : x \in {rect.minBound[1], rect.maxBound[1]},
                               y \in {rect.minBound[2], rect.maxBound[2]}}
    IN  \/ RectangleContains(rect, circle.center)
        \/ RectangleContains(Widened(r, 0), circle.center)
        \/ RectangleContains(Widened(0, r), circle.center)
        \/ \E corner \in corners : CircleContains(circle, corner)

\* The (previous vertex, vertex) pairs of "j = i++".
Edges(polygon) ==
    LET n == Len(polygon.vertices)
    IN  {<<polygon.vertices[IF i = 1 THEN n ELSE i - 1], polygon.vertices[i]>> :
            i \in 1..n}

\* One pass of the separating axis test: no edge normal of p1 separates the
\* projections of p1 and p2.
NoSeparatingEdge(p1, p2) ==
    \A edge \in Edges(p1) :
        LET along  == Minus(edge[2], edge[1])
            normal == <<-along[2], along[1]>>
            Projections(p) == {Dot(p.vertices[i], normal) : i \in DOMAIN p.vertices}
        IN  /\ Max(Projections(p1)) >= Min(Projections(p2))
            /\ Max(Projections(p2)) >= Min(Projections(p1))

\* Mutant: only the first polygon's edges are tried.
IntersectByFirst(p1, p2) == NoSeparatingEdge(p1, p2)

IntersectPolygons(p1, p2) == NoSeparatingEdge(p1, p2) /\ NoSeparatingEdge(p2, p1)

\* |center - ClosestPointOnSegment(a, b, center)| <= radius.  With t = dot / len
\* strictly between 0 and 1 the squared distance is |pa|^2 - dot^2 / len; a
\* zero-length edge makes t a NaN and the comparison false.
SegmentWithinRadius(a, b, circle) ==
    LET ab  == Minus(b, a)
        pa  == Minus(circle.center, a)
        len == LengthSq(ab)
        dot == Dot(pa, ab)
    IN  \/ len # 0 /\ dot <= 0 /\ CircleContains(circle, a)
        \/ len # 0 /\ dot >= len /\ CircleContains(circle, b)
        \/ /\ 0 < dot /\ dot < len
           /\ (LengthSq(pa) - circle.radius * circle.radius) * len <= dot * dot

IntersectPolygonCircle(polygon, circle) ==
    \/ \E i \in DOMAIN polygon.vertices : CircleContains(circle, polygon.vertices[i])
    \/ \E edge \in Edges(polygon) : SegmentWithinRadius(edge[2], edge[1], circle)

RectToPolygon(rect) ==
    Polygon(<<rect.minBound, <<rect.minBound[1], rect.maxBound[2]>>,
              rect.maxBound, <<rect.maxBound[1], rect.minBound[2]>>>>)

-----------------------------------------------------------------------------
(* World::Overlap on shapes already moved to their bodies' positions.      *)

OverlapShapes(a, b) ==
    CASE a.type = "Circle" /\ b.type = "Circle"       -> IntersectCircles(a, b)
      [] a.type = "Circle" /\ b.type = "Rectangle"    -> IntersectRectangleCircle(b, a)
      [] a.type = "Circle" /\ b.type = "Polygon"      -> IntersectPolygonCircle(b, a)
      [] a.type = "Rectangle" /\ b.type = "Circle"    -> IntersectRectangleCircle(a, b)
      [] a.type = "Rectangle" /\ b.type = "Rectangle" -> IntersectRectangles(a, b)
      [] a.type = "Rectangle" /\ b.type = "Polygon"   -> IntersectPolygons(b, RectToPolygon(a))
      [] a.type = "Polygon" /\ b.type = "Circle"      -> IntersectPolygonCircle(a, b)
      [] a.type = "Polygon" /\ b.type = "Rectangle"   -> IntersectPolygons(a, RectToPolygon(b))
      [] a.type = "Polygon" /\ b.type = "Polygon"     -> IntersectPolygons(a, b)

\* Mutant: the box of a circle ignores its centre.
CenteredBounds(shape) ==
    CASE shape.type = "Circle"    -> Rectangle(<<-shape.radius, -shape.radius>>,
                                               <<shape.radius, shape.radius>>)
      [] shape.type = "Rectangle" -> shape
      [] shape.type = "Polygon"   ->
            LET Coords(k) == {shape.vertices[i][k] : i \in DOMAIN shape.vertices}
            IN  Rectangle(<<Min(Coords(1)), Min(Coords(2))>>, <<Max(Coords(1)), Max(Coords(2))>>)

\* Collider::GetBounds before the body position is added.
LocalBounds(shape) ==
    CASE shape.type = "Circle" ->
            LET half == <<shape.radius, shape.radius>>
            IN  Rectangle(Minus(shape.center, half), Plus(shape.center, half))
      [] shape.type = "Rectangle" -> shape
      [] shape.type = "Polygon" ->
            LET Coords(k) == {shape.vertices[i][k] : i \in DOMAIN shape.vertices}
            IN  Rectangle(<<Min(Coords(1) \cup {FLT_MAX}), Min(Coords(2) \cup {FLT_MAX})>>,
                          <<Max(Coords(1) \cup {FLT_MIN}), Max(Coords(2) \cup {FLT_MIN})>>)

GetBounds(shape, bodyPosition) == Translate(LocalBounds(shape), bodyPosition)

=============================================================================
