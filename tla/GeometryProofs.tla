--------------------------- MODULE GeometryProofs ---------------------------
(***************************************************************************)
(* Lemmas about the shapes and their boxes, about the numbers the other    *)
(* proofs count with, and about the cells of the quadtree: how cells       *)
(* halve, and that boxes that touch share a leaf, for every depth and      *)
(* every list of boxes.                                                    *)
(*                                                                         *)
(* Induction is by least counterexample: WFMin, whose only parameters are  *)
(* sets, gives every nonempty set of naturals a least element.             *)
(***************************************************************************)
EXTENDS QuadCells, TLAPS, FiniteSetTheorems, WellFoundedInduction

-----------------------------------------------------------------------------
(* Least elements.                                                         *)

\* A set of integers, each with finitely many below it, has a least one: the one
\* whose set of smaller ones is minimal.
LEMMA LeastInteger ==
    ASSUME NEW S \in SUBSET Int, S # {},
           \A x \in S : IsFiniteSet({y \in S : y < x})
    PROVE  \E m \in S : \A n \in S : m <= n
<1> DEFINE Below(x) == {y \in S : y < x}
           T == {Below(x) : x \in S}
<1>1. IsWellFoundedOn(StrictSubsetOrdering(Int), FiniteSubsetsOf(Int))
  BY FS_StrictSubsetOrderingWellFounded
<1>2. T \subseteq FiniteSubsetsOf(Int) /\ T # {}
  BY DEF FiniteSubsetsOf
<1>3. \E x \in T : \A y \in T : ~(<<y, x>> \in StrictSubsetOrdering(Int))
  <2> HIDE DEF T
  <2> QED
    BY <1>1, <1>2, WFMin
<1>4. PICK m \in S : \A n \in S : ~(<<Below(n), Below(m)>> \in StrictSubsetOrdering(Int))
  BY <1>3
<1>5. ASSUME NEW n \in S, n < m PROVE FALSE
  <2>1. Below(n) \in SUBSET Int /\ Below(m) \in SUBSET Int
    OBVIOUS
  <2>2. Below(n) \subseteq Below(m)
    <3>1. \A y \in S : y < n => y < m
      BY <1>5
    <3> QED
      BY <3>1
  <2>3. n \in Below(m) /\ n \notin Below(n)
    BY <1>5
  <2>4. <<Below(n), Below(m)>> \in StrictSubsetOrdering(Int)
    <3> HIDE DEF Below
    <3> QED
      BY <2>1, <2>2, <2>3 DEF StrictSubsetOrdering
  <2> QED
    BY <1>4, <2>4
<1> QED
  BY <1>5

\* A set of naturals that is not empty has a least element.
LEMMA LeastNatural ==
    ASSUME NEW S \in SUBSET Nat, S # {}
    PROVE  \E m \in S : \A n \in S : m <= n
<1>1. ASSUME NEW x \in S PROVE IsFiniteSet({y \in S : y < x})
  <2>1. \A y \in S : y < x => y \in 0..x
    OBVIOUS
  <2>2. IsFiniteSet(0..x)
    BY FS_Interval
  <2> QED
    BY <2>1, <2>2, FS_Subset
<1>2. S \in SUBSET Int
  OBVIOUS
<1> QED
  BY <1>1, <1>2, LeastInteger

\* What holds of 0 and goes from n to n + 1 holds of all.
LEMMA NaturalsFromZero ==
    ASSUME NEW S, 0 \in S, \A n \in Nat : n \in S => n + 1 \in S
    PROVE  Nat \subseteq S
<1> SUFFICES ASSUME Nat \ S # {} PROVE FALSE
  OBVIOUS
<1>1. PICK m \in Nat \ S : \A n \in Nat \ S : m <= n
  BY LeastNatural
<1>2. m - 1 \in Nat /\ m - 1 \in S
  BY <1>1
<1> QED
  BY <1>1, <1>2

\* Min and Max of a finite nonempty set of integers are what they should be.
LEMMA MinOfFinite ==
    ASSUME NEW S \in SUBSET Int, S # {}, IsFiniteSet(S)
    PROVE  Min(S) \in S /\ \A x \in S : Min(S) <= x
<1>1. \A x \in S : IsFiniteSet({y \in S : y < x})
  BY FS_Subset
<1>2. \E m \in S : \A n \in S : m <= n
  BY <1>1, LeastInteger
<1> QED
  BY <1>2 DEF Min

\* A finite set of integers that is not empty has a greatest element.
LEMMA MaxOfFinite ==
    ASSUME NEW S \in SUBSET Int, S # {}, IsFiniteSet(S)
    PROVE  Max(S) \in S /\ \A x \in S : x <= Max(S)
<1> DEFINE f == [x \in S |-> -x]
           T == {-x : x \in S}
<1>1. f \in Surjection(S, T)
  BY DEF Surjection
<1>2. IsFiniteSet(T)
  BY <1>1, FS_Surjection
<1>3. T \in SUBSET Int /\ T # {}
  <2>1. \A x \in S : -x \in Int
    OBVIOUS
  <2> QED
    BY <2>1
<1>4. \A x \in T : IsFiniteSet({y \in T : y < x})
  BY <1>2, FS_Subset
<1>5. PICK m \in T : \A n \in T : m <= n
  BY <1>3, <1>4, LeastInteger
<1>6. -m \in S /\ \A n \in S : -m >= n
  <2>1. PICK x \in S : m = -x
    BY <1>5
  <2>2. \A n \in S : m <= -n
    BY <1>5
  <2>3. -m = x
    BY <2>1
  <2> QED
    BY <2>1, <2>2, <2>3
<1> QED
  BY <1>6 DEF Max

-----------------------------------------------------------------------------
(* Recursive functions.                                                    *)

\* The values of a recursion up to n.
UpTo(n, T, base, Step) ==
    {f \in [0..n -> T] : /\ f[0] = base
                         /\ \A k \in 1..n : f[k] = Step[<<k, f[k - 1]>>]}

IsStep(Step, T) == Step \in [Nat \X T -> T]

\* The function that starts at base and goes on by Step.
Iterates(g, T, base, Step) ==
    /\ g \in [Nat -> T]
    /\ g[0] = base
    /\ \A n \in Nat \ {0} : g[n] = Step[<<n, g[n - 1]>>]

\* Whatever follows from one value and the next number, some function does so
\* from zero on.
LEMMA RecursionExists ==
    ASSUME NEW T, NEW base \in T, NEW Step, IsStep(Step, T)
    PROVE  \E g : Iterates(g, T, base, Step)
<1> USE DEF IsStep
<1> DEFINE Fs(n) == UpTo(n, T, base, Step)
<1>1. \A n \in Nat : Fs(n) # {}
  <2> DEFINE S == {n \in Nat : Fs(n) # {}}
  <2>1. 0 \in S
    <3>1. [k \in 0..0 |-> base] \in Fs(0)
      BY DEF UpTo
    <3> QED
      BY <3>1
  <2>2. ASSUME NEW n \in Nat, n \in S PROVE n + 1 \in S
    <3>1. PICK f \in Fs(n) : TRUE
      BY <2>2
    <3> DEFINE more == [k \in 0..n + 1 |-> IF k <= n THEN f[k] ELSE Step[<<n + 1, f[n]>>]]
    <3>2. f \in [0..n -> T] /\ f[0] = base /\ \A k \in 1..n : f[k] = Step[<<k, f[k - 1]>>]
      BY <3>1 DEF UpTo
    <3>3. Step[<<n + 1, f[n]>>] \in T
      BY <3>2
    <3>4. more \in [0..n + 1 -> T] /\ more[0] = base
      BY <3>2, <3>3
    <3>5. ASSUME NEW k \in 1..n + 1 PROVE more[k] = Step[<<k, more[k - 1]>>]
      <4>1. k - 1 \in 0..n /\ more[k - 1] = f[k - 1]
        OBVIOUS
      <4>2. CASE k <= n
        BY <3>2, <4>1, <4>2
      <4>3. CASE k = n + 1
        BY <4>1, <4>3
      <4> QED
        BY <4>2, <4>3
    <3>6. more \in Fs(n + 1)
      <4> HIDE DEF more
      <4> QED
        BY <3>4, <3>5 DEF UpTo
    <3> QED
      BY <3>6
  <2>3. Nat \subseteq S
    <3> HIDE DEF S
    <3> QED
      BY <2>1, <2>2, NaturalsFromZero
  <2> QED
    BY <2>3
<1>2. \A m, n \in Nat : \A f \in Fs(m), h \in Fs(n) : m <= n => f[m] = h[m]
  <2> DEFINE S == {m \in Nat : \A n1, n2 \in Nat : \A f \in Fs(n1), h \in Fs(n2) :
                                    m <= n1 /\ m <= n2 => f[m] = h[m]}
  <2>1. 0 \in S
    BY DEF UpTo
  <2>2. ASSUME NEW m \in Nat, m \in S PROVE m + 1 \in S
    <3> SUFFICES ASSUME NEW n1 \in Nat, NEW n2 \in Nat, NEW f \in Fs(n1), NEW h \in Fs(n2),
                        m + 1 <= n1, m + 1 <= n2
                 PROVE  f[m + 1] = h[m + 1]
      OBVIOUS
    <3>1. f[m] = h[m]
      BY <2>2
    <3>2. m + 1 \in 1..n1 /\ m + 1 \in 1..n2 /\ (m + 1) - 1 = m
      OBVIOUS
    <3>3. /\ f[m + 1] = Step[<<m + 1, f[(m + 1) - 1]>>]
          /\ h[m + 1] = Step[<<m + 1, h[(m + 1) - 1]>>]
      BY <3>2 DEF UpTo
    <3> QED
      BY <3>1, <3>2, <3>3
  <2>3. Nat \subseteq S
    <3> HIDE DEF S
    <3> QED
      BY <2>1, <2>2, NaturalsFromZero
  <2> QED
    BY <2>3
<1> DEFINE F(n) == CHOOSE f \in Fs(n) : TRUE
           g == [n \in Nat |-> F(n)[n]]
<1>3. \A n \in Nat : F(n) \in Fs(n)
  BY <1>1
<1> HIDE DEF F
<1>4. ASSUME NEW n \in Nat
      PROVE  g[n] \in T /\ g[n] = IF n = 0 THEN base ELSE Step[<<n, g[n - 1]>>]
  <2>1. F(n) \in [0..n -> T] /\ F(n)[0] = base
        /\ \A k \in 1..n : F(n)[k] = Step[<<k, F(n)[k - 1]>>]
    BY <1>3 DEF UpTo
  <2>2. CASE n = 0
    BY <2>1, <2>2
  <2>3. CASE n # 0
    <3>1. n - 1 \in Nat /\ n \in 1..n /\ n - 1 <= n
      BY <2>3
    <3>2. F(n - 1)[n - 1] = F(n)[n - 1]
      BY <1>2, <1>3, <3>1
    <3> QED
      BY <2>1, <2>3, <3>1, <3>2
  <2> QED
    BY <2>2, <2>3
<1>5. g \in [Nat -> T]
  <2>1. g = [n \in Nat |-> g[n]]
    OBVIOUS
  <2> HIDE DEF g
  <2> QED
    BY <1>4, <2>1
<1>6. g[0] = base /\ \A n \in Nat \ {0} : g[n] = Step[<<n, g[n - 1]>>]
  <2> HIDE DEF g
  <2> QED
    BY <1>4
<1>7. Iterates(g, T, base, Step)
  <2> HIDE DEF g
  <2> QED
    BY <1>5, <1>6 DEF Iterates
<1> QED
  BY <1>7

-----------------------------------------------------------------------------
(* The boxes of circles and rectangles.                                    *)

\* What the constructors make of numbers: CircleF takes the absolute value of the
\* radius, and a rectangle's client gives its lower bound first.
IsRound(shape) == shape.type = "Circle" /\ shape.center \in Vec /\ shape.radius \in Nat

IsBox(shape) ==
    /\ shape.type = "Rectangle"
    /\ shape.minBound \in Vec /\ shape.maxBound \in Vec
    /\ \A k \in 1..2 : shape.minBound[k] <= shape.maxBound[k]

\* The box around a circle, and a rectangle itself.
Around(shape) ==
    IF shape.type = "Circle"
    THEN Rectangle(Minus(shape.center, <<shape.radius, shape.radius>>),
                   Plus(shape.center, <<shape.radius, shape.radius>>))
    ELSE shape

\* The operators on vectors, by coordinates.
LEMMA VecOps ==
    ASSUME NEW u \in Vec, NEW v \in Vec
    PROVE  /\ Plus(u, v) \in Vec /\ Minus(u, v) \in Vec
           /\ u[1] \in Int /\ u[2] \in Int
           /\ Plus(u, v)[1] = u[1] + v[1] /\ Plus(u, v)[2] = u[2] + v[2]
           /\ Minus(u, v)[1] = u[1] - v[1] /\ Minus(u, v)[2] = u[2] - v[2]
BY DEF Vec, Plus, Minus

\* GetBounds is the box around the shape where its body is.
LEMMA BoundsAreAround ==
    ASSUME NEW shape, IsRound(shape) \/ IsBox(shape), NEW vec \in Vec
    PROVE  /\ GetBounds(shape, vec) = Around(Translate(shape, vec))
           /\ IsRound(shape) => IsRound(Translate(shape, vec))
           /\ IsBox(shape) => IsBox(Translate(shape, vec))
<1>1. CASE IsRound(shape)
  <2> DEFINE r == shape.radius
             c == shape.center
  <2>1. c \in Vec /\ r \in Nat /\ Abs(r) = r /\ <<r, r>> \in Vec /\ r \in Int
    BY <1>1 DEF IsRound, Abs, Vec
  <2>2. Translate(shape, vec) = Circle(Plus(c, vec), r)
    BY <1>1 DEF IsRound, Translate
  <2>3. /\ Circle(Plus(c, vec), r).type = "Circle" /\ Circle(Plus(c, vec), r).radius = r
        /\ Circle(Plus(c, vec), r).center = Plus(c, vec)
    BY <2>1 DEF Circle
  <2>4. GetBounds(shape, vec) =
            Rectangle(Plus(Minus(c, <<r, r>>), vec), Plus(Plus(c, <<r, r>>), vec))
    <3>1. LocalBounds(shape) = Rectangle(Minus(c, <<r, r>>), Plus(c, <<r, r>>))
      BY <1>1 DEF LocalBounds, IsRound
    <3> HIDE DEF r, c
    <3> QED
      BY <3>1 DEF GetBounds, Translate, Rectangle
  <2>5. /\ Plus(Minus(c, <<r, r>>), vec) = Minus(Plus(c, vec), <<r, r>>)
        /\ Plus(Plus(c, <<r, r>>), vec) = Plus(Plus(c, vec), <<r, r>>)
    <3>1. c[1] \in Int /\ c[2] \in Int /\ vec[1] \in Int /\ vec[2] \in Int
      BY <2>1, VecOps
    <3> HIDE DEF r, c
    <3> QED
      BY <2>1, <3>1 DEF Plus, Minus
  <2>6. Plus(c, vec) \in Vec
    BY <2>1, VecOps
  <2>7. shape.type # "Rectangle"
    BY <1>1 DEF IsRound
  <2> HIDE DEF r, c
  <2> QED
    BY <2>1, <2>2, <2>3, <2>4, <2>5, <2>6, <2>7 DEF Around, IsRound, IsBox
<1>2. CASE IsBox(shape)
  <2>1. Translate(shape, vec) = Rectangle(Plus(shape.minBound, vec), Plus(shape.maxBound, vec))
    BY <1>2 DEF IsBox, Translate
  <2>2. LocalBounds(shape) = shape
    BY <1>2 DEF IsBox, LocalBounds
  <2>3. /\ Plus(shape.minBound, vec) \in Vec /\ Plus(shape.maxBound, vec) \in Vec
        /\ \A k \in 1..2 : Plus(shape.minBound, vec)[k] <= Plus(shape.maxBound, vec)[k]
    <3>1. shape.minBound \in Vec /\ shape.maxBound \in Vec
      BY <1>2 DEF IsBox
    <3>2. /\ shape.minBound[1] <= shape.maxBound[1]
          /\ shape.minBound[2] <= shape.maxBound[2]
      BY <1>2 DEF IsBox
    <3> QED
      BY <3>1, <3>2, VecOps
  <2>4. shape.type # "Circle"
    BY <1>2 DEF IsBox
  <2> QED
    BY <2>1, <2>2, <2>3, <2>4 DEF GetBounds, Around, IsBox, IsRound, Rectangle
<1> QED
  BY <1>1, <1>2

\* A leg is not longer than the hypotenuse.
LEMMA LegBound ==
    ASSUME NEW x \in Int, NEW y \in Int, NEW r \in Nat, x * x + y * y <= r * r
    PROVE  -r <= x /\ x <= r /\ -r <= y /\ y <= r
<1>1. ASSUME NEW a \in Int, NEW b \in Int, a * a + b * b <= r * r PROVE a <= r
  <2> SUFFICES ASSUME r < a PROVE FALSE
    OBVIOUS
  <2>1. \A m, n \in Nat : m < n => m * m < n * n
    OBVIOUS
  <2>2. b * b >= 0
    OBVIOUS
  <2>3. r * r < a * a
    BY <2>1
  <2> HIDE <2>1
  <2> QED
    BY <1>1, <2>2, <2>3
<1>2. ASSUME NEW a \in Int PROVE (-a) * (-a) = a * a
  OBVIOUS
<1>3. x <= r
  BY <1>1
<1>4. -x <= r
  <2>1. (-x) * (-x) + y * y <= r * r
    BY <1>2
  <2>2. -x \in Int
    OBVIOUS
  <2> QED
    BY <1>1, <2>1, <2>2
<1>5. y * y + x * x <= r * r
  OBVIOUS
<1>6. y <= r
  BY <1>1, <1>5
<1>7. -y <= r
  <2>1. (-y) * (-y) + x * x <= r * r
    BY <1>2, <1>5
  <2>2. -y \in Int
    OBVIOUS
  <2> QED
    BY <1>1, <2>1, <2>2
<1> QED
  BY <1>3, <1>4, <1>6, <1>7

\* The numbers of a circle, and its box by coordinates.
LEMMA AroundCircle ==
    ASSUME NEW c, IsRound(c)
    PROVE  /\ c.radius \in Nat /\ c.center[1] \in Int /\ c.center[2] \in Int
           /\ Around(c).minBound[1] = c.center[1] - c.radius
           /\ Around(c).minBound[2] = c.center[2] - c.radius
           /\ Around(c).maxBound[1] = c.center[1] + c.radius
           /\ Around(c).maxBound[2] = c.center[2] + c.radius
BY DEF IsRound, Around, Vec, Rectangle, Plus, Minus

\* The box of a rectangle, by coordinates.
LEMMA BoxCoordinates ==
    ASSUME NEW box, IsBox(box)
    PROVE  /\ Around(box) = box
           /\ box.minBound[1] \in Int /\ box.minBound[2] \in Int
           /\ box.maxBound[1] \in Int /\ box.maxBound[2] \in Int
           /\ box.minBound[1] <= box.maxBound[1] /\ box.minBound[2] <= box.maxBound[2]
<1>1. Around(box) = box
  BY DEF IsBox, Around
<1>2. /\ box.minBound[1] <= box.maxBound[1] /\ box.minBound[2] <= box.maxBound[2]
      /\ box.minBound \in Vec /\ box.maxBound \in Vec
  BY DEF IsBox
<1> QED
  BY <1>1, <1>2, VecOps

\* Two boxes intersect when they do along both axes.
LEMMA BoxesIntersect ==
    ASSUME NEW r1, NEW r2
    PROVE  IntersectRectangles(r1, r2) <=>
                /\ r1.maxBound[1] >= r2.minBound[1] /\ r1.minBound[1] <= r2.maxBound[1]
                /\ r1.maxBound[2] >= r2.minBound[2] /\ r1.minBound[2] <= r2.maxBound[2]
<1>1. 1..2 = {1, 2}
  OBVIOUS
<1> QED
  BY <1>1 DEF IntersectRectangles

\* Shapes that overlap have boxes that intersect.
LEMMA CirclesHaveBoxes ==
    ASSUME NEW a, IsRound(a), NEW b, IsRound(b), IntersectCircles(a, b)
    PROVE  IntersectRectangles(Around(a), Around(b))
<1> DEFINE x == a.center[1] - b.center[1]
           y == a.center[2] - b.center[2]
           r == a.radius + b.radius
<1>1. /\ a.radius \in Nat /\ a.center[1] \in Int /\ a.center[2] \in Int
      /\ b.radius \in Nat /\ b.center[1] \in Int /\ b.center[2] \in Int
  BY AroundCircle
<1>2. x \in Int /\ y \in Int /\ r \in Nat
  BY <1>1
<1>3. x * x + y * y <= r * r
  BY DEF IntersectCircles, LengthSq, Dot, Minus
<1>4. -r <= x /\ x <= r /\ -r <= y /\ y <= r
  <2> HIDE DEF x, y, r
  <2> QED
    BY <1>2, <1>3, LegBound
<1> QED
  BY <1>1, <1>4, AroundCircle, BoxesIntersect

\* A rectangle and a circle that overlap have boxes that intersect.
LEMMA RectangleCircleHaveBoxes ==
    ASSUME NEW rect, IsBox(rect), NEW circle, IsRound(circle),
           IntersectRectangleCircle(rect, circle)
    PROVE  /\ IntersectRectangles(rect, Around(circle))
           /\ IntersectRectangles(Around(circle), rect)
<1> DEFINE r == circle.radius
           c == circle.center
           Widened(dx, dy) == Rectangle(Minus(rect.minBound, <<dx, dy>>),
                                        Plus(rect.maxBound, <<dx, dy>>))
<1>1. /\ rect.minBound[1] \in Int /\ rect.minBound[2] \in Int
      /\ rect.maxBound[1] \in Int /\ rect.maxBound[2] \in Int
      /\ rect.minBound[1] <= rect.maxBound[1] /\ rect.minBound[2] <= rect.maxBound[2]
      /\ r \in Nat /\ c[1] \in Int /\ c[2] \in Int
  BY BoxCoordinates, AroundCircle
<1>2. ASSUME NEW dx \in 0..r, NEW dy \in 0..r, RectangleContains(Widened(dx, dy), c)
      PROVE  /\ rect.minBound[1] - r <= c[1] /\ c[1] <= rect.maxBound[1] + r
             /\ rect.minBound[2] - r <= c[2] /\ c[2] <= rect.maxBound[2] + r
  <2>1. /\ Widened(dx, dy).minBound[1] = rect.minBound[1] - dx
        /\ Widened(dx, dy).minBound[2] = rect.minBound[2] - dy
        /\ Widened(dx, dy).maxBound[1] = rect.maxBound[1] + dx
        /\ Widened(dx, dy).maxBound[2] = rect.maxBound[2] + dy
    BY DEF Rectangle, Plus, Minus
  <2>2. /\ rect.minBound[1] - dx <= c[1] /\ c[1] <= rect.maxBound[1] + dx
        /\ rect.minBound[2] - dy <= c[2] /\ c[2] <= rect.maxBound[2] + dy
    BY <1>2, <2>1 DEF RectangleContains
  <2> HIDE DEF r, c, Widened
  <2> QED
    BY <1>1, <2>2
<1>3. ASSUME NEW x \in {rect.minBound[1], rect.maxBound[1]},
             NEW y \in {rect.minBound[2], rect.maxBound[2]},
             CircleContains(circle, <<x, y>>)
      PROVE  /\ rect.minBound[1] - r <= c[1] /\ c[1] <= rect.maxBound[1] + r
             /\ rect.minBound[2] - r <= c[2] /\ c[2] <= rect.maxBound[2] + r
  <2>1. (c[1] - x) * (c[1] - x) + (c[2] - y) * (c[2] - y) <= r * r
    BY <1>3 DEF CircleContains, LengthSq, Dot, Minus
  <2>2. x \in Int /\ y \in Int /\ c[1] - x \in Int /\ c[2] - y \in Int
    BY <1>1
  <2>3. -r <= c[1] - x /\ c[1] - x <= r /\ -r <= c[2] - y /\ c[2] - y <= r
    BY <1>1, <2>1, <2>2, LegBound
  <2>4. x <= rect.maxBound[1] /\ rect.minBound[1] <= x
    BY <1>1
  <2>5. y <= rect.maxBound[2] /\ rect.minBound[2] <= y
    BY <1>1
  <2> HIDE DEF r, c
  <2> QED
    BY <1>1, <2>2, <2>3, <2>4, <2>5
<1>4. /\ rect.minBound[1] - r <= c[1] /\ c[1] <= rect.maxBound[1] + r
      /\ rect.minBound[2] - r <= c[2] /\ c[2] <= rect.maxBound[2] + r
  <2>1. CASE RectangleContains(rect, c)
    BY <1>1, <2>1 DEF RectangleContains
  <2>2. CASE RectangleContains(Widened(r, 0), c)
    BY <1>1, <1>2, <2>2
  <2>3. CASE RectangleContains(Widened(0, r), c)
    BY <1>1, <1>2, <2>3
  <2>4. CASE \E x \in {rect.minBound[1], rect.maxBound[1]},
                y \in {rect.minBound[2], rect.maxBound[2]} : CircleContains(circle, <<x, y>>)
    BY <1>3, <2>4
  <2> QED
    BY <2>1, <2>2, <2>3, <2>4 DEF IntersectRectangleCircle
<1> QED
  BY <1>1, <1>4, AroundCircle, BoxesIntersect

\* So has every pair of circles and rectangles that overlap.
LEMMA OverlapHasBoxes ==
    ASSUME NEW a, IsRound(a) \/ IsBox(a), NEW b, IsRound(b) \/ IsBox(b), OverlapShapes(a, b)
    PROVE  IntersectRectangles(Around(a), Around(b))
<1>1. CASE IsRound(a) /\ IsRound(b)
  <2>1. IntersectCircles(a, b)
    BY <1>1 DEF OverlapShapes, IsRound
  <2> QED
    BY <1>1, <2>1, CirclesHaveBoxes
<1>2. CASE IsRound(a) /\ IsBox(b)
  <2>1. IntersectRectangleCircle(b, a)
    BY <1>2 DEF OverlapShapes, IsRound, IsBox
  <2> QED
    BY <1>2, <2>1, RectangleCircleHaveBoxes, BoxCoordinates
<1>3. CASE IsBox(a) /\ IsRound(b)
  <2>1. IntersectRectangleCircle(a, b)
    BY <1>3 DEF OverlapShapes, IsRound, IsBox
  <2> QED
    BY <1>3, <2>1, RectangleCircleHaveBoxes, BoxCoordinates
<1>4. CASE IsBox(a) /\ IsBox(b)
  <2>1. IntersectRectangles(a, b)
    BY <1>4 DEF OverlapShapes, IsBox
  <2> QED
    BY <1>4, <2>1, BoxCoordinates
<1> QED
  BY <1>1, <1>2, <1>3, <1>4

\* And so do shapes where their bodies are, by GetBounds.
LEMMA BoundsCover ==
    ASSUME NEW a, IsRound(a) \/ IsBox(a), NEW p \in Vec,
           NEW b, IsRound(b) \/ IsBox(b), NEW q \in Vec,
           OverlapShapes(Translate(a, p), Translate(b, q))
    PROVE  IntersectRectangles(GetBounds(a, p), GetBounds(b, q))
BY BoundsAreAround, OverlapHasBoxes

-----------------------------------------------------------------------------
(* The boxes of polygons that meet circles.                                *)

\* Any vertices, in any order.
IsOutline(shape) == shape.type = "Polygon" /\ shape.vertices \in Seq(Vec)

\* The squares of the dot and of the cross product.
LEMMA Lagrange ==
    ASSUME NEW s \in Int, NEW t \in Int, NEW u \in Int, NEW v \in Int
    PROVE  LET dot == s * u + t * v
               len == u * u + v * v
               cross == s * v - t * u
           IN  /\ cross * cross + dot * dot = (s * s + t * t) * len
               /\ s * len - dot * u = v * cross
               /\ t * len - dot * v = -(u * cross)
OBVIOUS

\* A point between 0 and u, dot / len of the way, and within r of s.
LEMMA FootNear ==
    ASSUME NEW s \in Int, NEW u \in Int, NEW dot \in Int, NEW len \in Int, NEW r \in Nat,
           0 < dot, dot < len, -(r * len) <= s * len - dot * u, s * len - dot * u <= r * len
    PROVE  \/ -r <= s /\ s <= u + r
           \/ u - r <= s /\ s <= r
<1>1. ASSUME NEW m \in Int, NEW n \in Int, m * len <= n * len PROVE m <= n
  <2> SUFFICES ASSUME n < m PROVE FALSE
    OBVIOUS
  <2>1. m - n >= 1 /\ (m - n) * len >= len
    OBVIOUS
  <2>2. (m - n) * len = m * len - n * len /\ m * len \in Int /\ n * len \in Int
    OBVIOUS
  <2> QED
    BY <1>1, <2>1, <2>2
<1>2. /\ r * len \in Int /\ s * len \in Int /\ dot * u \in Int /\ len * u \in Int
      /\ (-r) * len = -(r * len) /\ (u + r) * len = len * u + r * len
      /\ (u - r) * len = len * u - r * len
  OBVIOUS
<1>3. CASE u >= 0
  <2>1. 0 <= dot * u /\ dot * u <= len * u
    <3>1. (len - dot) * u >= 0 /\ (len - dot) * u = len * u - dot * u /\ dot * u >= 0
      BY <1>3
    <3> QED
      BY <1>2, <3>1
  <2>2. (-r) * len <= s * len /\ s * len <= (u + r) * len
    BY <1>2, <2>1
  <2>3. -r <= s /\ s <= u + r
    BY <1>1, <2>2
  <2> QED
    BY <2>3
<1>4. CASE u < 0
  <2>1. len * u <= dot * u /\ dot * u <= 0
    <3>1. (len - dot) * (-u) >= 0 /\ (len - dot) * (-u) = dot * u - len * u /\ dot * (-u) >= 0
          /\ dot * (-u) = -(dot * u)
      BY <1>4
    <3> QED
      BY <1>2, <3>1
  <2>2. (u - r) * len <= s * len /\ s * len <= r * len
    BY <1>2, <2>1
  <2>3. u - r <= s /\ s <= r
    BY <1>1, <2>2
  <2> QED
    BY <2>3
<1> QED
  BY <1>3, <1>4

\* The bounds of a box, widened by a radius.
WithinRadius(box, circle) ==
    /\ box.minBound[1] - circle.radius <= circle.center[1]
    /\ circle.center[1] <= box.maxBound[1] + circle.radius
    /\ box.minBound[2] - circle.radius <= circle.center[2]
    /\ circle.center[2] <= box.maxBound[2] + circle.radius

\* A circle that contains a point of a box.
LEMMA PointWithinRadius ==
    ASSUME NEW box, NEW circle, IsRound(circle), NEW p \in Vec, RectangleContains(box, p),
           box.minBound \in Vec, box.maxBound \in Vec, CircleContains(circle, p)
    PROVE  WithinRadius(box, circle)
<1>1. PICK x, y, cx, cy, r : /\ x = p[1] /\ y = p[2] /\ cx = circle.center[1]
                             /\ cy = circle.center[2] /\ r = circle.radius
  OBVIOUS
<1>2. x \in Int /\ y \in Int /\ cx \in Int /\ cy \in Int /\ r \in Nat
  BY <1>1 DEF IsRound, Vec
<1>3. (cx - x) * (cx - x) + (cy - y) * (cy - y) <= r * r
  BY <1>1 DEF CircleContains, LengthSq, Dot, Minus
<1>4. -r <= cx - x /\ cx - x <= r /\ -r <= cy - y /\ cy - y <= r
  <2>1. cx - x \in Int /\ cy - y \in Int
    BY <1>2
  <2> QED
    BY <1>2, <1>3, <2>1, LegBound
<1>5. PICK left, right, low, high :
          /\ left = box.minBound[1] /\ right = box.maxBound[1]
          /\ low = box.minBound[2] /\ high = box.maxBound[2]
  OBVIOUS
<1>6. left \in Int /\ right \in Int /\ low \in Int /\ high \in Int
  BY <1>5 DEF Vec
<1>7. left <= x /\ x <= right /\ low <= y /\ y <= high
  BY <1>1, <1>5 DEF RectangleContains
<1>8. left - r <= cx /\ cx <= right + r /\ low - r <= cy /\ cy <= high + r
  BY <1>2, <1>4, <1>6, <1>7
<1> QED
  BY <1>1, <1>5, <1>8 DEF WithinRadius

\* A circle within its radius of a segment between two points of a box.
LEMMA SegmentInBox ==
    ASSUME NEW box, NEW circle, IsRound(circle), NEW a \in Vec, NEW b \in Vec,
           RectangleContains(box, a), RectangleContains(box, b),
           box.minBound \in Vec, box.maxBound \in Vec, SegmentWithinRadius(a, b, circle)
    PROVE  WithinRadius(box, circle)
<1>1. CASE CircleContains(circle, a) \/ CircleContains(circle, b)
  BY <1>1, PointWithinRadius
<1>2. CASE ~CircleContains(circle, a) /\ ~CircleContains(circle, b)
  <2>1. PICK ax, ay, bx, by, cx, cy, r :
            /\ ax = a[1] /\ ay = a[2] /\ bx = b[1] /\ by = b[2]
            /\ cx = circle.center[1] /\ cy = circle.center[2] /\ r = circle.radius
    OBVIOUS
  <2>2. /\ ax \in Int /\ ay \in Int /\ bx \in Int /\ by \in Int
        /\ cx \in Int /\ cy \in Int /\ r \in Nat
    BY <2>1 DEF IsRound, Vec
  <2>3. PICK u \in Int, v \in Int, s \in Int, t \in Int :
            u = bx - ax /\ v = by - ay /\ s = cx - ax /\ t = cy - ay
    BY <2>2
  <2>4. PICK len \in Int, dot \in Int, cross \in Int, d \in Int :
            /\ len = u * u + v * v /\ dot = s * u + t * v /\ cross = s * v - t * u
            /\ d = s * s + t * t
    OBVIOUS
  <2>5. 0 < dot /\ dot < len /\ (d - r * r) * len <= dot * dot
    <3>1. /\ LengthSq(Minus(b, a)) = len
          /\ LengthSq(Minus(circle.center, a)) = d
          /\ Dot(Minus(circle.center, a), Minus(b, a)) = dot
      BY <2>1, <2>3, <2>4 DEF LengthSq, Dot, Minus
    <3>2. /\ 0 < Dot(Minus(circle.center, a), Minus(b, a))
          /\ Dot(Minus(circle.center, a), Minus(b, a)) < LengthSq(Minus(b, a))
          /\ (LengthSq(Minus(circle.center, a)) - circle.radius * circle.radius)
                * LengthSq(Minus(b, a))
                <= Dot(Minus(circle.center, a), Minus(b, a))
                    * Dot(Minus(circle.center, a), Minus(b, a))
      BY <1>2 DEF SegmentWithinRadius
    <3> QED
      BY <2>1, <3>1, <3>2
  \* The distance to the line is at most the radius, and so it is along each axis.
  <2>6. /\ cross * cross + dot * dot = d * len
        /\ s * len - dot * u = v * cross /\ t * len - dot * v = -(u * cross)
    <3>1. /\ cross * cross + dot * dot = (s * s + t * t) * len
          /\ s * len - dot * u = v * cross /\ t * len - dot * v = -(u * cross)
      <4>1. len = u * u + v * v /\ dot = s * u + t * v /\ cross = s * v - t * u
        BY <2>4
      <4> QED
        BY <4>1, Lagrange
    <3>2. d = s * s + t * t
      BY <2>4
    <3>3. (s * s + t * t) * len = d * len
      BY <3>2
    <3>4. cross * cross + dot * dot = d * len
      BY <3>1, <3>3
    <3> QED
      BY <3>1, <3>4
  <2>7. cross * cross <= r * r * len
    <3>1. (d - r * r) * len = d * len - r * r * len
      BY <2>2
    <3>2. cross * cross \in Int /\ dot * dot \in Int /\ d * len \in Int /\ r * r * len \in Int
      BY <2>2
    <3>3. \A w, x, y, z \in Int : w + x = y /\ y - z <= x => w <= z
      OBVIOUS
    <3> QED
      BY <2>5, <2>6, <3>1, <3>2, <3>3
  <2>8. (v * cross) * (v * cross) + (u * cross) * (u * cross) <= (r * len) * (r * len)
    <3>1. (v * cross) * (v * cross) + (u * cross) * (u * cross) = len * (cross * cross)
      BY <2>4
    <3>2. (r * len) * (r * len) = len * (r * r * len)
      BY <2>2
    <3>3. \A m, n, l \in Int : l >= 0 /\ m <= n => l * m <= l * n
      <4> SUFFICES ASSUME NEW m \in Int, NEW n \in Int, NEW l \in Int, l >= 0, m <= n
                   PROVE  l * m <= l * n
        OBVIOUS
      <4>1. l * (n - m) >= 0 /\ l * (n - m) = l * n - l * m /\ l * n \in Int /\ l * m \in Int
        OBVIOUS
      <4> QED
        BY <4>1
    <3>4. cross * cross \in Int /\ r * r * len \in Int /\ len >= 0
      BY <2>2, <2>5
    <3>5. len * (cross * cross) <= len * (r * r * len)
      BY <2>7, <3>3, <3>4
    <3> QED
      BY <3>1, <3>2, <3>5
  <2>9. /\ -(r * len) <= v * cross /\ v * cross <= r * len
        /\ -(r * len) <= u * cross /\ u * cross <= r * len
    <3>1. r * len \in Nat /\ v * cross \in Int /\ u * cross \in Int
      BY <2>2, <2>5
    <3> QED
      BY <2>8, <3>1, LegBound
  <2>10. /\ -(r * len) <= s * len - dot * u /\ s * len - dot * u <= r * len
         /\ -(r * len) <= t * len - dot * v /\ t * len - dot * v <= r * len
    <3>1. r * len \in Int /\ v * cross \in Int /\ u * cross \in Int
      BY <2>2
    <3> QED
      BY <2>6, <2>9, <3>1
  <2>11. /\ (-r <= s /\ s <= u + r) \/ (u - r <= s /\ s <= r)
         /\ (-r <= t /\ t <= v + r) \/ (v - r <= t /\ t <= r)
    <3>1. (-r <= s /\ s <= u + r) \/ (u - r <= s /\ s <= r)
      BY <2>2, <2>5, <2>10, FootNear
    <3>2. (-r <= t /\ t <= v + r) \/ (v - r <= t /\ t <= r)
      BY <2>2, <2>5, <2>10, FootNear
    <3> QED
      BY <3>1, <3>2
  <2>12. PICK left, right, low, high :
             /\ left = box.minBound[1] /\ right = box.maxBound[1]
             /\ low = box.minBound[2] /\ high = box.maxBound[2]
    OBVIOUS
  <2>13. left \in Int /\ right \in Int /\ low \in Int /\ high \in Int
    BY <2>12 DEF Vec
  <2>14. /\ left <= ax /\ ax <= right /\ low <= ay /\ ay <= high
         /\ left <= bx /\ bx <= right /\ low <= by /\ by <= high
    BY <2>1, <2>12 DEF RectangleContains
  <2>15. left - r <= cx /\ cx <= right + r /\ low - r <= cy /\ cy <= high + r
    BY <2>2, <2>3, <2>11, <2>13, <2>14
  <2> QED
    BY <2>1, <2>12, <2>15 DEF WithinRadius
<1> QED
  BY <1>1, <1>2

\* The box of a polygon is around its vertices where its body is.
LEMMA OutlineInBounds ==
    ASSUME NEW shape, IsOutline(shape), NEW vec \in Vec
    PROVE  LET moved == Translate(shape, vec)
               box == GetBounds(shape, vec)
           IN  /\ IsOutline(moved) /\ Len(moved.vertices) = Len(shape.vertices)
               /\ box.minBound \in Vec /\ box.maxBound \in Vec
               /\ \A i \in DOMAIN moved.vertices :
                     moved.vertices[i] \in Vec /\ RectangleContains(box, moved.vertices[i])
<1> DEFINE vs == shape.vertices
           D == DOMAIN shape.vertices
           Coords(k) == {vs[i][k] : i \in D}
           Low(k) == Min(Coords(k) \cup {FLT_MAX})
           High(k) == Max(Coords(k) \cup {FLT_MIN})
           moved == Translate(shape, vec)
           box == GetBounds(shape, vec)
<1>1. /\ vs \in Seq(Vec) /\ D = 1..Len(vs) /\ Len(vs) \in Nat /\ IsFiniteSet(D)
      /\ \A i \in D : vs[i] \in Vec
  <2>1. vs \in Seq(Vec)
    BY DEF IsOutline
  <2>2. D = 1..Len(vs) /\ Len(vs) \in Nat /\ \A i \in D : vs[i] \in Vec
    BY <2>1
  <2> QED
    BY <2>1, <2>2, FS_Interval
<1>2. /\ moved = Polygon([i \in D |-> Plus(vs[i], vec)])
      /\ \A i \in D : Plus(vs[i], vec) \in Vec
      /\ \A i \in D : Plus(vs[i], vec)[1] = vs[i][1] + vec[1]
                      /\ Plus(vs[i], vec)[2] = vs[i][2] + vec[2]
  <2>1. moved = Polygon([i \in D |-> Plus(vs[i], vec)])
    BY DEF IsOutline, Translate
  <2> QED
    BY <1>1, <2>1, VecOps
<1>3. ASSUME NEW k \in 1..2
      PROVE  /\ Low(k) \in Int /\ High(k) \in Int
             /\ \A i \in D : vs[i][k] \in Int /\ Low(k) <= vs[i][k] /\ vs[i][k] <= High(k)
  <2>1. \A i \in D : vs[i][k] \in Int
    BY <1>1 DEF Vec
  <2>2. PICK f : f = [i \in D |-> vs[i][k]]
    OBVIOUS
  <2>3. f \in Surjection(D, Coords(k))
    BY <2>2 DEF Surjection
  <2>4. IsFiniteSet(Coords(k)) /\ Coords(k) \in SUBSET Int
    BY <1>1, <2>1, <2>3, FS_Surjection
  <2>5. FLT_MAX \in Int /\ FLT_MIN \in Int
    BY FloatAssumption DEF FLT_MIN
  <2>6. \A i \in D : vs[i][k] \in Coords(k)
    OBVIOUS
  <2> HIDE DEF Coords
  <2>7. PICK S : S = Coords(k) \cup {FLT_MAX}
    OBVIOUS
  <2>8. S \in SUBSET Int /\ S # {} /\ IsFiniteSet(S)
    BY <2>4, <2>5, <2>7, FS_AddElement
  <2>9. PICK T : T = Coords(k) \cup {FLT_MIN}
    OBVIOUS
  <2>10. T \in SUBSET Int /\ T # {} /\ IsFiniteSet(T)
    BY <2>4, <2>5, <2>9, FS_AddElement
  <2>11. Min(S) \in S /\ \A x \in S : Min(S) <= x
    BY <2>8, MinOfFinite
  <2>12. Max(T) \in T /\ \A x \in T : x <= Max(T)
    BY <2>10, MaxOfFinite
  <2>13. Low(k) \in Int /\ High(k) \in Int
    BY <2>7, <2>8, <2>9, <2>10, <2>11, <2>12
  <2> QED
    BY <2>1, <2>6, <2>7, <2>9, <2>11, <2>12, <2>13
<1> HIDE DEF Low, High
<1>4. LocalBounds(shape) = Rectangle(<<Low(1), Low(2)>>, <<High(1), High(2)>>)
  BY DEF LocalBounds, IsOutline, Low, High
<1>5. box = Rectangle(Plus(<<Low(1), Low(2)>>, vec), Plus(<<High(1), High(2)>>, vec))
  BY <1>4 DEF GetBounds, Translate, Rectangle
<1>6. vec[1] \in Int /\ vec[2] \in Int
  BY DEF Vec
<1>7. /\ box.minBound = <<Low(1) + vec[1], Low(2) + vec[2]>>
      /\ box.maxBound = <<High(1) + vec[1], High(2) + vec[2]>>
  BY <1>5 DEF Rectangle, Plus
<1>8. box.minBound \in Vec /\ box.maxBound \in Vec
  <2>1. Low(1) \in Int /\ Low(2) \in Int /\ High(1) \in Int /\ High(2) \in Int
    BY <1>3
  <2> QED
    BY <1>6, <1>7, <2>1 DEF Vec
<1>9. moved.vertices = [i \in D |-> Plus(vs[i], vec)] /\ moved.type = "Polygon"
  BY <1>2 DEF Polygon
<1>10. ASSUME NEW i \in D
       PROVE  moved.vertices[i] \in Vec /\ RectangleContains(box, moved.vertices[i])
  <2>1. moved.vertices[i] = Plus(vs[i], vec)
    BY <1>9
  <2>2. /\ Low(1) \in Int /\ High(1) \in Int /\ vs[i][1] \in Int
        /\ Low(1) <= vs[i][1] /\ vs[i][1] <= High(1)
    BY <1>3
  <2>3. /\ Low(2) \in Int /\ High(2) \in Int /\ vs[i][2] \in Int
        /\ Low(2) <= vs[i][2] /\ vs[i][2] <= High(2)
    BY <1>3
  <2>4. /\ Low(1) + vec[1] <= vs[i][1] + vec[1] /\ vs[i][1] + vec[1] <= High(1) + vec[1]
        /\ Low(2) + vec[2] <= vs[i][2] + vec[2] /\ vs[i][2] + vec[2] <= High(2) + vec[2]
    BY <1>6, <2>2, <2>3
  <2>5. \A k \in 1..2 : /\ box.minBound[k] <= Plus(vs[i], vec)[k]
                        /\ Plus(vs[i], vec)[k] <= box.maxBound[k]
    BY <1>2, <1>7, <2>4
  <2> QED
    BY <1>2, <2>1, <2>5 DEF RectangleContains
<1>11. moved.vertices \in Seq(Vec) /\ Len(moved.vertices) = Len(vs) /\ DOMAIN moved.vertices = D
  BY <1>1, <1>2, <1>9
<1> QED
  BY <1>8, <1>9, <1>10, <1>11 DEF IsOutline

\* A polygon and a circle that overlap have boxes that intersect.
LEMMA OutlineCircleCover ==
    ASSUME NEW outline, IsOutline(outline), NEW p \in Vec, NEW circle, IsRound(circle), NEW q \in Vec,
           IntersectPolygonCircle(Translate(outline, p), Translate(circle, q))
    PROVE  /\ IntersectRectangles(GetBounds(outline, p), GetBounds(circle, q))
           /\ IntersectRectangles(GetBounds(circle, q), GetBounds(outline, p))
<1>1. PICK moved, box : moved = Translate(outline, p) /\ box = GetBounds(outline, p)
  OBVIOUS
<1>2. PICK c : c = Translate(circle, q)
  OBVIOUS
<1>3. IsRound(c) /\ GetBounds(circle, q) = Around(c)
  BY <1>2, BoundsAreAround
<1>4. /\ moved.vertices \in Seq(Vec) /\ box.minBound \in Vec /\ box.maxBound \in Vec
      /\ \A i \in DOMAIN moved.vertices :
            moved.vertices[i] \in Vec /\ RectangleContains(box, moved.vertices[i])
  BY <1>1, OutlineInBounds DEF IsOutline
<1>5. WithinRadius(box, c)
  <2>1. CASE \E i \in DOMAIN moved.vertices : CircleContains(c, moved.vertices[i])
    BY <1>3, <1>4, <2>1, PointWithinRadius
  <2>2. CASE \E edge \in Edges(moved) : SegmentWithinRadius(edge[2], edge[1], c)
    <3>1. PICK edge \in Edges(moved) : SegmentWithinRadius(edge[2], edge[1], c)
      BY <2>2
    <3>2. PICK n : n = Len(moved.vertices)
      OBVIOUS
    <3>3. n \in Nat /\ DOMAIN moved.vertices = 1..n
      BY <1>4, <3>2
    <3>4. PICK i \in 1..n :
              edge = <<moved.vertices[IF i = 1 THEN n ELSE i - 1], moved.vertices[i]>>
      BY <3>1, <3>2 DEF Edges
    <3>5. PICK j \in 1..n : j = IF i = 1 THEN n ELSE i - 1
      BY <3>3
    <3>6. edge = <<moved.vertices[j], moved.vertices[i]>>
      BY <3>4, <3>5
    <3> QED
      BY <1>3, <1>4, <3>1, <3>3, <3>6, SegmentInBox
  <2> QED
    BY <1>1, <1>2, <2>1, <2>2 DEF IntersectPolygonCircle
<1>6. /\ box.minBound[1] \in Int /\ box.minBound[2] \in Int
      /\ box.maxBound[1] \in Int /\ box.maxBound[2] \in Int
  BY <1>4 DEF Vec
<1>7. /\ IntersectRectangles(box, Around(c)) /\ IntersectRectangles(Around(c), box)
  BY <1>3, <1>5, <1>6, AroundCircle, BoxesIntersect DEF WithinRadius
<1> QED
  BY <1>1, <1>3, <1>7

-----------------------------------------------------------------------------
(* The boxes of polygons that meet rectangles.                             *)

\* The dot products of a polygon's vertices with a normal.
LEMMA ProjectionsBounded ==
    ASSUME NEW p, IsOutline(p), p.vertices # <<>>, NEW normal \in Vec
    PROVE  LET S == {Dot(p.vertices[i], normal) : i \in DOMAIN p.vertices}
           IN  /\ \E i \in DOMAIN p.vertices : Max(S) = Dot(p.vertices[i], normal)
               /\ \E i \in DOMAIN p.vertices : Min(S) = Dot(p.vertices[i], normal)
<1> DEFINE D == DOMAIN p.vertices
           S == {Dot(p.vertices[i], normal) : i \in D}
<1>1. p.vertices \in Seq(Vec)
  BY DEF IsOutline
<1>2. IsFiniteSet(D) /\ D # {} /\ \A i \in D : p.vertices[i] \in Vec
  <2>1. D = 1..Len(p.vertices) /\ Len(p.vertices) \in Nat /\ Len(p.vertices) # 0
        /\ \A i \in D : p.vertices[i] \in Vec
    BY <1>1
  <2>2. 1 \in D
    BY <2>1
  <2>3. IsFiniteSet(1..Len(p.vertices))
    <3>1. PICK n \in Int : n = Len(p.vertices)
      BY <2>1
    <3>2. IsFiniteSet(1..n)
      BY FS_Interval
    <3> QED
      BY <3>1, <3>2
  <2> QED
    BY <2>1, <2>2, <2>3
<1>3. \A u, v \in Vec : Dot(u, v) \in Int
  BY DEF Dot, Vec
<1>4. PICK f : f = [i \in D |-> Dot(p.vertices[i], normal)]
  OBVIOUS
<1>5. f \in Surjection(D, S)
  BY <1>4 DEF Surjection
<1>6. IsFiniteSet(S) /\ S \in SUBSET Int /\ S # {}
  <2>1. IsFiniteSet(S)
    BY <1>2, <1>5, FS_Surjection
  <2>2. \A i \in D : Dot(p.vertices[i], normal) \in Int
    BY <1>2, <1>3
  <2> QED
    BY <1>2, <2>1, <2>2
<1>7. Max(S) \in S /\ Min(S) \in S
  <2> HIDE DEF S
  <2> QED
    BY <1>6, MinOfFinite, MaxOfFinite
<1> QED
  BY <1>7

\* Where the test along an edge finds no gap, each has a vertex before one of the other.
LEMMA NoGapAlong ==
    ASSUME NEW p1, IsOutline(p1), p1.vertices # <<>>, NEW p2, IsOutline(p2), p2.vertices # <<>>,
           NoSeparatingEdge(p1, p2), NEW edge \in Edges(p1), NEW normal \in Vec,
           normal = <<-Minus(edge[2], edge[1])[2], Minus(edge[2], edge[1])[1]>>
    PROVE  /\ \E i \in DOMAIN p1.vertices, j \in DOMAIN p2.vertices :
                 Dot(p1.vertices[i], normal) >= Dot(p2.vertices[j], normal)
           /\ \E i \in DOMAIN p1.vertices, j \in DOMAIN p2.vertices :
                 Dot(p2.vertices[j], normal) >= Dot(p1.vertices[i], normal)
<1> DEFINE S(p) == {Dot(p.vertices[i], normal) : i \in DOMAIN p.vertices}
<1>1. Max(S(p1)) >= Min(S(p2)) /\ Max(S(p2)) >= Min(S(p1))
  BY DEF NoSeparatingEdge
<1>2. /\ \E i \in DOMAIN p1.vertices : Max(S(p1)) = Dot(p1.vertices[i], normal)
      /\ \E i \in DOMAIN p1.vertices : Min(S(p1)) = Dot(p1.vertices[i], normal)
  BY ProjectionsBounded
<1>3. /\ \E j \in DOMAIN p2.vertices : Max(S(p2)) = Dot(p2.vertices[j], normal)
      /\ \E j \in DOMAIN p2.vertices : Min(S(p2)) = Dot(p2.vertices[j], normal)
  BY ProjectionsBounded
<1> HIDE DEF S
<1> QED
  BY <1>1, <1>2, <1>3

\* A rectangle with an inside.
IsSolid(rect) == IsBox(rect) /\ \A k \in 1..2 : rect.minBound[k] < rect.maxBound[k]

\* The corners of RectToPolygon, and the two edges whose normals are the axes.
LEMMA CornersAre ==
    ASSUME NEW rect, IsSolid(rect)
    PROVE  LET poly == RectToPolygon(rect)
           IN  /\ IsOutline(poly) /\ poly.vertices # <<>> /\ DOMAIN poly.vertices = 1..4
               /\ \A i \in 1..4 : RectangleContains(rect, poly.vertices[i])
               /\ \E edge \in Edges(poly), h \in Nat \ {0} :
                     <<-Minus(edge[2], edge[1])[2], Minus(edge[2], edge[1])[1]>> = <<-h, 0>>
               /\ \E edge \in Edges(poly), w \in Nat \ {0} :
                     <<-Minus(edge[2], edge[1])[2], Minus(edge[2], edge[1])[1]>> = <<0, -w>>
<1>1. PICK left, right, low, high :
          /\ left = rect.minBound[1] /\ right = rect.maxBound[1]
          /\ low = rect.minBound[2] /\ high = rect.maxBound[2]
  OBVIOUS
<1>2. /\ left \in Int /\ right \in Int /\ low \in Int /\ high \in Int
      /\ left < right /\ low < high
      /\ rect.minBound = <<left, low>> /\ rect.maxBound = <<right, high>>
  <2>1. rect.minBound \in Vec /\ rect.maxBound \in Vec
    BY DEF IsSolid, IsBox
  <2>2. left < right /\ low < high
    BY <1>1 DEF IsSolid
  <2> QED
    BY <1>1, <2>1, <2>2 DEF Vec
<1>3. PICK poly : poly = RectToPolygon(rect)
  OBVIOUS
<1>4. /\ poly.type = "Polygon"
      /\ poly.vertices = <<<<left, low>>, <<left, high>>, <<right, high>>, <<right, low>>>>
  BY <1>1, <1>2, <1>3 DEF RectToPolygon, Polygon
<1>5. /\ IsOutline(poly) /\ poly.vertices # <<>> /\ DOMAIN poly.vertices = 1..4
      /\ Len(poly.vertices) = 4
  BY <1>2, <1>4 DEF IsOutline, Vec
<1>6. /\ poly.vertices[1] = <<left, low>> /\ poly.vertices[2] = <<left, high>>
      /\ poly.vertices[3] = <<right, high>> /\ poly.vertices[4] = <<right, low>>
  BY <1>4
<1>7. ASSUME NEW i \in 1..4 PROVE RectangleContains(rect, poly.vertices[i])
  <2>1. PICK x \in {left, right}, y \in {low, high} : poly.vertices[i] = <<x, y>>
    BY <1>6
  <2>2. left <= x /\ x <= right /\ low <= y /\ y <= high
    BY <1>2, <2>1
  <2> QED
    BY <1>2, <2>1, <2>2 DEF RectangleContains
<1>8. /\ <<<<left, low>>, <<left, high>>>> \in Edges(poly)
      /\ <<<<right, low>>, <<left, low>>>> \in Edges(poly)
  <2>1. Edges(poly) = {<<poly.vertices[IF i = 1 THEN 4 ELSE i - 1], poly.vertices[i]>> : i \in 1..4}
    BY <1>5 DEF Edges
  <2>2. 1 \in 1..4 /\ 2 \in 1..4
    OBVIOUS
  <2> QED
    BY <1>6, <2>1, <2>2
<1>9. high - low \in Nat \ {0} /\ right - left \in Nat \ {0}
  BY <1>2
<1>10. /\ <<-Minus(<<left, high>>, <<left, low>>)[2], Minus(<<left, high>>, <<left, low>>)[1]>>
            = <<-(high - low), 0>>
       /\ <<-Minus(<<left, low>>, <<right, low>>)[2], Minus(<<left, low>>, <<right, low>>)[1]>>
            = <<0, -(right - left)>>
  <2>1. Minus(<<left, high>>, <<left, low>>) = <<0, high - low>>
    BY <1>2 DEF Minus
  <2>2. Minus(<<left, low>>, <<right, low>>) = <<-(right - left), 0>>
    BY <1>2 DEF Minus
  <2>3. \A n \in Int : n + n = n => -n = n
    OBVIOUS
  <2>4. -Minus(<<left, low>>, <<right, low>>)[2] = 0
    <3>1. PICK z \in Int : z = Minus(<<left, low>>, <<right, low>>)[2]
      BY <2>2
    <3>2. z = 0 /\ z + z = z
      BY <2>2, <3>1
    <3> QED
      BY <2>3, <3>1, <3>2
  <2>5. /\ -Minus(<<left, high>>, <<left, low>>)[2] = -(high - low)
        /\ Minus(<<left, high>>, <<left, low>>)[1] = 0
        /\ Minus(<<left, low>>, <<right, low>>)[1] = -(right - left)
    BY <2>1, <2>2
  <2> QED
    BY <2>4, <2>5
<1>11. /\ \E edge \in Edges(poly), h \in Nat \ {0} :
             <<-Minus(edge[2], edge[1])[2], Minus(edge[2], edge[1])[1]>> = <<-h, 0>>
       /\ \E edge \in Edges(poly), w \in Nat \ {0} :
             <<-Minus(edge[2], edge[1])[2], Minus(edge[2], edge[1])[1]>> = <<0, -w>>
  <2>1. PICK e : e = <<<<left, low>>, <<left, high>>>>
    OBVIOUS
  <2>2. e \in Edges(poly) /\ e[1] = <<left, low>> /\ e[2] = <<left, high>>
    BY <1>8, <2>1
  <2>3. PICK f : f = <<<<right, low>>, <<left, low>>>>
    OBVIOUS
  <2>4. f \in Edges(poly) /\ f[1] = <<right, low>> /\ f[2] = <<left, low>>
    BY <1>8, <2>3
  <2> QED
    BY <1>9, <1>10, <2>2, <2>4
<1> QED
  BY <1>3, <1>5, <1>7, <1>11

\* One axis: positions that a factor keeps in order.
LEMMA FactorKeepsOrder ==
    ASSUME NEW x \in Int, NEW y \in Int, NEW w \in Nat \ {0}, -w * x >= -w * y
    PROVE  x <= y
<1> SUFFICES ASSUME y < x PROVE FALSE
  OBVIOUS
<1>1. w * (x - y) >= w /\ w * (x - y) = w * x - w * y
  OBVIOUS
<1>2. -w * x = -(w * x) /\ -w * y = -(w * y) /\ w * x \in Int /\ w * y \in Int
  OBVIOUS
<1> QED
  BY <1>1, <1>2

\* A polygon and a rectangle that no edge of the rectangle separates.
LEMMA AxesTested ==
    ASSUME NEW rect, IsSolid(rect), NEW p, IsOutline(p), p.vertices # <<>>,
           NoSeparatingEdge(RectToPolygon(rect), p), NEW box,
           box.minBound \in Vec, box.maxBound \in Vec,
           \A i \in DOMAIN p.vertices : RectangleContains(box, p.vertices[i])
    PROVE  IntersectRectangles(box, rect) /\ IntersectRectangles(rect, box)
<1>1. PICK poly : poly = RectToPolygon(rect)
  OBVIOUS
<1>2. /\ IsOutline(poly) /\ poly.vertices # <<>> /\ DOMAIN poly.vertices = 1..4
      /\ \A i \in 1..4 : RectangleContains(rect, poly.vertices[i])
      /\ NoSeparatingEdge(poly, p)
  BY <1>1, CornersAre
<1>3. rect.minBound \in Vec /\ rect.maxBound \in Vec
  BY DEF IsSolid, IsBox
<1>4. ASSUME NEW i \in DOMAIN poly.vertices, NEW j \in DOMAIN p.vertices
      PROVE  /\ poly.vertices[i] \in Vec /\ p.vertices[j] \in Vec
             /\ RectangleContains(rect, poly.vertices[i]) /\ RectangleContains(box, p.vertices[j])
  <2>1. poly.vertices \in Seq(Vec) /\ p.vertices \in Seq(Vec)
    BY <1>2 DEF IsOutline
  <2>2. poly.vertices[i] \in Vec
    BY <2>1
  <2>3. p.vertices[j] \in Vec
    BY <2>1
  <2> QED
    BY <1>2, <2>2, <2>3
\* What contains one point each, in order along an axis, is in that order.
<1>5. ASSUME NEW u \in Vec, NEW v \in Vec, NEW a, RectangleContains(a, u),
             NEW b, RectangleContains(b, v), a.minBound \in Vec, b.maxBound \in Vec,
             NEW k \in 1..2, u[k] <= v[k]
      PROVE  a.minBound[k] <= b.maxBound[k]
  <2>1. a.minBound[k] \in Int /\ u[k] \in Int /\ v[k] \in Int /\ b.maxBound[k] \in Int
    BY <1>5 DEF Vec
  <2>2. a.minBound[k] <= u[k] /\ v[k] <= b.maxBound[k]
    BY <1>5 DEF RectangleContains
  <2> QED
    BY <1>5, <2>1, <2>2
<1>6. rect.minBound[1] <= box.maxBound[1] /\ box.minBound[1] <= rect.maxBound[1]
  <2>1. PICK edge \in Edges(poly), h \in Nat \ {0} :
            <<-Minus(edge[2], edge[1])[2], Minus(edge[2], edge[1])[1]>> = <<-h, 0>>
    BY <1>1, CornersAre
  <2>2. PICK normal \in Vec : normal = <<-h, 0>>
    <3>1. -h \in Int /\ 0 \in Int
      OBVIOUS
    <3> QED
      BY <3>1 DEF Vec
  <2>3. /\ \E i \in DOMAIN poly.vertices, j \in DOMAIN p.vertices :
              Dot(poly.vertices[i], normal) >= Dot(p.vertices[j], normal)
        /\ \E i \in DOMAIN poly.vertices, j \in DOMAIN p.vertices :
              Dot(p.vertices[j], normal) >= Dot(poly.vertices[i], normal)
    BY <1>2, <2>1, <2>2, NoGapAlong
  <2>4. ASSUME NEW u \in Vec, NEW v \in Vec, Dot(u, normal) >= Dot(v, normal) PROVE u[1] <= v[1]
    <3>1. u[1] \in Int /\ u[2] \in Int /\ v[1] \in Int /\ v[2] \in Int
      BY DEF Vec
    <3>2. Dot(u, normal) = -h * u[1] /\ Dot(v, normal) = -h * v[1]
      <4>1. normal[1] = -h /\ normal[2] = 0
        BY <2>2
      <4>2. \A m, n \in Int : m * (-h) + n * 0 = -h * m /\ n * 0 + m * (-h) = -h * m
        OBVIOUS
      <4>3. Dot(u, normal) = u[1] * normal[1] + u[2] * normal[2]
            /\ Dot(v, normal) = v[1] * normal[1] + v[2] * normal[2]
        BY DEF Dot
      <4> QED
        BY <3>1, <4>1, <4>2, <4>3
    <3> QED
      BY <2>4, <3>1, <3>2, FactorKeepsOrder
  <2>5. rect.minBound[1] <= box.maxBound[1]
    <3>1. PICK i \in DOMAIN poly.vertices, j \in DOMAIN p.vertices :
              Dot(poly.vertices[i], normal) >= Dot(p.vertices[j], normal)
      BY <2>3
    <3>2. poly.vertices[i][1] <= p.vertices[j][1]
      BY <1>4, <2>4, <3>1
    <3> QED
      BY <1>3, <1>4, <1>5, <3>2
  <2>6. box.minBound[1] <= rect.maxBound[1]
    <3>1. PICK i \in DOMAIN poly.vertices, j \in DOMAIN p.vertices :
              Dot(p.vertices[j], normal) >= Dot(poly.vertices[i], normal)
      BY <2>3
    <3>2. p.vertices[j][1] <= poly.vertices[i][1]
      BY <1>4, <2>4, <3>1
    <3> QED
      BY <1>3, <1>4, <1>5, <3>2
  <2> QED
    BY <2>5, <2>6
<1>7. rect.minBound[2] <= box.maxBound[2] /\ box.minBound[2] <= rect.maxBound[2]
  <2>1. PICK edge \in Edges(poly), w \in Nat \ {0} :
            <<-Minus(edge[2], edge[1])[2], Minus(edge[2], edge[1])[1]>> = <<0, -w>>
    BY <1>1, CornersAre
  <2>2. PICK normal \in Vec : normal = <<0, -w>>
    <3>1. -w \in Int /\ 0 \in Int
      OBVIOUS
    <3> QED
      BY <3>1 DEF Vec
  <2>3. /\ \E i \in DOMAIN poly.vertices, j \in DOMAIN p.vertices :
              Dot(poly.vertices[i], normal) >= Dot(p.vertices[j], normal)
        /\ \E i \in DOMAIN poly.vertices, j \in DOMAIN p.vertices :
              Dot(p.vertices[j], normal) >= Dot(poly.vertices[i], normal)
    BY <1>2, <2>1, <2>2, NoGapAlong
  <2>4. ASSUME NEW u \in Vec, NEW v \in Vec, Dot(u, normal) >= Dot(v, normal) PROVE u[2] <= v[2]
    <3>1. u[1] \in Int /\ u[2] \in Int /\ v[1] \in Int /\ v[2] \in Int
      BY DEF Vec
    <3>2. Dot(u, normal) = -w * u[2] /\ Dot(v, normal) = -w * v[2]
      <4>1. normal[2] = -w /\ normal[1] = 0
        BY <2>2
      <4>2. \A m, n \in Int : m * (-w) + n * 0 = -w * m /\ n * 0 + m * (-w) = -w * m
        OBVIOUS
      <4>3. Dot(u, normal) = u[1] * normal[1] + u[2] * normal[2]
            /\ Dot(v, normal) = v[1] * normal[1] + v[2] * normal[2]
        BY DEF Dot
      <4> QED
        BY <3>1, <4>1, <4>2, <4>3
    <3> QED
      BY <2>4, <3>1, <3>2, FactorKeepsOrder
  <2>5. rect.minBound[2] <= box.maxBound[2]
    <3>1. PICK i \in DOMAIN poly.vertices, j \in DOMAIN p.vertices :
              Dot(poly.vertices[i], normal) >= Dot(p.vertices[j], normal)
      BY <2>3
    <3>2. poly.vertices[i][2] <= p.vertices[j][2]
      BY <1>4, <2>4, <3>1
    <3> QED
      BY <1>3, <1>4, <1>5, <3>2
  <2>6. box.minBound[2] <= rect.maxBound[2]
    <3>1. PICK i \in DOMAIN poly.vertices, j \in DOMAIN p.vertices :
              Dot(p.vertices[j], normal) >= Dot(poly.vertices[i], normal)
      BY <2>3
    <3>2. p.vertices[j][2] <= poly.vertices[i][2]
      BY <1>4, <2>4, <3>1
    <3> QED
      BY <1>3, <1>4, <1>5, <3>2
  <2> QED
    BY <2>5, <2>6
<1>8. /\ rect.minBound[1] \in Int /\ rect.minBound[2] \in Int
      /\ rect.maxBound[1] \in Int /\ rect.maxBound[2] \in Int
      /\ box.minBound[1] \in Int /\ box.minBound[2] \in Int
      /\ box.maxBound[1] \in Int /\ box.maxBound[2] \in Int
  BY <1>3 DEF Vec
<1> QED
  BY <1>6, <1>7, <1>8, BoxesIntersect

\* A polygon and a rectangle that overlap have boxes that intersect: the rectangle's
\* own edges are the axes of the boxes.
LEMMA OutlineRectangleCover ==
    ASSUME NEW outline, IsOutline(outline), outline.vertices # <<>>, NEW p \in Vec,
           NEW rect, IsSolid(rect), NEW q \in Vec,
           IntersectPolygons(Translate(outline, p), RectToPolygon(Translate(rect, q)))
    PROVE  /\ IntersectRectangles(GetBounds(outline, p), GetBounds(rect, q))
           /\ IntersectRectangles(GetBounds(rect, q), GetBounds(outline, p))
<1>1. PICK moved, box : moved = Translate(outline, p) /\ box = GetBounds(outline, p)
  OBVIOUS
<1>2. PICK r : r = Translate(rect, q)
  OBVIOUS
<1>3. IsSolid(r) /\ GetBounds(rect, q) = r
  <2>1. IsBox(r) /\ GetBounds(rect, q) = r
    BY <1>2, BoundsAreAround, BoxCoordinates DEF IsSolid
  <2>2. r = Rectangle(Plus(rect.minBound, q), Plus(rect.maxBound, q))
    BY <1>2 DEF Translate, IsSolid, IsBox
  <2>3. rect.minBound \in Vec /\ rect.maxBound \in Vec
    BY DEF IsSolid, IsBox
  <2>4. rect.minBound[1] < rect.maxBound[1] /\ rect.minBound[2] < rect.maxBound[2]
    BY DEF IsSolid
  <2>5. /\ r.minBound[1] = rect.minBound[1] + q[1] /\ r.minBound[2] = rect.minBound[2] + q[2]
        /\ r.maxBound[1] = rect.maxBound[1] + q[1] /\ r.maxBound[2] = rect.maxBound[2] + q[2]
    BY <2>2 DEF Rectangle, Plus
  <2>6. r.minBound[1] < r.maxBound[1] /\ r.minBound[2] < r.maxBound[2]
    BY <2>3, <2>4, <2>5 DEF Vec
  <2> QED
    BY <2>1, <2>6 DEF IsSolid
<1>4. /\ IsOutline(moved) /\ box.minBound \in Vec /\ box.maxBound \in Vec
      /\ \A i \in DOMAIN moved.vertices : RectangleContains(box, moved.vertices[i])
      /\ Len(moved.vertices) = Len(outline.vertices)
  BY <1>1, OutlineInBounds
<1>5. moved.vertices # <<>>
  <2>1. Len(outline.vertices) # 0
    BY DEF IsOutline
  <2> QED
    BY <1>4, <2>1
<1>6. NoSeparatingEdge(RectToPolygon(r), moved)
  BY <1>1, <1>2 DEF IntersectPolygons
<1> QED
  BY <1>1, <1>3, <1>4, <1>5, <1>6, AxesTested

-----------------------------------------------------------------------------
(* The answer does not depend on the order of the arguments.               *)

\* The coordinates the overloads compare are numbers.
IsCircle(shape) == shape.type = "Circle" /\ shape.center \in Vec /\ shape.radius \in Int

IsRectangle(shape) ==
    shape.type = "Rectangle" /\ shape.minBound \in Vec /\ shape.maxBound \in Vec

IsPolygon(shape) == shape.type = "Polygon"

IsShape(shape) == IsCircle(shape) \/ IsRectangle(shape) \/ IsPolygon(shape)

\* Circles meet each other alike.
LEMMA CirclesSymmetric ==
    ASSUME NEW c1, NEW c2, c1.center \in Vec, c2.center \in Vec,
           c1.radius \in Int, c2.radius \in Int
    PROVE  IntersectCircles(c1, c2) <=> IntersectCircles(c2, c1)
<1>1. ASSUME NEW u \in Int, NEW v \in Int PROVE (u - v) * (u - v) = (v - u) * (v - u)
  <2>1. u - v = -(v - u)
    OBVIOUS
  <2>2. \A n \in Int : (-n) * (-n) = n * n
    OBVIOUS
  <2> QED
    BY <2>1, <2>2
<1>2. \A k \in 1..2 : c1.center[k] \in Int /\ c2.center[k] \in Int
  BY DEF Vec
<1>3. LengthSq(Minus(c1.center, c2.center)) = LengthSq(Minus(c2.center, c1.center))
  BY <1>1, <1>2 DEF LengthSq, Dot, Minus
<1>4. c1.radius + c2.radius = c2.radius + c1.radius
  OBVIOUS
<1> QED
  BY <1>3, <1>4 DEF IntersectCircles

\* And rectangles.
LEMMA RectanglesSymmetric ==
    ASSUME NEW r1, NEW r2, IsRectangle(r1), IsRectangle(r2)
    PROVE  IntersectRectangles(r1, r2) <=> IntersectRectangles(r2, r1)
<1>1. \A k \in 1..2 : /\ r1.minBound[k] \in Int /\ r1.maxBound[k] \in Int
                      /\ r2.minBound[k] \in Int /\ r2.maxBound[k] \in Int
  BY DEF IsRectangle, Vec
<1> QED
  BY <1>1 DEF IntersectRectangles

\* The dispatch over two shapes finds the same overload both ways.
LEMMA DispatchSymmetric ==
    ASSUME NEW a, NEW b, IsShape(a), IsShape(b)
    PROVE  OverlapShapes(a, b) <=> OverlapShapes(b, a)
<1>1. CASE IsCircle(a) /\ IsCircle(b)
  <2>1. /\ OverlapShapes(a, b) = IntersectCircles(a, b)
        /\ OverlapShapes(b, a) = IntersectCircles(b, a)
    BY <1>1 DEF OverlapShapes, IsCircle
  <2> QED
    BY <1>1, <2>1, CirclesSymmetric DEF IsCircle
<1>2. CASE IsRectangle(a) /\ IsRectangle(b)
  <2>1. /\ OverlapShapes(a, b) = IntersectRectangles(a, b)
        /\ OverlapShapes(b, a) = IntersectRectangles(b, a)
    BY <1>2 DEF OverlapShapes, IsRectangle
  <2> QED
    BY <1>2, <2>1, RectanglesSymmetric
<1>3. CASE IsPolygon(a) /\ IsPolygon(b)
  <2>1. /\ OverlapShapes(a, b) = IntersectPolygons(a, b)
        /\ OverlapShapes(b, a) = IntersectPolygons(b, a)
    BY <1>3 DEF OverlapShapes, IsPolygon
  <2> QED
    BY <2>1 DEF IntersectPolygons
<1>4. ASSUME NEW u, NEW v, IsCircle(u), IsRectangle(v)
      PROVE  OverlapShapes(u, v) = OverlapShapes(v, u)
  BY <1>4 DEF OverlapShapes, IsCircle, IsRectangle
<1>5. ASSUME NEW u, NEW v, IsCircle(u), IsPolygon(v)
      PROVE  OverlapShapes(u, v) = OverlapShapes(v, u)
  BY <1>5 DEF OverlapShapes, IsCircle, IsPolygon
<1>6. ASSUME NEW u, NEW v, IsRectangle(u), IsPolygon(v)
      PROVE  OverlapShapes(u, v) = OverlapShapes(v, u)
  BY <1>6 DEF OverlapShapes, IsRectangle, IsPolygon
<1> QED
  BY <1>1, <1>2, <1>3, <1>4, <1>5, <1>6 DEF IsShape

\* A shape moved to its body's position is a shape of the same kind.
LEMMA TranslatedShape ==
    ASSUME NEW shape, IsShape(shape), NEW vec \in Vec
    PROVE  IsShape(Translate(shape, vec))
<1>1. ASSUME NEW u \in Vec PROVE Plus(u, vec) \in Vec
  BY DEF Vec, Plus
<1>2. CASE IsCircle(shape)
  <2>1. Translate(shape, vec) = Circle(Plus(shape.center, vec), shape.radius)
    BY <1>2 DEF Translate, IsCircle
  <2>2. Abs(shape.radius) \in Int
    BY <1>2 DEF IsCircle, Abs
  <2> QED
    BY <1>1, <1>2, <2>1, <2>2 DEF Circle, IsShape, IsCircle
<1>3. CASE IsRectangle(shape)
  <2>1. Translate(shape, vec) =
            Rectangle(Plus(shape.minBound, vec), Plus(shape.maxBound, vec))
    BY <1>3 DEF Translate, IsRectangle
  <2> QED
    BY <1>1, <1>3, <2>1 DEF Rectangle, IsShape, IsRectangle
<1>4. CASE IsPolygon(shape)
  <2>1. Translate(shape, vec) =
            Polygon([i \in DOMAIN shape.vertices |-> Plus(shape.vertices[i], vec)])
    BY <1>4 DEF Translate, IsPolygon
  <2> QED
    BY <2>1 DEF Polygon, IsShape, IsPolygon
<1> QED
  BY <1>2, <1>3, <1>4 DEF IsShape

-----------------------------------------------------------------------------
(* Powers of two.                                                          *)

\* The powers of two satisfy the equations they are defined by.
LEMMA TwoToDefined ==
    TwoTo \in [Nat -> Nat] /\ TwoTo = [n \in Nat |-> IF n = 0 THEN 1 ELSE 2 * TwoTo[n - 1]]
<1> DEFINE Double == [p \in Nat \X Nat |-> 2 * p[2]]
           Eq(g) == g = [n \in Nat |-> IF n = 0 THEN 1 ELSE 2 * g[n - 1]]
<1>1. PICK g : Iterates(g, Nat, 1, Double)
  <2>1. IsStep(Double, Nat)
    BY DEF IsStep
  <2> HIDE DEF Double
  <2> QED
    BY <2>1, RecursionExists
<1>2. Eq(g)
  <2>1. \A n \in Nat \ {0} : Double[<<n, g[n - 1]>>] = 2 * g[n - 1]
    BY <1>1 DEF Iterates
  <2> HIDE DEF Double
  <2>2. \A n \in Nat : g[n] = IF n = 0 THEN 1 ELSE 2 * g[n - 1]
    BY <1>1, <2>1 DEF Iterates
  <2> QED
    BY <1>1, <2>2 DEF Iterates
<1>3. TwoTo = CHOOSE h : Eq(h)
  BY DEF TwoTo
<1>4. Eq(TwoTo)
  <2> HIDE DEF Eq
  <2> QED
    BY <1>2, <1>3
<1>5. TwoTo \in [Nat -> Nat]
  <2> DEFINE S == {n \in Nat : TwoTo[n] \in Nat}
  <2>1. 0 \in S
    BY <1>4
  <2>2. ASSUME NEW n \in Nat, n \in S PROVE n + 1 \in S
    <3>1. TwoTo[n + 1] = 2 * TwoTo[(n + 1) - 1]
      BY <1>4
    <3>2. (n + 1) - 1 = n /\ TwoTo[n] \in Nat
      BY <2>2
    <3> QED
      BY <3>1, <3>2
  <2>3. Nat \subseteq S
    <3> HIDE DEF S
    <3> QED
      BY <2>1, <2>2, NaturalsFromZero
  <2> QED
    BY <1>4, <2>3
<1> QED
  BY <1>4, <1>5

\* Powers of two are positive, and each is twice the one before.
LEMMA Powers ==
    /\ TwoTo[0] = 1
    /\ \A n \in Nat : TwoTo[n] \in Nat \ {0} /\ TwoTo[n + 1] = 2 * TwoTo[n]
<1>1. TwoTo[0] = 1
  BY TwoToDefined
<1>2. \A n \in Nat : TwoTo[n] \in Nat /\ TwoTo[n + 1] = 2 * TwoTo[n]
  <2> TAKE n \in Nat
  <2>1. TwoTo[n + 1] = 2 * TwoTo[(n + 1) - 1]
    BY TwoToDefined
  <2> QED
    BY <2>1, TwoToDefined
<1>3. \A n \in Nat : TwoTo[n] # 0
  <2> DEFINE S == {n \in Nat : TwoTo[n] # 0}
  <2>1. 0 \in S
    BY <1>1
  <2>2. \A n \in Nat : n \in S => n + 1 \in S
    BY <1>2
  <2>3. Nat \subseteq S
    <3> HIDE DEF S
    <3> QED
      BY <2>1, <2>2, NaturalsFromZero
  <2> QED
    BY <2>3
<1> QED
  BY <1>1, <1>2, <1>3

-----------------------------------------------------------------------------
(* Boxes and points.                                                       *)

\* A box as GetBounds makes them: numbers, the lower bound first.
Ordered(box) ==
    \A k \in 1..2 : /\ box.minBound[k] \in Int /\ box.maxBound[k] \in Int
                    /\ box.minBound[k] <= box.maxBound[k]

\* The boxes of one frame.
OrderedBoxes(aabbs) == IsFiniteSet(DOMAIN aabbs) /\ \A i \in DOMAIN aabbs : Ordered(aabbs[i])

\* A finite set of coordinates of the boxes, and the bound it starts from.
LEMMA CoordinatesFinite ==
    ASSUME NEW D, IsFiniteSet(D), NEW f \in [D -> Int], NEW start \in Int
    PROVE  LET S == {start} \cup {f[i] : i \in D}
           IN  S \in SUBSET Int /\ S # {} /\ IsFiniteSet(S)
<1> DEFINE T == {f[i] : i \in D}
<1>1. f \in Surjection(D, T)
  BY DEF Surjection
<1>2. IsFiniteSet(T)
  BY <1>1, FS_Surjection
<1>3. IsFiniteSet(T \cup {start})
  BY <1>2, FS_AddElement
<1>4. {start} \cup T = T \cup {start} /\ T \in SUBSET Int
  OBVIOUS
<1> QED
  BY <1>3, <1>4

\* The root's box is around all boxes.
LEMMA RootCovers ==
    ASSUME NEW aabbs, OrderedBoxes(aabbs), NEW k \in 1..2
    PROVE  /\ RootBounds(aabbs).minBound[k] \in Int /\ RootBounds(aabbs).maxBound[k] \in Int
           /\ \A i \in DOMAIN aabbs :
                 /\ RootBounds(aabbs).minBound[k] <= aabbs[i].minBound[k]
                 /\ aabbs[i].maxBound[k] <= RootBounds(aabbs).maxBound[k]
<1> DEFINE D == DOMAIN aabbs
           mins == [i \in D |-> aabbs[i].minBound[k]]
           maxs == [i \in D |-> aabbs[i].maxBound[k]]
           Low  == {FLT_MAX} \cup {aabbs[i].minBound[k] : i \in D}
           High == {FLT_MIN} \cup {aabbs[i].maxBound[k] : i \in D}
<1>1. IsFiniteSet(D) /\ mins \in [D -> Int] /\ maxs \in [D -> Int]
  BY DEF OrderedBoxes, Ordered
<1>2. FLT_MAX \in Int /\ FLT_MIN \in Int
  BY FloatAssumption DEF FLT_MIN
<1>3. /\ Low = {FLT_MAX} \cup {mins[i] : i \in D}
      /\ High = {FLT_MIN} \cup {maxs[i] : i \in D}
  OBVIOUS
<1>4. Low \in SUBSET Int /\ Low # {} /\ IsFiniteSet(Low)
  <2> HIDE DEF D, mins, Low
  <2> QED
    BY <1>1, <1>2, <1>3, CoordinatesFinite
<1>5. High \in SUBSET Int /\ High # {} /\ IsFiniteSet(High)
  <2> HIDE DEF D, maxs, High
  <2> QED
    BY <1>1, <1>2, <1>3, CoordinatesFinite
<1>6. RootBounds(aabbs).minBound[k] = Min(Low) /\ RootBounds(aabbs).maxBound[k] = Max(High)
  <2>1. CASE k = 1
    BY <2>1 DEF RootBounds, Rectangle
  <2>2. CASE k = 2
    BY <2>2 DEF RootBounds, Rectangle
  <2> QED
    BY <2>1, <2>2
<1>7. Min(Low) \in Low /\ \A x \in Low : Min(Low) <= x
  <2> HIDE DEF Low
  <2> QED
    BY <1>4, MinOfFinite
<1>8. Max(High) \in High /\ \A x \in High : x <= Max(High)
  <2> HIDE DEF High
  <2> QED
    BY <1>5, MaxOfFinite
<1>9. \A i \in D : aabbs[i].minBound[k] \in Low /\ aabbs[i].maxBound[k] \in High
  OBVIOUS
<1> HIDE DEF Low, High
<1> QED
  BY <1>4, <1>5, <1>6, <1>7, <1>8, <1>9

\* A point both boxes contain, of those that intersect.
LEMMA CommonPoint ==
    ASSUME NEW a, Ordered(a), NEW b, Ordered(b), IntersectRectangles(a, b)
    PROVE  \E p \in Vec : RectangleContains(a, p) /\ RectangleContains(b, p)
<1> DEFINE Later(k) == IF a.minBound[k] <= b.minBound[k] THEN b.minBound[k] ELSE a.minBound[k]
           p == <<Later(1), Later(2)>>
<1>1. \A k \in 1..2 : p[k] = Later(k)
  OBVIOUS
<1>2. \A k \in 1..2 : /\ Later(k) \in Int
                      /\ a.minBound[k] <= Later(k) /\ Later(k) <= a.maxBound[k]
                      /\ b.minBound[k] <= Later(k) /\ Later(k) <= b.maxBound[k]
  BY DEF Ordered, IntersectRectangles
<1>3. p \in Vec
  BY <1>2 DEF Vec
<1> HIDE DEF p, Later
<1> QED
  BY <1>1, <1>2, <1>3 DEF RectangleContains

\* Boxes that share a point intersect.
LEMMA CommonPointIntersects ==
    ASSUME NEW a, NEW b, NEW p \in Vec, RectangleContains(a, p), RectangleContains(b, p),
           \A k \in 1..2 : /\ a.minBound[k] \in Int /\ a.maxBound[k] \in Int
                           /\ b.minBound[k] \in Int /\ b.maxBound[k] \in Int
    PROVE  IntersectRectangles(a, b)
<1>1. \A k \in 1..2 : p[k] \in Int
  BY DEF Vec
<1> QED
  BY <1>1 DEF RectangleContains, IntersectRectangles

\* The scale of the bounds is a positive number.
LEMMA ScaleIsPositive == Scale \in Nat \ {0}
BY Powers, QuadAssumption DEF Scale

ScaledPoint(p) == <<Scale * p[1], Scale * p[2]>>

\* Scaling keeps a point in its box.
LEMMA ScaledContains ==
    ASSUME NEW box, NEW p \in Vec, RectangleContains(box, p),
           \A k \in 1..2 : box.minBound[k] \in Int /\ box.maxBound[k] \in Int
    PROVE  /\ ScaledPoint(p) \in Vec /\ RectangleContains(Scaled(box), ScaledPoint(p))
           /\ \A k \in 1..2 : Scaled(box).minBound[k] \in Int /\ Scaled(box).maxBound[k] \in Int
<1>1. \A s, m, n \in Int : s > 0 /\ m <= n => s * m <= s * n
  OBVIOUS
<1>2. Scale \in Int /\ Scale > 0
  BY ScaleIsPositive
<1>3. /\ p[1] \in Int /\ p[2] \in Int
      /\ box.minBound[1] \in Int /\ box.maxBound[1] \in Int
      /\ box.minBound[2] \in Int /\ box.maxBound[2] \in Int
      /\ box.minBound[1] <= p[1] /\ p[1] <= box.maxBound[1]
      /\ box.minBound[2] <= p[2] /\ p[2] <= box.maxBound[2]
  BY DEF RectangleContains, Vec
<1>4. \A m \in Int : Scale * m \in Int
  BY <1>2
<1>5. /\ Scale * box.minBound[1] <= Scale * p[1] /\ Scale * p[1] <= Scale * box.maxBound[1]
      /\ Scale * box.minBound[2] <= Scale * p[2] /\ Scale * p[2] <= Scale * box.maxBound[2]
  BY <1>1, <1>2, <1>3
<1>6. ScaledPoint(p) \in Vec
  BY <1>3, <1>4 DEF ScaledPoint, Vec
<1>7. RectangleContains(Scaled(box), ScaledPoint(p))
  BY <1>5 DEF RectangleContains, Scaled, ScaledPoint, Rectangle
<1>8. \A k \in 1..2 : Scaled(box).minBound[k] \in Int /\ Scaled(box).maxBound[k] \in Int
  BY <1>3, <1>4 DEF Scaled, Rectangle
<1> QED
  BY <1>6, <1>7, <1>8

-----------------------------------------------------------------------------
(* Cells and their quarters.                                               *)

\* A cell is a depth, a column and a row.
LEMMA CellsAre ==
    \A cell : cell \in Cells <=>
        \E depth \in 0..MAX_DEPTH :
            \E x, y \in 0..(TwoTo[depth] - 1) : cell = <<depth, x, y>>
BY DEF Cells

\* Quarter k of a cell, in the order of Children.
Quarter(cell, k) == <<cell[1] + 1, 2 * cell[2] + (k \div 2), 2 * cell[3] + (k % 2)>>

\* The quarters of a cell that is not at the last depth are cells.
LEMMA QuarterIsCell ==
    ASSUME NEW cell \in Cells, Depth(cell) < MAX_DEPTH, NEW k \in 0..3
    PROVE  /\ Quarter(cell, k) \in Cells /\ Depth(Quarter(cell, k)) = Depth(cell) + 1
           /\ Parent(Quarter(cell, k)) = cell
<1>1. PICK depth \in 0..MAX_DEPTH :
            \E x, y \in 0..(TwoTo[depth] - 1) : cell = <<depth, x, y>>
  BY CellsAre
<1>2. PICK x \in 0..(TwoTo[depth] - 1), y \in 0..(TwoTo[depth] - 1) : cell = <<depth, x, y>>
  BY <1>1
<1> DEFINE right == k \div 2
           top   == k % 2
<1>3. right \in {0, 1} /\ top \in {0, 1}
  OBVIOUS
<1>4. depth \in Nat /\ depth + 1 \in 0..MAX_DEPTH
  BY <1>2, QuadAssumption DEF Depth
<1>5. TwoTo[depth + 1] = 2 * TwoTo[depth] /\ TwoTo[depth] \in Nat
  BY <1>4, Powers
<1> HIDE DEF right, top
<1>6. /\ 2 * x + right \in 0..(TwoTo[depth + 1] - 1)
      /\ 2 * y + top \in 0..(TwoTo[depth + 1] - 1)
  BY <1>2, <1>3, <1>5
<1>7. Quarter(cell, k) = <<depth + 1, 2 * x + right, 2 * y + top>>
  BY <1>2 DEF Quarter, right, top
<1>8. Quarter(cell, k) \in Cells
  BY <1>4, <1>6, <1>7, CellsAre
<1>9. (2 * x + right) \div 2 = x /\ (2 * y + top) \div 2 = y
  <2>1. x \in Nat /\ y \in Nat
    BY <1>2
  <2> QED
    BY <1>3, <2>1
<1>10. (depth + 1) - 1 = depth
  BY <1>4
<1> QED
  BY <1>2, <1>7, <1>8, <1>9, <1>10 DEF Depth, Parent

\* The line between the cells of a depth behind the first step of them.
Line(low, extent, depth, step) == Scale * low + step * extent * TwoTo[MAX_DEPTH - depth]

\* Every second line of a depth is one of the depth above.
LEMMA LinesHalve ==
    ASSUME NEW low \in Int, NEW extent \in Int, NEW depth \in Nat, depth < MAX_DEPTH,
           NEW step \in Int
    PROVE  /\ Line(low, extent, depth + 1, 2 * step) = Line(low, extent, depth, step)
           /\ Line(low, extent, depth, step) \in Int
           /\ Line(low, extent, depth + 1, step) \in Int
<1> DEFINE n == MAX_DEPTH - (depth + 1)
           w == TwoTo[n]
<1>1. n \in Nat /\ n + 1 = MAX_DEPTH - depth
  BY QuadAssumption
<1>2. w \in Int /\ TwoTo[MAX_DEPTH - depth] = 2 * w
  BY <1>1, Powers
<1>3. Scale * low \in Int
  BY ScaleIsPositive
<1> HIDE DEF n, w
<1>4. step * extent * (2 * w) = (2 * step) * extent * w
  BY <1>2
<1>5. step * extent * (2 * w) \in Int /\ step * extent * w \in Int
  BY <1>2
<1>6. Line(low, extent, depth + 1, 2 * step) = Scale * low + (2 * step) * extent * w
  BY DEF Line, w, n
<1>7. Line(low, extent, depth + 1, step) = Scale * low + step * extent * w
  BY DEF Line, w, n
<1>8. Line(low, extent, depth, step) = Scale * low + step * extent * (2 * w)
  BY <1>2 DEF Line
<1> QED
  BY <1>3, <1>4, <1>5, <1>6, <1>7, <1>8

\* The lines between cells are integers.
LEMMA LineIsInt ==
    ASSUME NEW low \in Int, NEW extent \in Int, NEW depth \in 0..MAX_DEPTH, NEW step \in Int
    PROVE  Line(low, extent, depth, step) \in Int
<1>1. MAX_DEPTH - depth \in Nat
  BY QuadAssumption
<1>2. TwoTo[MAX_DEPTH - depth] \in Int
  BY <1>1, Powers
<1>3. Scale * low \in Int /\ step * extent \in Int
  BY ScaleIsPositive
<1>4. step * extent * TwoTo[MAX_DEPTH - depth] \in Int
  BY <1>2, <1>3
<1> QED
  BY <1>3, <1>4 DEF Line

\* The sides of the box of a cell are the lines on each side of it.
LEMMA CellBoundsAre ==
    ASSUME NEW root, NEW cell, NEW k \in 1..2
    PROVE  /\ CellBounds(root, cell).minBound[k] =
                Line(root.minBound[k], root.maxBound[k] - root.minBound[k],
                     Depth(cell), cell[k + 1])
           /\ CellBounds(root, cell).maxBound[k] =
                Line(root.minBound[k], root.maxBound[k] - root.minBound[k],
                     Depth(cell), cell[k + 1] + 1)
<1>1. CASE k = 1
  BY <1>1 DEF CellBounds, Line, Rectangle
<1>2. CASE k = 2
  BY <1>2 DEF CellBounds, Line, Rectangle
<1> QED
  BY <1>1, <1>2

\* The root's box in numbers.
IntegerBox(root) == \A k \in 1..2 : root.minBound[k] \in Int /\ root.maxBound[k] \in Int

\* The depth of a cell is in range, and its column and row are naturals.
LEMMA CellCoordinates ==
    ASSUME NEW cell \in Cells
    PROVE  /\ Depth(cell) \in 0..MAX_DEPTH
           /\ \A k \in 1..2 : cell[k + 1] \in Nat
<1>1. PICK depth \in 0..MAX_DEPTH :
            \E x, y \in 0..(TwoTo[depth] - 1) : cell = <<depth, x, y>>
  BY CellsAre
<1>2. PICK x \in 0..(TwoTo[depth] - 1), y \in 0..(TwoTo[depth] - 1) : cell = <<depth, x, y>>
  BY <1>1
<1> QED
  BY <1>2 DEF Depth

RootCell == <<0, 0, 0>>

\* The root is a cell, at depth zero.
LEMMA RootIsCell == RootCell \in Cells /\ Depth(RootCell) = 0
<1>1. 0 \in 0..MAX_DEPTH /\ 0 \in 0..(TwoTo[0] - 1)
  BY Powers, QuadAssumption
<1> QED
  BY <1>1, CellsAre DEF RootCell, Depth

\* The cell of depth 0 is the root's box.
LEMMA RootCellBounds ==
    ASSUME NEW root, IntegerBox(root)
    PROVE  CellBounds(root, RootCell) = Scaled(root)
<1>1. ASSUME NEW low \in Int, NEW high \in Int
      PROVE  /\ Scale * low + 0 * (high - low) * TwoTo[MAX_DEPTH - 0] = Scale * low
             /\ Scale * low + (0 + 1) * (high - low) * TwoTo[MAX_DEPTH - 0] = Scale * high
  <2>1. TwoTo[MAX_DEPTH - 0] = Scale /\ Scale \in Int
    BY ScaleIsPositive, QuadAssumption DEF Scale
  <2>2. \A s \in Int : /\ s * low + 0 * (high - low) * s = s * low
                       /\ s * low + (0 + 1) * (high - low) * s = s * high
    OBVIOUS
  <2> QED
    BY <2>1, <2>2
<1>2. /\ root.minBound[1] \in Int /\ root.maxBound[1] \in Int
      /\ root.minBound[2] \in Int /\ root.maxBound[2] \in Int
  BY DEF IntegerBox
<1> QED
  BY <1>1, <1>2 DEF CellBounds, Scaled, Rectangle, RootCell, Depth

\* The corners of a cell of integer boxes have integer coordinates.
LEMMA CellBoundsAreInts ==
    ASSUME NEW root, IntegerBox(root), NEW cell \in Cells, NEW k \in 1..2
    PROVE  CellBounds(root, cell).minBound[k] \in Int /\ CellBounds(root, cell).maxBound[k] \in Int
<1> DEFINE low == root.minBound[k]
           extent == root.maxBound[k] - root.minBound[k]
           step == cell[k + 1]
           after == cell[k + 1] + 1
<1>1. low \in Int /\ extent \in Int
  BY DEF IntegerBox
<1>2. step \in Int /\ after \in Int /\ Depth(cell) \in 0..MAX_DEPTH
  BY CellCoordinates
<1>3. /\ CellBounds(root, cell).minBound[k] = Line(low, extent, Depth(cell), step)
      /\ CellBounds(root, cell).maxBound[k] = Line(low, extent, Depth(cell), after)
  BY CellBoundsAre
<1> HIDE DEF low, extent, step, after
<1>4. Line(low, extent, Depth(cell), step) \in Int
  BY <1>1, <1>2, LineIsInt
<1>5. Line(low, extent, Depth(cell), after) \in Int
  BY <1>1, <1>2, LineIsInt
<1> QED
  BY <1>3, <1>4, <1>5

\* A quarter starts at a line of its depth that is the cell's or the next.
LEMMA QuarterLines ==
    ASSUME NEW cell \in Cells, Depth(cell) < MAX_DEPTH, NEW right \in {0, 1}, NEW top \in {0, 1}
    PROVE  /\ 2 * right + top \in 0..3
           /\ Depth(Quarter(cell, 2 * right + top)) = Depth(cell) + 1
           /\ Quarter(cell, 2 * right + top)[2] = 2 * cell[2] + right
           /\ Quarter(cell, 2 * right + top)[3] = 2 * cell[3] + top
<1>1. /\ 2 * right + top \in 0..3
      /\ (2 * right + top) \div 2 = right /\ (2 * right + top) % 2 = top
  OBVIOUS
<1>2. 2 * right + top = 2 * right + top
  OBVIOUS
<1> QED
  BY <1>1 DEF Quarter, Depth

\* The lines of the next depth, counted from a line of this one.
LEMMA LinesOfQuarters ==
    ASSUME NEW low \in Int, NEW extent \in Int, NEW depth \in Nat, depth < MAX_DEPTH,
           NEW step \in Int, NEW more \in Int
    PROVE  /\ extent * TwoTo[MAX_DEPTH - (depth + 1)] \in Int
           /\ extent >= 0 => extent * TwoTo[MAX_DEPTH - (depth + 1)] >= 0
           /\ Line(low, extent, depth + 1, 2 * step + more) =
                Line(low, extent, depth, step)
                    + more * (extent * TwoTo[MAX_DEPTH - (depth + 1)])
<1> DEFINE n == MAX_DEPTH - (depth + 1)
           w == TwoTo[n]
<1>1. n \in Nat /\ n + 1 = MAX_DEPTH - depth
  BY QuadAssumption
<1>2. w \in Nat /\ TwoTo[MAX_DEPTH - depth] = 2 * w
  BY <1>1, Powers
<1>3. Scale * low \in Int
  BY ScaleIsPositive
<1> HIDE DEF n, w
<1>4. (2 * step + more) * extent * w = step * extent * (2 * w) + more * (extent * w)
  BY <1>2
<1>5. step * extent * (2 * w) \in Int /\ more * (extent * w) \in Int /\ extent * w \in Int
  BY <1>2
<1>6. extent >= 0 => extent * w >= 0
  BY <1>2
<1>7. Line(low, extent, depth + 1, 2 * step + more)
        = Scale * low + (2 * step + more) * extent * w
  BY DEF Line, w, n
<1>8. Line(low, extent, depth, step) = Scale * low + step * extent * (2 * w)
  BY <1>2 DEF Line
<1>9. extent * TwoTo[MAX_DEPTH - (depth + 1)] = extent * w
  BY DEF w, n
<1> QED
  BY <1>3, <1>4, <1>5, <1>6, <1>7, <1>8, <1>9

\* Along each axis a quarter is the lower or the upper half of its cell.
LEMMA QuarterSides ==
    ASSUME NEW root, IntegerBox(root), NEW cell \in Cells, Depth(cell) < MAX_DEPTH,
           NEW right \in {0, 1}, NEW top \in {0, 1}, NEW k \in 1..2
    PROVE  LET box == CellBounds(root, cell)
               quarter == CellBounds(root, Quarter(cell, 2 * right + top))
               upper == IF k = 1 THEN right ELSE top
           IN  /\ box.minBound[k] \in Int
               /\ \E half \in Int :
                     /\ root.minBound[k] <= root.maxBound[k] => half >= 0
                     /\ box.maxBound[k] = box.minBound[k] + 2 * half
                     /\ quarter.minBound[k] = box.minBound[k] + upper * half
                     /\ quarter.maxBound[k] = box.minBound[k] + upper * half + half
<1> DEFINE low == root.minBound[k]
           extent == root.maxBound[k] - root.minBound[k]
           d == Depth(cell)
           c == cell[k + 1]
           upper == IF k = 1 THEN right ELSE top
           q == Quarter(cell, 2 * right + top)
           half == extent * TwoTo[MAX_DEPTH - (d + 1)]
           at(step) == Line(low, extent, d + 1, step)
           start == Line(low, extent, d, c)
<1>1. /\ low \in Int /\ extent \in Int /\ root.maxBound[k] \in Int
      /\ low <= root.maxBound[k] => extent >= 0
  BY DEF IntegerBox
<1>2. d \in Nat /\ d < MAX_DEPTH /\ c \in Int /\ upper \in {0, 1}
  BY CellCoordinates
<1>3. /\ CellBounds(root, cell).minBound[k] = start
      /\ CellBounds(root, cell).maxBound[k] = Line(low, extent, d, c + 1)
  BY CellBoundsAre
<1>4. Depth(q) = d + 1 /\ q[k + 1] = 2 * c + upper
  <2>1. Depth(q) = d + 1 /\ q[2] = 2 * cell[2] + right /\ q[3] = 2 * cell[3] + top
    BY QuarterLines
  <2> HIDE DEF q
  <2>2. CASE k = 1
    BY <2>1, <2>2
  <2>3. CASE k = 2
    BY <2>1, <2>3
  <2> QED
    BY <2>2, <2>3
<1>5. /\ CellBounds(root, q).minBound[k] = at(2 * c + upper)
      /\ CellBounds(root, q).maxBound[k] = at(2 * c + upper + 1)
  <2>1. /\ CellBounds(root, q).minBound[k] = Line(low, extent, Depth(q), q[k + 1])
        /\ CellBounds(root, q).maxBound[k] = Line(low, extent, Depth(q), q[k + 1] + 1)
    <3> HIDE DEF q
    <3> QED
      BY CellBoundsAre
  <2> HIDE DEF q
  <2> QED
    BY <1>4, <2>1
<1> HIDE DEF low, extent, d, c, upper, q
<1>6. \A more \in Int : /\ half \in Int /\ (extent >= 0 => half >= 0)
                        /\ at(2 * c + more) = start + more * half
  <2> TAKE more \in Int
  <2>1. /\ extent * TwoTo[MAX_DEPTH - (d + 1)] \in Int
        /\ extent >= 0 => extent * TwoTo[MAX_DEPTH - (d + 1)] >= 0
        /\ Line(low, extent, d + 1, 2 * c + more) =
             Line(low, extent, d, c) + more * (extent * TwoTo[MAX_DEPTH - (d + 1)])
    BY <1>1, <1>2, LinesOfQuarters
  <2> QED
    BY <2>1
<1>7. start \in Int
  <2>1. d \in 0..MAX_DEPTH
    BY <1>2, QuadAssumption
  <2> QED
    BY <1>1, <1>2, <2>1, LineIsInt
<1>8. Line(low, extent, d, c + 1) = at(2 * c + 2)
  <2>1. c + 1 \in Int
    BY <1>2
  <2>2. Line(low, extent, d + 1, 2 * (c + 1)) = Line(low, extent, d, c + 1)
    BY <1>1, <1>2, <2>1, LinesHalve
  <2>3. 2 * (c + 1) = 2 * c + 2
    BY <1>2
  <2> QED
    BY <2>2, <2>3
<1> HIDE DEF at, start, half
<1>9. half \in Int /\ (extent >= 0 => half >= 0)
  BY <1>6
<1>10. at(2 * c + 2) = start + 2 * half
  BY <1>6
<1>11. at(2 * c + upper) = start + upper * half
  <2>1. upper \in Int
    BY <1>2
  <2> QED
    BY <1>6, <2>1
<1>12. at(2 * c + upper + 1) = start + upper * half + half
  <2>1. upper + 1 \in Int /\ 2 * c + (upper + 1) = 2 * c + upper + 1
    BY <1>2
  <2>2. at(2 * c + (upper + 1)) = start + (upper + 1) * half
    BY <1>6, <2>1
  <2>3. start + (upper + 1) * half = start + upper * half + half
    BY <1>2, <1>7, <1>9
  <2> QED
    BY <2>1, <2>2, <2>3
<1> QED
  BY <1>1, <1>3, <1>5, <1>7, <1>8, <1>9, <1>10, <1>11, <1>12 DEF low, upper, q

\* The two halves a quarter's number stands for.
LEMMA QuarterNumber ==
    ASSUME NEW k \in 0..3
    PROVE  /\ k \div 2 \in {0, 1} /\ k % 2 \in {0, 1}
           /\ k = 2 * (k \div 2) + (k % 2)
<1>1. CASE k = 0
  BY <1>1
<1>2. CASE k = 1
  BY <1>2
<1>3. CASE k = 2
  BY <1>3
<1>4. CASE k = 3
  BY <1>4
<1> QED
  BY <1>1, <1>2, <1>3, <1>4

\* A quarter lies in its cell, so what intersects it intersects the cell.
LEMMA QuarterInside ==
    ASSUME NEW root, Ordered(root), NEW cell \in Cells, Depth(cell) < MAX_DEPTH, NEW k \in 0..3,
           NEW box, IntegerBox(box), IntersectRectangles(box, CellBounds(root, Quarter(cell, k)))
    PROVE  IntersectRectangles(box, CellBounds(root, cell))
<1> DEFINE right == k \div 2
           top == k % 2
           outer == CellBounds(root, cell)
           inner == CellBounds(root, Quarter(cell, k))
<1>1. right \in {0, 1} /\ top \in {0, 1} /\ k = 2 * right + top
  BY QuarterNumber
<1>2. IntegerBox(root) /\ \A a \in 1..2 : root.minBound[a] <= root.maxBound[a]
  BY DEF IntegerBox, Ordered
<1> HIDE DEF right, top
<1>3. ASSUME NEW a \in 1..2
      PROVE  box.maxBound[a] >= outer.minBound[a] /\ box.minBound[a] <= outer.maxBound[a]
  <2> DEFINE upper == IF a = 1 THEN right ELSE top
  <2>1. Quarter(cell, k) = Quarter(cell, 2 * right + top)
    BY <1>1
  <2>2. /\ outer.minBound[a] \in Int
        /\ \E half \in Int :
              /\ half >= 0
              /\ outer.maxBound[a] = outer.minBound[a] + 2 * half
              /\ inner.minBound[a] = outer.minBound[a] + upper * half
              /\ inner.maxBound[a] = outer.minBound[a] + upper * half + half
    <3> DEFINE sides(q) == CellBounds(root, Quarter(cell, q))
    <3>1. root.minBound[a] <= root.maxBound[a]
      BY <1>2
    <3>2. /\ outer.minBound[a] \in Int
          /\ \E half \in Int :
                /\ root.minBound[a] <= root.maxBound[a] => half >= 0
                /\ outer.maxBound[a] = outer.minBound[a] + 2 * half
                /\ sides(2 * right + top).minBound[a] = outer.minBound[a] + upper * half
                /\ sides(2 * right + top).maxBound[a] = outer.minBound[a] + upper * half + half
      BY <1>1, <1>2, QuarterSides
    <3>3. sides(2 * right + top) = inner
      BY <2>1
    <3> HIDE DEF sides, outer, inner, upper
    <3> QED
      BY <3>1, <3>2, <3>3
  <2>3. PICK half \in Int :
              /\ half >= 0
              /\ outer.maxBound[a] = outer.minBound[a] + 2 * half
              /\ inner.minBound[a] = outer.minBound[a] + upper * half
              /\ inner.maxBound[a] = outer.minBound[a] + upper * half + half
    BY <2>2
  <2>4. box.maxBound[a] >= inner.minBound[a] /\ box.minBound[a] <= inner.maxBound[a]
    BY DEF IntersectRectangles
  <2>5. box.minBound[a] \in Int /\ box.maxBound[a] \in Int
    BY DEF IntegerBox
  <2>6. upper \in {0, 1}
    BY <1>1
  <2> HIDE DEF outer, inner, upper
  <2>7. CASE upper = 0
    BY <2>2, <2>3, <2>4, <2>5, <2>7
  <2>8. CASE upper = 1
    BY <2>2, <2>3, <2>4, <2>5, <2>8
  <2> QED
    BY <2>6, <2>7, <2>8
<1> QED
  BY <1>3 DEF IntersectRectangles

\* Boxes scaled are boxes.
LEMMA ScaledIsBox ==
    ASSUME NEW box, IntegerBox(box)
    PROVE  IntegerBox(Scaled(box))
<1>1. Scale \in Int
  BY ScaleIsPositive
<1>2. /\ box.minBound[1] \in Int /\ box.minBound[2] \in Int
      /\ box.maxBound[1] \in Int /\ box.maxBound[2] \in Int
  BY DEF IntegerBox
<1>3. /\ Scale * box.minBound[1] \in Int /\ Scale * box.minBound[2] \in Int
      /\ Scale * box.maxBound[1] \in Int /\ Scale * box.maxBound[2] \in Int
  BY <1>1, <1>2
<1> QED
  BY <1>3 DEF IntegerBox, Scaled, Rectangle

\* The quarters cover the cell.
LEMMA QuartersCover ==
    ASSUME NEW root, IntegerBox(root), NEW cell \in Cells, Depth(cell) < MAX_DEPTH,
           NEW p \in Vec, RectangleContains(CellBounds(root, cell), p)
    PROVE  \E k \in 0..3 : RectangleContains(CellBounds(root, Quarter(cell, k)), p)
<1> DEFINE low(k) == root.minBound[k]
           extent(k) == root.maxBound[k] - root.minBound[k]
           at(k, step) == Line(low(k), extent(k), Depth(cell) + 1, step)
<1>1. \A k \in 1..2 : low(k) \in Int /\ extent(k) \in Int /\ p[k] \in Int
  BY DEF IntegerBox, Vec
<1>2. Depth(cell) \in Nat /\ \A k \in 1..2 : cell[k + 1] \in Int
  BY CellCoordinates
<1>3. ASSUME NEW k \in 1..2
      PROVE  /\ at(k, 2 * cell[k + 1]) <= p[k] /\ p[k] <= at(k, 2 * cell[k + 1] + 2)
             /\ at(k, 2 * cell[k + 1] + 1) \in Int
             /\ at(k, 2 * cell[k + 1]) \in Int /\ at(k, 2 * cell[k + 1] + 2) \in Int
  <2>1. /\ CellBounds(root, cell).minBound[k] = Line(low(k), extent(k), Depth(cell), cell[k + 1])
        /\ CellBounds(root, cell).maxBound[k] =
                Line(low(k), extent(k), Depth(cell), cell[k + 1] + 1)
    BY CellBoundsAre
  <2>2. 2 * (cell[k + 1] + 1) = 2 * cell[k + 1] + 2
    BY <1>2
  <2>3. /\ cell[k + 1] \in Int /\ cell[k + 1] + 1 \in Int
        /\ 2 * cell[k + 1] \in Int /\ 2 * cell[k + 1] + 1 \in Int /\ 2 * cell[k + 1] + 2 \in Int
    BY <1>2
  <2>4. /\ CellBounds(root, cell).minBound[k] <= p[k]
        /\ p[k] <= CellBounds(root, cell).maxBound[k]
    BY DEF RectangleContains
  <2>5. low(k) \in Int /\ extent(k) \in Int
    BY <1>1
  <2> HIDE DEF low, extent
  <2> DEFINE c == cell[k + 1]
             c1 == cell[k + 1] + 1
  <2>6. at(k, 2 * c) = Line(low(k), extent(k), Depth(cell), c) /\ at(k, 2 * c) \in Int
    <3> HIDE DEF c
    <3>1. c \in Int
      BY <2>3 DEF c
    <3> QED
      BY <1>2, <2>5, <3>1, LinesHalve
  <2>7. at(k, 2 * c1) = Line(low(k), extent(k), Depth(cell), c1) /\ at(k, 2 * c1) \in Int
    <3> HIDE DEF c1
    <3>1. c1 \in Int
      BY <2>3 DEF c1
    <3> QED
      BY <1>2, <2>5, <3>1, LinesHalve
  <2>8. at(k, 2 * cell[k + 1] + 1) \in Int
    <3>1. PICK m \in Int : m = 2 * cell[k + 1] + 1
      BY <2>3
    <3>2. at(k, m) \in Int
      BY <1>2, <2>5, LinesHalve
    <3> QED
      BY <3>1, <3>2
  <2> QED
    BY <2>1, <2>2, <2>4, <2>6, <2>7, <2>8
<1> DEFINE half(k) == IF p[k] <= at(k, 2 * cell[k + 1] + 1) THEN 0 ELSE 1
           q == Quarter(cell, 2 * half(1) + half(2))
<1>4. half(1) \in {0, 1} /\ half(2) \in {0, 1}
  OBVIOUS
<1>5. /\ 2 * half(1) + half(2) \in 0..3 /\ Depth(q) = Depth(cell) + 1
      /\ q[2] = 2 * cell[2] + half(1) /\ q[3] = 2 * cell[3] + half(2)
  <2> HIDE DEF half
  <2> QED
    BY <1>4, QuarterLines
<1>6. ASSUME NEW k \in 1..2
      PROVE  /\ CellBounds(root, q).minBound[k] <= p[k]
             /\ p[k] <= CellBounds(root, q).maxBound[k]
  <2>1. q[k + 1] = 2 * cell[k + 1] + half(k)
    <3>1. CASE k = 1
      BY <1>5, <3>1
    <3>2. CASE k = 2
      BY <1>5, <3>2
    <3> QED
      BY <3>1, <3>2
  <2>2. /\ CellBounds(root, q).minBound[k] = Line(low(k), extent(k), Depth(q), q[k + 1])
        /\ CellBounds(root, q).maxBound[k] = Line(low(k), extent(k), Depth(q), q[k + 1] + 1)
    <3> HIDE DEF q
    <3> QED
      BY CellBoundsAre
  <2>3. /\ CellBounds(root, q).minBound[k] = at(k, 2 * cell[k + 1] + half(k))
        /\ CellBounds(root, q).maxBound[k] = at(k, 2 * cell[k + 1] + half(k) + 1)
    <3> HIDE DEF q, half, low, extent
    <3> QED
      BY <1>5, <2>1, <2>2
  <2>4. cell[k + 1] \in Int /\ p[k] \in Int
    BY <1>1, <1>2
  <2>5. CASE half(k) = 0
    <3>1. p[k] <= at(k, 2 * cell[k + 1] + 1)
      BY <2>5
    <3>2. 2 * cell[k + 1] + 0 = 2 * cell[k + 1]
      BY <2>4
    <3> HIDE DEF at, half, q
    <3> QED
      BY <1>3, <2>3, <2>5, <3>1, <3>2
  <2>6. CASE half(k) = 1
    <3>1. ~(p[k] <= at(k, 2 * cell[k + 1] + 1))
      BY <2>6
    <3>2. at(k, 2 * cell[k + 1] + 1) \in Int
      BY <1>3
    <3>3. 2 * cell[k + 1] + 1 + 1 = 2 * cell[k + 1] + 2
      BY <2>4
    <3> HIDE DEF at, half, q
    <3>4. at(k, 2 * cell[k + 1] + 1) <= p[k]
      BY <2>4, <3>1, <3>2
    <3> QED
      BY <1>3, <2>3, <2>6, <3>3, <3>4
  <2> QED
    BY <2>5, <2>6
<1>7. RectangleContains(CellBounds(root, q), p)
  <2> HIDE DEF q
  <2> QED
    BY <1>6 DEF RectangleContains
<1> QED
  BY <1>5, <1>7

-----------------------------------------------------------------------------
(* Leaves.                                                                 *)

\* Wherever a point of the root's box is, a leaf has it: the deepest of the cells
\* around it that division reached.
LEMMA LeafAround ==
    ASSUME NEW aabbs, NEW root, IntegerBox(root),
           NEW p \in Vec, RectangleContains(Scaled(root), p)
    PROVE  \E cell \in Leaves(aabbs, root) : RectangleContains(CellBounds(root, cell), p)
<1> DEFINE Reached(cell) ==
                /\ cell \in Cells
                /\ Depth(cell) = 0 \/ Subdivided(aabbs, root, Parent(cell))
                /\ RectangleContains(CellBounds(root, cell), p)
           Left == {n \in Nat : \E cell : Reached(cell) /\ n = MAX_DEPTH - Depth(cell)}
<1>1. Reached(RootCell)
  BY RootIsCell, RootCellBounds
<1>2. \A cell : Reached(cell) => MAX_DEPTH - Depth(cell) \in Nat
  BY CellCoordinates, QuadAssumption
<1>3. Left # {} /\ Left \in SUBSET Nat
  BY <1>1, <1>2
<1>4. PICK least \in Left : \A n \in Left : least <= n
  <2> HIDE DEF Left
  <2> QED
    BY <1>3, LeastNatural
<1>5. PICK cell : Reached(cell) /\ least = MAX_DEPTH - Depth(cell)
  BY <1>4
<1>6. ~Subdivided(aabbs, root, cell)
  <2> SUFFICES ASSUME Subdivided(aabbs, root, cell) PROVE FALSE
    OBVIOUS
  <2>1. Depth(cell) < MAX_DEPTH /\ cell \in Cells
    BY <1>5 DEF Subdivided
  <2>2. PICK k \in 0..3 : RectangleContains(CellBounds(root, Quarter(cell, k)), p)
    BY <1>5, <2>1, QuartersCover
  <2>3. /\ Quarter(cell, k) \in Cells /\ Depth(Quarter(cell, k)) = Depth(cell) + 1
        /\ Parent(Quarter(cell, k)) = cell
    BY <2>1, QuarterIsCell
  <2>4. Reached(Quarter(cell, k))
    BY <2>2, <2>3
  <2>5. MAX_DEPTH - Depth(Quarter(cell, k)) \in Left
    BY <1>2, <2>4
  <2>6. Depth(cell) \in Int /\ MAX_DEPTH \in Int
    BY <2>1, CellCoordinates, QuadAssumption
  <2> QED
    BY <1>4, <1>5, <2>3, <2>5, <2>6
<1> QED
  BY <1>5, <1>6 DEF Leaves

\* Two boxes that touch are carried to one leaf.
LEMMA TouchingBoxesShareLeaf ==
    ASSUME NEW aabbs, OrderedBoxes(aabbs), NEW i \in DOMAIN aabbs, NEW j \in DOMAIN aabbs,
           IntersectRectangles(aabbs[i], aabbs[j])
    PROVE  \E cell \in Leaves(aabbs, RootBounds(aabbs)) :
                /\ i \in Reaching(aabbs, RootBounds(aabbs), cell)
                /\ j \in Reaching(aabbs, RootBounds(aabbs), cell)
<1> DEFINE root == RootBounds(aabbs)
<1>1. Ordered(aabbs[i]) /\ Ordered(aabbs[j])
  BY DEF OrderedBoxes
<1>2. PICK p \in Vec : RectangleContains(aabbs[i], p) /\ RectangleContains(aabbs[j], p)
  BY <1>1, CommonPoint
<1>3. IntegerBox(root) /\ RectangleContains(root, p)
  <2>1. \A k \in 1..2 : p[k] \in Int
    BY DEF Vec
  <2>2. \A k \in 1..2 : /\ root.minBound[k] \in Int /\ root.maxBound[k] \in Int
                        /\ root.minBound[k] <= aabbs[i].minBound[k]
                        /\ aabbs[i].maxBound[k] <= root.maxBound[k]
    BY RootCovers
  <2> HIDE DEF root
  <2> QED
    BY <1>1, <1>2, <2>1, <2>2 DEF IntegerBox, RectangleContains, Ordered
<1> DEFINE q == ScaledPoint(p)
<1>4. q \in Vec /\ RectangleContains(Scaled(root), q)
  BY <1>3, ScaledContains DEF IntegerBox
<1>5. PICK cell \in Leaves(aabbs, root) : RectangleContains(CellBounds(root, cell), q)
  <2> HIDE DEF q, root
  <2> QED
    BY <1>3, <1>4, LeafAround
<1>6. ASSUME NEW m \in {i, j} PROVE m \in Reaching(aabbs, root, cell)
  <2>1. cell \in Cells
    BY DEF Leaves
  <2>2. \A k \in 1..2 : /\ CellBounds(root, cell).minBound[k] \in Int
                        /\ CellBounds(root, cell).maxBound[k] \in Int
    BY <1>3, <2>1, CellBoundsAreInts
  <2>3. RectangleContains(aabbs[m], p) /\ Ordered(aabbs[m])
    BY <1>1, <1>2
  <2>4. /\ RectangleContains(Scaled(aabbs[m]), q)
        /\ \A k \in 1..2 : /\ Scaled(aabbs[m]).minBound[k] \in Int
                           /\ Scaled(aabbs[m]).maxBound[k] \in Int
    BY <2>3, ScaledContains DEF Ordered
  <2>5. IntersectRectangles(Scaled(aabbs[m]), CellBounds(root, cell))
    <3> HIDE DEF q, root
    <3> QED
      BY <1>4, <1>5, <2>2, <2>4, CommonPointIntersects
  <2> QED
    BY <2>5 DEF Reaching
<1> QED
  BY <1>6

-----------------------------------------------------------------------------
(* Division goes down from the root.                                       *)

\* Every cell but the root's is a quarter of its parent.
LEMMA CellIsQuarter ==
    ASSUME NEW cell \in Cells, Depth(cell) # 0
    PROVE  /\ Parent(cell) \in Cells /\ Depth(Parent(cell)) = Depth(cell) - 1
           /\ Depth(Parent(cell)) < MAX_DEPTH
           /\ \E k \in 0..3 : cell = Quarter(Parent(cell), k)
<1>1. PICK depth \in 0..MAX_DEPTH :
            \E x, y \in 0..(TwoTo[depth] - 1) : cell = <<depth, x, y>>
  BY CellsAre
<1>2. PICK x \in 0..(TwoTo[depth] - 1), y \in 0..(TwoTo[depth] - 1) : cell = <<depth, x, y>>
  BY <1>1
<1>3. depth \in Nat \ {0} /\ depth - 1 \in Nat /\ depth - 1 \in 0..MAX_DEPTH
      /\ depth - 1 < MAX_DEPTH /\ (depth - 1) + 1 = depth
  BY <1>2, QuadAssumption DEF Depth
<1>4. TwoTo[depth] = 2 * TwoTo[depth - 1] /\ TwoTo[depth - 1] \in Nat
  BY <1>3, Powers
<1>5. x \in Nat /\ y \in Nat /\ x < 2 * TwoTo[depth - 1] /\ y < 2 * TwoTo[depth - 1]
  BY <1>2, <1>4
<1>6. /\ x \div 2 \in Nat /\ x \div 2 < TwoTo[depth - 1] /\ x = 2 * (x \div 2) + (x % 2)
      /\ y \div 2 \in Nat /\ y \div 2 < TwoTo[depth - 1] /\ y = 2 * (y \div 2) + (y % 2)
      /\ x % 2 \in {0, 1} /\ y % 2 \in {0, 1}
  BY <1>4, <1>5
<1>7. Parent(cell) = <<depth - 1, x \div 2, y \div 2>>
  BY <1>2 DEF Parent
<1>8. Parent(cell) \in Cells
  <2>1. /\ x \div 2 \in 0..(TwoTo[depth - 1] - 1)
        /\ y \div 2 \in 0..(TwoTo[depth - 1] - 1)
    BY <1>4, <1>6
  <2> QED
    BY <1>3, <1>7, <2>1, CellsAre
<1>9. PICK right \in {0, 1}, top \in {0, 1} : right = x % 2 /\ top = y % 2
  BY <1>6
<1>10. /\ 2 * right + top \in 0..3
       /\ (2 * right + top) \div 2 = right /\ (2 * right + top) % 2 = top
  OBVIOUS
<1>11. cell = Quarter(Parent(cell), 2 * right + top)
  BY <1>2, <1>3, <1>6, <1>7, <1>9, <1>10 DEF Quarter
<1> QED
  BY <1>2, <1>3, <1>7, <1>8, <1>10, <1>11 DEF Depth

\* There is one cell of depth 0.
LEMMA OneRootCell ==
    ASSUME NEW cell \in Cells, Depth(cell) = 0
    PROVE  cell = RootCell
<1>1. PICK depth \in 0..MAX_DEPTH :
            \E x, y \in 0..(TwoTo[depth] - 1) : cell = <<depth, x, y>>
  BY CellsAre
<1>2. PICK x \in 0..(TwoTo[depth] - 1), y \in 0..(TwoTo[depth] - 1) : cell = <<depth, x, y>>
  BY <1>1
<1>3. depth = 0 /\ TwoTo[0] = 1
  BY <1>2, Powers DEF Depth
<1> QED
  BY <1>2, <1>3 DEF RootCell

\* Boxes reach a quarter through its cell.
LEMMA ReachingNests ==
    ASSUME NEW aabbs, OrderedBoxes(aabbs), NEW root, Ordered(root),
           NEW cell \in Cells, Depth(cell) < MAX_DEPTH, NEW k \in 0..3
    PROVE  /\ Reaching(aabbs, root, Quarter(cell, k)) \subseteq Reaching(aabbs, root, cell)
           /\ IsFiniteSet(Reaching(aabbs, root, cell))
<1>1. Depth(Quarter(cell, k)) # 0
  BY QuarterIsCell, CellCoordinates
<1>2. ASSUME NEW i \in Reaching(aabbs, root, Quarter(cell, k))
      PROVE  i \in Reaching(aabbs, root, cell)
  <2>1. /\ i \in DOMAIN aabbs
        /\ IntersectRectangles(Scaled(aabbs[i]), CellBounds(root, Quarter(cell, k)))
    BY <1>1 DEF Reaching
  <2>2. IntegerBox(Scaled(aabbs[i]))
    BY <2>1, ScaledIsBox DEF OrderedBoxes, Ordered, IntegerBox
  <2>3. IntersectRectangles(Scaled(aabbs[i]), CellBounds(root, cell))
    BY <2>1, <2>2, QuarterInside
  <2> QED
    BY <2>1, <2>3 DEF Reaching
<1>3. Reaching(aabbs, root, cell) \in SUBSET DOMAIN aabbs /\ IsFiniteSet(DOMAIN aabbs)
  BY DEF Reaching, OrderedBoxes
<1> QED
  BY <1>2, <1>3, FS_Subset

\* A cell that was divided lies in cells that were.
LEMMA ParentsDivided ==
    ASSUME NEW aabbs, OrderedBoxes(aabbs), NEW root, Ordered(root),
           NEW cell \in Cells, Depth(cell) # 0, Subdivided(aabbs, root, cell)
    PROVE  Subdivided(aabbs, root, Parent(cell))
<1>1. /\ Parent(cell) \in Cells /\ Depth(Parent(cell)) < MAX_DEPTH
  BY CellIsQuarter
<1>2. PICK k \in 0..3 : cell = Quarter(Parent(cell), k)
  BY CellIsQuarter
<1>3. PICK few, many : few = Reaching(aabbs, root, cell) /\ many = Reaching(aabbs, root, Parent(cell))
  OBVIOUS
<1>4. few \in SUBSET many /\ IsFiniteSet(many)
  BY <1>1, <1>2, <1>3, ReachingNests
<1>5. /\ IsFiniteSet(few) /\ Cardinality(few) <= Cardinality(many)
      /\ Cardinality(few) \in Nat /\ Cardinality(many) \in Nat
  BY <1>4, FS_Subset, FS_CardinalityType
<1>6. Cardinality(few) > MAX_COL_NBR
  BY <1>3 DEF Subdivided
<1>7. Cardinality(many) > MAX_COL_NBR
  BY <1>5, <1>6, QuadAssumption
<1> QED
  BY <1>1, <1>3, <1>7 DEF Subdivided

=============================================================================
