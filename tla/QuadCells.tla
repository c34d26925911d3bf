----------------------------- MODULE QuadCells -----------------------------
(***************************************************************************)
(* What one frame's quadtree contains, as a function of the bounding boxes *)
(* inserted into it, without the insertions that build it.  QuadTree.tla   *)
(* has those step by step and is checked to end in what this module says.  *)
(*                                                                         *)
(* A node is a cell <<depth, x, y>>: cell (x, y) of the 2^depth by 2^depth *)
(* grid laid over the root.  Halving is exact here (bounds are multiplied  *)
(* by 2^MAX_DEPTH), so the child boxes meet without the gaps of one ulp    *)
(* that float addition can leave.                                          *)
(***************************************************************************)
EXTENDS Shape

CONSTANTS MAX_COL_NBR,      \* 16 in the code
          MAX_DEPTH         \*  5 in the code

ASSUME QuadAssumption == MAX_COL_NBR \in Nat \ {0} /\ MAX_DEPTH \in Nat

\* Powers of two, by recursion: the prover has no rule for ^.
TwoTo[n \in Nat] == IF n = 0 THEN 1 ELSE 2 * TwoTo[n - 1]

\* 2^MAX_DEPTH units of this module are one unit of the world.
Scale == TwoTo[MAX_DEPTH]

Scaled(box) == Rectangle(<<Scale * box.minBound[1], Scale * box.minBound[2]>>,
                         <<Scale * box.maxBound[1], Scale * box.maxBound[2]>>)

\* The box World::SetUpQuadTree accumulates over the boxes of the attached
\* colliders, from its initial values.
RootBounds(aabbs) ==
    LET Low(k)  == Min({FLT_MAX} \cup {aabbs[i].minBound[k] : i \in DOMAIN aabbs})
        High(k) == Max({FLT_MIN} \cup {aabbs[i].maxBound[k] : i \in DOMAIN aabbs})
    IN  Rectangle(<<Low(1), Low(2)>>, <<High(1), High(2)>>)

-----------------------------------------------------------------------------
Cells == UNION {{<<depth, x, y>> : x, y \in 0..(TwoTo[depth] - 1)} : depth \in 0..MAX_DEPTH}

Depth(cell)  == cell[1]
Parent(cell) == <<cell[1] - 1, cell[2] \div 2, cell[3] \div 2>>

CellBounds(root, cell) ==
    LET Corner(k, step) == Scale * root.minBound[k]
                           + step * (root.maxBound[k] - root.minBound[k])
                                  * TwoTo[MAX_DEPTH - Depth(cell)]
    IN  Rectangle(<<Corner(1, cell[2]), Corner(2, cell[3])>>,
                  <<Corner(1, cell[2] + 1), Corner(2, cell[3] + 1)>>)

\* The boxes Insert carries to a cell: every box reaches the root, and those
\* that intersect a child's bounds go on to it.
Reaching(aabbs, root, cell) ==
    IF Depth(cell) = 0 THEN DOMAIN aabbs
    ELSE {i \in DOMAIN aabbs : IntersectRectangles(Scaled(aabbs[i]), CellBounds(root, cell))}

\* Mutant: leaves divide whatever they hold.
DividedAlways(aabbs, root, cell) == Depth(cell) < MAX_DEPTH

\* The cell was a leaf holding MAX_COL_NBR boxes when one more came.
Subdivided(aabbs, root, cell) ==
    Depth(cell) < MAX_DEPTH /\ Cardinality(Reaching(aabbs, root, cell)) > MAX_COL_NBR

Leaves(aabbs, root) ==
    {cell \in Cells : /\ ~Subdivided(aabbs, root, cell)
                      /\ Depth(cell) = 0 \/ Subdivided(aabbs, root, Parent(cell))}

\* The position of a cell in the depth-first walk over Children[0..3]: child
\* 2 * right + top of its parent, at each depth.
Rank(cell) ==
    LET Bit(n, d) == (n \div TwoTo[Depth(cell) - d]) % 2
        Weight(d) == (2 * Bit(cell[2], d) + Bit(cell[3], d)) * TwoTo[2 * (MAX_DEPTH - d)]
    IN  MapThenSumSet(Weight, 1..Depth(cell))

-----------------------------------------------------------------------------
\* The pairs of boxes World::UpdateQuadTreeCollisions looks at, once for every
\* leaf that holds both.  A leaf lists its boxes in the order of insertion,
\* which is that of the colliders' slots.
Visits(aabbs) ==
    LET root == RootBounds(aabbs)
        Pairs(cell) == {p \in Reaching(aabbs, root, cell) \X Reaching(aabbs, root, cell) :
                            p[1] < p[2]}
    IN  UNION {{[leaf |-> Rank(cell), a |-> p[1], b |-> p[2]] : p \in Pairs(cell)} :
                    cell \in Leaves(aabbs, root)}

=============================================================================
