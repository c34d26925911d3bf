---------------------------- MODULE MCQuadTree -----------------------------
(* Small instances of QuadTree for TLC.                                    *)
EXTENDS QuadTree

Box(x1, y1, x2, y2) == Rectangle(<<x1, y1>>, <<x2, y2>>)

\* A box on the line between cells, one over everything, one at negative
\* coordinates (alone, its root ends at the initial maximum, 0).
MCBoxes == {Box(2, 1, 2, 3), Box(0, 0, 4, 4), Box(-2, -1, -1, -1)}

=============================================================================
