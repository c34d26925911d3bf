----------------------------- MODULE MCOverlap -----------------------------
(* Small instances of Overlap for TLC.                                     *)
EXTENDS Overlap

\* Each of the three kinds, with a centre or bounds away from the origin, a
\* polygon wholly at negative coordinates and a slanted one.
MCShapes == {
    Circle(<<0, 0>>, 1), Circle(<<1, -1>>, 2),
    Rectangle(<<0, 0>>, <<2, 1>>), Rectangle(<<-1, -2>>, <<1, 2>>),
    Polygon(<<<<-2, -1>>, <<2, -1>>, <<0, 3>>>>),
    Polygon(<<<<-5, -5>>, <<-1, -3>>, <<-3, -1>>>>),
    Polygon(<<<<0, -3>>, <<3, 0>>, <<0, 3>>, <<-3, 0>>>>)}

MCPlaces == {<<x, y>> : x \in {0, 1, 2, 5}, y \in {-3, 0, 1}}

=============================================================================
