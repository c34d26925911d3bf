----------------------------- MODULE MCContact -----------------------------
(* A small instance of Contact for TLC.                                    *)
EXTENDS Contact

\* Masses 2 and 6 divide by 4, 8 and 12, the visits of two frames at most by 3 * 4^5:
\* SharesDivide cuts nothing off.
Unit == 3 * 1024

InUnits(S) == {Scale(Unit, u) : u \in S}

SomePositions  == InUnits({<<0, 0>>, <<0, -3>>})
SomeVelocities == InUnits({<<0, 0>>, <<-1, 0>>, <<0, 2>>})
SomeForces     == InUnits({<<0, 3>>})

SomeShapes ==
    {Circle(<<0, 0>>, Unit),
     Rectangle(<<-2 * Unit, -Unit>>, <<2 * Unit, Unit>>)}

=============================================================================
