-------------------------- MODULE MCTriggerSample --------------------------
(* Small instances of TriggerSample for TLC.                               *)
EXTENDS TriggerSample

\* Unit circles at 0 and 2 touch, at 0 and 8 they do not.
TwoPlaces   == {<<0, 0>>, <<8, 0>>}
\* Of unit circles at 0, 3 and 7 no two touch; the one in the middle is listed with
\* either of the others when both are there, and with neither when one is not.
FivePlaces == {<<0, 0>>, <<2, 0>>, <<3, 0>>, <<7, 0>>, <<3, 4>>}

JustCircles == {Circle(<<0, 0>>, 1)}

=============================================================================
