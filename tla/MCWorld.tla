------------------------------ MODULE MCWorld ------------------------------
(* Small instances of World for TLC.                                       *)
EXTENDS World

\* Unit circles at 0 and 2 touch, at 0 and 8 they do not.
TwoPlaces   == {<<0, 0>>, <<8, 0>>}
ThreePlaces == {<<0, 0>>, <<2, 0>>, <<8, 0>>}

JustCircles == {Circle(<<0, 0>>, 1)}

\* Bound: the client calls everything while the vectors have two slots.
TwoSlots == Len(bodies) <= 2 /\ Len(colliders) <= 2

\* Bound: before its first frame it may make three bodies instead, each with a
\* collider of its own, and then only updates and tears down.  Three colliders are
\* one more than a list takes in the run, so an Update goes over several leaves and
\* a contact is followed by visits of the pairs it moved.
ThreeObjects ==
    /\ contactListener
    /\ Cardinality(bodyRefs) <= 3
    /\ {1, 2} \subseteq Attached
    /\ \A i \in Attached : colliders[i].BodyRef.Index = i /\ IsEnabled(bodies[i])
    /\ phase \in {"update", "frame"} => Cardinality(Attached) = 3

OnlyFrames == phase = "frame" => phase' = "update"

TwoSlotsOrThreeObjects == TwoSlots' \/ (ThreeObjects' /\ OnlyFrames)

\* No action and no property of the run reads the history of destroyed bodies.
AllButStale ==
    <<slots, colRefPairs, contactListener, phase, visits, bodyRefs, colRefs, history>>

=============================================================================
