-------------------------- MODULE ListenerContract --------------------------
(***************************************************************************)
(* What a ContactListener may count on (Physics/include/Contact.h:11-45),  *)
(* whatever structure finds the pairs: triggers begin and end in turn, and *)
(* each call is true of the shapes at the moment it is made.  It promises  *)
(* nothing of pairs that touch and are never told.                         *)
(***************************************************************************)
EXTENDS Integers, Sequences

VARIABLES
    overlapping,    \* the pairs of colliders whose shapes overlap
    open,           \* the pairs whose trigger has begun and not ended
    calls           \* the calls of the current frame, oldest first

vars == <<overlapping, open, calls>>

Init == overlapping = {} /\ open = {} /\ calls = <<>>

Call(event, pair) == calls' = Append(calls, [event |-> event, pair |-> pair])

\* The world moves, grows or shrinks and the listener is told nothing.
Move == UNCHANGED <<open, calls>>

NewFrame == calls' = <<>> /\ UNCHANGED open

OnTriggerEnter(pair) ==
    /\ pair \in overlapping \ open
    /\ Call("OnTriggerEnter", pair)
    /\ open' = open \cup {pair}
    /\ UNCHANGED overlapping

OnTriggerExit(pair) ==
    /\ pair \in open \ overlapping
    /\ Call("OnTriggerExit", pair)
    /\ open' = open \ {pair}
    /\ UNCHANGED overlapping

\* The bodies are pushed apart in the same step.
OnCollisionEnter(pair) ==
    /\ pair \in overlapping
    /\ Call("OnCollisionEnter", pair)
    /\ UNCHANGED open

OnCollisionExit ==
    /\ Len(calls') = Len(calls) + 1
    /\ LET pair == calls'[Len(calls')].pair
       IN  pair \notin overlapping /\ Call("OnCollisionExit", pair)
    /\ UNCHANGED <<overlapping, open>>

TearDown == overlapping' = {} /\ open' = {} /\ calls' = <<>>

Next ==
    \/ Move \/ NewFrame \/ TearDown
    \/ \E pair \in overlapping : OnTriggerEnter(pair) \/ OnCollisionEnter(pair)
    \/ \E pair \in open : OnTriggerExit(pair)
    \/ OnCollisionExit

Spec == Init /\ [][Next]_vars

=============================================================================
