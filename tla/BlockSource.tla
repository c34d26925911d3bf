---------------------------- MODULE BlockSource ----------------------------
(***************************************************************************)
(* What the client of an allocator of equal blocks is promised: a block    *)
(* nobody has, as long as there is one, and "out of memory" only when it   *)
(* has them all itself.                                                    *)
(***************************************************************************)
CONSTANTS Blocks, OutOfMemory

VARIABLES live,     \* the blocks the client has
          answer    \* what the last request was answered

Init == live = {} /\ answer = OutOfMemory

Give(block) ==
    /\ block \in Blocks \ live
    /\ live' = live \cup {block}
    /\ answer' = block

Refuse ==
    /\ live = Blocks
    /\ answer' = OutOfMemory
    /\ UNCHANGED live

TakeBack(block) ==
    /\ block \in live
    /\ live' = live \ {block}
    /\ UNCHANGED answer

TakeAllBack ==
    /\ live' = {}
    /\ UNCHANGED answer

Next ==
    \/ \E block \in Blocks : Give(block) \/ TakeBack(block)
    \/ Refuse \/ TakeAllBack

Spec == Init /\ [][Next]_<<live, answer>>

=============================================================================
