--------------------------- MODULE PoolAllocator ---------------------------
(***************************************************************************)
(* The pool allocator (Common/include/Allocators.h): equal blocks, the free*)
(* ones linked through their own first word, which is the client's to write*)
(* while it has the block.                                                 *)
(*                                                                         *)
(* A block holds a PoolBlock at least, and the client returns what it has  *)
(* or nullptr: of these the code checks only the last.                     *)
(***************************************************************************)
EXTENDS Integers, Sequences

CONSTANT BlockCount     \* _blockCount

ASSUME BlockCountAssumption == BlockCount \in Nat

VARIABLES
    nextOf,      \* the first word of every block
    poolList,    \* _poolList
    live,        \* the blocks the client has
    answer,      \* what the last Allocate returned or threw
    freed        \* history: the free blocks, those returned last first

poolVars == <<nextOf, poolList, live, answer, freed>>

Blocks  == 1..BlockCount
nullptr == 0
Pointer == Blocks \cup {nullptr}

\* Mutant: the last block is left out.
LinkedButLast == [block \in Blocks |-> IF block = 2 THEN nullptr ELSE block - 1]

\* InitializePoolList pushes the blocks one by one: each points to the one before.
Linked == [block \in Blocks |-> block - 1]

Descending == [i \in Blocks |-> BlockCount - i + 1]

PoolInit ==
    /\ nextOf = Linked /\ poolList = BlockCount
    /\ live = {} /\ answer = nullptr
    /\ freed = Descending

-----------------------------------------------------------------------------
\* "Invalid allocation size for PoolAllocator": looked at before the list is.
PoolInvalidSize == UNCHANGED poolVars

PoolAllocate ==
    /\ poolList # nullptr
    /\ answer' = poolList
    /\ poolList' = nextOf[poolList]
    /\ live' = live \cup {poolList}
    /\ freed' = Tail(freed)
    /\ UNCHANGED nextOf

\* "PoolAllocator out of memory"
PoolThrow ==
    /\ poolList = nullptr
    /\ answer' = nullptr
    /\ UNCHANGED <<nextOf, poolList, live, freed>>

PoolDeallocateNull == UNCHANGED poolVars

\* Mutant: the block is linked, but is not the head afterwards.
PoolDeallocateLost(block) ==
    /\ block \in live
    /\ nextOf' = [nextOf EXCEPT ![block] = poolList]
    /\ live' = live \ {block}
    /\ freed' = <<block>> \o freed
    /\ UNCHANGED <<poolList, answer>>

PoolDeallocate(block) ==
    /\ block \in live
    /\ nextOf' = [nextOf EXCEPT ![block] = poolList]
    /\ poolList' = block
    /\ live' = live \ {block}
    /\ freed' = <<block>> \o freed
    /\ UNCHANGED answer

\* The client that resets the pool gives up all it has.
PoolReset ==
    /\ nextOf' = Linked /\ poolList' = BlockCount
    /\ live' = {}
    /\ freed' = Descending
    /\ UNCHANGED answer

\* The client writes into a block it has, whatever it likes.
Scribble(block, word) ==
    /\ block \in live
    /\ nextOf' = [nextOf EXCEPT ![block] = word]
    /\ UNCHANGED <<poolList, live, answer, freed>>

PoolNext ==
    \/ PoolInvalidSize \/ PoolAllocate \/ PoolThrow \/ PoolReset
    \/ PoolDeallocateNull
    \/ \E block \in Blocks : PoolDeallocate(block)
    \/ \E block \in Blocks, word \in Pointer : Scribble(block, word)

PoolSpec == PoolInit /\ [][PoolNext]_poolVars

-----------------------------------------------------------------------------
(* Properties.                                                             *)

PoolTypeOK ==
    /\ nextOf \in [Blocks -> Pointer]
    /\ poolList \in Pointer
    /\ live \subseteq Blocks
    /\ answer \in Pointer
    /\ freed \in Seq(Blocks)

\* What a list of blocks starts at i with.
First(list, i) == IF i \in DOMAIN list THEN list[i] ELSE nullptr

\* Followed from _poolList, the links name every block the client does not have
\* and no other, each once, whatever the client wrote into the blocks it has
\* (Allocators.h:274-275, 286-288, 302-313).
FreeListIsIntact ==
    /\ poolList = First(freed, 1)
    /\ \A i \in DOMAIN freed : nextOf[freed[i]] = First(freed, i + 1)
    /\ \A i \in DOMAIN freed : freed[i] \notin live
    /\ \A block \in Blocks \ live : \E i \in DOMAIN freed : freed[i] = block
    /\ \A i, j \in DOMAIN freed : freed[i] = freed[j] => i = j

Promise == INSTANCE BlockSource WITH OutOfMemory <- nullptr

\* The pool keeps the promise of an allocator: it gives no block twice and throws
\* "out of memory" only when the client has all of them (Allocators.h:269-276).
PoolKeepsPromise == Promise!Spec

=============================================================================
