--------------------------- MODULE StackAllocator ---------------------------
(***************************************************************************)
(* The stack allocator (Common/include/Allocators.h): every allocation is  *)
(* preceded in the arena by a header with its size, from which Deallocate  *)
(* finds where the top was.                                                *)
(*                                                                         *)
(* Memory is counted in words; a header is one.  The client returns what   *)
(* it was given last: the code does not check it.                          *)
(***************************************************************************)
EXTENDS Integers, Sequences

CONSTANTS ArenaSize,     \* _size
          Requests       \* bound: sizes the client asks for, size * typeSize

ASSUME StackAssumption ==
    /\ ArenaSize \in Nat
    /\ Requests \subseteq Nat

VARIABLES
    memory,     \* the words of the arena and the one behind it
    top,        \* _top
    taken       \* the allocations the client has, the last one last

stackVars == <<memory, top, taken>>

HeaderSize == 1

Unwritten == 0

StackInit ==
    /\ memory = [word \in 0..ArenaSize |-> Unwritten]
    /\ top = 0
    /\ taken = <<>>

-----------------------------------------------------------------------------
\* Mutant: the client is given the header.
GivenFrom(allocationPtr) == allocationPtr

Payload(allocationPtr) == allocationPtr + HeaderSize

\* The check leaves out the header, which is why memory has a word behind the arena.
Fits(request) == top + request <= ArenaSize

StackAllocate(request) ==
    /\ Fits(request)
    /\ memory' = [memory EXCEPT ![top] = request + HeaderSize]
    /\ top' = top + request + HeaderSize
    /\ taken' = Append(taken, [ptr |-> Payload(top), size |-> request])

\* "StackAllocator out of memory"
StackThrow(request) == ~Fits(request) /\ UNCHANGED stackVars

Last == taken[Len(taken)]

StackDeallocate ==
    /\ taken # <<>>
    /\ top' = top - memory[Last.ptr - HeaderSize]
    /\ taken' = SubSeq(taken, 1, Len(taken) - 1)
    /\ UNCHANGED memory

\* The client that resets the stack gives up all it has.
StackReset ==
    /\ top' = 0 /\ taken' = <<>>
    /\ UNCHANGED memory

\* The client writes into an allocation it has, inside the arena.
Write(i, word) ==
    /\ word \in taken[i].ptr..taken[i].ptr + taken[i].size - 1
    /\ word \in DOMAIN memory
    /\ \E value \in 0..1 : memory' = [memory EXCEPT ![word] = value]
    /\ UNCHANGED <<top, taken>>

StackNext ==
    \/ \E request \in Requests : StackAllocate(request) \/ StackThrow(request)
    \/ StackDeallocate \/ StackReset
    \/ \E i \in DOMAIN taken, word \in DOMAIN memory : Write(i, word)

StackSpec == StackInit /\ [][StackNext]_stackVars

-----------------------------------------------------------------------------
(* Properties.                                                             *)

End(i) == taken[i].ptr + taken[i].size

\* Allocations lie behind each other with their headers between them, and the top
\* is where the last one ends: so after any writes of the client a Deallocate finds
\* the size it needs, and the next Allocate takes nothing the client still has
\* (Allocators.h:92-104).
StackIsExact ==
    /\ top = IF taken = <<>> THEN 0 ELSE End(Len(taken))
    /\ \A i \in DOMAIN taken :
        /\ taken[i].ptr = (IF i = 1 THEN 0 ELSE End(i - 1)) + HeaderSize
        /\ memory[taken[i].ptr - HeaderSize] = taken[i].size + HeaderSize

=============================================================================
