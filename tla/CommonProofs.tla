---------------------------- MODULE CommonProofs ----------------------------
(***************************************************************************)
(* Proofs about what Common/ keeps memory with: the pool for every number  *)
(* of blocks, the stack for every size of the arena and of the requests,   *)
(* the owning pointers for any number of pointers and objects.             *)
(***************************************************************************)
EXTENDS Common, TLAPS, SequenceTheorems, FiniteSetTheorems

-----------------------------------------------------------------------------
(* The pool.                                                               *)

\* The invariant is inductive as it stands, once typed.
PoolInv == PoolTypeOK /\ FreeListIsIntact

-----------------------------------------------------------------------------
(* Lemmas about lists of blocks.                                           *)

\* A list of blocks, by its elements.
LEMMA FreeList ==
    ASSUME NEW list \in Seq(Blocks)
    PROVE  /\ Len(list) \in Nat /\ DOMAIN list = 1..Len(list)
           /\ \A i \in 1..Len(list) : list[i] \in Blocks
BY LenProperties, ElementOfSeq

\* The list InitializePoolList makes names all blocks, the last one first.
LEMMA InitializedList ==
    /\ Descending \in Seq(Blocks) /\ Linked \in [Blocks -> Pointer]
    /\ BlockCount = First(Descending, 1)
    /\ \A i \in DOMAIN Descending : Linked[Descending[i]] = First(Descending, i + 1)
    /\ \A block \in Blocks : \E i \in DOMAIN Descending : Descending[i] = block
    /\ \A i, j \in DOMAIN Descending : Descending[i] = Descending[j] => i = j
<1>1. BlockCount \in Nat
  BY BlockCountAssumption
<1>2. DOMAIN Descending = 1..BlockCount /\ \A i \in 1..BlockCount : Descending[i] = BlockCount - i + 1
  BY DEF Descending, Blocks
<1>3. Descending \in [1..BlockCount -> Blocks]
  BY <1>1 DEF Descending, Blocks
<1>4. Descending \in Seq(Blocks)
  BY <1>1, <1>3
<1>5. Linked \in [Blocks -> Pointer]
  BY <1>1 DEF Linked, Blocks, Pointer, nullptr
<1>6. BlockCount = First(Descending, 1)
  BY <1>1, <1>2 DEF First, nullptr
<1>7. ASSUME NEW i \in DOMAIN Descending PROVE Linked[Descending[i]] = First(Descending, i + 1)
  <2>1. i \in 1..BlockCount /\ Descending[i] = BlockCount - i + 1
    BY <1>2
  <2>2. Linked[Descending[i]] = BlockCount - i
    BY <1>1, <2>1 DEF Linked, Blocks
  <2>3. First(Descending, i + 1) = BlockCount - i
    BY <1>1, <1>2, <2>1 DEF First, nullptr
  <2> QED
    BY <2>2, <2>3
<1>8. ASSUME NEW block \in Blocks PROVE \E i \in DOMAIN Descending : Descending[i] = block
  <2>1. block \in 1..BlockCount
    BY DEF Blocks
  <2>2. BlockCount - block + 1 \in 1..BlockCount
    BY <1>1, <2>1
  <2>3. Descending[BlockCount - block + 1] = block
    BY <1>1, <1>2, <2>1, <2>2
  <2> QED
    BY <1>2, <2>2, <2>3
<1>9. \A i, j \in DOMAIN Descending : Descending[i] = Descending[j] => i = j
  BY <1>1, <1>2
<1> QED
  BY <1>4, <1>5, <1>6, <1>7, <1>8, <1>9

-----------------------------------------------------------------------------
(* Every step keeps the list intact.                                       *)

\* A pool as constructed satisfies the invariant,
LEMMA PoolInitEstablishes == PoolInit => PoolInv
<1> SUFFICES ASSUME PoolInit PROVE PoolInv
  OBVIOUS
<1>1. BlockCount \in Pointer
  BY BlockCountAssumption DEF Pointer, Blocks, nullptr
<1> QED
  BY <1>1, InitializedList DEF PoolInit, PoolInv, PoolTypeOK, FreeListIsIntact, Pointer

\* which Reset restores: every slot is free again,
LEMMA PoolResetPreserves == PoolInv /\ PoolReset => PoolInv'
<1> SUFFICES ASSUME PoolInv, PoolReset PROVE PoolInv'
  OBVIOUS
<1>1. BlockCount \in Pointer
  BY BlockCountAssumption DEF Pointer, Blocks, nullptr
<1>2. /\ nextOf' = Linked /\ poolList' = BlockCount
      /\ live' = {} /\ freed' = Descending /\ answer' \in Pointer
  BY DEF PoolReset, PoolInv, PoolTypeOK
<1>3. PoolTypeOK'
  BY <1>1, <1>2, InitializedList DEF PoolTypeOK
<1>4. FreeListIsIntact'
  BY <1>2, InitializedList DEF FreeListIsIntact, First
<1> QED
  BY <1>3, <1>4 DEF PoolInv

\* The head of the list is a block the client does not have.
LEMMA HeadIsFree ==
    ASSUME PoolInv, poolList # nullptr
    PROVE  /\ freed # <<>> /\ poolList = freed[1] /\ 1 \in DOMAIN freed
           /\ poolList \in Blocks \ live
<1>1. 1 \in DOMAIN freed /\ poolList = freed[1]
  BY DEF PoolInv, FreeListIsIntact, First
<1>2. poolList \in Blocks
  BY <1>1, FreeList DEF PoolInv, PoolTypeOK
<1>3. poolList \notin live
  BY <1>1 DEF PoolInv, FreeListIsIntact
<1>4. freed # <<>>
  BY <1>1, EmptySeq
<1> QED
  BY <1>1, <1>2, <1>3, <1>4

\* Allocate keeps: the first free slot leaves the list,
LEMMA PoolAllocatePreserves == PoolInv /\ PoolAllocate => PoolInv'
<1> SUFFICES ASSUME PoolInv, PoolAllocate PROVE PoolInv'
  OBVIOUS
<1>1. /\ freed # <<>> /\ poolList = freed[1] /\ 1 \in DOMAIN freed
      /\ poolList \in Blocks \ live
  BY HeadIsFree DEF PoolAllocate
<1>2. freed \in Seq(Blocks) /\ Len(freed) \in Nat /\ DOMAIN freed = 1..Len(freed)
  BY FreeList DEF PoolInv, PoolTypeOK
<1>3. /\ freed' \in Seq(Blocks) /\ DOMAIN freed' = 1..Len(freed) - 1
      /\ \A i \in 1..Len(freed) - 1 : freed'[i] = freed[i + 1]
  BY <1>1, <1>2, HeadTailProperties, FreeList DEF PoolAllocate
<1>4. PoolTypeOK'
  BY <1>1, <1>3 DEF PoolAllocate, PoolInv, PoolTypeOK, Pointer
<1>5. poolList' = First(freed, 2) /\ First(freed, 2) = First(freed', 1)
  BY <1>1, <1>2, <1>3 DEF PoolAllocate, PoolInv, FreeListIsIntact, First
<1>6. \A i \in DOMAIN freed' : nextOf'[freed'[i]] = First(freed', i + 1)
  BY <1>1, <1>2, <1>3 DEF PoolAllocate, PoolInv, FreeListIsIntact, First
<1>7. \A i \in DOMAIN freed' : freed'[i] \notin live'
  BY <1>1, <1>2, <1>3 DEF PoolAllocate, PoolInv, FreeListIsIntact
<1>8. ASSUME NEW block \in Blocks \ live' PROVE \E i \in DOMAIN freed' : freed'[i] = block
  <2>1. PICK i \in DOMAIN freed : freed[i] = block
    BY DEF PoolAllocate, PoolInv, FreeListIsIntact
  <2>2. i # 1
    BY <1>1, <2>1 DEF PoolAllocate
  <2>3. i - 1 \in DOMAIN freed' /\ freed'[i - 1] = block
    BY <1>2, <1>3, <2>1, <2>2
  <2> QED
    BY <2>3
<1>9. ASSUME NEW i \in DOMAIN freed', NEW j \in DOMAIN freed', freed'[i] = freed'[j]
      PROVE  i = j
  <2>1. i + 1 \in DOMAIN freed /\ j + 1 \in DOMAIN freed /\ freed[i + 1] = freed[j + 1]
    BY <1>2, <1>3, <1>9
  <2>2. i + 1 = j + 1
    BY <2>1 DEF PoolInv, FreeListIsIntact
  <2> QED
    BY <1>2, <1>3, <2>2
<1> QED
  BY <1>4, <1>5, <1>6, <1>7, <1>8, <1>9 DEF PoolInv, FreeListIsIntact

\* Deallocate keeps: the slot given back is the new head,
LEMMA PoolDeallocatePreserves ==
    ASSUME PoolInv, NEW block \in Blocks, PoolDeallocate(block)
    PROVE  PoolInv'
<1>1. freed \in Seq(Blocks) /\ Len(freed) \in Nat /\ DOMAIN freed = 1..Len(freed)
  BY FreeList DEF PoolInv, PoolTypeOK
<1>2. /\ freed' \in Seq(Blocks) /\ DOMAIN freed' = 1..Len(freed) + 1
      /\ freed'[1] = block /\ \A i \in 1..Len(freed) : freed'[i + 1] = freed[i]
  <2>1. freed' = <<block>> \o freed
    BY DEF PoolDeallocate
  <2>2. <<block>> \in Seq(Blocks) /\ Len(<<block>>) = 1
    OBVIOUS
  <2>3. /\ freed' \in Seq(Blocks) /\ Len(freed') = Len(freed) + 1
        /\ \A i \in 1..Len(freed) + 1 :
                freed'[i] = IF i <= 1 THEN <<block>>[i] ELSE freed[i - 1]
    BY <1>1, <2>1, <2>2, ConcatProperties
  <2> QED
    BY <1>1, <2>3, FreeList
<1>3. block \in live /\ \A i \in DOMAIN freed : freed[i] # block
  BY DEF PoolDeallocate, PoolInv, FreeListIsIntact
<1>4. PoolTypeOK'
  BY <1>2 DEF PoolDeallocate, PoolInv, PoolTypeOK, Pointer
<1>5. \A i \in DOMAIN freed' : i = 1 \/ (i - 1 \in DOMAIN freed /\ freed'[i] = freed[i - 1])
  BY <1>1, <1>2
<1>6. poolList' = First(freed', 1)
  BY <1>1, <1>2 DEF PoolDeallocate, First
<1>7. ASSUME NEW i \in DOMAIN freed' PROVE nextOf'[freed'[i]] = First(freed', i + 1)
  <2>1. CASE i = 1
    <3>1. nextOf'[block] = First(freed, 1)
      BY DEF PoolDeallocate, PoolInv, PoolTypeOK, FreeListIsIntact
    <3>2. First(freed', 2) = First(freed, 1)
      BY <1>1, <1>2 DEF First
    <3> QED
      BY <1>2, <2>1, <3>1, <3>2
  <2>2. CASE i # 1
    <3>1. i - 1 \in DOMAIN freed /\ freed'[i] = freed[i - 1]
      BY <1>5, <2>2
    <3>2. nextOf'[freed'[i]] = nextOf[freed[i - 1]]
      BY <1>3, <3>1 DEF PoolDeallocate, PoolInv, PoolTypeOK
    <3>3. nextOf[freed[i - 1]] = First(freed, (i - 1) + 1)
      BY <3>1 DEF PoolInv, FreeListIsIntact
    <3>4. First(freed, (i - 1) + 1) = First(freed', i + 1)
      BY <1>1, <1>2, <3>1 DEF First
    <3> QED
      BY <3>2, <3>3, <3>4
  <2> QED
    BY <2>1, <2>2
<1>8. \A i \in DOMAIN freed' : freed'[i] \notin live'
  BY <1>2, <1>5 DEF PoolDeallocate, PoolInv, FreeListIsIntact
<1>9. ASSUME NEW other \in Blocks \ live' PROVE \E i \in DOMAIN freed' : freed'[i] = other
  <2>1. CASE other = block
    BY <1>1, <1>2, <2>1
  <2>2. CASE other # block
    <3>1. PICK i \in DOMAIN freed : freed[i] = other
      BY <2>2 DEF PoolDeallocate, PoolInv, FreeListIsIntact
    <3>2. i + 1 \in DOMAIN freed' /\ freed'[i + 1] = other
      BY <1>1, <1>2, <3>1
    <3> QED
      BY <3>2
  <2> QED
    BY <2>1, <2>2
<1>10. ASSUME NEW i \in DOMAIN freed', NEW j \in DOMAIN freed', freed'[i] = freed'[j]
       PROVE  i = j
  BY <1>1, <1>2, <1>3, <1>5, <1>10 DEF PoolInv, FreeListIsIntact
<1> QED
  BY <1>4, <1>6, <1>7, <1>8, <1>9, <1>10 DEF PoolInv, FreeListIsIntact

\* A free block is not the client's to write.
LEMMA ScribblePreserves ==
    ASSUME PoolInv, NEW block \in Blocks, NEW word \in Pointer, Scribble(block, word)
    PROVE  PoolInv'
<1>1. PoolTypeOK'
  BY DEF Scribble, PoolInv, PoolTypeOK
<1>2. \A i \in DOMAIN freed : freed[i] # block
  BY DEF Scribble, PoolInv, FreeListIsIntact
<1>3. \A i \in DOMAIN freed : nextOf'[freed[i]] = nextOf[freed[i]]
  BY <1>2 DEF Scribble, PoolInv, PoolTypeOK
<1>4. FreeListIsIntact'
  BY <1>3 DEF Scribble, PoolInv, FreeListIsIntact, First
<1> QED
  BY <1>1, <1>4 DEF PoolInv

\* and so does every step.
LEMMA PoolStepPreserves == PoolInv /\ [PoolNext]_poolVars => PoolInv'
<1> SUFFICES ASSUME PoolInv, [PoolNext]_poolVars PROVE PoolInv'
  OBVIOUS
<1>1. CASE PoolAllocate \/ PoolReset
  BY <1>1, PoolAllocatePreserves, PoolResetPreserves
<1>2. CASE PoolThrow
  BY <1>2 DEF PoolThrow, PoolInv, PoolTypeOK, FreeListIsIntact, First, Pointer
<1>3. CASE \E block \in Blocks : PoolDeallocate(block)
  BY <1>3, PoolDeallocatePreserves
<1>4. CASE \E block \in Blocks, word \in Pointer : Scribble(block, word)
  BY <1>4, ScribblePreserves
<1>5. CASE UNCHANGED poolVars
  BY <1>5 DEF poolVars, PoolInv, PoolTypeOK, FreeListIsIntact, First
<1> QED
  BY <1>1, <1>2, <1>3, <1>4, <1>5 DEF PoolNext, PoolInvalidSize, PoolDeallocateNull

-----------------------------------------------------------------------------
(* The theorems.                                                           *)

\* The free list is well formed in every reachable state.
LEMMA PoolInvariance == PoolSpec => []PoolInv
BY PoolInitEstablishes, PoolStepPreserves, PTL DEF PoolSpec

\* For every number of blocks and whatever the client writes into those it has,
\* the links from _poolList name exactly the free blocks, each once.
THEOREM FreeListStaysIntact == PoolSpec => []FreeListIsIntact
<1>1. PoolInv => FreeListIsIntact
  BY DEF PoolInv
<1> QED
  BY <1>1, PoolInvariance, PTL

\* The pool implements the source of blocks: none is given twice, and "out of
\* memory" is thrown only when the client has them all.
THEOREM PoolImplementsSource == PoolSpec => PoolKeepsPromise
<1>1. PoolInit => Promise!Init
  BY DEF PoolInit, Promise!Init
<1>2. ASSUME PoolInv, [PoolNext]_poolVars
      PROVE  [Promise!Next]_<<live, answer>>
  <2>1. CASE PoolAllocate
    <3>1. poolList \in Blocks \ live
      BY <1>2, <2>1, HeadIsFree DEF PoolAllocate
    <3>2. Promise!Give(poolList)
      BY <2>1, <3>1 DEF PoolAllocate, Promise!Give
    <3> QED
      BY <3>1, <3>2 DEF Promise!Next
  <2>2. CASE PoolThrow
    <3>1. 1 \notin DOMAIN freed
      <4>1. SUFFICES ASSUME 1 \in DOMAIN freed PROVE FALSE
        OBVIOUS
      <4>2. freed[1] = nullptr
        BY <1>2, <2>2, <4>1 DEF PoolThrow, PoolInv, FreeListIsIntact, First
      <4>3. freed[1] \in Blocks
        BY <1>2, <4>1, FreeList DEF PoolInv, PoolTypeOK
      <4> QED
        BY <4>2, <4>3 DEF Blocks, nullptr
    <3>2. DOMAIN freed = {}
      BY <1>2, <3>1, FreeList DEF PoolInv, PoolTypeOK
    <3>3. live = Blocks
      BY <1>2, <3>2 DEF PoolInv, PoolTypeOK, FreeListIsIntact
    <3> QED
      BY <2>2, <3>3 DEF PoolThrow, Promise!Next, Promise!Refuse
  <2>3. CASE PoolReset
    BY <2>3 DEF PoolReset, Promise!Next, Promise!TakeAllBack
  <2>4. ASSUME NEW block \in Blocks, PoolDeallocate(block) PROVE Promise!Next
    BY <2>4 DEF PoolDeallocate, Promise!Next, Promise!TakeBack
  <2>5. CASE UNCHANGED <<live, answer>>
    BY <2>5
  <2> QED
    BY <1>2, <2>1, <2>2, <2>3, <2>4, <2>5
       DEF PoolNext, PoolInvalidSize, PoolDeallocateNull, Scribble, poolVars
<1> QED
  BY <1>1, <1>2, PoolInvariance, PTL DEF PoolSpec, PoolKeepsPromise, Promise!Spec

-----------------------------------------------------------------------------
(* The stack.                                                               *)

StackTypeOK ==
    /\ memory \in [0..ArenaSize -> Nat]
    /\ top \in 0..ArenaSize + HeaderSize
    /\ taken \in Seq([ptr : Nat, size : Nat])

\* Every allocation ends below the header of any later one: the client's writes
\* reach no header.
InOrder == \A i, j \in DOMAIN taken : i < j => End(i) < taken[j].ptr

StackInv == StackTypeOK /\ StackIsExact /\ InOrder

\* End, of any list of allocations.
EndIn(list, i) == list[i].ptr + list[i].size

-----------------------------------------------------------------------------
\* What is known of the allocations the client has.
LEMMA Taken ==
    ASSUME StackInv
    PROVE  /\ Len(taken) \in Nat /\ DOMAIN taken = 1..Len(taken)
           /\ \A i \in DOMAIN taken : taken[i].ptr \in Nat /\ taken[i].size \in Nat
           /\ (taken = <<>> <=> Len(taken) = 0)
<1>1. taken \in Seq([ptr : Nat, size : Nat])
  BY DEF StackInv, StackTypeOK
<1>2. Len(taken) \in Nat /\ DOMAIN taken = 1..Len(taken)
  BY <1>1, LenProperties
<1>3. \A i \in DOMAIN taken : taken[i] \in [ptr : Nat, size : Nat]
  BY <1>1, <1>2, ElementOfSeq
<1>4. taken = <<>> <=> Len(taken) = 0
  BY <1>1, EmptySeq
<1> QED
  BY <1>2, <1>3, <1>4

\* Every allocation is below the top, and its header in front of it.
LEMMA BelowTop ==
    ASSUME StackInv, NEW i \in DOMAIN taken
    PROVE  End(i) \in Nat /\ End(i) <= top /\ taken[i].ptr >= HeaderSize /\ taken # <<>>
<1>1. taken # <<>> /\ Len(taken) \in DOMAIN taken
  BY Taken
<1>2. \A j \in DOMAIN taken : End(j) \in Nat /\ taken[j].ptr <= End(j)
  BY Taken DEF End
<1>3. top = End(Len(taken))
  BY <1>1 DEF StackInv, StackIsExact
<1>4. i = Len(taken) \/ i < Len(taken)
  BY Taken
<1>5. End(i) <= top
  BY <1>1, <1>2, <1>3, <1>4, Taken DEF StackInv, InOrder
<1>6. taken[i].ptr >= HeaderSize
  <2>1. taken[i].ptr = (IF i = 1 THEN 0 ELSE End(i - 1)) + HeaderSize
    BY DEF StackInv, StackIsExact
  <2>2. i = 1 \/ i - 1 \in DOMAIN taken
    BY Taken
  <2> QED
    BY <1>2, <2>1, <2>2 DEF HeaderSize
<1> QED
  BY <1>1, <1>2, <1>5, <1>6

\* An empty stack satisfies the invariant.
LEMMA StackInitEstablishes == StackInit => StackInv
<1> SUFFICES ASSUME StackInit PROVE StackInv
  OBVIOUS
<1>1. taken = <<>> /\ DOMAIN taken = {} /\ top = 0
  BY DEF StackInit
<1>2. StackTypeOK
  BY <1>1, StackAssumption, EmptySeq DEF StackInit, StackTypeOK, Unwritten, HeaderSize
<1> QED
  BY <1>1, <1>2 DEF StackInv, StackIsExact, InOrder

\* A new allocation starts behind the ones there are.
LEMMA StackAllocatePreserves ==
    ASSUME StackInv, NEW request \in Requests, StackAllocate(request)
    PROVE  StackInv'
<1> DEFINE new == [ptr |-> Payload(top), size |-> request]
<1>0. PICK n \in Nat : n = Len(taken)
  BY Taken
<1>1. /\ request \in Nat /\ top \in Nat /\ top <= ArenaSize /\ top + request <= ArenaSize
      /\ ArenaSize \in Nat
  BY StackAssumption DEF StackInv, StackTypeOK, StackAllocate, Fits, HeaderSize
<1>2. n \in Nat /\ DOMAIN taken = 1..n
  BY <1>0, Taken
<1>3. new \in [ptr : Nat, size : Nat] /\ new.ptr = top + HeaderSize /\ new.size = request
  BY <1>1 DEF Payload, HeaderSize
<1>4. /\ taken' \in Seq([ptr : Nat, size : Nat]) /\ Len(taken') = n + 1
      /\ \A i \in 1..n : taken'[i] = taken[i]
      /\ taken'[n + 1] = new
  <2>1. taken' = Append(taken, new)
    BY DEF StackAllocate
  <2>2. taken \in Seq([ptr : Nat, size : Nat])
    BY DEF StackInv, StackTypeOK
  <2> QED
    BY <1>0, <1>3, <2>1, <2>2, AppendProperties
<1>5. DOMAIN taken' = 1..n + 1
  BY <1>4, LenProperties
<1>6. /\ \A i \in 1..n : EndIn(taken', i) = End(i)
      /\ EndIn(taken', n + 1) = top + HeaderSize + request
  BY <1>3, <1>4 DEF End, EndIn
<1> HIDE DEF new
<1>7. /\ memory' \in [0..ArenaSize -> Nat]
      /\ memory'[top] = request + HeaderSize
      /\ \A word \in 0..ArenaSize : word # top => memory'[word] = memory[word]
  BY <1>1 DEF StackAllocate, StackInv, StackTypeOK, HeaderSize
<1>8. top' = top + request + HeaderSize
  BY DEF StackAllocate
<1>9. \A i \in 1..n : /\ taken[i].ptr \in Nat /\ taken[i].size \in Nat
                      /\ End(i) \in Nat /\ End(i) <= top /\ taken[i].ptr >= HeaderSize
  BY <1>2, Taken, BelowTop
<1>10. StackTypeOK'
  BY <1>1, <1>4, <1>7, <1>8 DEF StackTypeOK, HeaderSize
<1>11. StackIsExact'
  <2>1. top' = IF taken' = <<>> THEN 0 ELSE EndIn(taken', Len(taken'))
    <3>1. taken' # <<>>
      BY <1>2, <1>4, EmptySeq
    <3> QED
      BY <1>1, <1>4, <1>6, <1>8, <3>1 DEF HeaderSize
  <2>2. ASSUME NEW i \in 1..n
        PROVE  /\ taken'[i].ptr = (IF i = 1 THEN 0 ELSE EndIn(taken', i - 1)) + HeaderSize
               /\ memory'[taken'[i].ptr - HeaderSize] = taken'[i].size + HeaderSize
    <3>1. /\ taken[i].ptr = (IF i = 1 THEN 0 ELSE End(i - 1)) + HeaderSize
          /\ memory[taken[i].ptr - HeaderSize] = taken[i].size + HeaderSize
      BY <1>2 DEF StackInv, StackIsExact
    <3>2. i = 1 \/ i - 1 \in 1..n
      BY <1>2
    <3>3. /\ taken[i].ptr - HeaderSize \in 0..ArenaSize
          /\ taken[i].ptr - HeaderSize # top
      <4>1. /\ taken[i].ptr \in Nat /\ taken[i].size \in Nat
            /\ taken[i].ptr + taken[i].size <= top /\ taken[i].ptr >= HeaderSize
        BY <1>9 DEF End, EndIn
      <4> QED
        BY <1>1, <4>1 DEF HeaderSize
    <3> QED
      BY <1>4, <1>6, <1>7, <3>1, <3>2, <3>3
  <2>3. /\ taken'[n + 1].ptr = (IF n + 1 = 1 THEN 0 ELSE EndIn(taken', (n + 1) - 1)) + HeaderSize
        /\ memory'[taken'[n + 1].ptr - HeaderSize] = taken'[n + 1].size + HeaderSize
    <3>1. top = IF n = 0 THEN 0 ELSE End(n)
      BY <1>0, Taken DEF StackInv, StackIsExact
    <3>2. n # 0 => n \in 1..n
      BY <1>2
    <3>3. (n + 1) - 1 = n
      BY <1>2
    <3>4. taken'[n + 1].ptr = top + HeaderSize /\ taken'[n + 1].size = request
      BY <1>3, <1>4
    <3>5. taken'[n + 1].ptr - HeaderSize = top
      BY <1>1, <3>4 DEF HeaderSize
    <3>6. CASE n = 0
      BY <1>7, <3>1, <3>4, <3>5, <3>6
    <3>7. CASE n # 0
      <4>1. EndIn(taken', (n + 1) - 1) = EndIn(taken', n)
        BY <3>3
      <4> QED
        BY <1>2, <1>6, <1>7, <3>1, <3>2, <3>4, <3>5, <3>7, <4>1
    <3> QED
      BY <3>6, <3>7
  <2>4. \A i \in DOMAIN taken' : i \in 1..n \/ i = n + 1
    BY <1>2, <1>5
  <2> QED
    BY <2>1, <2>2, <2>3, <2>4 DEF StackIsExact, End, EndIn
<1>12. InOrder'
  <2>1. ASSUME NEW i \in 1..n, NEW j \in 1..n, i < j PROVE EndIn(taken', i) < taken'[j].ptr
    BY <1>2, <1>4, <1>6, <2>1 DEF StackInv, InOrder, End, EndIn
  <2>2. ASSUME NEW i \in 1..n PROVE EndIn(taken', i) < taken'[n + 1].ptr
    BY <1>1, <1>3, <1>4, <1>6, <1>9 DEF HeaderSize
  <2>3. \A i, j \in DOMAIN taken' : i < j => i \in 1..n /\ (j \in 1..n \/ j = n + 1)
    BY <1>2, <1>5
  <2> QED
    BY <2>1, <2>2, <2>3 DEF InOrder, End, EndIn
<1> QED
  BY <1>10, <1>11, <1>12 DEF StackInv

\* Giving back the top uncovers the allocation its header names.
LEMMA StackDeallocatePreserves == StackInv /\ StackDeallocate => StackInv'
<1> SUFFICES ASSUME StackInv, StackDeallocate PROVE StackInv'
  OBVIOUS
<1>0. PICK n \in Nat : n = Len(taken)
  BY Taken
<1>1. n \in Nat \ {0} /\ DOMAIN taken = 1..n /\ n \in DOMAIN taken
  BY <1>0, Taken DEF StackDeallocate
<1>2. /\ taken' \in Seq([ptr : Nat, size : Nat]) /\ Len(taken') = n - 1
      /\ \A i \in 1..n - 1 : taken'[i] = taken[i]
  <2>1. \A i \in 1..n - 1 : taken[i] \in [ptr : Nat, size : Nat]
    <3>1. taken \in Seq([ptr : Nat, size : Nat])
      BY DEF StackInv, StackTypeOK
    <3>2. \A i \in 1..Len(taken) : taken[i] \in [ptr : Nat, size : Nat]
      BY <3>1, ElementOfSeq
    <3>3. 1..n - 1 \subseteq 1..Len(taken)
      BY <1>0, <1>1
    <3> QED
      BY <3>2, <3>3
  <2>2. taken' = SubSeq(taken, 1, n - 1) /\ n - 1 \in Int /\ 1 \in Int
    BY <1>1 DEF StackDeallocate
  <2>3. /\ SubSeq(taken, 1, n - 1) \in Seq([ptr : Nat, size : Nat])
        /\ Len(SubSeq(taken, 1, n - 1)) = IF 1 <= n - 1 THEN (n - 1) - 1 + 1 ELSE 0
        /\ \A i \in 1..(n - 1) - 1 + 1 : SubSeq(taken, 1, n - 1)[i] = taken[1 + i - 1]
    BY <2>1, <2>2, SubSeqProperties
  <2> QED
    BY <1>1, <2>2, <2>3
<1>3. DOMAIN taken' = 1..n - 1
  BY <1>2, LenProperties
<1>4. \A i \in 1..n - 1 : EndIn(taken', i) = End(i) /\ i \in DOMAIN taken
  BY <1>1, <1>2 DEF End, EndIn
<1>5. /\ taken[n].ptr \in Nat /\ taken[n].size \in Nat
      /\ memory[taken[n].ptr - HeaderSize] = taken[n].size + HeaderSize
      /\ taken[n].ptr = (IF n = 1 THEN 0 ELSE End(n - 1)) + HeaderSize
      /\ top = taken[n].ptr + taken[n].size
  BY <1>1, <1>0, Taken DEF StackInv, StackIsExact, End, EndIn
<1>6. top' = top - memory[taken[n].ptr - HeaderSize]
  BY <1>0 DEF StackDeallocate, Last
<1>7. top' = taken[n].ptr - HeaderSize
  BY <1>5, <1>6 DEF HeaderSize
<1>8. n # 1 => n - 1 \in 1..n - 1 /\ End(n - 1) \in Nat
  BY <1>1, <1>4, BelowTop
<1>9. top' = IF n = 1 THEN 0 ELSE End(n - 1)
  BY <1>5, <1>7, <1>8 DEF HeaderSize
<1>10. StackTypeOK'
  <2>1. top' \in 0..ArenaSize + HeaderSize
    <3>1. taken[n].ptr >= 1
      BY <1>1, BelowTop DEF HeaderSize
    <3>2. ArenaSize \in Nat /\ top \in 0..ArenaSize + 1
      BY StackAssumption DEF StackInv, StackTypeOK, HeaderSize
    <3>3. /\ taken[n].ptr \in Nat /\ taken[n].size \in Nat
          /\ top = taken[n].ptr + taken[n].size /\ top' = taken[n].ptr - 1
      BY <1>5, <1>7 DEF HeaderSize
    <3> QED
      BY <3>1, <3>2, <3>3 DEF HeaderSize
  <2> QED
    BY <1>2, <2>1 DEF StackDeallocate, StackInv, StackTypeOK
<1>11. StackIsExact'
  <2>1. taken' = <<>> <=> n = 1
    BY <1>1, <1>2, EmptySeq
  <2>2. top' = IF taken' = <<>> THEN 0 ELSE EndIn(taken', Len(taken'))
    BY <1>2, <1>4, <1>8, <1>9, <2>1
  <2>3. ASSUME NEW i \in 1..n - 1
        PROVE  /\ taken'[i].ptr = (IF i = 1 THEN 0 ELSE EndIn(taken', i - 1)) + HeaderSize
               /\ memory'[taken'[i].ptr - HeaderSize] = taken'[i].size + HeaderSize
    <3>1. i = 1 \/ i - 1 \in 1..n - 1
      BY <1>1
    <3>2. /\ taken[i].ptr = (IF i = 1 THEN 0 ELSE End(i - 1)) + HeaderSize
          /\ memory[taken[i].ptr - HeaderSize] = taken[i].size + HeaderSize
      BY <1>4 DEF StackInv, StackIsExact
    <3> QED
      BY <1>2, <1>4, <3>1, <3>2 DEF StackDeallocate
  <2> QED
    BY <1>3, <2>2, <2>3 DEF StackIsExact, End, EndIn
<1>12. InOrder'
  BY <1>2, <1>3, <1>4 DEF StackInv, InOrder, End, EndIn
<1> QED
  BY <1>10, <1>11, <1>12 DEF StackInv

\* A write into an allocation lies behind every header up to its own, and before
\* those of later ones.
LEMMA WritePreserves ==
    ASSUME StackInv, NEW i \in DOMAIN taken, NEW word \in DOMAIN memory, Write(i, word)
    PROVE  StackInv'
<1>1. /\ UNCHANGED <<top, taken>>
      /\ \A j \in DOMAIN taken : EndIn(taken', j) = End(j)
  BY DEF Write, End, EndIn
<1>2. StackTypeOK'
  BY <1>1 DEF Write, StackInv, StackTypeOK
<1>3. word \in Nat /\ taken[i].ptr <= word /\ word < End(i)
  BY Taken DEF Write, End, StackInv, StackTypeOK
<1>4. ASSUME NEW j \in DOMAIN taken
      PROVE  memory'[taken[j].ptr - HeaderSize] = memory[taken[j].ptr - HeaderSize]
  <2>1. taken[j].ptr \in Nat /\ taken[i].ptr \in Nat /\ End(i) \in Nat
    BY Taken, BelowTop
  <2>2. End(j) \in Nat /\ taken[j].ptr <= End(j)
    BY Taken, BelowTop DEF End, EndIn
  <2>3. i = j \/ i < j \/ j < i
    BY Taken
  <2>4. i < j => End(i) < taken[j].ptr
    BY DEF StackInv, InOrder, End, EndIn
  <2>5. j < i => End(j) < taken[i].ptr
    BY DEF StackInv, InOrder, End, EndIn
  <2>6. word # taken[j].ptr - HeaderSize
    BY <1>3, <2>1, <2>2, <2>3, <2>4, <2>5 DEF HeaderSize
  <2> QED
    BY <2>6 DEF Write, StackInv, StackTypeOK
<1>5. StackIsExact'
  <2>1. top' = IF taken' = <<>> THEN 0 ELSE EndIn(taken', Len(taken'))
    BY <1>1 DEF StackInv, StackIsExact, End, EndIn
  <2>2. ASSUME NEW j \in DOMAIN taken
        PROVE  /\ taken'[j].ptr = (IF j = 1 THEN 0 ELSE EndIn(taken', j - 1)) + HeaderSize
               /\ memory'[taken'[j].ptr - HeaderSize] = taken'[j].size + HeaderSize
    BY <1>1, <1>4 DEF StackInv, StackIsExact, End, EndIn
  <2> QED
    BY <1>1, <2>1, <2>2 DEF StackIsExact, End, EndIn
<1>6. InOrder'
  BY <1>1 DEF StackInv, InOrder, End, EndIn
<1> QED
  BY <1>2, <1>5, <1>6 DEF StackInv

\* Every step keeps the invariant, a write of the client included.
LEMMA StackStepPreserves == StackInv /\ [StackNext]_stackVars => StackInv'
<1> SUFFICES ASSUME StackInv, [StackNext]_stackVars PROVE StackInv'
  OBVIOUS
<1>1. ASSUME NEW request \in Requests, StackAllocate(request) PROVE StackInv'
  BY <1>1, StackAllocatePreserves
<1>2. CASE UNCHANGED stackVars
  BY <1>2 DEF stackVars, StackInv, StackTypeOK, StackIsExact, InOrder, End, EndIn
<1>3. CASE StackDeallocate
  BY <1>3, StackDeallocatePreserves
<1>4. CASE StackReset
  <2>1. taken' = <<>> /\ DOMAIN taken' = {} /\ top' = 0 /\ memory' = memory
    BY <1>4 DEF StackReset
  <2>2. StackTypeOK'
    BY <2>1, StackAssumption, EmptySeq DEF StackInv, StackTypeOK, HeaderSize
  <2> QED
    BY <2>1, <2>2 DEF StackInv, StackIsExact, InOrder
<1>5. ASSUME NEW i \in DOMAIN taken, NEW word \in DOMAIN memory, Write(i, word) PROVE StackInv'
  BY <1>5, WritePreserves
<1> QED
  BY <1>1, <1>2, <1>3, <1>4, <1>5 DEF StackNext, StackThrow

-----------------------------------------------------------------------------
(* The theorems.                                                           *)

\* The headers are in order in every reachable state.
LEMMA StackInvariance == StackSpec => []StackInv
BY StackInitEstablishes, StackStepPreserves, PTL DEF StackSpec

\* For every size of the arena and of the requests, whatever the client writes: the
\* allocations tile the arena below the top, each behind a header that still says
\* its size.
THEOREM StackStaysExact == StackSpec => []StackIsExact
<1>1. StackInv => StackIsExact
  BY DEF StackInv
<1> QED
  BY <1>1, StackInvariance, PTL

-----------------------------------------------------------------------------
(* The owning pointers.                                                     *)

PtrTypeOK ==
    /\ owned = [p \in Living |-> owned[p]]
    /\ \A p \in Living : owned[p] \subseteq Created
    /\ deletes = [object \in Created |-> deletes[object]]

OwnedBy(object, p) ==
    /\ p \in Living /\ object \in owned[p]
    /\ \A q \in Living : object \in owned[q] => q = p

NotOwned(object) == \A p \in Living : object \notin owned[p]

\* OneOwnerOrDeletedOnce without counting.
Accounted(object) ==
    \/ deletes[object] = 0 /\ \E p \in Living : OwnedBy(object, p)
    \/ deletes[object] = 1 /\ NotOwned(object)

PtrInv == PtrTypeOK /\ \A object \in Created : Accounted(object)

-----------------------------------------------------------------------------
\* Nothing is owned at first.
LEMMA PtrInitEstablishes == PtrInit => PtrInv
BY DEF PtrInit, PtrInv, PtrTypeOK, Living, Created

\* What is created has the pointer made for it as its owner.
LEMMA MakeUniquePreserves ==
    ASSUME PtrInv, NEW p \in Pointers, NEW object \in Objects, MakeUnique(p, object)
    PROVE  PtrInv'
<1>1. /\ p \notin Living /\ object \notin Created
      /\ Living' = Living \cup {p} /\ Created' = Created \cup {object}
      /\ owned'[p] = {object} /\ \A q \in Living : owned'[q] = owned[q]
      /\ deletes'[object] = 0 /\ \A other \in Created : deletes'[other] = deletes[other]
  BY DEF MakeUnique, Set, Living, Created
<1>2. PtrTypeOK'
  <2>1. /\ owned' = [q \in Living' |-> owned'[q]]
        /\ deletes' = [other \in Created' |-> deletes'[other]]
    BY DEF MakeUnique, Set, Living, Created
  <2>2. \A q \in Living' : owned'[q] \subseteq Created'
    BY <1>1 DEF PtrInv, PtrTypeOK
  <2> QED
    BY <2>1, <2>2 DEF PtrTypeOK
<1>3. Accounted(object)'
  <2>1. \A q \in Living : object \notin owned[q]
    BY <1>1 DEF PtrInv, PtrTypeOK
  <2> QED
    BY <1>1, <2>1 DEF Accounted, OwnedBy
<1>4. ASSUME NEW other \in Created PROVE Accounted(other)'
  <2>1. Accounted(other) /\ other # object
    BY <1>1 DEF PtrInv
  <2> QED
    BY <1>1, <2>1 DEF Accounted, OwnedBy, NotOwned
<1> QED
  BY <1>1, <1>2, <1>3, <1>4 DEF PtrInv

\* Moving passes ownership on to a pointer that had none.
LEMMA MoveConstructPreserves ==
    ASSUME PtrInv, NEW p \in Pointers, NEW q \in Pointers, MoveConstruct(p, q)
    PROVE  PtrInv'
<1>1. /\ p \notin Living /\ q \in Living /\ p # q
      /\ Living' = Living \cup {p} /\ Created' = Created /\ deletes' = deletes
      /\ owned'[p] = owned[q] /\ owned'[q] = {}
      /\ \A r \in Living \ {q} : owned'[r] = owned[r]
  BY DEF MoveConstruct, Set, Pair, Null, Living, Created
<1>2. PtrTypeOK'
  <2>1. owned' = [r \in Living' |-> owned'[r]]
    BY DEF MoveConstruct, Set, Living
  <2>2. \A r \in Living' : owned'[r] \subseteq Created'
    BY <1>1 DEF PtrInv, PtrTypeOK
  <2> QED
    BY <1>1, <2>1, <2>2 DEF PtrInv, PtrTypeOK
<1>3. ASSUME NEW object \in Created PROVE Accounted(object)'
  <2>1. CASE deletes[object] = 0 /\ OwnedBy(object, q)
    BY <1>1, <2>1 DEF Accounted, OwnedBy
  <2>2. CASE deletes[object] = 0 /\ \E r \in Living \ {q} : OwnedBy(object, r)
    BY <1>1, <2>2 DEF Accounted, OwnedBy
  <2>3. CASE deletes[object] = 1 /\ NotOwned(object)
    BY <1>1, <2>3 DEF Accounted, NotOwned
  <2> QED
    BY <2>1, <2>2, <2>3 DEF PtrInv, Accounted
<1> QED
  BY <1>1, <1>2, <1>3 DEF PtrInv

\* What delete leaves of an object.
LEMMA Deleted ==
    ASSUME PtrInv, NEW p \in Living, NEW object \in Created
    PROVE  Delete(owned[p])[object] =
                IF object \in owned[p] THEN 1 ELSE deletes[object]
<1>1. Delete(owned[p])[object] =
                IF object \in owned[p] THEN deletes[object] + 1 ELSE deletes[object]
  BY DEF Delete
<1>2. object \in owned[p] => deletes[object] = 0
  BY DEF PtrInv, Accounted, NotOwned
<1> QED
  BY <1>1, <1>2

\* Assigning deletes what the target owned, unless it is the source.
LEMMA MoveAssignPreserves ==
    ASSUME PtrInv, NEW p \in Pointers, NEW q \in Pointers, MoveAssign(p, q)
    PROVE  PtrInv'
<1>1. CASE p = q
  BY <1>1 DEF MoveAssign, ptrVars, PtrInv, PtrTypeOK, Accounted, OwnedBy, NotOwned,
              Living, Created
<1>2. CASE p # q
  <2>1. /\ p \in Living /\ q \in Living
        /\ Living' = Living /\ deletes' = Delete(owned[p])
        /\ owned'[p] = owned[q] /\ owned'[q] = {}
        /\ \A r \in Living \ {p, q} : owned'[r] = owned[r]
    BY <1>2 DEF MoveAssign, Set, Pair, Null, Living
  <2>2. Created' = Created
    BY <2>1 DEF Delete, Created
  <2>3. PtrTypeOK'
    <3>1. owned' = [r \in Living' |-> owned'[r]]
      BY <1>2 DEF MoveAssign, Set, Living
    <3>2. \A r \in Living' : owned'[r] \subseteq Created'
      BY <2>1, <2>2 DEF PtrInv, PtrTypeOK
    <3>3. deletes' = [object \in Created' |-> deletes'[object]]
      BY <2>1, <2>2 DEF Delete
    <3> QED
      BY <3>1, <3>2, <3>3 DEF PtrTypeOK
  <2>4. ASSUME NEW object \in Created PROVE Accounted(object)'
    <3>1. deletes'[object] = IF object \in owned[p] THEN 1 ELSE deletes[object]
      BY <2>1, Deleted
    <3>2. CASE deletes[object] = 0 /\ OwnedBy(object, p)
      BY <1>2, <2>1, <3>1, <3>2 DEF Accounted, OwnedBy, NotOwned
    <3>3. CASE deletes[object] = 0 /\ OwnedBy(object, q)
      BY <1>2, <2>1, <3>1, <3>3 DEF Accounted, OwnedBy
    <3>4. CASE deletes[object] = 0 /\ \E r \in Living \ {p, q} : OwnedBy(object, r)
      BY <2>1, <3>1, <3>4 DEF Accounted, OwnedBy
    <3>5. CASE deletes[object] = 1 /\ NotOwned(object)
      BY <2>1, <3>1, <3>5 DEF Accounted, NotOwned
    <3> QED
      BY <3>2, <3>3, <3>4, <3>5 DEF PtrInv, Accounted
  <2> QED
    BY <2>2, <2>3, <2>4 DEF PtrInv
<1> QED
  BY <1>1, <1>2

\* A pointer destroyed deletes what it owns.
LEMMA DestroyPreserves ==
    ASSUME PtrInv, NEW p \in Pointers, Destroy(p)
    PROVE  PtrInv'
<1>1. /\ p \in Living /\ Living' = Living \ {p} /\ deletes' = Delete(owned[p])
      /\ \A q \in Living \ {p} : owned'[q] = owned[q]
  BY DEF Destroy, Living
<1>2. Created' = Created
  BY <1>1 DEF Delete, Created
<1>3. PtrTypeOK'
  <2>1. owned' = [q \in Living' |-> owned'[q]]
    BY <1>1 DEF Destroy, Living
  <2>2. \A q \in Living' : owned'[q] \subseteq Created'
    BY <1>1, <1>2 DEF PtrInv, PtrTypeOK
  <2>3. deletes' = [object \in Created' |-> deletes'[object]]
    BY <1>1, <1>2 DEF Delete
  <2> QED
    BY <2>1, <2>2, <2>3 DEF PtrTypeOK
<1>4. ASSUME NEW object \in Created PROVE Accounted(object)'
  <2>1. deletes'[object] = IF object \in owned[p] THEN 1 ELSE deletes[object]
    BY <1>1, Deleted
  <2>2. CASE deletes[object] = 0 /\ OwnedBy(object, p)
    BY <1>1, <2>1, <2>2 DEF Accounted, OwnedBy, NotOwned
  <2>3. CASE deletes[object] = 0 /\ \E q \in Living \ {p} : OwnedBy(object, q)
    BY <1>1, <2>1, <2>3 DEF Accounted, OwnedBy
  <2>4. CASE deletes[object] = 1 /\ NotOwned(object)
    BY <1>1, <2>1, <2>4 DEF Accounted, NotOwned
  <2> QED
    BY <2>2, <2>3, <2>4 DEF PtrInv, Accounted
<1> QED
  BY <1>2, <1>3, <1>4 DEF PtrInv

\* Every step keeps the ownership exact.
LEMMA PtrStepPreserves == PtrInv /\ [PtrNext]_ptrVars => PtrInv'
<1> SUFFICES ASSUME PtrInv, [PtrNext]_ptrVars PROVE PtrInv'
  OBVIOUS
<1>1. CASE UNCHANGED ptrVars
  BY <1>1 DEF ptrVars, PtrInv, PtrTypeOK, Accounted, OwnedBy, NotOwned, Living, Created
<1> QED
  BY <1>1, MakeUniquePreserves, MoveConstructPreserves, MoveAssignPreserves, DestroyPreserves
     DEF PtrNext

\* Ownership is exact in every reachable state.
LEMMA PtrInvariance == PtrSpec => []PtrInv
BY PtrInitEstablishes, PtrStepPreserves, PTL DEF PtrSpec

-----------------------------------------------------------------------------
(* The theorems.                                                           *)

\* Whatever is moved, converted, assigned and destroyed, an object is deleted
\* exactly when it loses its only owner.
THEOREM OwnershipIsExact == PtrSpec => []OneOwnerOrDeletedOnce
<1>1. ASSUME PtrInv, NEW object \in Created
      PROVE  LET owners == {p \in Living : object \in owned[p]}
             IN  \/ Cardinality(owners) = 1 /\ deletes[object] = 0
                 \/ owners = {} /\ deletes[object] = 1
  <2>1. CASE deletes[object] = 0 /\ \E p \in Living : OwnedBy(object, p)
    <3>1. PICK p \in Living : OwnedBy(object, p)
      BY <2>1
    <3>2. {r \in Living : object \in owned[r]} = {p}
      BY <3>1 DEF OwnedBy
    <3>3. Cardinality({p}) = 1
      BY FS_Singleton
    <3> QED
      BY <2>1, <3>2, <3>3
  <2>2. CASE deletes[object] = 1 /\ NotOwned(object)
    BY <2>2 DEF NotOwned
  <2> QED
    BY <1>1, <2>1, <2>2 DEF PtrInv, Accounted
<1>2. PtrInv => OneOwnerOrDeletedOnce
  BY <1>1 DEF OneOwnerOrDeletedOnce
<1> QED
  BY <1>2, PtrInvariance, PTL

\* And an assignment never deletes what it hands over.
THEOREM AssignmentIsSafe == PtrSpec => AssignmentHandsOver
<1>1. ASSUME PtrInv, NEW p \in Living, NEW q \in Living, MoveAssign(p, q)
      PROVE  owned'[p] = owned[q] /\ \A object \in owned[q] : deletes'[object] = 0
  <2>1. \A object \in owned[q] : object \in Created /\ deletes[object] = 0
    BY <1>1 DEF PtrInv, PtrTypeOK, Accounted, NotOwned
  <2>2. CASE p = q
    BY <1>1, <2>1, <2>2 DEF MoveAssign, ptrVars
  <2>3. CASE p # q
    <3>1. owned'[p] = owned[q] /\ deletes' = Delete(owned[p])
      BY <1>1, <2>3 DEF MoveAssign, Set, Pair, Living
    <3>2. ASSUME NEW object \in owned[q] PROVE deletes'[object] = 0
      <4>1. object \notin owned[p]
        BY <1>1, <2>1, <2>3 DEF PtrInv, Accounted, OwnedBy, NotOwned
      <4> QED
        BY <1>1, <2>1, <3>1, <4>1, Deleted
    <3> QED
      BY <3>1, <3>2
  <2> QED
    BY <2>2, <2>3
<1>2. PtrInv => \A p, q \in Living : MoveAssign(p, q) =>
            owned'[p] = owned[q] /\ \A object \in owned[q] : deletes'[object] = 0
  BY <1>1
<1> QED
  BY <1>2, PtrInvariance, PTL DEF AssignmentHandsOver

=============================================================================
