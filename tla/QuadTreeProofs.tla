--------------------------- MODULE QuadTreeProofs ---------------------------
(***************************************************************************)
(* Proofs about the quadtree, for every depth, length of lists and set of  *)
(* boxes: the pool suffices, no leaf lists a box twice, boxes that touch   *)
(* meet in a leaf, and the insertions build the tree of QuadCells.         *)
(*                                                                         *)
(* What a node stands for is not in the program's state: the invariant     *)
(* says that some function gives each node of this frame its cell, and     *)
(* another the nodes on the way to it from the root.                       *)
(***************************************************************************)
EXTENDS QuadTree, GeometryProofs, SequenceTheorems

-----------------------------------------------------------------------------
(* The inductive invariant.                                                *)

\* The nodes handed out this frame.
Live == 0..nodeIndex - 1

List(n) == Nodes[n].ColliderRefAabbs

Child(n, k) == Nodes[n].Children + k

Increasing(list) == \A i, j \in DOMAIN list : i < j => list[i] < list[j]

Root == RootBounds(aabbs)

\* Insert carries a box to the root unasked, and to other nodes when it intersects.
Hits(item, n) == n = 0 \/ IntersectRectangles(Scaled(aabbs[item]), Nodes[n].Bounds)

NodeType == [ColliderRefAabbs : Seq(Nat),
             Bounds : [type : {"Rectangle"}, minBound : Vec, maxBound : Vec],
             Children : Nat, Depth : Nat]

TreeTypeOK ==
    /\ Nodes \in [0..PoolSize - 1 -> NodeType]
    /\ nodeIndex \in Nat \ {0} /\ nodeIndex <= PoolSize
    /\ aabbs \in Seq(Boxes)
    /\ next \in Nat \ {0} /\ next <= Len(aabbs) + 1
    /\ calls \in Seq([node : Nat, item : Nat])
    /\ \A j \in 1..Len(calls) : calls[j].node \in Live /\ calls[j].item \in 1..next - 1

\* Nodes not handed out have nothing; those that were divided have their children,
\* four at a time, behind them and no list.
PoolOK ==
    /\ \A n \in 0..PoolSize - 1 : n >= nodeIndex => IsLeaf(n) /\ List(n) = <<>>
    /\ nodeIndex % 4 = 1
    /\ \A n \in Live : ~IsLeaf(n) =>
            /\ n < Nodes[n].Children /\ Nodes[n].Children + 3 < nodeIndex
            /\ Nodes[n].Children % 4 = 1
            /\ List(n) = <<>>
    /\ \A n \in Live \ {0} : \E p \in Live, k \in 0..3 : ~IsLeaf(p) /\ n = Child(p, k)

\* Every node of this frame is a cell of its own, and children are the quarters.
CellsOK(C) ==
    /\ C \in [Live -> Cells]
    /\ C[0] = RootCell
    /\ \A n \in Live : Depth(C[n]) = Nodes[n].Depth
    /\ \A m, n \in Live : C[m] = C[n] => m = n
    /\ \A n \in Live : ~IsLeaf(n) =>
            Depth(C[n]) < MAX_DEPTH /\ \A k \in 0..3 : C[Child(n, k)] = Quarter(C[n], k)

\* The nodes from the root to a node: those that hand boxes on to it.
PathsOK(Up) ==
    /\ Up \in [Live -> SUBSET Live]
    /\ \A n \in Live : n \in Up[n] /\ 0 \in Up[n]
    /\ \A n \in Live : IsLeaf(n) => \A m \in Live : n \in Up[m] => m = n
    /\ \A n \in Live : ~IsLeaf(n) =>
            /\ \A k \in 0..3 : Up[Child(n, k)] = Up[n] \cup {Child(n, k)}
            /\ \A m \in Live, k \in 0..3 : Child(n, k) \in Up[m] =>
                    /\ n \in Up[m]
                    /\ \A l \in 0..3 : Child(n, l) \in Up[m] => l = k
            /\ \A m \in Live : n \in Up[m] /\ m # n => \E k \in 0..3 : Child(n, k) \in Up[m]

\* What hits a node hits those on the way to it.
NestOK(Up) ==
    \A n \in Live : \A m \in Up[n] : \A item \in 1..Len(aabbs) : Hits(item, n) => Hits(item, m)

\* Items arrive everywhere in their order: a list is in it, and what is still to
\* come to a node follows what it has.
OrderOK(Up) ==
    /\ \A n \in Live : Increasing(List(n)) /\ \A i \in DOMAIN List(n) : List(n)[i] \in 1..next - 1
    /\ \A n \in Live, j \in 1..Len(calls) : IsLeaf(n) /\ calls[j].node \in Up[n] =>
            \A i \in DOMAIN List(n) : List(n)[i] < calls[j].item
    /\ \A n \in Live, i, j \in 1..Len(calls) :
            i < j /\ calls[i].node \in Up[n] /\ calls[j].node \in Up[n] =>
                calls[i].item < calls[j].item

\* The boxes of the nodes are those of their cells.
BoundsOK(C) == aabbs # <<>> => \A n \in Live : Nodes[n].Bounds = CellBounds(Root, C[n])

\* A leaf has the items that hit it, or they are on their way; and no others.
ReachOK(Up) ==
    /\ \A n \in Live, item \in 1..next - 1 : IsLeaf(n) /\ Hits(item, n) =>
            \/ \E i \in DOMAIN List(n) : List(n)[i] = item
            \/ \E j \in 1..Len(calls) : calls[j].item = item /\ calls[j].node \in Up[n]
    /\ \A n \in Live : \A i \in DOMAIN List(n) : Hits(List(n)[i], n)
    /\ \A j \in 1..Len(calls) : Hits(calls[j].item, calls[j].node)

\* A node was divided because it had to be.
DivisionOK(C) ==
    \A n \in Live :
        /\ IsLeaf(n) /\ Nodes[n].Depth < MAX_DEPTH => Len(List(n)) <= MAX_COL_NBR
        /\ ~IsLeaf(n) => Subdivided(aabbs, Root, C[n])

TreeInvFor(C, Up) ==
    /\ TreeTypeOK /\ PoolOK
    /\ CellsOK(C) /\ BoundsOK(C) /\ DivisionOK(C)
    /\ PathsOK(Up) /\ NestOK(Up) /\ OrderOK(Up) /\ ReachOK(Up)

TreeInv == \E C, Up : TreeInvFor(C, Up)

-----------------------------------------------------------------------------
(* What the loop over the children hands over.                             *)

\* The call of Insert for an item and a node.
Call(node, item) == [node |-> node, item |-> item]

\* The calls that take the first k items to the given nodes: each to those it
\* intersects, in their order.
Carries(S, pool, kids, items, k) ==
    /\ S \in Seq([node : kids, item : Nat])
    /\ \A j \in 1..Len(S) :
          /\ \E i \in 1..k : S[j].item = items[i]
          /\ IntersectRectangles(Scaled(aabbs[S[j].item]), pool[S[j].node].Bounds)
    /\ \A i \in 1..k, kid \in kids :
          IntersectRectangles(Scaled(aabbs[items[i]]), pool[kid].Bounds) =>
              \E j \in 1..Len(S) : S[j] = Call(kid, items[i])
    /\ \A i, j \in 1..Len(S) : i < j /\ S[i].node = S[j].node => S[i].item < S[j].item

\* One more item.
LEMMA CarriesOneMore ==
    ASSUME NEW pool, NEW kid \in Nat, NEW items \in Seq(Nat), Increasing(items),
           NEW k \in Nat, k + 1 <= Len(items), NEW S, Carries(S, pool, {kid}, items, k)
    PROVE  LET hit == IntersectRectangles(Scaled(aabbs[items[k + 1]]), pool[kid].Bounds)
           IN  /\ hit => Carries(Append(S, Call(kid, items[k + 1])), pool, {kid}, items, k + 1)
               /\ ~hit => Carries(S, pool, {kid}, items, k + 1)
<1> DEFINE hit == IntersectRectangles(Scaled(aabbs[items[k + 1]]), pool[kid].Bounds)
           call == Call(kid, items[k + 1])
           T == Append(S, call)
           E == [node : {kid}, item : Nat]
<1>1. k + 1 \in 1..Len(items) /\ items[k + 1] \in Nat /\ 1..k + 1 = 1..k \cup {k + 1}
  <2>1. k + 1 \in 1..Len(items)
    OBVIOUS
  <2>2. items[k + 1] \in Nat
    BY <2>1
  <2> QED
    BY <2>1, <2>2
<1>2. /\ S \in Seq(E) /\ Len(S) \in Nat
      /\ \A j \in 1..Len(S) : S[j].node = kid
  <2>1. S \in Seq(E)
    BY DEF Carries
  <2>2. Len(S) \in Nat /\ \A j \in 1..Len(S) : S[j] \in E
    <3> HIDE DEF E
    <3> QED
      BY <2>1
  <2>3. \A e \in E : e.node = kid
    OBVIOUS
  <2> HIDE DEF E
  <2> QED
    BY <2>1, <2>2, <2>3
<1>3. \A i \in 1..k : items[i] \in Nat /\ items[i] < items[k + 1]
  BY <1>1 DEF Increasing
<1>4. ASSUME hit PROVE Carries(T, pool, {kid}, items, k + 1)
  <2>1. call \in E /\ call.node = kid /\ call.item = items[k + 1]
    BY <1>1 DEF Call
  <2> HIDE DEF call
  <2>2. /\ T \in Seq(E) /\ Len(T) = Len(S) + 1
        /\ \A j \in 1..Len(S) : T[j] = S[j]
        /\ T[Len(S) + 1] = call
        /\ 1..Len(T) = 1..Len(S) \cup {Len(S) + 1}
    BY <1>2, <2>1
  <2> HIDE DEF T, hit
  <2>3. ASSUME NEW j \in 1..Len(T)
        PROVE  /\ \E i \in 1..k + 1 : T[j].item = items[i]
               /\ IntersectRectangles(Scaled(aabbs[T[j].item]), pool[T[j].node].Bounds)
    <3>1. CASE j \in 1..Len(S)
      BY <1>1, <2>2, <3>1 DEF Carries
    <3>2. CASE j = Len(S) + 1
      <4>1. T[j].item = items[k + 1] /\ T[j].node = kid /\ k + 1 \in 1..k + 1
        BY <1>1, <2>1, <2>2, <3>2
      <4> QED
        BY <1>4, <4>1 DEF hit
    <3> QED
      BY <2>2, <3>1, <3>2
  <2>4. ASSUME NEW i \in 1..k + 1,
               IntersectRectangles(Scaled(aabbs[items[i]]), pool[kid].Bounds)
        PROVE  \E j \in 1..Len(T) : T[j] = Call(kid, items[i])
    <3>1. CASE i \in 1..k
      <4>1. PICK j \in 1..Len(S) : S[j] = Call(kid, items[i])
        BY <2>4, <3>1 DEF Carries
      <4> QED
        BY <2>2, <4>1
    <3>2. CASE i = k + 1
      BY <2>2, <3>2 DEF call
    <3> QED
      BY <1>1, <3>1, <3>2
  <2>5. ASSUME NEW i \in 1..Len(T), NEW j \in 1..Len(T), i < j
        PROVE  T[i].item < T[j].item
    <3>1. i \in 1..Len(S)
      BY <1>2, <2>2, <2>5
    <3>2. CASE j \in 1..Len(S)
      BY <1>2, <2>2, <2>5, <3>1, <3>2 DEF Carries
    <3>3. CASE j = Len(S) + 1
      <4>1. PICK l \in 1..k : S[i].item = items[l]
        BY <3>1 DEF Carries
      <4> QED
        BY <1>3, <2>1, <2>2, <3>1, <3>3, <4>1
    <3> QED
      BY <2>2, <3>2, <3>3
  <2> QED
    BY <2>2, <2>3, <2>4, <2>5 DEF Carries
<1>5. ASSUME ~hit PROVE Carries(S, pool, {kid}, items, k + 1)
  <2> HIDE DEF hit
  <2>1. ASSUME NEW i \in 1..k + 1,
               IntersectRectangles(Scaled(aabbs[items[i]]), pool[kid].Bounds)
        PROVE  \E j \in 1..Len(S) : S[j] = Call(kid, items[i])
    <3>1. i # k + 1
      BY <1>5, <2>1 DEF hit
    <3> QED
      BY <1>1, <2>1, <3>1 DEF Carries
  <2> QED
    BY <1>1, <2>1 DEF Carries
<1> QED
  BY <1>4, <1>5

\* The loop over the items for one child.
LEMMA CallsForCarries ==
    ASSUME NEW pool, NEW kid \in Nat, NEW items \in Seq(Nat), Increasing(items)
    PROVE  Carries(CallsFor(pool, kid, items), pool, {kid}, items, Len(items))
<1> DEFINE hit(item) == IntersectRectangles(Scaled(aabbs[item]), pool[kid].Bounds)
           E == [node : {kid}, item : Nat]
           N == Len(items)
           Add == [p \in Nat \X Seq(E) |->
                      IF p[1] \in 1..N /\ hit(items[p[1]])
                      THEN Append(p[2], Call(kid, items[p[1]])) ELSE p[2]]
           Eq(f) == f = [k \in 0..N |->
                            IF k = 0 THEN <<>>
                            ELSE IF hit(items[k]) THEN Append(f[k - 1], Call(kid, items[k]))
                                 ELSE f[k - 1]]
<1>1. N \in Nat
  OBVIOUS
<1>2. IsStep(Add, Seq(E))
  <2>1. ASSUME NEW p \in Nat \X Seq(E)
        PROVE  (IF p[1] \in 1..N /\ hit(items[p[1]])
                THEN Append(p[2], Call(kid, items[p[1]])) ELSE p[2]) \in Seq(E)
    <3>1. p[2] \in Seq(E)
      OBVIOUS
    <3>2. ASSUME p[1] \in 1..N PROVE Call(kid, items[p[1]]) \in E
      BY <3>2 DEF Call
    <3> HIDE DEF E, hit
    <3> QED
      BY <3>1, <3>2
  <2> HIDE DEF E, hit
  <2> QED
    BY <2>1 DEF IsStep
<1>3. PICK g : Iterates(g, Seq(E), <<>>, Add)
  <2>1. <<>> \in Seq(E)
    OBVIOUS
  <2> HIDE DEF Add, E
  <2> QED
    BY <1>2, <2>1, RecursionExists
<1> DEFINE made == [k \in 0..N |-> g[k]]
<1>4. /\ made[0] = <<>>
      /\ \A k \in 1..N : /\ hit(items[k]) => made[k] = Append(made[k - 1], Call(kid, items[k]))
                         /\ ~hit(items[k]) => made[k] = made[k - 1]
  <2> HIDE DEF N
  <2>1. ASSUME NEW k \in 1..N
        PROVE  k \in Nat /\ g[k] = Add[<<k, g[k - 1]>>] /\ g[k - 1] \in Seq(E)
    <3>1. k \in Nat \ {0} /\ k - 1 \in Nat
      BY <1>1
    <3> HIDE DEF Add, E
    <3> QED
      BY <1>3, <3>1 DEF Iterates
  <2>2. \A k \in 1..N : g[k] = IF hit(items[k]) THEN Append(g[k - 1], Call(kid, items[k]))
                               ELSE g[k - 1]
    <3> TAKE k \in 1..N
    <3> DEFINE before == g[k - 1]
    <3>1. k \in Nat /\ g[k] = Add[<<k, before>>] /\ before \in Seq(E)
      BY <2>1
    <3> HIDE DEF hit, E, before
    <3>2. Add[<<k, before>>] = IF k \in 1..N /\ hit(items[k])
                               THEN Append(before, Call(kid, items[k])) ELSE before
      BY <3>1
    <3> QED
      BY <3>1, <3>2 DEF before
  <2>3. g[0] = <<>>
    BY <1>3 DEF Iterates
  <2>4. 0 \in 0..N /\ \A k \in 1..N : k \in 0..N /\ k - 1 \in 0..N
    BY <1>1
  <2>5. made[0] = g[0] /\ \A k \in 1..N : made[k] = g[k] /\ made[k - 1] = g[k - 1]
    BY <2>4
  <2> HIDE DEF hit, made
  <2> QED
    BY <2>2, <2>3, <2>5
<1>5. Eq(made)
  <2> DEFINE rhs == [k \in 0..N |->
                            IF k = 0 THEN <<>>
                            ELSE IF hit(items[k]) THEN Append(made[k - 1], Call(kid, items[k]))
                                 ELSE made[k - 1]]
  <2>1. \A k \in 0..N : made[k] = rhs[k]
    <3>1. \A k \in 0..N : k = 0 \/ k \in 1..N
      <4> HIDE DEF N
      <4> QED
        BY <1>1
    <3>2. \A k \in 1..N : k # 0
      OBVIOUS
    <3> HIDE DEF hit, made, N
    <3> QED
      BY <1>4, <3>1, <3>2
  <2>2. made = [k \in 0..N |-> made[k]]
    OBVIOUS
  <2> HIDE DEF made, hit
  <2>3. made = rhs
    BY <2>1, <2>2
  <2> QED
    BY <2>3
<1>6. CallsFor(pool, kid, items) = (CHOOSE f : Eq(f))[N]
  BY DEF CallsFor, Call
<1>7. Eq(CHOOSE f : Eq(f))
  <2> HIDE DEF Eq, made
  <2> QED
    BY <1>5
<1> DEFINE final == CHOOSE f : Eq(f)
           Good == {k \in Nat : k <= N => Carries(final[k], pool, {kid}, items, k)}
<1>8. /\ final[0] = <<>>
      /\ \A k \in Nat : k < N =>
            /\ hit(items[k + 1]) => final[k + 1] = Append(final[k], Call(kid, items[k + 1]))
            /\ ~hit(items[k + 1]) => final[k + 1] = final[k]
  <2> HIDE DEF final, hit
  <2>1. Eq(final)
    BY <1>7 DEF final
  <2>2. final[0] = <<>>
    BY <1>1, <2>1
  <2>3. ASSUME NEW k \in Nat, k < N
        PROVE  /\ hit(items[k + 1]) => final[k + 1] = Append(final[k], Call(kid, items[k + 1]))
               /\ ~hit(items[k + 1]) => final[k + 1] = final[k]
    <3>1. k + 1 \in 0..N /\ k + 1 # 0 /\ (k + 1) - 1 = k
      BY <1>1, <2>3
    <3> QED
      BY <2>1, <3>1
  <2> QED
    BY <2>2, <2>3
<1> HIDE DEF final
<1>9. 0 \in Good
  <2>1. Carries(<<>>, pool, {kid}, items, 0)
    BY DEF Carries
  <2> QED
    BY <1>8, <2>1
<1>10. ASSUME NEW k \in Nat, k \in Good PROVE k + 1 \in Good
  <2> SUFFICES ASSUME k + 1 <= N PROVE Carries(final[k + 1], pool, {kid}, items, k + 1)
    OBVIOUS
  <2>1. k < N /\ Carries(final[k], pool, {kid}, items, k)
    BY <1>1, <1>10
  <2> QED
    BY <1>8, <2>1, CarriesOneMore
<1>11. N \in Good
  <2>1. Nat \subseteq Good
    <3> HIDE DEF Good
    <3> QED
      BY <1>9, <1>10, NaturalsFromZero
  <2> QED
    BY <1>1, <2>1
<1> QED
  BY <1>1, <1>6, <1>11 DEF final

\* The calls for some children, then those for others.
LEMMA CarriesBoth ==
    ASSUME NEW pool, NEW items \in Seq(Nat), NEW k \in Nat, NEW A \in SUBSET Nat,
           NEW B \in SUBSET Nat, A \cap B = {}, NEW S, NEW T,
           Carries(S, pool, A, items, k), Carries(T, pool, B, items, k)
    PROVE  Carries(S \o T, pool, A \cup B, items, k)
<1> DEFINE E(kids) == [node : kids, item : Nat]
           R == S \o T
<1>1. S \in Seq(E(A)) /\ T \in Seq(E(B))
  BY DEF Carries
<1>2. S \in Seq(E(A \cup B)) /\ T \in Seq(E(A \cup B))
  <2>1. E(A) \subseteq E(A \cup B) /\ E(B) \subseteq E(A \cup B)
    OBVIOUS
  <2> HIDE DEF E
  <2> QED
    BY <1>1, <2>1, SeqMonotonic
<1>3. /\ \A j \in 1..Len(S) : S[j].node \in A
      /\ \A j \in 1..Len(T) : T[j].node \in B
  <2>1. (\A j \in 1..Len(S) : S[j] \in E(A)) /\ (\A j \in 1..Len(T) : T[j] \in E(B))
    <3> HIDE DEF E
    <3> QED
      BY <1>1
  <2> QED
    BY <2>1
<1>4. /\ Len(S) \in Nat /\ Len(T) \in Nat
      /\ R \in Seq(E(A \cup B)) /\ Len(R) = Len(S) + Len(T)
      /\ \A j \in 1..Len(S) : R[j] = S[j] /\ j \in 1..Len(R)
      /\ \A j \in 1..Len(T) : R[Len(S) + j] = T[j] /\ Len(S) + j \in 1..Len(R)
  <2> HIDE DEF E
  <2> QED
    BY <1>2
<1>5. ASSUME NEW j \in 1..Len(R), ~(j \in 1..Len(S))
      PROVE  j - Len(S) \in 1..Len(T) /\ R[j] = T[j - Len(S)]
  <2>1. j - Len(S) \in 1..Len(T) /\ Len(S) + (j - Len(S)) = j
    <3> HIDE DEF R
    <3> QED
      BY <1>4, <1>5
  <2> HIDE DEF R
  <2> QED
    BY <1>4, <2>1
<1> HIDE DEF R, E
<1>6. ASSUME NEW j \in 1..Len(R)
      PROVE  /\ \E i \in 1..k : R[j].item = items[i]
             /\ IntersectRectangles(Scaled(aabbs[R[j].item]), pool[R[j].node].Bounds)
  <2>1. CASE j \in 1..Len(S)
    BY <1>4, <2>1 DEF Carries
  <2>2. CASE ~(j \in 1..Len(S))
    <3>1. PICK l \in 1..Len(T) : R[j] = T[l]
      BY <1>5, <2>2
    <3> QED
      BY <3>1 DEF Carries
  <2> QED
    BY <2>1, <2>2
<1>7. ASSUME NEW i \in 1..k, NEW kid \in A \cup B,
             IntersectRectangles(Scaled(aabbs[items[i]]), pool[kid].Bounds)
      PROVE  \E j \in 1..Len(R) : R[j] = Call(kid, items[i])
  <2>1. CASE kid \in A
    <3>1. PICK j \in 1..Len(S) : S[j] = Call(kid, items[i])
      BY <1>7, <2>1 DEF Carries
    <3> QED
      BY <1>4, <3>1
  <2>2. CASE kid \in B
    <3>1. PICK j \in 1..Len(T) : T[j] = Call(kid, items[i])
      BY <1>7, <2>2 DEF Carries
    <3> QED
      BY <1>4, <3>1
  <2> QED
    BY <2>1, <2>2
<1>8. ASSUME NEW i \in 1..Len(R), NEW j \in 1..Len(R), i < j, R[i].node = R[j].node
      PROVE  R[i].item < R[j].item
  <2>1. CASE i \in 1..Len(S) /\ j \in 1..Len(S)
    BY <1>4, <1>8, <2>1 DEF Carries
  <2>2. CASE i \in 1..Len(S) /\ ~(j \in 1..Len(S))
    BY <1>3, <1>4, <1>5, <1>8, <2>2
  <2>3. CASE ~(i \in 1..Len(S)) /\ ~(j \in 1..Len(S))
    <3>1. i - Len(S) < j - Len(S)
      BY <1>4, <1>8
    <3>2. PICK l, m \in 1..Len(T) : l = i - Len(S) /\ R[i] = T[l] /\ m = j - Len(S) /\ R[j] = T[m]
      BY <1>5, <2>3
    <3> QED
      BY <1>8, <3>1, <3>2 DEF Carries
  <2>4. CASE ~(i \in 1..Len(S)) /\ j \in 1..Len(S)
    BY <1>4, <1>8, <2>4
  <2> QED
    BY <2>1, <2>2, <2>3, <2>4
<1> QED
  BY <1>4, <1>6, <1>7, <1>8 DEF Carries, E, R

\* The loop over the four children.
LEMMA CallsForChildrenCarry ==
    ASSUME NEW pool, NEW first \in Nat, NEW items \in Seq(Nat), Increasing(items)
    PROVE  Carries(CallsForChildren(pool, first, items), pool, first..first + 3, items,
                   Len(items))
<1> DEFINE N == Len(items)
           S(k) == CallsFor(pool, first + k, items)
<1>1. ASSUME NEW k \in 0..3 PROVE Carries(S(k), pool, {first + k}, items, N)
  BY CallsForCarries
<1>2. N \in Nat
  OBVIOUS
<1>3. CallsForChildren(pool, first, items) = ((S(0) \o S(1)) \o S(2)) \o S(3)
  BY DEF CallsForChildren
<1> HIDE DEF N, S
<1>4. Carries(S(0) \o S(1), pool, {first} \cup {first + 1}, items, N)
  <2>1. Carries(S(0), pool, {first}, items, N) /\ Carries(S(1), pool, {first + 1}, items, N)
    BY <1>1
  <2>2. {first} \cap {first + 1} = {} /\ {first} \in SUBSET Nat /\ {first + 1} \in SUBSET Nat
    OBVIOUS
  <2> QED
    BY <1>2, <2>1, <2>2, CarriesBoth
<1>5. Carries((S(0) \o S(1)) \o S(2), pool, ({first} \cup {first + 1}) \cup {first + 2}, items, N)
  <2>1. Carries(S(2), pool, {first + 2}, items, N)
    BY <1>1
  <2>2. /\ ({first} \cup {first + 1}) \cap {first + 2} = {}
        /\ {first} \cup {first + 1} \in SUBSET Nat /\ {first + 2} \in SUBSET Nat
    OBVIOUS
  <2> QED
    BY <1>2, <1>4, <2>1, <2>2, CarriesBoth
<1>6. Carries(((S(0) \o S(1)) \o S(2)) \o S(3), pool,
              (({first} \cup {first + 1}) \cup {first + 2}) \cup {first + 3}, items, N)
  <2>1. Carries(S(3), pool, {first + 3}, items, N)
    BY <1>1
  <2>2. /\ (({first} \cup {first + 1}) \cup {first + 2}) \cap {first + 3} = {}
        /\ ({first} \cup {first + 1}) \cup {first + 2} \in SUBSET Nat
        /\ {first + 3} \in SUBSET Nat
    OBVIOUS
  <2> QED
    BY <1>2, <1>5, <2>1, <2>2, CarriesBoth
<1>7. (({first} \cup {first + 1}) \cup {first + 2}) \cup {first + 3} = first..first + 3
  OBVIOUS
<1> QED
  BY <1>3, <1>6, <1>7 DEF N

\* The calls still pending once the innermost has been replaced by those it makes.
LEMMA HandOver ==
    ASSUME NEW E, NEW S \in Seq(E), NEW q \in Seq(E), q # <<>>
    PROVE  LET r == S \o Tail(q)
           IN  /\ r \in Seq(E) /\ Len(S) \in Nat /\ Len(q) \in Nat \ {0}
               /\ Len(r) = Len(S) + Len(q) - 1
               /\ \A j \in 1..Len(S) : j \in 1..Len(r) /\ r[j] = S[j]
               /\ \A j \in 2..Len(q) : Len(S) + j - 1 \in 1..Len(r) /\ r[Len(S) + j - 1] = q[j]
               /\ \A j \in 1..Len(r) : j \in 1..Len(S) \/
                     (j - Len(S) + 1 \in 2..Len(q) /\ r[j] = q[j - Len(S) + 1])
<1> DEFINE t == Tail(q)
           r == S \o t
<1>1. /\ Len(q) \in Nat \ {0} /\ t \in Seq(E) /\ Len(t) = Len(q) - 1
      /\ \A j \in 1..Len(t) : t[j] = q[j + 1]
  BY HeadTailProperties
<1> HIDE DEF t
<1>2. /\ Len(S) \in Nat /\ r \in Seq(E) /\ Len(r) = Len(S) + Len(t)
      /\ \A j \in 1..Len(S) : r[j] = S[j]
      /\ \A j \in 1..Len(t) : r[Len(S) + j] = t[j]
  <2>1. /\ r \in Seq(E) /\ Len(r) = Len(S) + Len(t)
        /\ \A j \in 1..Len(S) + Len(t) : r[j] = IF j <= Len(S) THEN S[j] ELSE t[j - Len(S)]
    BY <1>1, ConcatProperties
  <2>2. Len(S) \in Nat /\ Len(t) \in Nat
    BY <1>1
  <2> HIDE DEF r
  <2>3. ASSUME NEW j \in 1..Len(t) PROVE r[Len(S) + j] = t[j]
    <3>1. /\ Len(S) + j \in 1..Len(S) + Len(t) /\ ~(Len(S) + j <= Len(S))
          /\ (Len(S) + j) - Len(S) = j
      BY <2>2
    <3> QED
      BY <2>1, <3>1
  <2>4. \A j \in 1..Len(S) : j \in 1..Len(S) + Len(t) /\ j <= Len(S)
    BY <2>2
  <2> QED
    BY <2>1, <2>2, <2>3, <2>4
<1> HIDE DEF r
<1>3. ASSUME NEW j \in 2..Len(q)
      PROVE  Len(S) + j - 1 \in 1..Len(r) /\ r[Len(S) + j - 1] = q[j]
  <2>1. j - 1 \in 1..Len(t) /\ Len(S) + (j - 1) = Len(S) + j - 1 /\ (j - 1) + 1 = j
    BY <1>1, <1>2
  <2>2. r[Len(S) + (j - 1)] = t[j - 1] /\ t[j - 1] = q[(j - 1) + 1]
    BY <1>1, <1>2, <2>1
  <2> QED
    BY <1>1, <1>2, <2>1, <2>2
<1>4. ASSUME NEW j \in 1..Len(r), ~(j \in 1..Len(S))
      PROVE  j - Len(S) + 1 \in 2..Len(q) /\ r[j] = q[j - Len(S) + 1]
  <2>1. j - Len(S) \in 1..Len(t) /\ Len(S) + (j - Len(S)) = j
    BY <1>1, <1>2, <1>4
  <2>2. r[Len(S) + (j - Len(S))] = t[j - Len(S)] /\ t[j - Len(S)] = q[j - Len(S) + 1]
    BY <1>1, <1>2, <2>1
  <2> QED
    BY <1>1, <1>2, <2>1, <2>2
<1>5. \A j \in 1..Len(S) : j \in 1..Len(r) /\ r[j] = S[j]
  BY <1>1, <1>2
<1> QED
  BY <1>1, <1>2, <1>3, <1>4, <1>5 DEF r, t

-----------------------------------------------------------------------------
(* The pool has as many nodes as there are cells.                          *)

\* The number of nodes of a tree satisfies the equations it is defined by.
LEMMA NodesToDefined ==
    /\ NodesTo[0] = 1
    /\ \A n \in Nat : NodesTo[n] \in Nat /\ NodesTo[n + 1] = NodesTo[n] + TwoTo[2 * (n + 1)]
<1> DEFINE Add == [p \in Nat \X Nat |-> p[2] + TwoTo[2 * p[1]]]
           Eq(g) == g = [n \in Nat |-> IF n = 0 THEN 1 ELSE g[n - 1] + TwoTo[2 * n]]
<1>1. PICK g : Iterates(g, Nat, 1, Add)
  <2>1. \A p \in Nat \X Nat : p[2] + TwoTo[2 * p[1]] \in Nat
    <3> TAKE p \in Nat \X Nat
    <3>1. 2 * p[1] \in Nat /\ p[2] \in Nat
      OBVIOUS
    <3> QED
      BY <3>1, Powers
  <2>2. IsStep(Add, Nat)
    BY <2>1 DEF IsStep
  <2> HIDE DEF Add
  <2> QED
    BY <2>2, RecursionExists
<1>2. Eq(g)
  <2>1. \A n \in Nat \ {0} : Add[<<n, g[n - 1]>>] = g[n - 1] + TwoTo[2 * n]
    BY <1>1 DEF Iterates
  <2> HIDE DEF Add
  <2>2. \A n \in Nat : g[n] = IF n = 0 THEN 1 ELSE g[n - 1] + TwoTo[2 * n]
    BY <1>1, <2>1 DEF Iterates
  <2> QED
    BY <1>1, <2>2 DEF Iterates
<1>3. NodesTo = CHOOSE h : Eq(h)
  BY DEF NodesTo
<1>4. Eq(NodesTo)
  <2> HIDE DEF Eq
  <2> QED
    BY <1>2, <1>3
<1>5. NodesTo[0] = 1
  BY <1>4
<1>6. \A n \in Nat : NodesTo[n + 1] = NodesTo[n] + TwoTo[2 * (n + 1)]
  <2> TAKE n \in Nat
  <2>1. NodesTo[n + 1] = NodesTo[(n + 1) - 1] + TwoTo[2 * (n + 1)]
    BY <1>4
  <2> QED
    BY <2>1
<1>7. \A n \in Nat : NodesTo[n] \in Nat
  <2> DEFINE S == {n \in Nat : NodesTo[n] \in Nat}
  <2>1. 0 \in S
    BY <1>5
  <2>2. ASSUME NEW n \in Nat, n \in S PROVE n + 1 \in S
    <3>1. 2 * (n + 1) \in Nat
      OBVIOUS
    <3>2. TwoTo[2 * (n + 1)] \in Nat
      BY <3>1, Powers
    <3> QED
      BY <1>6, <2>2, <3>2
  <2>3. Nat \subseteq S
    <3> HIDE DEF S
    <3> QED
      BY <2>1, <2>2, NaturalsFromZero
  <2> QED
    BY <2>3
<1> QED
  BY <1>5, <1>6, <1>7

\* A depth has 4^depth cells.
LEMMA SquareOfPower == \A n \in Nat : TwoTo[2 * n] = TwoTo[n] * TwoTo[n]
<1> DEFINE S == {n \in Nat : TwoTo[2 * n] = TwoTo[n] * TwoTo[n]}
<1>1. 0 \in S
  BY Powers
<1>2. ASSUME NEW n \in Nat, n \in S PROVE n + 1 \in S
  <2>1. 2 * n \in Nat /\ 2 * n + 1 \in Nat /\ 2 * (n + 1) = (2 * n + 1) + 1
    OBVIOUS
  <2>2. TwoTo[2 * (n + 1)] = 2 * (2 * TwoTo[2 * n])
    BY <2>1, Powers
  <2>3. TwoTo[n] \in Nat /\ TwoTo[n + 1] = 2 * TwoTo[n]
    BY Powers
  <2> QED
    BY <1>2, <2>2, <2>3
<1>3. Nat \subseteq S
  <2> HIDE DEF S
  <2> QED
    BY <1>1, <1>2, NaturalsFromZero
<1> QED
  BY <1>3

CellsOf(depth) == {<<depth, x, y>> : x, y \in 0..(TwoTo[depth] - 1)}

CellsTo(depth) == UNION {CellsOf(d) : d \in 0..depth}

\* At each depth there are at most four times as many cells as at the one before ...
LEMMA CellsOfCounted ==
    ASSUME NEW depth \in Nat
    PROVE  IsFiniteSet(CellsOf(depth)) /\ Cardinality(CellsOf(depth)) <= TwoTo[2 * depth]
<1> DEFINE w == TwoTo[depth]
           I == 0..w - 1
           f == [p \in I \X I |-> <<depth, p[1], p[2]>>]
<1>1. w \in Nat \ {0} /\ w * w = TwoTo[2 * depth]
  BY Powers, SquareOfPower
<1>2. IsFiniteSet(I) /\ Cardinality(I) = w
  <2> HIDE DEF w
  <2>1. w - 1 \in Int /\ ~(0 > w - 1) /\ (w - 1) - 0 + 1 = w
    BY <1>1
  <2> QED
    BY <2>1, FS_Interval
<1>3. f \in Surjection(I \X I, CellsOf(depth))
  <2>1. f \in [I \X I -> CellsOf(depth)]
    BY DEF CellsOf
  <2>2. \A cell \in CellsOf(depth) : \E p \in I \X I : f[p] = cell
    <3> TAKE cell \in CellsOf(depth)
    <3>1. PICK x, y \in I : cell = <<depth, x, y>>
      BY DEF CellsOf
    <3>2. <<x, y>> \in I \X I /\ f[<<x, y>>] = cell
      BY <3>1
    <3> QED
      BY <3>2
  <2> QED
    BY <2>1, <2>2 DEF Surjection
<1> HIDE DEF f, I, w
<1>4. IsFiniteSet(I \X I) /\ Cardinality(I \X I) = w * w
  BY <1>2, FS_Product
<1> QED
  BY <1>1, <1>3, <1>4, FS_Surjection

\* ... and so no more cells than the pool has nodes.
LEMMA CellsCounted == IsFiniteSet(Cells) /\ Cardinality(Cells) <= PoolSize /\ PoolSize \in Nat
<1> DEFINE S == {n \in Nat : IsFiniteSet(CellsTo(n)) /\ Cardinality(CellsTo(n)) <= NodesTo[n]}
<1>1. 0 \in S
  <2>1. CellsTo(0) = CellsOf(0)
    <3>1. 0..0 = {0}
      OBVIOUS
    <3> QED
      BY <3>1 DEF CellsTo
  <2>2. TwoTo[2 * 0] = 1
    BY Powers
  <2> QED
    BY <2>1, <2>2, CellsOfCounted, NodesToDefined
<1>2. ASSUME NEW n \in Nat, n \in S PROVE n + 1 \in S
  <2> DEFINE A == CellsTo(n)
             B == CellsOf(n + 1)
  <2>1. CellsTo(n + 1) = A \cup B
    <3>1. 0..n + 1 = 0..n \cup {n + 1}
      OBVIOUS
    <3> QED
      BY <3>1 DEF CellsTo
  <2>2. IsFiniteSet(A) /\ Cardinality(A) <= NodesTo[n]
    BY <1>2
  <2>3. IsFiniteSet(B) /\ Cardinality(B) <= TwoTo[2 * (n + 1)]
    BY CellsOfCounted
  <2> HIDE DEF A, B
  <2>4. /\ IsFiniteSet(A \cup B)
        /\ Cardinality(A \cup B) = Cardinality(A) + Cardinality(B) - Cardinality(A \cap B)
    BY <2>2, <2>3, FS_Union
  <2>5. IsFiniteSet(A \cap B)
    BY <2>2, FS_Intersection
  <2>6. Cardinality(A) \in Nat /\ Cardinality(B) \in Nat /\ Cardinality(A \cap B) \in Nat
    BY <2>2, <2>3, <2>5, FS_CardinalityType
  <2>7. NodesTo[n] \in Nat /\ NodesTo[n + 1] = NodesTo[n] + TwoTo[2 * (n + 1)]
    BY NodesToDefined
  <2>8. TwoTo[2 * (n + 1)] \in Nat
    <3>1. 2 * (n + 1) \in Nat
      OBVIOUS
    <3> QED
      BY <3>1, Powers
  <2>9. Cardinality(A \cup B) <= NodesTo[n + 1]
    BY <2>2, <2>3, <2>4, <2>6, <2>7, <2>8
  <2> QED
    BY <2>1, <2>4, <2>9
<1>3. Nat \subseteq S
  <2> HIDE DEF S
  <2> QED
    BY <1>1, <1>2, NaturalsFromZero
<1>4. MAX_DEPTH \in Nat
  BY QuadAssumption
<1>5. Cells = CellsTo(MAX_DEPTH)
  BY DEF Cells, CellsTo, CellsOf
<1> QED
  BY <1>3, <1>4, <1>5, NodesToDefined DEF PoolSize

-----------------------------------------------------------------------------
(* The steps keep the invariant.                                           *)

\* The types of what the actions read, one by one.
LEMMA TypeFacts ==
    ASSUME TreeTypeOK
    PROVE  /\ PoolSize \in Nat /\ nodeIndex \in Nat \ {0} /\ nodeIndex <= PoolSize
           /\ Live \subseteq 0..PoolSize - 1 /\ Live \subseteq Nat /\ 0 \in Live
           /\ DOMAIN Nodes = 0..PoolSize - 1
           /\ \A n \in 0..PoolSize - 1 :
                 /\ Nodes[n] \in NodeType /\ List(n) \in Seq(Nat)
                 /\ Nodes[n].Children \in Nat /\ Nodes[n].Depth \in Nat
           /\ calls \in Seq([node : Nat, item : Nat]) /\ Len(calls) \in Nat
           /\ Len(aabbs) \in Nat
<1>1. PoolSize \in Nat
  BY CellsCounted
<1>2. nodeIndex \in Nat \ {0} /\ nodeIndex <= PoolSize
  BY DEF TreeTypeOK
<1>3. Live \subseteq 0..PoolSize - 1 /\ Live \subseteq Nat /\ 0 \in Live
  BY <1>1, <1>2 DEF Live
<1>4. \A n \in 0..PoolSize - 1 :
         /\ Nodes[n] \in NodeType /\ List(n) \in Seq(Nat)
         /\ Nodes[n].Children \in Nat /\ Nodes[n].Depth \in Nat
  BY DEF TreeTypeOK, NodeType, List
<1>5. /\ calls \in Seq([node : Nat, item : Nat]) /\ Len(calls) \in Nat
      /\ Len(aabbs) \in Nat
  BY DEF TreeTypeOK
<1>6. DOMAIN Nodes = 0..PoolSize - 1
  BY DEF TreeTypeOK
<1> QED
  BY <1>1, <1>2, <1>3, <1>4, <1>5, <1>6

\* The boxes of a frame, as GetBounds makes them.
LEMMA FrameBoxes ==
    ASSUME NEW boxes \in Seq(Boxes)
    PROVE  /\ OrderedBoxes(boxes) /\ IntegerBox(RootBounds(boxes))
           /\ boxes # <<>> => Ordered(RootBounds(boxes))
           /\ \A i \in 1..Len(boxes) : IntegerBox(Scaled(boxes[i]))
<1>1. /\ DOMAIN boxes = 1..Len(boxes) /\ Len(boxes) \in Nat
      /\ \A i \in 1..Len(boxes) : boxes[i] \in Boxes
  OBVIOUS
<1>2. \A i \in 1..Len(boxes) : Ordered(boxes[i])
  BY <1>1, BoxesAssumption DEF Ordered
<1>3. OrderedBoxes(boxes)
  BY <1>1, <1>2, FS_Interval DEF OrderedBoxes
<1>4. IntegerBox(RootBounds(boxes))
  BY <1>3, RootCovers DEF IntegerBox
<1>5. ASSUME boxes # <<>> PROVE Ordered(RootBounds(boxes))
  <2>1. 1 \in 1..Len(boxes)
    BY <1>1, <1>5, EmptySeq
  <2>2. ASSUME NEW k \in 1..2
        PROVE  RootBounds(boxes).minBound[k] <= RootBounds(boxes).maxBound[k]
    <3>1. /\ RootBounds(boxes).minBound[k] \in Int /\ RootBounds(boxes).maxBound[k] \in Int
          /\ RootBounds(boxes).minBound[k] <= boxes[1].minBound[k]
          /\ boxes[1].maxBound[k] <= RootBounds(boxes).maxBound[k]
      BY <1>1, <1>3, <2>1, RootCovers
    <3>2. /\ boxes[1].minBound[k] \in Int /\ boxes[1].maxBound[k] \in Int
          /\ boxes[1].minBound[k] <= boxes[1].maxBound[k]
      BY <1>2, <2>1 DEF Ordered
    <3> QED
      BY <3>1, <3>2
  <2> QED
    BY <1>4, <2>2 DEF Ordered, IntegerBox
<1>6. \A i \in 1..Len(boxes) : IntegerBox(Scaled(boxes[i]))
  <2> TAKE i \in 1..Len(boxes)
  <2>1. IntegerBox(boxes[i])
    BY <1>2 DEF Ordered, IntegerBox
  <2> QED
    BY <2>1, ScaledIsBox
<1> QED
  BY <1>3, <1>4, <1>5, <1>6

\* The innermost call.
LEMMA HeadCall ==
    ASSUME TreeTypeOK, calls # <<>>
    PROVE  /\ Len(calls) \in Nat \ {0} /\ 1 \in 1..Len(calls) /\ Head(calls) = calls[1]
           /\ calls[1].node \in Live /\ calls[1].item \in 1..next - 1
           /\ calls[1].item \in Nat /\ calls[1].item \in 1..Len(aabbs)
           /\ next \in Nat /\ aabbs # <<>>
<1>1. Len(calls) \in Nat \ {0} /\ Head(calls) = calls[1]
  BY TypeFacts, EmptySeq
<1>2. calls[1].node \in Live /\ calls[1].item \in 1..next - 1
  BY <1>1 DEF TreeTypeOK
<1>3. next \in Nat /\ next <= Len(aabbs) + 1 /\ Len(aabbs) \in Nat
  BY TypeFacts DEF TreeTypeOK
<1>4. calls[1].item \in Nat /\ calls[1].item \in 1..Len(aabbs)
  BY <1>2, <1>3
<1>5. aabbs # <<>>
  BY <1>4
<1> QED
  BY <1>1, <1>2, <1>3, <1>4, <1>5

\* A step that leaves the nodes, the boxes and their number alone keeps what is said of them only.
LEMMA SameTree ==
    ASSUME NEW C, NEW Up, TreeInvFor(C, Up), UNCHANGED <<Nodes, nodeIndex, aabbs>>
    PROVE  /\ PoolOK' /\ CellsOK(C)' /\ BoundsOK(C)' /\ DivisionOK(C)'
           /\ PathsOK(Up)' /\ NestOK(Up)'
           /\ Live' = Live
           /\ \A n : (IsLeaf(n)' <=> IsLeaf(n)) /\ List(n)' = List(n)
           /\ \A n, item : Hits(item, n)' <=> Hits(item, n)
<1>1. Live' = Live
  BY DEF Live
<1>2. \A n : (IsLeaf(n)' <=> IsLeaf(n)) /\ List(n)' = List(n)
  BY DEF IsLeaf, List
<1>3. \A n, item : Hits(item, n)' <=> Hits(item, n)
  BY DEF Hits
<1>4. \A n, k : Child(n, k)' = Child(n, k)
  BY DEF Child
<1>5. PoolOK'
  BY <1>1, <1>2, <1>4 DEF TreeInvFor, PoolOK
<1>6. CellsOK(C)'
  BY <1>1, <1>2, <1>4 DEF TreeInvFor, CellsOK
<1>7. BoundsOK(C)' /\ DivisionOK(C)'
  <2>1. Root' = Root
    BY DEF Root
  <2> QED
    BY <1>1, <1>2, <2>1 DEF TreeInvFor, BoundsOK, DivisionOK
<1>8. PathsOK(Up)'
  BY <1>1, <1>2, <1>4 DEF TreeInvFor, PathsOK
<1>9. NestOK(Up)'
  BY <1>1, <1>3 DEF TreeInvFor, NestOK
<1> QED
  BY <1>1, <1>2, <1>3, <1>5, <1>6, <1>7, <1>8, <1>9

\* Insert of the next box: a call for the root, and what hits the root is on its way.
LEMMA InsertNextKeeps ==
    ASSUME NEW C, NEW Up, TreeInvFor(C, Up), InsertNext
    PROVE  TreeInvFor(C, Up)'
<1>1. /\ calls = <<>> /\ next <= Len(aabbs) /\ next' = next + 1
      /\ calls' = <<[node |-> 0, item |-> next]>>
      /\ UNCHANGED <<Nodes, nodeIndex, aabbs>>
  BY DEF InsertNext
<1>2. TreeTypeOK
  BY DEF TreeInvFor
<1>3. /\ Len(calls) = 0 /\ Len(calls') = 1 /\ calls'[1].node = 0 /\ calls'[1].item = next
      /\ 1..Len(calls) = {} /\ 1..Len(calls') = {1}
  BY <1>1
<1>4. /\ next \in Nat \ {0} /\ Len(aabbs) \in Nat /\ 0 \in Live
      /\ 1..next' - 1 = 1..next - 1 \cup {next}
  BY <1>1, <1>2, TypeFacts DEF TreeTypeOK
<1>5. /\ PoolOK' /\ CellsOK(C)' /\ BoundsOK(C)' /\ DivisionOK(C)'
      /\ PathsOK(Up)' /\ NestOK(Up)'
      /\ Live' = Live
      /\ \A n : (IsLeaf(n)' <=> IsLeaf(n)) /\ List(n)' = List(n)
      /\ \A n, item : Hits(item, n)' <=> Hits(item, n)
  BY <1>1, SameTree
<1>6. TreeTypeOK'
  <2>1. calls' \in Seq([node : Nat, item : Nat])
    BY <1>1, <1>4
  <2>2. next' \in Nat \ {0} /\ next' <= Len(aabbs') + 1
    BY <1>1, <1>4
  <2>3. \A j \in 1..Len(calls') : calls'[j].node \in Live' /\ calls'[j].item \in 1..next' - 1
    BY <1>3, <1>4, <1>5
  <2> QED
    BY <1>1, <1>2, <2>1, <2>2, <2>3 DEF TreeTypeOK
<1>7. OrderOK(Up)'
  <2>1. /\ \A n \in Live : Increasing(List(n))
        /\ \A n \in Live : \A i \in DOMAIN List(n) : List(n)[i] \in 1..next - 1
    BY DEF TreeInvFor, OrderOK
  <2>2. \A n \in Live : \A i \in DOMAIN List(n) : List(n)[i] < next /\ List(n)[i] \in 1..next' - 1
    BY <1>4, <2>1
  <2> QED
    BY <1>3, <1>5, <2>1, <2>2 DEF OrderOK
<1>8. ReachOK(Up)'
  <2>1. ASSUME NEW n \in Live, NEW item \in 1..next' - 1, IsLeaf(n), Hits(item, n)
        PROVE  \/ \E i \in DOMAIN List(n) : List(n)[i] = item
               \/ \E j \in 1..Len(calls') : calls'[j].item = item /\ calls'[j].node \in Up[n]
    <3>1. CASE item \in 1..next - 1
      BY <1>3, <2>1, <3>1 DEF TreeInvFor, ReachOK
    <3>2. CASE item = next
      <4>1. 0 \in Up[n]
        BY DEF TreeInvFor, PathsOK
      <4> QED
        BY <1>3, <3>2, <4>1
    <3> QED
      BY <1>4, <3>1, <3>2
  <2>2. \A n \in Live : \A i \in DOMAIN List(n) : Hits(List(n)[i], n)
    BY DEF TreeInvFor, ReachOK
  <2>3. \A j \in 1..Len(calls') : Hits(calls'[j].item, calls'[j].node)
    BY <1>3 DEF Hits
  <2> QED
    BY <1>5, <2>1, <2>2, <2>3 DEF ReachOK
<1> QED
  BY <1>5, <1>6, <1>7, <1>8 DEF TreeInvFor

\* A call for a divided node becomes calls for the children the box hits.
LEMMA DescendKeeps ==
    ASSUME NEW C, NEW Up, TreeInvFor(C, Up), Descend
    PROVE  TreeInvFor(C, Up)'
<1> DEFINE E == [node : Nat, item : Nat]
           h == calls[1].node
           it == calls[1].item
           first == Nodes[h].Children
           S == CallsForChildren(Nodes, first, <<it>>)
           kids == first..first + 3
<1>1. /\ TreeTypeOK /\ calls # <<>> /\ UNCHANGED <<Nodes, nodeIndex, aabbs, next>>
  BY DEF TreeInvFor, Descend
<1>2. /\ Len(calls) \in Nat \ {0} /\ 1 \in 1..Len(calls) /\ Head(calls) = calls[1]
      /\ h \in Live /\ it \in 1..next - 1 /\ it \in Nat
  BY <1>1, HeadCall
<1>3. ~IsLeaf(h) /\ calls' = S \o Tail(calls)
  BY <1>2 DEF Descend
<1>4. /\ PoolOK' /\ CellsOK(C)' /\ BoundsOK(C)' /\ DivisionOK(C)'
      /\ PathsOK(Up)' /\ NestOK(Up)'
      /\ Live' = Live
      /\ \A n : (IsLeaf(n)' <=> IsLeaf(n)) /\ List(n)' = List(n)
      /\ \A n, item : Hits(item, n)' <=> Hits(item, n)
  BY <1>1, SameTree
<1>5. /\ first \in Nat \ {0} /\ kids \subseteq Live /\ kids \subseteq Nat \ {0}
      /\ calls \in Seq(E)
  <2>1. first \in Nat /\ nodeIndex \in Nat /\ calls \in Seq(E)
    BY <1>1, <1>2, TypeFacts
  <2>2. h < first /\ first + 3 < nodeIndex /\ h \in Nat
    BY <1>1, <1>2, <1>3, TypeFacts DEF TreeInvFor, PoolOK
  <2> HIDE DEF first, h
  <2> QED
    BY <2>1, <2>2 DEF Live
<1>6. Carries(S, Nodes, kids, <<it>>, 1)
  <2>1. <<it>> \in Seq(Nat) /\ Len(<<it>>) = 1
    BY <1>2
  <2>2. Increasing(<<it>>)
    BY DEF Increasing
  <2> QED
    BY <1>5, <2>1, <2>2, CallsForChildrenCarry
<1> HIDE DEF S, it, h, first, kids, E
<1>7. /\ S \in Seq([node : kids, item : Nat]) /\ S \in Seq(E)
      /\ \A j \in 1..Len(S) : S[j].item = it /\ S[j].node \in kids /\ Hits(it, S[j].node)
      /\ \A i, j \in 1..Len(S) : i < j => S[i].node # S[j].node
      /\ \A kid \in kids : Hits(it, kid) => \E j \in 1..Len(S) : S[j].node = kid
  <2>1. S \in Seq([node : kids, item : Nat])
    BY <1>6 DEF Carries
  <2>2. S \in Seq(E)
    <3>1. [node : kids, item : Nat] \subseteq E
      BY <1>5 DEF E
    <3> QED
      BY <2>1, <3>1, SeqMonotonic
  <2>3. \A j \in 1..Len(S) : S[j].node \in kids
    <3>1. \A j \in 1..Len(S) : S[j] \in [node : kids, item : Nat]
      BY <2>1, ElementOfSeq
    <3> QED
      BY <3>1
  <2>4. \A j \in 1..Len(S) : S[j].item = it
    <3>1. \A i \in 1..1 : <<it>>[i] = it
      OBVIOUS
    <3> QED
      BY <1>6, <3>1 DEF Carries
  <2>5. \A j \in 1..Len(S) : Hits(it, S[j].node)
    BY <1>6, <2>4 DEF Carries, Hits
  <2>6. \A i, j \in 1..Len(S) : i < j => S[i].node # S[j].node
    <3>1. ~(it < it)
      BY <1>2
    <3> QED
      BY <1>6, <2>4, <3>1 DEF Carries
  <2>7. ASSUME NEW kid \in kids, Hits(it, kid)
        PROVE  \E j \in 1..Len(S) : S[j].node = kid
    <3>1. kid # 0 /\ 1 \in 1..1 /\ <<it>>[1] = it
      BY <1>5
    <3>2. PICK j \in 1..Len(S) : S[j] = Call(kid, it)
      BY <1>6, <2>7, <3>1 DEF Carries, Hits
    <3> QED
      BY <3>2 DEF Call
  <2> QED
    BY <2>1, <2>2, <2>3, <2>4, <2>5, <2>6, <2>7
<1>8. /\ calls' \in Seq(E) /\ Len(S) \in Nat
      /\ Len(calls') = Len(S) + Len(calls) - 1
      /\ \A j \in 1..Len(S) : j \in 1..Len(calls') /\ calls'[j] = S[j]
      /\ \A j \in 2..Len(calls) : /\ Len(S) + j - 1 \in 1..Len(calls')
                                  /\ calls'[Len(S) + j - 1] = calls[j]
      /\ \A j \in 1..Len(calls') : j \in 1..Len(S) \/
            (j - Len(S) + 1 \in 2..Len(calls) /\ calls'[j] = calls[j - Len(S) + 1])
  <2> HIDE DEF E
  <2> QED
    BY <1>1, <1>3, <1>5, <1>7, HandOver
<1>14. \A kid \in kids : \E k \in 0..3 : kid = Child(h, k)
  <2>1. \A kid \in kids : kid - first \in 0..3 /\ kid = first + (kid - first)
    BY <1>5 DEF kids
  <2> QED
    BY <2>1 DEF Child, first
<1>15. \A k \in 0..3 : Child(h, k) \in kids
  <2>1. \A k \in 0..3 : first + k \in kids
    BY <1>5 DEF kids
  <2> QED
    BY <2>1 DEF Child, first
<1>16. \A j \in 1..Len(calls') : ~(j \in 1..Len(S)) =>
          \E m \in 1..Len(calls) : calls'[j] = calls[m] /\ 1 < m /\ m = j - Len(S) + 1
  <2> SUFFICES ASSUME NEW j \in 1..Len(calls'), ~(j \in 1..Len(S))
               PROVE  \E m \in 1..Len(calls) : calls'[j] = calls[m] /\ 1 < m /\ m = j - Len(S) + 1
    OBVIOUS
  <2>1. PICK m \in 2..Len(calls) : calls'[j] = calls[m] /\ m = j - Len(S) + 1
    BY <1>8
  <2>2. m \in 1..Len(calls) /\ 1 < m
    BY <1>2
  <2> QED
    BY <2>1, <2>2
<1>9. \A n \in Live, j \in 1..Len(S) : S[j].node \in Up[n] => h \in Up[n]
  <2> SUFFICES ASSUME NEW n \in Live, NEW j \in 1..Len(S), S[j].node \in Up[n]
               PROVE  h \in Up[n]
    OBVIOUS
  <2>1. PICK k \in 0..3 : S[j].node = Child(h, k)
    BY <1>7, <1>14
  <2> QED
    BY <1>2, <1>3, <2>1 DEF TreeInvFor, PathsOK
<1>10. \A n \in Live, i, j \in 1..Len(S) :
            i < j => ~(S[i].node \in Up[n] /\ S[j].node \in Up[n])
  <2> SUFFICES ASSUME NEW n \in Live, NEW i \in 1..Len(S), NEW j \in 1..Len(S), i < j,
                      S[i].node \in Up[n], S[j].node \in Up[n]
               PROVE  FALSE
    OBVIOUS
  <2>2. PICK k \in 0..3 : S[i].node = Child(h, k)
    BY <1>7, <1>14
  <2>3. PICK l \in 0..3 : S[j].node = Child(h, l)
    BY <1>7, <1>14
  <2>4. k = l
    BY <1>2, <1>3, <2>2, <2>3 DEF TreeInvFor, PathsOK
  <2> QED
    BY <1>7, <2>2, <2>3, <2>4
<1>11. TreeTypeOK'
  <2>1. \A j \in 1..Len(calls') : calls'[j].node \in Live /\ calls'[j].item \in 1..next - 1
    <3> TAKE j \in 1..Len(calls')
    <3>1. CASE j \in 1..Len(S)
      <4>1. calls'[j].node \in kids /\ calls'[j].item = it
        BY <1>7, <1>8, <3>1
      <4> QED
        BY <1>2, <1>5, <4>1
    <3>2. CASE ~(j \in 1..Len(S))
      <4>1. PICK m \in 1..Len(calls) : calls'[j] = calls[m]
        BY <1>16, <3>2
      <4> QED
        BY <1>1, <4>1 DEF TreeTypeOK
    <3> QED
      BY <3>1, <3>2
  <2> QED
    BY <1>1, <1>4, <1>8, <2>1 DEF TreeTypeOK, E
<1>12. OrderOK(Up)'
  <2>1. ASSUME NEW n \in Live, NEW j \in 1..Len(calls'), IsLeaf(n), calls'[j].node \in Up[n],
               NEW i \in DOMAIN List(n)
        PROVE  List(n)[i] < calls'[j].item
    <3>1. CASE j \in 1..Len(S)
      <4>1. h \in Up[n] /\ calls'[j].item = it
        BY <1>7, <1>8, <1>9, <2>1, <3>1
      <4> QED
        BY <1>2, <2>1, <4>1 DEF TreeInvFor, OrderOK, h, it
    <3>2. CASE ~(j \in 1..Len(S))
      <4>1. PICK m \in 1..Len(calls) : calls'[j] = calls[m]
        BY <1>16, <3>2
      <4> QED
        BY <2>1, <4>1 DEF TreeInvFor, OrderOK
    <3> QED
      BY <3>1, <3>2
  <2>2. ASSUME NEW n \in Live, NEW i \in 1..Len(calls'), NEW j \in 1..Len(calls'), i < j,
               calls'[i].node \in Up[n], calls'[j].node \in Up[n]
        PROVE  calls'[i].item < calls'[j].item
    <3>1. CASE i \in 1..Len(S) /\ j \in 1..Len(S)
      BY <1>8, <1>10, <2>2, <3>1
    <3>2. CASE i \in 1..Len(S) /\ ~(j \in 1..Len(S))
      <4>1. PICK m \in 1..Len(calls) : calls'[j] = calls[m] /\ 1 < m
        BY <1>16, <3>2
      <4>2. calls'[i] = S[i] /\ calls'[i].item = it
        BY <1>7, <1>8, <3>2
      <4>3. h \in Up[n]
        BY <1>9, <2>2, <3>2, <4>2
      <4> QED
        BY <1>2, <2>2, <4>1, <4>2, <4>3 DEF TreeInvFor, OrderOK, h, it
    <3>3. CASE ~(i \in 1..Len(S)) /\ ~(j \in 1..Len(S))
      <4>1. PICK l \in 1..Len(calls) : l = i - Len(S) + 1 /\ calls'[i] = calls[l]
        BY <1>16, <3>3
      <4>2. PICK m \in 1..Len(calls) : m = j - Len(S) + 1 /\ calls'[j] = calls[m]
        BY <1>16, <3>3
      <4>3. l < m
        BY <1>8, <2>2, <4>1, <4>2
      <4> QED
        BY <2>2, <4>1, <4>2, <4>3 DEF TreeInvFor, OrderOK
    <3>4. CASE ~(i \in 1..Len(S)) /\ j \in 1..Len(S)
      BY <1>8, <2>2, <3>4
    <3> QED
      BY <3>1, <3>2, <3>3, <3>4
  <2>3. \A n \in Live : Increasing(List(n)) /\ \A i \in DOMAIN List(n) : List(n)[i] \in 1..next - 1
    BY DEF TreeInvFor, OrderOK
  <2> QED
    BY <1>1, <1>4, <2>1, <2>2, <2>3 DEF OrderOK
<1>13. ReachOK(Up)'
  <2>1. ASSUME NEW n \in Live, NEW item \in 1..next - 1, IsLeaf(n), Hits(item, n)
        PROVE  \/ \E i \in DOMAIN List(n) : List(n)[i] = item
               \/ \E j \in 1..Len(calls') : calls'[j].item = item /\ calls'[j].node \in Up[n]
    <3>1. CASE \E i \in DOMAIN List(n) : List(n)[i] = item
      BY <3>1
    <3>2. CASE \E j \in 1..Len(calls) : calls[j].item = item /\ calls[j].node \in Up[n]
      <4>1. PICK j \in 1..Len(calls) : calls[j].item = item /\ calls[j].node \in Up[n]
        BY <3>2
      <4>2. CASE j = 1
        <5>1. h \in Up[n] /\ it = item /\ n # h
          BY <1>3, <2>1, <4>1, <4>2 DEF h, it
        <5>2. PICK k \in 0..3 : Child(h, k) \in Up[n]
          BY <1>2, <1>3, <5>1 DEF TreeInvFor, PathsOK
        <5>3. Hits(it, Child(h, k))
          <6>1. it \in 1..Len(aabbs)
            BY <1>1, HeadCall DEF it
          <6> QED
            BY <2>1, <5>1, <5>2, <6>1 DEF TreeInvFor, NestOK
        <5>4. Child(h, k) \in kids
          BY <1>15
        <5>5. PICK m \in 1..Len(S) : S[m].node = Child(h, k)
          BY <1>7, <5>3, <5>4
        <5>6. m \in 1..Len(calls') /\ calls'[m].item = item /\ calls'[m].node \in Up[n]
          <6>1. m \in 1..Len(calls') /\ calls'[m] = S[m]
            BY <1>8
          <6>2. S[m].item = it /\ S[m].node \in Up[n]
            BY <1>7, <5>2, <5>5
          <6> QED
            BY <5>1, <6>1, <6>2
        <5> QED
          BY <5>6
      <4>3. CASE j # 1
        <5>1. j \in 2..Len(calls)
          BY <1>2, <4>3
        <5> QED
          BY <1>8, <4>1, <5>1
      <4> QED
        BY <4>2, <4>3
    <3> QED
      BY <2>1, <3>1, <3>2 DEF TreeInvFor, ReachOK
  <2>2. \A n \in Live : \A i \in DOMAIN List(n) : Hits(List(n)[i], n)
    BY DEF TreeInvFor, ReachOK
  <2>3. ASSUME NEW j \in 1..Len(calls') PROVE Hits(calls'[j].item, calls'[j].node)
    <3>1. CASE j \in 1..Len(S)
      <4>1. calls'[j] = S[j] /\ S[j].item = it /\ Hits(it, S[j].node)
        BY <1>7, <1>8, <3>1
      <4> QED
        BY <4>1
    <3>2. CASE ~(j \in 1..Len(S))
      <4>1. PICK m \in 1..Len(calls) : calls'[j] = calls[m]
        BY <1>16, <3>2
      <4> QED
        BY <4>1 DEF TreeInvFor, ReachOK
    <3> QED
      BY <3>1, <3>2
  <2> QED
    BY <1>1, <1>4, <2>1, <2>2, <2>3 DEF ReachOK
<1> QED
  BY <1>4, <1>11, <1>12, <1>13 DEF TreeInvFor

\* A box is appended to a leaf that has room, or is at the last depth.
LEMMA PushBackKeeps ==
    ASSUME NEW C, NEW Up, TreeInvFor(C, Up), PushBack
    PROVE  TreeInvFor(C, Up)'
<1> DEFINE E == [node : Nat, item : Nat]
<1>1. /\ TreeTypeOK /\ calls # <<>> /\ UNCHANGED <<nodeIndex, aabbs, next>>
      /\ calls' = Tail(calls)
  BY DEF TreeInvFor, PushBack
<1>20. PICK h, it : h = calls[1].node /\ it = calls[1].item
  OBVIOUS
<1>2. /\ Len(calls) \in Nat \ {0} /\ 1 \in 1..Len(calls) /\ Head(calls) = calls[1]
      /\ h \in Live /\ it \in 1..next - 1 /\ it \in Nat
  BY <1>1, <1>20, HeadCall
<1>3. /\ IsLeaf(h) /\ ~Full(h)
      /\ Nodes' = [Nodes EXCEPT ![h].ColliderRefAabbs = Append(@, it)]
  BY <1>2, <1>20 DEF PushBack
<1>4. /\ PoolSize \in Nat /\ Live \subseteq 0..PoolSize - 1 /\ Live \subseteq Nat
      /\ DOMAIN Nodes = 0..PoolSize - 1 /\ calls \in Seq(E)
      /\ \A n \in 0..PoolSize - 1 : Nodes[n] \in NodeType /\ List(n) \in Seq(Nat)
      /\ Nodes \in [0..PoolSize - 1 -> NodeType]
  BY <1>1, TypeFacts DEF TreeTypeOK
<1> HIDE DEF E
<1>5. /\ calls' \in Seq(E) /\ Len(calls') = Len(calls) - 1
      /\ \A j \in 1..Len(calls') :
            j + 1 \in 1..Len(calls) /\ calls'[j] = calls[j + 1] /\ 1 < j + 1
      /\ \A j \in 1..Len(calls) : j # 1 => j - 1 \in 1..Len(calls') /\ calls'[j - 1] = calls[j]
  <2>1. /\ calls' \in Seq(E) /\ Len(calls') = Len(calls) - 1
        /\ \A j \in 1..Len(calls') : calls'[j] = calls[j + 1]
    BY <1>1, <1>4, HeadTailProperties
  <2>2. \A j \in 1..Len(calls') : j + 1 \in 1..Len(calls) /\ 1 < j + 1
    BY <1>2, <2>1
  <2>3. \A j \in 1..Len(calls) : j # 1 => j - 1 \in 1..Len(calls') /\ (j - 1) + 1 = j
    BY <1>2, <2>1
  <2> QED
    BY <2>1, <2>2, <2>3
<1>6. /\ Live' = Live
      /\ \A n \in 0..PoolSize - 1 :
            /\ Nodes'[n].Children = Nodes[n].Children /\ Nodes'[n].Depth = Nodes[n].Depth
            /\ Nodes'[n].Bounds = Nodes[n].Bounds
            /\ n # h => Nodes'[n] = Nodes[n]
      /\ Nodes' \in [0..PoolSize - 1 -> NodeType]
      /\ Nodes'[h].ColliderRefAabbs = Append(List(h), it)
  <2>1. h \in 0..PoolSize - 1 /\ Nodes[h] \in NodeType /\ Append(List(h), it) \in Seq(Nat)
    BY <1>2, <1>4
  <2>2. Nodes'[h] = [Nodes[h] EXCEPT !.ColliderRefAabbs = Append(@, it)]
    BY <1>3, <1>4, <2>1
  <2>3. \A n \in 0..PoolSize - 1 : n # h => Nodes'[n] = Nodes[n]
    BY <1>3, <1>4
  <2>4. /\ Nodes'[h].Children = Nodes[h].Children /\ Nodes'[h].Depth = Nodes[h].Depth
        /\ Nodes'[h].Bounds = Nodes[h].Bounds
        /\ Nodes'[h].ColliderRefAabbs = Append(List(h), it)
        /\ Nodes'[h] \in NodeType
    BY <2>1, <2>2 DEF NodeType, List
  <2>5. Nodes' \in [0..PoolSize - 1 -> NodeType]
    <3>1. DOMAIN Nodes' = 0..PoolSize - 1 /\ Nodes' = [n \in 0..PoolSize - 1 |-> Nodes'[n]]
      BY <1>3, <1>4
    <3>2. \A n \in 0..PoolSize - 1 : Nodes'[n] \in NodeType
      BY <1>4, <2>3, <2>4
    <3> QED
      BY <3>1, <3>2
  <2> QED
    BY <1>1, <2>3, <2>4, <2>5 DEF Live
<1>7. /\ \A n \in 0..PoolSize - 1 : (IsLeaf(n)' <=> IsLeaf(n)) /\ (n # h => List(n)' = List(n))
      /\ \A n \in Live : \A k : Child(n, k)' = Child(n, k)
      /\ \A n \in Live : \A item : Hits(item, n)' <=> Hits(item, n)
      /\ List(h)' = Append(List(h), it)
  BY <1>1, <1>2, <1>4, <1>6 DEF IsLeaf, List, Child, Hits
<1>8. /\ List(h) \in Seq(Nat) /\ Len(List(h)) \in Nat
      /\ DOMAIN List(h) = 1..Len(List(h))
      /\ Len(List(h)') = Len(List(h)) + 1
      /\ DOMAIN (List(h)') = DOMAIN List(h) \cup {Len(List(h)) + 1}
      /\ \A i \in DOMAIN List(h) : (List(h)')[i] = List(h)[i] /\ i < Len(List(h)) + 1
      /\ (List(h)')[Len(List(h)) + 1] = it
  <2> DEFINE l == List(h)
  <2>1. l \in Seq(Nat)
    BY <1>2, <1>4
  <2> HIDE DEF l
  <2>2. /\ Len(l) \in Nat /\ DOMAIN l = 1..Len(l)
        /\ Len(Append(l, it)) = Len(l) + 1
        /\ DOMAIN Append(l, it) = 1..Len(l) + 1
        /\ \A i \in 1..Len(l) : Append(l, it)[i] = l[i]
        /\ Append(l, it)[Len(l) + 1] = it
    BY <1>2, <2>1
  <2>3. 1..Len(l) + 1 = 1..Len(l) \cup {Len(l) + 1} /\ \A i \in 1..Len(l) : i < Len(l) + 1
    BY <2>2
  <2> QED
    BY <1>7, <2>1, <2>2, <2>3 DEF l
<1>21. /\ \A n \in Live : (IsLeaf(n)' <=> IsLeaf(n)) /\ Nodes'[n].Depth = Nodes[n].Depth
       /\ \A n \in Live : \A k \in 0..3 : Child(n, k)' = Child(n, k)
  BY <1>4, <1>6, <1>7
<1>9. TreeTypeOK'
  BY <1>1, <1>5, <1>6 DEF TreeTypeOK, E
<1>10. PoolOK'
  <2>1. h < nodeIndex
    BY <1>1, <1>2, TypeFacts DEF Live
  <2>2. \A n \in 0..PoolSize - 1 : n >= nodeIndex => n # h
    BY <1>1, <2>1, TypeFacts
  <2> QED
    <3>1. \A n \in 0..PoolSize - 1 : n >= nodeIndex => IsLeaf(n)' /\ List(n)' = <<>>
      BY <1>7, <2>2 DEF TreeInvFor, PoolOK
    <3>2. \A n \in Live : ~IsLeaf(n)' =>
            /\ n < Nodes'[n].Children /\ Nodes'[n].Children + 3 < nodeIndex
            /\ Nodes'[n].Children % 4 = 1
            /\ List(n)' = <<>>
      BY <1>3, <1>4, <1>6, <1>7 DEF TreeInvFor, PoolOK
    <3>3. ASSUME NEW n \in Live \ {0}
          PROVE  \E p \in Live, k \in 0..3 : ~IsLeaf(p)' /\ n = Child(p, k)'
      <4>1. PICK p \in Live, k \in 0..3 : ~IsLeaf(p) /\ n = Child(p, k)
        BY DEF TreeInvFor, PoolOK
      <4> QED
        BY <1>21, <4>1
    <3>4. nodeIndex' % 4 = 1 /\ nodeIndex' = nodeIndex
      BY <1>1 DEF TreeInvFor, PoolOK
    <3> QED
      BY <1>6, <3>1, <3>2, <3>3, <3>4 DEF PoolOK
<1>11. CellsOK(C)'
  <2>1. CellsOK(C)
    BY DEF TreeInvFor
  <2>2. \A n \in Live : ~IsLeaf(n)' =>
            Depth(C[n]) < MAX_DEPTH /\ \A k \in 0..3 : C[Child(n, k)'] = Quarter(C[n], k)
    BY <1>21, <2>1 DEF CellsOK
  <2> QED
    BY <1>6, <1>21, <2>1, <2>2 DEF CellsOK
<1>12. BoundsOK(C)'
  <2>1. Root' = Root
    BY <1>1 DEF Root
  <2> QED
    BY <1>1, <1>4, <1>6, <2>1 DEF TreeInvFor, BoundsOK
<1>13. DivisionOK(C)'
  <2>1. Root' = Root
    BY <1>1 DEF Root
  <2>2. Nodes[h].Depth < MAX_DEPTH => Len(List(h)') <= MAX_COL_NBR
    BY <1>3, <1>8, QuadAssumption DEF Full, List
  <2>3. ASSUME NEW n \in Live
        PROVE  /\ IsLeaf(n)' /\ Nodes'[n].Depth < MAX_DEPTH => Len(List(n)') <= MAX_COL_NBR
               /\ ~IsLeaf(n)' => Subdivided(aabbs', Root', C[n])
    <3>1. CASE n = h
      BY <1>3, <1>4, <1>6, <1>7, <2>2, <3>1
    <3>2. CASE n # h
      BY <1>1, <1>4, <1>6, <1>7, <2>1, <3>2 DEF TreeInvFor, DivisionOK
    <3> QED
      BY <3>1, <3>2
  <2> QED
    BY <1>6, <2>3 DEF DivisionOK
<1>14. PathsOK(Up)'
  <2>1. PathsOK(Up)
    BY DEF TreeInvFor
  <2>2. \A n \in Live : IsLeaf(n)' => \A m \in Live : n \in Up[m] => m = n
    BY <1>21, <2>1 DEF PathsOK
  <2>3. ASSUME NEW n \in Live, ~IsLeaf(n)'
        PROVE  /\ \A k \in 0..3 : Up[Child(n, k)'] = Up[n] \cup {Child(n, k)'}
               /\ \A m \in Live, k \in 0..3 : Child(n, k)' \in Up[m] =>
                      /\ n \in Up[m]
                      /\ \A l \in 0..3 : Child(n, l)' \in Up[m] => l = k
               /\ \A m \in Live : n \in Up[m] /\ m # n => \E k \in 0..3 : Child(n, k)' \in Up[m]
    BY <1>21, <2>1, <2>3 DEF PathsOK
  <2> QED
    BY <1>6, <2>1, <2>2, <2>3 DEF PathsOK
<1>15. NestOK(Up)'
  <2>1. \A n \in Live : Up[n] \subseteq Live
    BY DEF TreeInvFor, PathsOK
  <2> QED
    BY <1>1, <1>6, <1>7, <2>1 DEF TreeInvFor, NestOK
<1>16. h \in Up[h] /\ \A n \in Live : h \in Up[n] => n = h
  BY <1>2, <1>3 DEF TreeInvFor, PathsOK
<1>17. OrderOK(Up)'
  <2>1. \A i \in DOMAIN List(h) : List(h)[i] < it
    BY <1>2, <1>3, <1>16, <1>20 DEF TreeInvFor, OrderOK
  <2>2. ASSUME NEW n \in Live
        PROVE  /\ Increasing(List(n)')
               /\ \A i \in DOMAIN (List(n)') : (List(n)')[i] \in 1..next' - 1
    <3>1. CASE n = h
      <4>1. /\ \A i, j \in DOMAIN List(h) : i < j => List(h)[i] < List(h)[j]
            /\ \A i \in DOMAIN List(h) : List(h)[i] \in 1..next - 1
        BY <1>2 DEF TreeInvFor, OrderOK, Increasing
      <4>2. ASSUME NEW i \in DOMAIN (List(h)'), NEW j \in DOMAIN (List(h)'), i < j
            PROVE  (List(h)')[i] < (List(h)')[j]
        <5>1. i \in DOMAIN List(h)
          BY <1>8, <4>2
        <5> QED
          BY <1>8, <2>1, <4>1, <4>2, <5>1
      <4>3. \A i \in DOMAIN (List(h)') : (List(h)')[i] \in 1..next - 1
        BY <1>2, <1>8, <4>1
      <4> QED
        BY <1>1, <3>1, <4>2, <4>3 DEF Increasing
    <3>2. CASE n # h
      BY <1>1, <1>4, <1>7, <3>2 DEF TreeInvFor, OrderOK
    <3> QED
      BY <3>1, <3>2
  <2>3. ASSUME NEW n \in Live, NEW j \in 1..Len(calls'), IsLeaf(n), calls'[j].node \in Up[n],
               NEW i \in DOMAIN (List(n)')
        PROVE  (List(n)')[i] < calls'[j].item
    <3>1. PICK m \in 1..Len(calls) : calls'[j] = calls[m] /\ 1 < m
      BY <1>5
    <3>2. \A k \in DOMAIN List(n) : List(n)[k] < calls[m].item
      BY <2>3, <3>1 DEF TreeInvFor, OrderOK
    <3>3. CASE n = h
      <4>1. it < calls[m].item
        BY <1>2, <1>16, <1>20, <2>3, <3>1, <3>3 DEF TreeInvFor, OrderOK
      <4> QED
        BY <1>8, <2>3, <3>1, <3>2, <3>3, <4>1
    <3>4. CASE n # h
      BY <1>4, <1>7, <2>3, <3>1, <3>2, <3>4
    <3> QED
      BY <3>3, <3>4
  <2>4. ASSUME NEW n \in Live, NEW i \in 1..Len(calls'), NEW j \in 1..Len(calls'), i < j,
               calls'[i].node \in Up[n], calls'[j].node \in Up[n]
        PROVE  calls'[i].item < calls'[j].item
    <3>1. /\ i + 1 \in 1..Len(calls) /\ calls'[i] = calls[i + 1]
          /\ j + 1 \in 1..Len(calls) /\ calls'[j] = calls[j + 1]
          /\ i + 1 < j + 1
      BY <1>2, <1>5, <2>4
    <3> QED
      BY <2>4, <3>1 DEF TreeInvFor, OrderOK
  <2> QED
    BY <1>4, <1>6, <1>7, <2>2, <2>3, <2>4 DEF OrderOK
<1>18. ReachOK(Up)'
  <2>1. ASSUME NEW n \in Live, NEW item \in 1..next - 1, IsLeaf(n), Hits(item, n)
        PROVE  \/ \E i \in DOMAIN (List(n)') : (List(n)')[i] = item
               \/ \E j \in 1..Len(calls') : calls'[j].item = item /\ calls'[j].node \in Up[n]
    <3>1. CASE \E i \in DOMAIN List(n) : List(n)[i] = item
      BY <1>4, <1>7, <1>8, <3>1
    <3>2. CASE \E j \in 1..Len(calls) : calls[j].item = item /\ calls[j].node \in Up[n]
      <4>1. PICK j \in 1..Len(calls) : calls[j].item = item /\ calls[j].node \in Up[n]
        BY <3>2
      <4>2. CASE j = 1
        <5>1. n = h /\ item = it
          BY <1>16, <1>20, <4>1, <4>2
        <5> QED
          BY <1>8, <5>1
      <4>3. CASE j # 1
        BY <1>5, <4>1, <4>3
      <4> QED
        BY <4>2, <4>3
    <3> QED
      BY <2>1, <3>1, <3>2 DEF TreeInvFor, ReachOK
  <2>2. ASSUME NEW n \in Live, NEW i \in DOMAIN (List(n)') PROVE Hits((List(n)')[i], n)
    <3>1. CASE n = h
      <4>1. Hits(it, h)
        BY <1>2, <1>20 DEF TreeInvFor, ReachOK
      <4> QED
        BY <1>8, <2>2, <3>1, <4>1 DEF TreeInvFor, ReachOK
    <3>2. CASE n # h
      BY <1>4, <1>7, <2>2, <3>2 DEF TreeInvFor, ReachOK
    <3> QED
      BY <3>1, <3>2
  <2>3. \A j \in 1..Len(calls') : calls'[j].node \in Live /\ Hits(calls'[j].item, calls'[j].node)
    <3> TAKE j \in 1..Len(calls')
    <3>1. PICK m \in 1..Len(calls) : calls'[j] = calls[m]
      BY <1>5
    <3> QED
      BY <1>1, <3>1 DEF TreeInvFor, ReachOK, TreeTypeOK
  <2> QED
    BY <1>1, <1>4, <1>6, <1>7, <2>1, <2>2, <2>3 DEF ReachOK
<1> QED
  BY <1>9, <1>10, <1>11, <1>12, <1>13, <1>14, <1>15, <1>17, <1>18 DEF TreeInvFor

\* The quarters of a cell differ from one another.
LEMMA QuartersDiffer ==
    ASSUME NEW cell \in Cells, NEW k \in 0..3, NEW l \in 0..3, Quarter(cell, k) = Quarter(cell, l)
    PROVE  k = l
<1> DEFINE r(j) == j \div 2
           t(j) == j % 2
<1>1. cell[2] \in Int /\ cell[3] \in Int
  <2>1. \A a \in 1..2 : cell[a + 1] \in Nat
    BY CellCoordinates
  <2>2. cell[1 + 1] \in Nat /\ cell[2 + 1] \in Nat
    BY <2>1
  <2> QED
    BY <2>2
<1>2. /\ r(k) \in Int /\ t(k) \in Int /\ k = 2 * r(k) + t(k)
      /\ r(l) \in Int /\ t(l) \in Int /\ l = 2 * r(l) + t(l)
  BY QuarterNumber
<1>3. 2 * cell[2] + r(k) = 2 * cell[2] + r(l) /\ 2 * cell[3] + t(k) = 2 * cell[3] + t(l)
  BY DEF Quarter
<1> HIDE DEF r, t
<1>4. r(k) = r(l) /\ t(k) = t(l)
  BY <1>1, <1>2, <1>3
<1> QED
  BY <1>2, <1>4

\* A leaf that may be divided leaves room in the pool, and its quarters are cells
\* no node stands for yet.
LEMMA RoomForQuarters ==
    ASSUME NEW C, NEW Up, TreeInvFor(C, Up), NEW h \in Live, IsLeaf(h),
           Nodes[h].Depth < MAX_DEPTH
    PROVE  /\ nodeIndex + 4 <= PoolSize
           /\ \E D \in [0..nodeIndex + 3 -> Cells] :
                 /\ \A n \in Live : D[n] = C[n]
                 /\ \A k \in 0..3 : D[nodeIndex + k] = Quarter(C[h], k)
                 /\ \A m, n \in 0..nodeIndex + 3 : D[m] = D[n] => m = n
<1> DEFINE New == 0..nodeIndex + 3
           D == [n \in New |-> IF n < nodeIndex THEN C[n] ELSE Quarter(C[h], n - nodeIndex)]
<1>1. TreeTypeOK /\ PoolOK /\ CellsOK(C)
  BY DEF TreeInvFor
<1>2. /\ nodeIndex \in Nat \ {0} /\ PoolSize \in Nat /\ Live \subseteq Nat
      /\ Live = {n \in New : n < nodeIndex}
  BY <1>1, TypeFacts DEF Live
<1>3. C[h] \in Cells /\ Depth(C[h]) < MAX_DEPTH /\ Depth(C[h]) \in Nat
  BY <1>1, CellCoordinates DEF CellsOK
<1>4. \A k \in 0..3 : /\ Quarter(C[h], k) \in Cells /\ Parent(Quarter(C[h], k)) = C[h]
                      /\ Depth(Quarter(C[h], k)) = Depth(C[h]) + 1
  BY <1>3, QuarterIsCell
<1>5. \A n \in New : n \in Live \/ (~(n < nodeIndex) /\ n - nodeIndex \in 0..3)
  BY <1>2
<1>6. /\ \A n \in Live : n \in New /\ D[n] = C[n]
      /\ \A n \in New : ~(n < nodeIndex) => D[n] = Quarter(C[h], n - nodeIndex)
  BY <1>2
<1>7. D \in [New -> Cells]
  <2>1. \A n \in New : D[n] \in Cells
    BY <1>1, <1>4, <1>5, <1>6 DEF CellsOK
  <2> QED
    BY <2>1
<1> HIDE DEF D, New
<1>8. ASSUME NEW n \in Live, NEW k \in 0..3, C[n] = Quarter(C[h], k) PROVE FALSE
  <2>1. Depth(C[n]) # 0
    BY <1>3, <1>4, <1>8
  <2>2. n # 0
    BY <1>1, <2>1, RootIsCell DEF CellsOK
  <2>3. PICK p \in Live, l \in 0..3 : ~IsLeaf(p) /\ n = Child(p, l)
    BY <1>1, <2>2 DEF PoolOK
  <2>4. C[p] \in Cells /\ Depth(C[p]) < MAX_DEPTH /\ C[n] = Quarter(C[p], l)
    BY <1>1, <2>3 DEF CellsOK
  <2>5. Parent(C[n]) = C[p]
    BY <2>4, QuarterIsCell
  <2>6. C[p] = C[h]
    BY <1>4, <1>8, <2>5
  <2>7. p = h
    BY <1>1, <2>6 DEF CellsOK
  <2> QED
    BY <2>3, <2>7
<1>9. ASSUME NEW m \in New, NEW n \in New, D[m] = D[n] PROVE m = n
  <2>1. CASE m \in Live /\ n \in Live
    BY <1>1, <1>6, <1>9, <2>1 DEF CellsOK
  <2>2. CASE m \in Live /\ ~(n \in Live)
    BY <1>5, <1>6, <1>8, <1>9, <2>2
  <2>3. CASE ~(m \in Live) /\ n \in Live
    BY <1>5, <1>6, <1>8, <1>9, <2>3
  <2>4. CASE ~(m \in Live) /\ ~(n \in Live)
    <3>1. PICK k \in 0..3 : k = m - nodeIndex /\ D[m] = Quarter(C[h], k)
      BY <1>5, <1>6, <2>4
    <3>2. PICK l \in 0..3 : l = n - nodeIndex /\ D[n] = Quarter(C[h], l)
      BY <1>5, <1>6, <2>4
    <3>3. k = l
      BY <1>3, <1>9, <3>1, <3>2, QuartersDiffer
    <3>4. m \in Int /\ n \in Int
      BY DEF New
    <3> QED
      BY <1>2, <3>1, <3>2, <3>3, <3>4
  <2> QED
    BY <2>1, <2>2, <2>3, <2>4
<1>10. D \in Injection(New, Cells)
  BY <1>7, <1>9 DEF Injection, IsInjective
<1>11. Cardinality(New) = nodeIndex + 4
  <2>1. nodeIndex + 3 \in Int /\ ~(0 > nodeIndex + 3) /\ (nodeIndex + 3) - 0 + 1 = nodeIndex + 4
    BY <1>2
  <2> QED
    BY <2>1, FS_Interval DEF New
<1>12. nodeIndex + 4 <= PoolSize
  <2>1. IsFiniteSet(Cells) /\ Cardinality(Cells) <= PoolSize
    BY CellsCounted
  <2>2. Cardinality(New) <= Cardinality(Cells)
    BY <1>10, <2>1, FS_Injection
  <2>3. Cardinality(Cells) \in Nat
    BY <2>1, FS_CardinalityType
  <2> QED
    BY <1>2, <1>11, <2>1, <2>2, <2>3
<1>13. \A k \in 0..3 : D[nodeIndex + k] = Quarter(C[h], k)
  <2> TAKE k \in 0..3
  <2>1. nodeIndex + k \in New /\ ~(nodeIndex + k < nodeIndex) /\ (nodeIndex + k) - nodeIndex = k
    BY <1>2 DEF New
  <2> QED
    BY <1>6, <2>1
<1> QED
  BY <1>6, <1>7, <1>9, <1>12, <1>13 DEF New

\* The box a child is given is that of the quarter it stands for.
LEMMA ChildBoundsAreQuarters ==
    ASSUME NEW root, IntegerBox(root), NEW cell \in Cells, Depth(cell) < MAX_DEPTH, NEW k \in 0..3
    PROVE  ChildBounds(CellBounds(root, cell), k) = CellBounds(root, Quarter(cell, k))
<1> DEFINE right == k \div 2
           top == k % 2
           box == CellBounds(root, cell)
           quarter == CellBounds(root, Quarter(cell, k))
           size(a) == (box.maxBound[a] - box.minBound[a]) \div 2
           upper(a) == IF a = 1 THEN right ELSE top
           start(a) == box.minBound[a] + upper(a) * size(a)
<1>1. right \in {0, 1} /\ top \in {0, 1} /\ k = 2 * right + top
  BY QuarterNumber
<1>2. ASSUME NEW a \in 1..2
      PROVE  /\ quarter.minBound[a] = start(a) /\ quarter.maxBound[a] = start(a) + size(a)
             /\ upper(a) = 1 => quarter.maxBound[a] = box.maxBound[a]
  <2> HIDE DEF right, top
  <2>1. Quarter(cell, k) = Quarter(cell, 2 * right + top)
    BY <1>1
  <2>2. /\ box.minBound[a] \in Int
        /\ \E half \in Int :
              /\ box.maxBound[a] = box.minBound[a] + 2 * half
              /\ quarter.minBound[a] = box.minBound[a] + upper(a) * half
              /\ quarter.maxBound[a] = box.minBound[a] + upper(a) * half + half
    BY <1>1, <2>1, QuarterSides
  <2>3. PICK half \in Int :
              /\ box.maxBound[a] = box.minBound[a] + 2 * half
              /\ quarter.minBound[a] = box.minBound[a] + upper(a) * half
              /\ quarter.maxBound[a] = box.minBound[a] + upper(a) * half + half
    BY <2>2
  <2>4. upper(a) \in {0, 1}
    BY <1>1
  <2> DEFINE low == box.minBound[a]
             high == box.maxBound[a]
  <2>5. low \in Int /\ high = low + 2 * half
    BY <2>2, <2>3
  <2> HIDE DEF low, high, box, quarter, upper
  <2>6. (high - low) \div 2 = half
    BY <2>5
  <2>7. size(a) = half
    BY <2>6 DEF low, high
  <2>8. upper(a) = 1 => low + upper(a) * half + half = high
    BY <2>5
  <2> QED
    BY <2>3, <2>7, <2>8 DEF low, high
<1>3. /\ quarter.minBound = <<quarter.minBound[1], quarter.minBound[2]>>
      /\ quarter.maxBound = <<quarter.maxBound[1], quarter.maxBound[2]>>
      /\ quarter = Rectangle(quarter.minBound, quarter.maxBound)
  BY DEF CellBounds, Rectangle
<1>4. /\ box.maxBound = <<box.maxBound[1], box.maxBound[2]>>
  BY DEF CellBounds, Rectangle
<1>5. quarter.minBound = <<start(1), start(2)>>
  <2> HIDE DEF start, quarter
  <2> QED
    BY <1>2, <1>3
<1>6. quarter.maxBound = <<start(1) + size(1), start(2) + size(2)>>
  <2> HIDE DEF start, quarter, size
  <2> QED
    BY <1>2, <1>3
<1>7. k = 3 => quarter.maxBound = box.maxBound
  <2> SUFFICES ASSUME k = 3 PROVE quarter.maxBound = box.maxBound
    OBVIOUS
  <2>1. upper(1) = 1 /\ upper(2) = 1
    BY <1>1
  <2> HIDE DEF start, quarter, size, upper, box
  <2> QED
    BY <1>2, <1>3, <1>4, <2>1
<1>8. ChildBounds(box, k) = IF k = 3 THEN Rectangle(<<start(1), start(2)>>, box.maxBound)
                            ELSE Rectangle(<<start(1), start(2)>>,
                                           <<start(1) + size(1), start(2) + size(2)>>)
  <2> HIDE DEF box
  <2> QED
    BY DEF ChildBounds, Plus
<1> HIDE DEF start, size, box, quarter
<1>9. ChildBounds(box, k) = quarter
  BY <1>3, <1>5, <1>6, <1>7, <1>8
<1> QED
  BY <1>9 DEF box, quarter

\* A pool with the list of one of its nodes cleared.
Emptied(pool, node) == [pool EXCEPT ![node].ColliderRefAabbs = <<>>]

\* What Split does to the nodes: the leaf h gets the four nodes from m on as
\* children and loses its list.
LEMMA SplitNodes ==
    ASSUME TreeTypeOK, PoolOK, NEW m, m = nodeIndex, NEW h \in Live, m + 4 <= PoolSize, NEW pool,
           pool = SubdivideNode(h), Nodes' = Emptied(pool, h)
    PROVE  /\ Nodes' \in [0..PoolSize - 1 -> NodeType]
           /\ \A n \in 0..PoolSize - 1 : Nodes'[n].Bounds = pool[n].Bounds
           /\ \A n \in 0..PoolSize - 1 : n # h /\ ~(n \in m..m + 3) => Nodes'[n] = Nodes[n]
           /\ Nodes'[h].Children = m /\ Nodes'[h].Depth = Nodes[h].Depth
           /\ Nodes'[h].Bounds = Nodes[h].Bounds /\ Nodes'[h].ColliderRefAabbs = <<>>
           /\ \A k \in 0..3 :
                 /\ m + k \in 0..PoolSize - 1 /\ m + k # h
                 /\ Nodes'[m + k].Children = NoChildren
                 /\ Nodes'[m + k].ColliderRefAabbs = <<>>
                 /\ Nodes'[m + k].Depth = Nodes[h].Depth + 1
                 /\ Nodes'[m + k].Bounds = ChildBounds(Nodes[h].Bounds, k)
<1> DEFINE P == 0..PoolSize - 1
<1>1. /\ m \in Nat \ {0} /\ PoolSize \in Nat /\ h \in P /\ h \in Nat /\ h < m /\ DOMAIN Nodes = P
      /\ \A n \in P : Nodes[n] \in NodeType
      /\ Nodes[h].Depth \in Nat
  <2>1. /\ m \in Nat \ {0} /\ PoolSize \in Nat /\ h \in P /\ h \in Nat /\ DOMAIN Nodes = P
        /\ \A n \in P : Nodes[n] \in NodeType /\ Nodes[n].Depth \in Nat
    BY TypeFacts
  <2>2. h < m
    BY <2>1 DEF Live
  <2> HIDE DEF P
  <2> QED
    BY <2>1, <2>2
<1>2. /\ pool = [n \in P |-> IF n = h THEN [Nodes[n] EXCEPT !.Children = m]
                             ELSE IF n \in m..m + 3
                                  THEN [Nodes[n] EXCEPT
                                           !.Bounds = ChildBounds(Nodes[h].Bounds, n - m),
                                           !.Depth = Nodes[h].Depth + 1]
                                  ELSE Nodes[n]]
  BY <1>1 DEF SubdivideNode
<1> HIDE DEF P
<1>3. /\ DOMAIN pool = P
      /\ pool[h] = [Nodes[h] EXCEPT !.Children = m]
      /\ \A n \in P : n # h /\ ~(n \in m..m + 3) => pool[n] = Nodes[n]
      /\ \A n \in P : n # h /\ n \in m..m + 3 =>
            pool[n] = [Nodes[n] EXCEPT !.Bounds = ChildBounds(Nodes[h].Bounds, n - m),
                                       !.Depth = Nodes[h].Depth + 1]
  BY <1>1, <1>2
<1>4. /\ Nodes' = [n \in P |-> Nodes'[n]]
      /\ Nodes'[h] = [pool[h] EXCEPT !.ColliderRefAabbs = <<>>]
      /\ \A n \in P : n # h => Nodes'[n] = pool[n]
  BY <1>1, <1>3 DEF Emptied
<1>5. /\ Nodes'[h].Children = m /\ Nodes'[h].Depth = Nodes[h].Depth
      /\ Nodes'[h].Bounds = Nodes[h].Bounds /\ Nodes'[h].ColliderRefAabbs = <<>>
      /\ Nodes'[h].Bounds = pool[h].Bounds /\ Nodes'[h] \in NodeType
  <2>1. Nodes[h] \in NodeType /\ <<>> \in Seq(Nat)
    BY <1>1
  <2>2. Nodes'[h] = [[Nodes[h] EXCEPT !.Children = m] EXCEPT !.ColliderRefAabbs = <<>>]
    BY <1>3, <1>4
  <2> QED
    BY <1>1, <1>3, <2>1, <2>2 DEF NodeType
<1>6. ASSUME NEW k \in 0..3
      PROVE  /\ m + k \in P /\ m + k # h
             /\ Nodes'[m + k].Children = NoChildren
             /\ Nodes'[m + k].ColliderRefAabbs = <<>>
             /\ Nodes'[m + k].Depth = Nodes[h].Depth + 1
             /\ Nodes'[m + k].Bounds = ChildBounds(Nodes[h].Bounds, k)
             /\ Nodes'[m + k] \in NodeType
  <2> DEFINE n == m + k
  <2>1. n \in P /\ n # h /\ n \in m..m + 3 /\ n - m = k /\ n >= m
    BY <1>1 DEF P
  <2>2. Nodes[n] \in NodeType /\ Nodes[n].Children = NoChildren /\ Nodes[n].ColliderRefAabbs = <<>>
    BY <1>1, <2>1 DEF PoolOK, IsLeaf, List, P
  <2> HIDE DEF n
  <2>3. Nodes'[n] = [Nodes[n] EXCEPT !.Bounds = ChildBounds(Nodes[h].Bounds, k),
                                     !.Depth = Nodes[h].Depth + 1]
    BY <1>3, <1>4, <2>1
  <2>4. ChildBounds(Nodes[h].Bounds, k) \in [type : {"Rectangle"}, minBound : Vec, maxBound : Vec]
    <3> DEFINE box == Nodes[h].Bounds
    <3>1. /\ box.minBound[1] \in Int /\ box.minBound[2] \in Int
          /\ box.maxBound[1] \in Int /\ box.maxBound[2] \in Int /\ box.maxBound \in Vec
      BY <1>1 DEF NodeType, Vec
    <3>2. k \div 2 \in {0, 1} /\ k % 2 \in {0, 1}
      BY QuarterNumber
    <3> HIDE DEF box
    <3> DEFINE w1 == (box.maxBound[1] - box.minBound[1]) \div 2
               w2 == (box.maxBound[2] - box.minBound[2]) \div 2
    <3>3. w1 \in Int /\ w2 \in Int
      BY <3>1
    <3>4. /\ box.minBound[1] + (k \div 2) * w1 \in Int /\ box.minBound[2] + (k % 2) * w2 \in Int
          /\ box.minBound[1] + (k \div 2) * w1 + w1 \in Int
          /\ box.minBound[2] + (k % 2) * w2 + w2 \in Int
      <4> HIDE DEF w1, w2
      <4>1. (k \div 2) * w1 \in Int /\ (k % 2) * w2 \in Int
        BY <3>2, <3>3
      <4> QED
        BY <3>1, <3>3, <4>1
    <3>5. ChildBounds(box, k)
            \in [type : {"Rectangle"}, minBound : Vec, maxBound : Vec]
      BY <3>1, <3>4 DEF ChildBounds, Rectangle, Vec, Plus
    <3> QED
      BY <3>5 DEF box
  <2>5. /\ Nodes'[n].Children = NoChildren /\ Nodes'[n].ColliderRefAabbs = <<>>
        /\ Nodes'[n].Depth = Nodes[h].Depth + 1
        /\ Nodes'[n].Bounds = ChildBounds(Nodes[h].Bounds, k)
        /\ Nodes'[n] \in NodeType
    <3>1. PICK box \in [type : {"Rectangle"}, minBound : Vec, maxBound : Vec] :
                box = ChildBounds(Nodes[h].Bounds, k)
      BY <2>4
    <3>2. PICK depth \in Nat : depth = Nodes[h].Depth + 1
      BY <1>1
    <3>3. PICK node \in NodeType : node = Nodes[n]
      BY <2>2
    <3>4. Nodes'[n] = [node EXCEPT !.Bounds = box, !.Depth = depth]
      BY <2>3, <3>1, <3>2, <3>3
    <3>5. /\ Nodes'[n].Children = node.Children
          /\ Nodes'[n].ColliderRefAabbs = node.ColliderRefAabbs
          /\ Nodes'[n].Depth = depth /\ Nodes'[n].Bounds = box
          /\ Nodes'[n] \in NodeType
      <4> DEFINE new == [node EXCEPT !.Bounds = box, !.Depth = depth]
      <4>1. /\ new.Children = node.Children /\ new.ColliderRefAabbs = node.ColliderRefAabbs
            /\ new.Depth = depth /\ new.Bounds = box
        BY DEF NodeType
      <4>2. [node EXCEPT !.Bounds = box] \in NodeType
        BY DEF NodeType
      <4>3. new \in NodeType
        <5> DEFINE one == [node EXCEPT !.Bounds = box]
        <5>1. new = [one EXCEPT !.Depth = depth]
          OBVIOUS
        <5>2. one \in NodeType
          BY <4>2
        <5> HIDE DEF one, new
        <5> QED
          BY <5>1, <5>2 DEF NodeType
      <4> QED
        BY <3>4, <4>1, <4>3
    <3> QED
      BY <2>2, <3>1, <3>2, <3>3, <3>5
  <2> QED
    BY <2>1, <2>5 DEF n
<1>7. \A n \in P : n # h /\ ~(n \in m..m + 3) => Nodes'[n] = Nodes[n]
  BY <1>3, <1>4
<1>8. \A n \in P : Nodes'[n].Bounds = pool[n].Bounds
  BY <1>4, <1>5
<1>9. \A n \in P : Nodes'[n] \in NodeType
  <2> TAKE n \in P
  <2>1. CASE n = h
    BY <1>5, <2>1
  <2>2. CASE n # h /\ n \in m..m + 3
    <3>1. n - m \in 0..3 /\ m + (n - m) = n
      BY <1>1, <2>2
    <3>2. Nodes'[m + (n - m)] \in NodeType
      BY <1>6, <3>1
    <3> QED
      BY <3>1, <3>2
  <2>3. CASE n # h /\ ~(n \in m..m + 3)
    BY <1>1, <1>7, <2>3
  <2> QED
    BY <2>1, <2>2, <2>3
<1>10. Nodes' \in [P -> NodeType]
  BY <1>4, <1>9
<1> QED
  BY <1>5, <1>6, <1>7, <1>8, <1>10 DEF P

\* What a full leaf hands on: its list and one more item, which comes after them.
LEMMA HandedDownIs ==
    ASSUME NEW C, NEW Up, TreeInvFor(C, Up), calls # <<>>, NEW h, h = calls[1].node,
           NEW it, it = calls[1].item, IsLeaf(h)
    PROVE  LET items == HandedDown(h, it)
           IN  /\ items \in Seq(Nat) /\ Len(items) = Len(List(h)) + 1 /\ Len(List(h)) \in Nat
               /\ Increasing(items) /\ DOMAIN items = 1..Len(items)
               /\ \A i \in 1..Len(items) : items[i] \in 1..next - 1 /\ Hits(items[i], h)
               /\ \A i \in 1..Len(items) : items[i] = it \/ \E j \in DOMAIN List(h) : List(h)[j] = items[i]
               /\ \A j \in DOMAIN List(h) : \E i \in 1..Len(items) : items[i] = List(h)[j]
               /\ \E i \in 1..Len(items) : items[i] = it
<1> DEFINE items == HandedDown(h, it)
<1>1. TreeTypeOK /\ OrderOK(Up) /\ PathsOK(Up) /\ ReachOK(Up)
  BY DEF TreeInvFor
<1>2. h \in Live /\ it \in 1..next - 1 /\ it \in Nat /\ 1 \in 1..Len(calls)
  BY <1>1, HeadCall
<1>3. PICK l : l = List(h)
  OBVIOUS
<1>4. l \in Seq(Nat) /\ Len(l) \in Nat /\ DOMAIN l = 1..Len(l)
  BY <1>1, <1>2, <1>3, TypeFacts
<1>5. items = Append(l, it)
  BY <1>3 DEF HandedDown, List
<1>6. /\ items \in Seq(Nat) /\ Len(items) = Len(l) + 1 /\ DOMAIN items = 1..Len(items)
      /\ 1..Len(items) = 1..Len(l) \cup {Len(l) + 1}
      /\ \A i \in 1..Len(l) : items[i] = l[i] /\ i < Len(l) + 1
      /\ items[Len(l) + 1] = it
  <2> HIDE DEF items
  <2>1. /\ items \in Seq(Nat) /\ Len(items) = Len(l) + 1 /\ DOMAIN items = 1..Len(items)
        /\ \A i \in 1..Len(l) : items[i] = l[i]
        /\ items[Len(l) + 1] = it
    BY <1>2, <1>4, <1>5
  <2>2. 1..Len(l) + 1 = 1..Len(l) \cup {Len(l) + 1} /\ \A i \in 1..Len(l) : i < Len(l) + 1
    BY <1>4
  <2> QED
    BY <2>1, <2>2
<1> HIDE DEF items
<1>7. h \in Up[h]
  BY <1>1, <1>2 DEF PathsOK
<1>8. \A i \in 1..Len(l) : l[i] < it /\ l[i] \in 1..next - 1 /\ Hits(l[i], h)
  BY <1>1, <1>2, <1>3, <1>4, <1>7 DEF OrderOK, ReachOK
<1>9. Hits(it, h)
  BY <1>1, <1>2 DEF ReachOK
<1>10. \A i, j \in 1..Len(l) : i < j => l[i] < l[j]
  BY <1>1, <1>2, <1>3, <1>4 DEF OrderOK, Increasing
<1>11. Increasing(items)
  <2> SUFFICES ASSUME NEW i \in 1..Len(items), NEW j \in 1..Len(items), i < j
               PROVE  items[i] < items[j]
    BY <1>6 DEF Increasing
  <2>1. i \in 1..Len(l)
    BY <1>4, <1>6
  <2>2. CASE j \in 1..Len(l)
    BY <1>6, <1>10, <2>1, <2>2
  <2>3. CASE j = Len(l) + 1
    BY <1>6, <1>8, <2>1, <2>3
  <2> QED
    BY <1>6, <2>2, <2>3
<1>12. \A i \in 1..Len(items) : items[i] \in 1..next - 1 /\ Hits(items[i], h)
  BY <1>2, <1>6, <1>8, <1>9
<1>13. \A i \in 1..Len(items) : items[i] = it \/ \E j \in 1..Len(l) : l[j] = items[i]
  BY <1>6
<1>14. \A j \in 1..Len(l) : \E i \in 1..Len(items) : items[i] = l[j]
  BY <1>6
<1>15. \E i \in 1..Len(items) : items[i] = it
  BY <1>6
<1> QED
  BY <1>3, <1>4, <1>6, <1>11, <1>12, <1>13, <1>14, <1>15 DEF items

\* A full leaf is divided: its list and the box are on their way to the children.
LEMMA SplitKeeps ==
    ASSUME NEW C, NEW Up, TreeInvFor(C, Up), Split
    PROVE  TreeInv'
<1> DEFINE E == [node : Nat, item : Nat]
<1>1. /\ TreeTypeOK /\ PoolOK /\ CellsOK(C) /\ BoundsOK(C) /\ DivisionOK(C)
      /\ PathsOK(Up) /\ NestOK(Up) /\ OrderOK(Up) /\ ReachOK(Up)
      /\ calls # <<>> /\ aabbs' = aabbs /\ next' = next /\ nodeIndex' = nodeIndex + 4
  BY DEF TreeInvFor, Split
<1>2. PICK h, it : h = calls[1].node /\ it = calls[1].item
  OBVIOUS
<1>3. PICK m, pool, items, S :
          /\ m = nodeIndex /\ pool = SubdivideNode(h) /\ items = HandedDown(h, it)
          /\ S = CallsForChildren(pool, m, items)
  OBVIOUS
<1>4. /\ Len(calls) \in Nat \ {0} /\ 1 \in 1..Len(calls) /\ Head(calls) = calls[1]
      /\ h \in Live /\ it \in 1..next - 1 /\ it \in Nat
  BY <1>1, <1>2, HeadCall
<1>5. /\ IsLeaf(h) /\ Len(List(h)) >= MAX_COL_NBR /\ Nodes[h].Depth < MAX_DEPTH
      /\ Nodes' = [pool EXCEPT ![h].ColliderRefAabbs = <<>>]
      /\ calls' = S \o Tail(calls)
  BY <1>2, <1>3, <1>4 DEF Split, Full, List
<1>6. PICK D \in [0..m + 3 -> Cells] :
          /\ \A n \in Live : D[n] = C[n]
          /\ \A k \in 0..3 : D[m + k] = Quarter(C[h], k)
          /\ \A i, n \in 0..m + 3 : D[i] = D[n] => i = n
  BY <1>3, <1>4, <1>5, RoomForQuarters
<1>7. m + 4 <= PoolSize
  BY <1>3, <1>4, <1>5, RoomForQuarters
<1> DEFINE New == m..m + 3
<1>8. /\ m \in Nat \ {0} /\ PoolSize \in Nat /\ Live = 0..m - 1 /\ Live' = 0..m + 3
      /\ Live \subseteq 0..PoolSize - 1 /\ Live \subseteq Nat
  BY <1>1, <1>3, <1>7, TypeFacts DEF Live
<1>9. /\ Live' = Live \cup New /\ Live \cap New = {} /\ New \subseteq Nat \ {0}
      /\ \A n \in New : \E k \in 0..3 : n = m + k
      /\ \A k \in 0..3 : m + k \in New
      /\ 0 \in Live
  <2>1. \A n \in New : n - m \in 0..3 /\ n = m + (n - m)
    BY <1>8
  <2>2. \A k \in 0..3 : m + k \in New
    BY <1>8
  <2>3. Live' = Live \cup New /\ Live \cap New = {} /\ New \subseteq Nat \ {0} /\ 0 \in Live
    BY <1>8
  <2> QED
    BY <2>1, <2>2, <2>3
<1>10. /\ Nodes' \in [0..PoolSize - 1 -> NodeType]
       /\ \A n \in 0..PoolSize - 1 : Nodes'[n].Bounds = pool[n].Bounds
       /\ \A n \in 0..PoolSize - 1 : n # h /\ ~(n \in m..m + 3) => Nodes'[n] = Nodes[n]
       /\ Nodes'[h].Children = m /\ Nodes'[h].Depth = Nodes[h].Depth
       /\ Nodes'[h].Bounds = Nodes[h].Bounds /\ Nodes'[h].ColliderRefAabbs = <<>>
       /\ \A k \in 0..3 :
             /\ m + k \in 0..PoolSize - 1 /\ m + k # h
             /\ Nodes'[m + k].Children = NoChildren
             /\ Nodes'[m + k].ColliderRefAabbs = <<>>
             /\ Nodes'[m + k].Depth = Nodes[h].Depth + 1
             /\ Nodes'[m + k].Bounds = ChildBounds(Nodes[h].Bounds, k)
  <2>1. TreeTypeOK /\ PoolOK
    BY <1>1
  <2>2. m = nodeIndex /\ h \in Live /\ pool = SubdivideNode(h)
    BY <1>3, <1>4
  <2>3. Nodes' = Emptied(pool, h)
    BY <1>5 DEF Emptied
  <2> QED
    BY <1>7, <2>1, <2>2, <2>3, SplitNodes
<1> HIDE DEF New, E
\* The nodes there were, and those that are new.
<1>11. \A n \in Live : n # h =>
          /\ Nodes'[n] = Nodes[n] /\ (IsLeaf(n)' <=> IsLeaf(n)) /\ List(n)' = List(n)
          /\ \A k \in 0..3 : Child(n, k)' = Child(n, k)
  <2> SUFFICES ASSUME NEW n \in Live, n # h
               PROVE  /\ Nodes'[n] = Nodes[n] /\ (IsLeaf(n)' <=> IsLeaf(n)) /\ List(n)' = List(n)
                      /\ \A k \in 0..3 : Child(n, k)' = Child(n, k)
    OBVIOUS
  <2>1. Nodes'[n] = Nodes[n]
    BY <1>8, <1>9, <1>10 DEF New
  <2> QED
    BY <2>1 DEF IsLeaf, List, Child
<1>12. ~IsLeaf(h)' /\ List(h)' = <<>> /\ \A k \in 0..3 : Child(h, k)' = m + k
  BY <1>8, <1>10 DEF IsLeaf, NoChildren, List, Child
<1>13. \A n \in New : IsLeaf(n)' /\ List(n)' = <<>> /\ Nodes'[n].Depth = Nodes[h].Depth + 1
  BY <1>9, <1>10 DEF IsLeaf, List
<1>14. \A n \in Live : \A item : Hits(item, n)' <=> Hits(item, n)
  <2> SUFFICES ASSUME NEW n \in Live, NEW item PROVE Hits(item, n)' <=> Hits(item, n)
    OBVIOUS
  <2>1. Nodes'[n].Bounds = Nodes[n].Bounds
    BY <1>10, <1>11
  <2> QED
    BY <1>1, <2>1 DEF Hits
<1>15. PICK U : U = [n \in Live \cup New |-> IF n \in Live THEN Up[n] ELSE Up[h] \cup {n}]
  OBVIOUS
<1>16. /\ U \in [Live' -> SUBSET (Live \cup New)]
       /\ \A n \in Live : U[n] = Up[n] /\ U[n] \subseteq Live
       /\ \A n \in New : U[n] = Up[h] \cup {n}
  <2>1. \A n \in Live : Up[n] \subseteq Live
    BY <1>1 DEF PathsOK
  <2>2. \A n \in Live : U[n] = Up[n]
    BY <1>9, <1>15
  <2>3. \A n \in New : U[n] = Up[h] \cup {n} /\ ~(n \in Live)
    BY <1>9, <1>15
  <2>4. \A n \in Live \cup New : U[n] \in SUBSET (Live \cup New)
    BY <1>4, <2>1, <2>2, <2>3
  <2> QED
    BY <1>9, <1>15, <2>1, <2>2, <2>3, <2>4
\* Only the new nodes have been divided from the leaf.
<1>17. h \in Up[h] /\ \A n \in Live : h \in Up[n] => n = h
  BY <1>1, <1>4, <1>5 DEF PathsOK
<1>18. PICK box : box = CellBounds(Root, C[h])
  OBVIOUS
<1>19. /\ C[h] \in Cells /\ Depth(C[h]) = Nodes[h].Depth /\ Depth(C[h]) < MAX_DEPTH
       /\ Root' = Root /\ IntegerBox(Root) /\ Ordered(Root) /\ aabbs # <<>>
       /\ Nodes[h].Bounds = box
  <2>1. aabbs \in Seq(Boxes) /\ aabbs # <<>>
    BY <1>1, HeadCall DEF TreeTypeOK
  <2> QED
    BY <1>1, <1>4, <1>5, <1>18, <2>1, FrameBoxes DEF CellsOK, BoundsOK, Root
<1>20. \A k \in 0..3 : Nodes'[m + k].Bounds = CellBounds(Root, Quarter(C[h], k))
  BY <1>10, <1>18, <1>19, ChildBoundsAreQuarters
<1>21. \A n \in New, item \in 1..Len(aabbs) : Hits(item, n)' => Hits(item, h)
  <2> SUFFICES ASSUME NEW n \in New, NEW item \in 1..Len(aabbs), Hits(item, n)'
               PROVE  Hits(item, h)
    OBVIOUS
  <2>1. PICK k \in 0..3 : n = m + k
    BY <1>9
  <2>2. n # 0
    BY <1>9
  <2>3. IntersectRectangles(Scaled(aabbs[item]), CellBounds(Root, Quarter(C[h], k)))
    BY <1>1, <1>20, <2>1, <2>2 DEF Hits
  <2>4. IntegerBox(Scaled(aabbs[item]))
    BY <1>1, FrameBoxes DEF TreeTypeOK
  <2>5. IntersectRectangles(Scaled(aabbs[item]), box)
    BY <1>18, <1>19, <2>3, <2>4, QuarterInside
  <2> QED
    BY <1>19, <2>5 DEF Hits
\* What is handed over.
<1>22. /\ items \in Seq(Nat) /\ Len(items) = Len(List(h)) + 1 /\ Len(List(h)) \in Nat
       /\ Increasing(items) /\ DOMAIN items = 1..Len(items)
       /\ \A i \in 1..Len(items) : items[i] \in 1..next - 1 /\ Hits(items[i], h)
       /\ \A i \in 1..Len(items) : items[i] = it \/ \E j \in DOMAIN List(h) : List(h)[j] = items[i]
       /\ \A j \in DOMAIN List(h) : \E i \in 1..Len(items) : items[i] = List(h)[j]
       /\ \E i \in 1..Len(items) : items[i] = it
  <2>1. calls # <<>> /\ IsLeaf(h) /\ items = HandedDown(h, it)
    BY <1>1, <1>3, <1>5
  <2> QED
    BY <1>2, <2>1, HandedDownIs
<1>23. Carries(S, pool, New, items, Len(items))
  <2>1. Carries(CallsForChildren(pool, m, items), pool, m..m + 3, items, Len(items))
    BY <1>8, <1>22, CallsForChildrenCarry
  <2> QED
    BY <1>3, <2>1 DEF New
<1>24. /\ S \in Seq(E)
       /\ \A j \in 1..Len(S) : S[j].node \in New /\ Hits(S[j].item, S[j].node)'
       /\ \A j \in 1..Len(S) : \E i \in 1..Len(items) : S[j].item = items[i]
       /\ \A i, j \in 1..Len(S) : i < j /\ S[i].node = S[j].node => S[i].item < S[j].item
       /\ \A n \in New, i \in 1..Len(items) : Hits(items[i], n)' =>
             \E j \in 1..Len(S) : S[j].node = n /\ S[j].item = items[i]
  <2>1. S \in Seq([node : New, item : Nat])
    BY <1>23 DEF Carries
  <2>2. [node : New, item : Nat] \subseteq E
    BY <1>9 DEF E
  <2>3. S \in Seq(E)
    BY <2>1, <2>2, SeqMonotonic
  <2>4. \A j \in 1..Len(S) : S[j].node \in New
    <3>1. \A j \in 1..Len(S) : S[j] \in [node : New, item : Nat]
      BY <2>1, ElementOfSeq
    <3> QED
      BY <3>1
  <2>5. \A n \in New : Nodes'[n].Bounds = pool[n].Bounds /\ n # 0
    BY <1>9, <1>10
  <2>6. ASSUME NEW j \in 1..Len(S) PROVE Hits(S[j].item, S[j].node)'
    <3>1. IntersectRectangles(Scaled(aabbs[S[j].item]), pool[S[j].node].Bounds)
      BY <1>23 DEF Carries
    <3> QED
      BY <1>1, <2>4, <2>5, <3>1 DEF Hits
  <2>7. ASSUME NEW n \in New, NEW i \in 1..Len(items), Hits(items[i], n)'
        PROVE  \E j \in 1..Len(S) : S[j].node = n /\ S[j].item = items[i]
    <3>1. IntersectRectangles(Scaled(aabbs[items[i]]), pool[n].Bounds)
      BY <1>1, <2>5, <2>7 DEF Hits
    <3>2. PICK j \in 1..Len(S) : S[j] = Call(n, items[i])
      BY <1>23, <3>1 DEF Carries
    <3> QED
      BY <3>2 DEF Call
  <2>8. \A j \in 1..Len(S) : \E i \in 1..Len(items) : S[j].item = items[i]
    BY <1>23 DEF Carries
  <2>9. \A i, j \in 1..Len(S) : i < j /\ S[i].node = S[j].node => S[i].item < S[j].item
    BY <1>23 DEF Carries
  <2> QED
    BY <2>3, <2>4, <2>6, <2>7, <2>8, <2>9
<1>25. /\ calls' \in Seq(E) /\ Len(S) \in Nat
       /\ \A j \in 1..Len(S) : j \in 1..Len(calls') /\ calls'[j] = S[j]
       /\ \A j \in 1..Len(calls) : j # 1 =>
             /\ Len(S) + j - 1 \in 1..Len(calls') /\ calls'[Len(S) + j - 1] = calls[j]
       /\ \A j \in 1..Len(calls') : ~(j \in 1..Len(S)) =>
             \E l \in 1..Len(calls) : calls'[j] = calls[l] /\ 1 < l /\ l = j - Len(S) + 1
  <2>1. calls \in Seq(E)
    BY <1>1 DEF TreeTypeOK, E
  <2>2. /\ calls' \in Seq(E) /\ Len(S) \in Nat
        /\ \A j \in 1..Len(S) : j \in 1..Len(calls') /\ calls'[j] = S[j]
        /\ \A j \in 2..Len(calls) : /\ Len(S) + j - 1 \in 1..Len(calls')
                                    /\ calls'[Len(S) + j - 1] = calls[j]
        /\ \A j \in 1..Len(calls') : j \in 1..Len(S) \/
              (j - Len(S) + 1 \in 2..Len(calls) /\ calls'[j] = calls[j - Len(S) + 1])
    <3>1. S \in Seq(E) /\ calls # <<>> /\ calls' = S \o Tail(calls)
      BY <1>1, <1>5, <1>24
    <3> QED
      BY <2>1, <3>1, HandOver
  <2>3. \A j \in 1..Len(calls) : j # 1 => j \in 2..Len(calls)
    BY <1>4
  <2>4. \A l \in 2..Len(calls) : l \in 1..Len(calls) /\ 1 < l
    BY <1>4
  <2> QED
    BY <2>2, <2>3, <2>4
<1>26. \A j \in 1..Len(calls') : ~(calls'[j].node \in New) => ~(j \in 1..Len(S))
  BY <1>24, <1>25
<1>27. \A j \in 1..Len(calls) : calls[j].node \in Live /\ calls[j].item \in 1..next - 1
  BY <1>1 DEF TreeTypeOK
<1>28. TreeTypeOK'
  <2>1. nodeIndex' \in Nat \ {0} /\ nodeIndex' <= PoolSize
    BY <1>1, <1>3, <1>7, <1>8
  <2>2. ASSUME NEW j \in 1..Len(calls')
        PROVE  calls'[j].node \in Live' /\ calls'[j].item \in 1..next - 1
    <3>1. CASE j \in 1..Len(S)
      <4>1. calls'[j] = S[j] /\ S[j].node \in New
        BY <1>24, <1>25, <3>1
      <4>2. PICK i \in 1..Len(items) : S[j].item = items[i]
        BY <1>24, <3>1
      <4> QED
        BY <1>9, <1>22, <4>1, <4>2
    <3>2. CASE ~(j \in 1..Len(S))
      <4>1. PICK l \in 1..Len(calls) : calls'[j] = calls[l]
        BY <1>25, <3>2
      <4> QED
        BY <1>9, <1>27, <4>1
    <3> QED
      BY <3>1, <3>2
  <2> QED
    BY <1>1, <1>10, <1>25, <2>1, <2>2 DEF TreeTypeOK, E
<1>29. PoolOK'
  <2>1. ASSUME NEW n \in 0..PoolSize - 1, n >= nodeIndex'
        PROVE  IsLeaf(n)' /\ List(n)' = <<>>
    <3>1. n >= nodeIndex /\ n # h /\ ~(n \in m..m + 3)
      BY <1>1, <1>3, <1>4, <1>8, <2>1
    <3>2. Nodes'[n] = Nodes[n] /\ IsLeaf(n) /\ List(n) = <<>>
      BY <1>1, <1>10, <3>1 DEF PoolOK
    <3> QED
      BY <3>2 DEF IsLeaf, List
  <2>2. nodeIndex' % 4 = 1 /\ m % 4 = 1
    BY <1>1, <1>3, <1>8 DEF PoolOK
  <2>3. ASSUME NEW n \in Live', ~IsLeaf(n)'
        PROVE  /\ n < Nodes'[n].Children /\ Nodes'[n].Children + 3 < nodeIndex'
               /\ Nodes'[n].Children % 4 = 1 /\ List(n)' = <<>>
    <3>1. n \in Live
      BY <1>9, <1>13, <2>3
    <3>2. CASE n = h
      <4>1. Nodes'[n].Children = m /\ List(n)' = <<>>
        BY <1>10, <1>12, <3>2
      <4>2. n < m /\ m + 3 < nodeIndex'
        BY <1>1, <1>3, <1>8, <3>1
      <4> QED
        BY <2>2, <4>1, <4>2
    <3>3. CASE n # h
      <4>1. /\ n < Nodes[n].Children /\ Nodes[n].Children + 3 < nodeIndex
            /\ Nodes[n].Children % 4 = 1 /\ List(n) = <<>>
        BY <1>1, <1>11, <2>3, <3>1, <3>3 DEF PoolOK
      <4>2. Nodes[n].Children \in Nat
        BY <1>1, <1>8, <3>1, TypeFacts
      <4> QED
        BY <1>1, <1>3, <1>8, <1>11, <3>1, <3>3, <4>1, <4>2
    <3> QED
      BY <3>2, <3>3
  <2>4. ASSUME NEW n \in Live' \ {0}
        PROVE  \E p \in Live', k \in 0..3 : ~IsLeaf(p)' /\ n = Child(p, k)'
    <3>1. CASE n \in Live
      <4>1. PICK p \in Live, k \in 0..3 : ~IsLeaf(p) /\ n = Child(p, k)
        BY <1>1, <2>4, <3>1 DEF PoolOK
      <4>2. p # h
        BY <1>5, <4>1
      <4> QED
        BY <1>9, <1>11, <4>1, <4>2
    <3>2. CASE n \in New
      <4>1. PICK k \in 0..3 : n = m + k
        BY <1>9, <3>2
      <4> QED
        BY <1>4, <1>9, <1>12, <4>1
    <3> QED
      BY <1>9, <3>1, <3>2
  <2> QED
    BY <2>1, <2>2, <2>3, <2>4 DEF PoolOK

<1>30. \A n \in Live : ~IsLeaf(n) => \A k \in 0..3 : Child(n, k) \in Live
  <2> SUFFICES ASSUME NEW n \in Live, ~IsLeaf(n), NEW k \in 0..3 PROVE Child(n, k) \in Live
    OBVIOUS
  <2>1. n < Nodes[n].Children /\ Nodes[n].Children + 3 < nodeIndex
    BY <1>1 DEF PoolOK
  <2>2. Nodes[n].Children \in Nat
    BY <1>1, <1>8, TypeFacts
  <2> QED
    BY <1>3, <1>8, <2>1, <2>2 DEF Child
<1>31. CellsOK(D)'
  <2>1. D \in [Live' -> Cells] /\ D[0] = RootCell
    BY <1>1, <1>6, <1>8, <1>9 DEF CellsOK
  <2>2. \A i, n \in Live' : D[i] = D[n] => i = n
    BY <1>6, <1>8
  <2>3. ASSUME NEW n \in Live' PROVE Depth(D[n]) = Nodes'[n].Depth
    <3>1. CASE n \in Live
      BY <1>1, <1>6, <1>10, <1>11, <3>1 DEF CellsOK
    <3>2. CASE n \in New
      <4>1. PICK k \in 0..3 : n = m + k
        BY <1>9, <3>2
      <4>2. Depth(Quarter(C[h], k)) = Depth(C[h]) + 1
        BY <1>19, QuarterIsCell
      <4> QED
        BY <1>6, <1>10, <1>19, <4>1, <4>2
    <3> QED
      BY <1>9, <3>1, <3>2
  <2>4. ASSUME NEW n \in Live', ~IsLeaf(n)'
        PROVE  Depth(D[n]) < MAX_DEPTH /\ \A k \in 0..3 : D[Child(n, k)'] = Quarter(D[n], k)
    <3>1. n \in Live
      BY <1>9, <1>13, <2>4
    <3>2. CASE n = h
      BY <1>4, <1>6, <1>12, <1>19, <3>2
    <3>3. CASE n # h
      <4>1. ~IsLeaf(n) /\ \A k \in 0..3 : Child(n, k)' = Child(n, k) /\ Child(n, k) \in Live
        BY <1>11, <1>30, <2>4, <3>1, <3>3
      <4> QED
        BY <1>1, <1>6, <3>1, <4>1 DEF CellsOK
    <3> QED
      BY <3>2, <3>3
  <2> QED
    BY <2>1, <2>2, <2>3, <2>4 DEF CellsOK
<1>32. BoundsOK(D)'
  <2>1. ASSUME NEW n \in Live' PROVE Nodes'[n].Bounds = CellBounds(Root', D[n])
    <3>1. CASE n \in Live
      <4>1. Nodes'[n].Bounds = Nodes[n].Bounds
        BY <1>10, <1>11, <3>1
      <4> QED
        BY <1>1, <1>6, <1>19, <3>1, <4>1 DEF BoundsOK
    <3>2. CASE n \in New
      <4>1. PICK k \in 0..3 : n = m + k
        BY <1>9, <3>2
      <4> QED
        BY <1>6, <1>19, <1>20, <4>1
    <3> QED
      BY <1>9, <3>1, <3>2
  <2> QED
    BY <2>1 DEF BoundsOK
<1>33. Subdivided(aabbs, Root, C[h])
  <2> DEFINE R == Reaching(aabbs, Root, C[h])
  <2>1. ASSUME NEW i \in 1..Len(items) PROVE items[i] \in R
    <3>1. items[i] \in 1..next - 1 /\ Hits(items[i], h)
      BY <1>22
    <3>2. items[i] \in DOMAIN aabbs
      <4>1. /\ aabbs \in Seq(Boxes) /\ next \in Nat /\ next <= Len(aabbs) + 1
            /\ Len(aabbs) \in Nat
        BY <1>1, TypeFacts DEF TreeTypeOK
      <4>2. items[i] \in 1..Len(aabbs)
        BY <3>1, <4>1
      <4> QED
        BY <4>1, <4>2
    <3>3. CASE Depth(C[h]) = 0
      BY <3>2, <3>3 DEF Reaching
    <3>4. CASE Depth(C[h]) # 0
      <4>1. h # 0
        BY <1>1, <3>4, RootIsCell DEF CellsOK
      <4> QED
        BY <1>18, <1>19, <3>1, <3>2, <3>4, <4>1 DEF Reaching, Hits
    <3> QED
      BY <3>3, <3>4
  <2>2. IsFiniteSet(R)
    <3>1. IsFiniteSet(DOMAIN aabbs) /\ R \in SUBSET DOMAIN aabbs
      BY <1>1, FrameBoxes DEF TreeTypeOK, OrderedBoxes, Reaching
    <3> QED
      BY <3>1, FS_Subset
  <2> HIDE DEF R
  <2> DEFINE I == 1..Len(items)
  <2>3. items \in Injection(I, R)
    <3>1. items \in [I -> R]
      BY <1>22, <2>1
    <3>2. \A i \in I : items[i] \in Nat
      BY <1>22
    <3>3. \A i, j \in I : items[i] = items[j] => i = j
      <4> SUFFICES ASSUME NEW i \in I, NEW j \in I, items[i] = items[j], i < j PROVE FALSE
        BY <1>22
      <4>1. items[i] < items[j]
        BY <1>22 DEF Increasing
      <4> QED
        BY <3>2, <4>1
    <3> QED
      BY <3>1, <3>3 DEF Injection, IsInjective
  <2>4. Cardinality(I) <= Cardinality(R) /\ Cardinality(R) \in Nat
    <3> HIDE DEF I
    <3> QED
      BY <2>2, <2>3, FS_Injection, FS_CardinalityType
  <2>5. Cardinality(I) = Len(List(h)) + 1
    <3>1. Len(items) \in Int /\ ~(1 > Len(items)) /\ Len(items) - 1 + 1 = Len(List(h)) + 1
      BY <1>22
    <3> QED
      BY <3>1, FS_Interval
  <2>6. Cardinality(R) > MAX_COL_NBR
    <3> HIDE DEF I
    <3> QED
      BY <1>5, <1>22, <2>4, <2>5, QuadAssumption
  <2> QED
    BY <1>19, <2>6 DEF Subdivided, R
<1>34. DivisionOK(D)'
  <2>1. ASSUME NEW n \in Live'
        PROVE  /\ IsLeaf(n)' /\ Nodes'[n].Depth < MAX_DEPTH => Len(List(n)') <= MAX_COL_NBR
               /\ ~IsLeaf(n)' => Subdivided(aabbs', Root', D[n])
    <3>1. CASE n = h
      BY <1>1, <1>4, <1>6, <1>12, <1>19, <1>33, <3>1
    <3>2. CASE n \in Live /\ n # h
      BY <1>1, <1>6, <1>11, <1>19, <3>2 DEF DivisionOK
    <3>3. CASE n \in New
      <4>1. Len(List(n)') = 0
        BY <1>13, <3>3
      <4> QED
        BY <1>13, <3>3, <4>1, QuadAssumption
    <3> QED
      BY <1>9, <3>1, <3>2, <3>3
  <2> QED
    BY <2>1 DEF DivisionOK
<1>35. PathsOK(U)'
  <2>1. U \in [Live' -> SUBSET Live']
    BY <1>9, <1>16
  <2>2. \A n \in Live' : n \in U[n] /\ 0 \in U[n]
    <3>1. \A n \in Live : n \in Up[n] /\ 0 \in Up[n]
      BY <1>1 DEF PathsOK
    <3>2. ASSUME NEW n \in Live PROVE n \in U[n] /\ 0 \in U[n]
      BY <1>16, <3>1, <3>2
    <3>3. ASSUME NEW n \in New PROVE n \in U[n] /\ 0 \in U[n]
      <4>1. 0 \in Up[h] /\ U[n] = Up[h] \cup {n}
        BY <1>4, <1>16, <3>1, <3>3
      <4> QED
        BY <4>1
    <3> QED
      BY <1>9, <3>2, <3>3
  <2>3. ASSUME NEW n \in Live', IsLeaf(n)', NEW x \in Live', n \in U[x] PROVE x = n
    <3>1. CASE n \in Live /\ x \in Live
      <4>1. IsLeaf(n) /\ n \in Up[x]
        BY <1>11, <1>12, <1>16, <2>3, <3>1
      <4> QED
        BY <1>1, <3>1, <4>1 DEF PathsOK
    <3>2. CASE n \in Live /\ x \in New
      <4>1. n # h /\ IsLeaf(n) /\ n \in Up[h]
        BY <1>9, <1>11, <1>12, <1>16, <2>3, <3>2
      <4> QED
        BY <1>1, <1>4, <3>2, <4>1 DEF PathsOK
    <3>3. CASE n \in New
      <4>1. \A y \in Live : Up[y] \subseteq Live
        BY <1>1 DEF PathsOK
      <4> QED
        BY <1>4, <1>9, <1>16, <2>3, <3>3, <4>1
    <3> QED
      BY <1>9, <3>1, <3>2, <3>3
  <2>4. ASSUME NEW n \in Live', ~IsLeaf(n)'
        PROVE  /\ \A k \in 0..3 : U[Child(n, k)'] = U[n] \cup {Child(n, k)'}
               /\ \A x \in Live', k \in 0..3 : Child(n, k)' \in U[x] =>
                      /\ n \in U[x]
                      /\ \A l \in 0..3 : Child(n, l)' \in U[x] => l = k
               /\ \A x \in Live' : n \in U[x] /\ x # n => \E k \in 0..3 : Child(n, k)' \in U[x]
    <3>1. n \in Live
      BY <1>9, <1>13, <2>4
    <3>2. CASE n = h
      <4>1. \A k \in 0..3 : Child(n, k)' = m + k /\ m + k \in New
        BY <1>9, <1>12, <3>2
      <4>2. \A x \in Live', k \in 0..3 : m + k \in U[x] => x = m + k
        <5> SUFFICES ASSUME NEW x \in Live', NEW k \in 0..3, m + k \in U[x] PROVE x = m + k
          OBVIOUS
        <5>1. m + k \in New /\ ~(m + k \in Live)
          BY <1>9
        <5>2. ~(x \in Live)
          BY <1>16, <5>1
        <5>3. x \in New /\ Up[h] \subseteq Live
          BY <1>4, <1>9, <1>16, <5>2
        <5> QED
          BY <1>16, <5>1, <5>3
      <4>3. \A x \in Live' : h \in U[x] /\ x # h => x \in New
        BY <1>9, <1>16, <1>17
      <4>4. \A k \in 0..3 : U[Child(n, k)'] = U[n] \cup {Child(n, k)'}
        BY <1>4, <1>16, <3>2, <4>1
      <4>5. ASSUME NEW x \in Live', NEW k \in 0..3, Child(n, k)' \in U[x]
            PROVE  /\ n \in U[x]
                   /\ \A l \in 0..3 : Child(n, l)' \in U[x] => l = k
        <5>1. x = m + k
          BY <4>1, <4>2, <4>5
        <5>2. \A l \in 0..3 : Child(n, l)' \in U[x] => m + l = m + k
          BY <4>1, <4>2, <5>1
        <5>3. \A l \in 0..3 : m + l = m + k => l = k
          BY <1>8
        <5> QED
          BY <1>9, <1>16, <1>17, <3>2, <5>1, <5>2, <5>3
      <4>6. ASSUME NEW x \in Live', n \in U[x], x # n
            PROVE  \E k \in 0..3 : Child(n, k)' \in U[x]
        <5>1. x \in New
          BY <3>2, <4>3, <4>6
        <5>2. PICK k \in 0..3 : x = m + k
          BY <1>9, <5>1
        <5> QED
          BY <1>16, <4>1, <5>1, <5>2
      <4> QED
        BY <4>4, <4>5, <4>6
    <3>3. CASE n # h
      <4>1. ~IsLeaf(n) /\ \A k \in 0..3 : Child(n, k)' = Child(n, k) /\ Child(n, k) \in Live
        BY <1>11, <1>30, <2>4, <3>1, <3>3
      <4>2. /\ \A k \in 0..3 : Up[Child(n, k)] = Up[n] \cup {Child(n, k)}
            /\ \A x \in Live, k \in 0..3 : Child(n, k) \in Up[x] =>
                  /\ n \in Up[x]
                  /\ \A l \in 0..3 : Child(n, l) \in Up[x] => l = k
            /\ \A x \in Live : n \in Up[x] /\ x # n => \E k \in 0..3 : Child(n, k) \in Up[x]
        BY <1>1, <3>1, <4>1 DEF PathsOK
      <4>3. \A x \in Live' : \E y \in Live :
                /\ \A z \in Live : z \in U[x] <=> z \in Up[y]
                /\ x \in Live => y = x
                /\ x \in New => y = h
        <5> TAKE x \in Live'
        <5>1. CASE x \in Live
          BY <1>9, <1>16, <5>1
        <5>2. CASE x \in New
          BY <1>4, <1>9, <1>16, <5>2
        <5> QED
          BY <1>9, <5>1, <5>2
      <4>4. \A k \in 0..3 : U[Child(n, k)'] = U[n] \cup {Child(n, k)'}
        BY <1>16, <3>1, <4>1, <4>2
      <4>5. ASSUME NEW x \in Live', NEW k \in 0..3, Child(n, k)' \in U[x]
            PROVE  /\ n \in U[x]
                   /\ \A l \in 0..3 : Child(n, l)' \in U[x] => l = k
        BY <3>1, <4>1, <4>2, <4>3, <4>5
      <4>6. ASSUME NEW x \in Live', n \in U[x], x # n
            PROVE  \E k \in 0..3 : Child(n, k)' \in U[x]
        BY <1>9, <3>1, <3>3, <4>1, <4>2, <4>3, <4>6
      <4> QED
        BY <4>4, <4>5, <4>6
    <3> QED
      BY <3>2, <3>3
  <2> QED
    BY <2>1, <2>2, <2>3, <2>4 DEF PathsOK
<1>36. NestOK(U)'
  <2>1. ASSUME NEW n \in Live', NEW x \in U[n], NEW item \in 1..Len(aabbs), Hits(item, n)'
        PROVE  Hits(item, x)'
    <3>1. CASE n \in Live
      <4>1. x \in Up[n] /\ x \in Live
        BY <1>16, <3>1
      <4>2. Hits(item, x)
        BY <1>1, <1>14, <2>1, <3>1, <4>1 DEF NestOK
      <4> QED
        BY <1>14, <4>1, <4>2
    <3>2. CASE n \in New
      <4>1. x = n \/ x \in Up[h]
        BY <1>16, <3>2
      <4>2. ASSUME x \in Up[h] PROVE Hits(item, x)'
        <5>1. x \in Live /\ Hits(item, h)
          BY <1>1, <1>4, <1>21, <2>1, <3>2, <4>2 DEF PathsOK
        <5>2. Hits(item, x)
          BY <1>1, <1>4, <4>2, <5>1 DEF NestOK
        <5> QED
          BY <1>14, <5>1, <5>2
      <4> QED
        BY <2>1, <4>1, <4>2
    <3> QED
      BY <1>9, <3>1, <3>2
  <2> QED
    BY <1>1, <2>1 DEF NestOK
\* A pending call that was on its way to h is on its way to each of the new nodes.
<1>37. \A n \in Live, j \in 1..Len(calls') : calls'[j].node \in U[n] => ~(j \in 1..Len(S))
  BY <1>9, <1>16, <1>26, <1>24, <1>25
<1>38. \A n \in New, j \in 1..Len(S) : S[j].node \in U[n] => S[j].node = n
  <2>1. Up[h] \subseteq Live
    BY <1>4, <1>16
  <2> QED
    BY <1>9, <1>16, <1>24, <2>1
<1>39. \A n \in New, l \in 1..Len(calls) : calls[l].node \in U[n] <=> calls[l].node \in Up[h]
  BY <1>9, <1>16, <1>27
<1>40. \A i \in 1..Len(items), l \in 1..Len(calls) :
          1 < l /\ calls[l].node \in Up[h] => items[i] < calls[l].item
  <2> SUFFICES ASSUME NEW i \in 1..Len(items), NEW l \in 1..Len(calls), 1 < l,
                      calls[l].node \in Up[h]
               PROVE  items[i] < calls[l].item
    OBVIOUS
  <2>1. CASE items[i] = it
    BY <1>1, <1>2, <1>4, <1>17, <2>1 DEF OrderOK
  <2>2. CASE \E j \in DOMAIN List(h) : List(h)[j] = items[i]
    BY <1>1, <1>4, <1>5, <2>2 DEF OrderOK
  <2> QED
    BY <1>22, <2>1, <2>2
<1>41. OrderOK(U)'
  <2>1. ASSUME NEW n \in Live'
        PROVE  Increasing(List(n)') /\ \A i \in DOMAIN (List(n)') : (List(n)')[i] \in 1..next - 1
    <3>1. CASE n \in Live /\ n # h
      BY <1>1, <1>11, <3>1 DEF OrderOK
    <3>2. CASE n = h \/ n \in New
      <4>1. List(n)' = <<>>
        BY <1>12, <1>13, <3>2
      <4> QED
        BY <4>1 DEF Increasing
    <3> QED
      BY <1>9, <3>1, <3>2
  <2>2. ASSUME NEW n \in Live', NEW j \in 1..Len(calls'), IsLeaf(n)', calls'[j].node \in U[n],
               NEW i \in DOMAIN (List(n)')
        PROVE  (List(n)')[i] < calls'[j].item
    <3>1. n \in Live /\ n # h
      BY <1>9, <1>12, <1>13, <2>2
    <3>2. PICK l \in 1..Len(calls) : calls'[j] = calls[l]
      BY <1>25, <1>37, <2>2, <3>1
    <3>3. IsLeaf(n) /\ List(n)' = List(n) /\ calls[l].node \in Up[n]
      BY <1>11, <1>16, <2>2, <3>1, <3>2
    <3> QED
      BY <1>1, <2>2, <3>1, <3>2, <3>3 DEF OrderOK
  <2>3. ASSUME NEW n \in Live', NEW i \in 1..Len(calls'), NEW j \in 1..Len(calls'), i < j,
               calls'[i].node \in U[n], calls'[j].node \in U[n]
        PROVE  calls'[i].item < calls'[j].item
    <3>1. CASE ~(i \in 1..Len(S)) /\ ~(j \in 1..Len(S))
      <4>1. PICK a \in 1..Len(calls) : calls'[i] = calls[a] /\ a = i - Len(S) + 1
        BY <1>25, <3>1
      <4>2. PICK b \in 1..Len(calls) : calls'[j] = calls[b] /\ b = j - Len(S) + 1
        BY <1>25, <3>1
      <4>3. a < b
        BY <1>25, <2>3, <4>1, <4>2
      <4>4. \E y \in Live : calls[a].node \in Up[y] /\ calls[b].node \in Up[y]
        <5>1. CASE n \in Live
          BY <1>16, <2>3, <4>1, <4>2, <5>1
        <5>2. CASE n \in New
          BY <1>4, <1>39, <2>3, <4>1, <4>2, <5>2
        <5> QED
          BY <1>9, <5>1, <5>2
      <4> QED
        BY <1>1, <4>1, <4>2, <4>3, <4>4 DEF OrderOK
    <3>2. CASE i \in 1..Len(S)
      <4>1. n \in New
        BY <1>9, <1>37, <2>3, <3>2
      <4>2. calls'[i] = S[i] /\ S[i].node = n
        BY <1>25, <1>38, <2>3, <3>2, <4>1
      <4>3. CASE j \in 1..Len(S)
        <5>1. calls'[j] = S[j] /\ S[j].node = n
          BY <1>25, <1>38, <2>3, <4>1, <4>3
        <5> QED
          BY <1>24, <2>3, <3>2, <4>2, <4>3, <5>1
      <4>4. CASE ~(j \in 1..Len(S))
        <5>1. PICK l \in 1..Len(calls) : calls'[j] = calls[l] /\ 1 < l
          BY <1>25, <4>4
        <5>2. PICK a \in 1..Len(items) : S[i].item = items[a]
          BY <1>24, <3>2
        <5>3. calls[l].node \in Up[h]
          BY <1>39, <2>3, <4>1, <5>1
        <5> QED
          BY <1>40, <4>2, <5>1, <5>2, <5>3
      <4> QED
        BY <4>3, <4>4
    <3>3. CASE ~(i \in 1..Len(S)) /\ j \in 1..Len(S)
      BY <1>25, <2>3, <3>3
    <3> QED
      BY <3>1, <3>2, <3>3
  <2> QED
    BY <1>1, <2>1, <2>2, <2>3 DEF OrderOK
<1>42. ReachOK(U)'
  <2>1. ASSUME NEW n \in Live', NEW item \in 1..next - 1, IsLeaf(n)', Hits(item, n)'
        PROVE  \/ \E i \in DOMAIN (List(n)') : (List(n)')[i] = item
               \/ \E j \in 1..Len(calls') : calls'[j].item = item /\ calls'[j].node \in U[n]
    <3>1. CASE n \in Live
      <4>1. n # h /\ IsLeaf(n) /\ List(n)' = List(n) /\ Hits(item, n)
        BY <1>11, <1>12, <1>14, <2>1, <3>1
      <4>2. CASE \E i \in DOMAIN List(n) : List(n)[i] = item
        BY <4>1, <4>2
      <4>3. CASE \E j \in 1..Len(calls) : calls[j].item = item /\ calls[j].node \in Up[n]
        <5>1. PICK j \in 1..Len(calls) : calls[j].item = item /\ calls[j].node \in Up[n]
          BY <4>3
        <5>2. j # 1
          BY <1>2, <1>17, <3>1, <4>1, <5>1
        <5>3. /\ Len(S) + j - 1 \in 1..Len(calls')
              /\ calls'[Len(S) + j - 1] = calls[j]
          BY <1>25, <5>2
        <5> QED
          BY <1>16, <3>1, <5>1, <5>3
      <4> QED
        BY <1>1, <3>1, <4>1, <4>2, <4>3 DEF ReachOK
    <3>2. CASE n \in New
      <4>1. Hits(item, h)
        <5>1. item \in 1..Len(aabbs)
          BY <1>1, TypeFacts DEF TreeTypeOK
        <5> QED
          BY <1>21, <2>1, <3>2, <5>1
      <4>2. ASSUME NEW i \in 1..Len(items), items[i] = item
            PROVE  \E j \in 1..Len(calls') : calls'[j].item = item /\ calls'[j].node \in U[n]
        <5>1. PICK j \in 1..Len(S) : S[j].node = n /\ S[j].item = item
          BY <1>24, <2>1, <3>2, <4>2
        <5>2. j \in 1..Len(calls') /\ calls'[j] = S[j] /\ n \in U[n]
          BY <1>16, <1>25, <3>2
        <5> QED
          BY <5>1, <5>2
      <4>3. CASE \E i \in DOMAIN List(h) : List(h)[i] = item
        BY <1>22, <4>2, <4>3
      <4>4. CASE \E j \in 1..Len(calls) : calls[j].item = item /\ calls[j].node \in Up[h]
        <5>1. PICK j \in 1..Len(calls) : calls[j].item = item /\ calls[j].node \in Up[h]
          BY <4>4
        <5>2. CASE j = 1
          BY <1>2, <1>22, <4>2, <5>1, <5>2
        <5>3. CASE j # 1
          <6>1. /\ Len(S) + j - 1 \in 1..Len(calls')
                /\ calls'[Len(S) + j - 1] = calls[j]
            BY <1>25, <5>3
          <6>2. calls[j].node \in U[n]
            BY <1>39, <3>2, <5>1
          <6> QED
            BY <5>1, <6>1, <6>2
        <5> QED
          BY <5>2, <5>3
      <4> QED
        BY <1>1, <1>4, <1>5, <4>1, <4>3, <4>4 DEF ReachOK
    <3> QED
      BY <1>9, <3>1, <3>2
  <2>2. ASSUME NEW n \in Live', NEW i \in DOMAIN (List(n)'), NEW item, item = (List(n)')[i]
        PROVE  Hits(item, n)'
    <3>1. n \in Live /\ n # h
      <4>1. List(n)' # <<>>
        BY <2>2
      <4> QED
        BY <1>9, <1>12, <1>13, <4>1
    <3>2. Hits(item, n)
      BY <1>1, <1>11, <2>2, <3>1 DEF ReachOK
    <3> QED
      BY <1>14, <3>1, <3>2
  <2>3. ASSUME NEW j \in 1..Len(calls'), NEW item, item = calls'[j].item,
               NEW n, n = calls'[j].node
        PROVE  Hits(item, n)'
    <3>1. CASE j \in 1..Len(S)
      <4>1. item = S[j].item /\ n = S[j].node
        BY <1>25, <2>3, <3>1
      <4> QED
        BY <1>24, <3>1, <4>1
    <3>2. CASE ~(j \in 1..Len(S))
      <4>1. PICK l \in 1..Len(calls) : calls'[j] = calls[l]
        BY <1>25, <3>2
      <4>2. Hits(item, n) /\ n \in Live
        BY <1>1, <1>27, <2>3, <4>1 DEF ReachOK
      <4> QED
        BY <1>14, <4>2
    <3> QED
      BY <3>1, <3>2
  <2> QED
    BY <1>1, <2>1, <2>2, <2>3 DEF ReachOK
<1>43. TreeInvFor(D, U)'
  BY <1>28, <1>29, <1>31, <1>32, <1>34, <1>35, <1>36, <1>41, <1>42 DEF TreeInvFor
<1> QED
  BY <1>43 DEF TreeInv

-----------------------------------------------------------------------------
(* The first frame, and every later one.                                   *)

\* A frame has begun: only the root has been handed out, and no list is left.
Fresh ==
    /\ Nodes \in [0..PoolSize - 1 -> NodeType]
    /\ \A n \in 0..PoolSize - 1 : IsLeaf(n) /\ List(n) = <<>>
    /\ Nodes[0].Depth = 0
    /\ nodeIndex = 1
    /\ aabbs \in Seq(Boxes)
    /\ aabbs # <<>> => Nodes[0].Bounds = Scaled(Root)
    /\ next = 1
    /\ calls = <<>>

\* The pool has a node, the root.
LEMMA PoolHasRoot == PoolSize \in Nat \ {0} /\ 0 \in 0..PoolSize - 1
<1>1. PoolSize # 0
  <2>1. Cells # {} /\ IsFiniteSet(Cells) /\ Cardinality(Cells) <= PoolSize /\ PoolSize \in Nat
    BY RootIsCell, CellsCounted
  <2>2. Cardinality(Cells) # 0 /\ Cardinality(Cells) \in Nat
    BY <2>1, FS_EmptySet, FS_CardinalityType
  <2> QED
    BY <2>1, <2>2
<1> QED
  BY <1>1, CellsCounted

\* A tree that is only a cleared root satisfies the invariant,
LEMMA FreshTree == Fresh => TreeInv
<1> SUFFICES ASSUME Fresh PROVE TreeInv
  OBVIOUS
<1>1. Live = {0}
  BY DEF Fresh, Live
<1>2. IsLeaf(0) /\ List(0) = <<>> /\ Nodes[0].Depth = 0
  BY PoolHasRoot DEF Fresh
<1>3. PICK C : C = [n \in Live |-> RootCell]
  OBVIOUS
<1>4. PICK Up : Up = [n \in Live |-> {0}]
  OBVIOUS
<1>5. C[0] = RootCell /\ Up[0] = {0} /\ C \in [Live -> Cells] /\ Up \in [Live -> SUBSET Live]
  BY <1>1, <1>3, <1>4, RootIsCell
<1>6. Len(aabbs) \in Nat /\ Len(calls) = 0 /\ calls \in Seq([node : Nat, item : Nat])
  BY DEF Fresh
<1>7. TreeTypeOK
  <2>1. nodeIndex \in Nat \ {0} /\ nodeIndex <= PoolSize /\ next \in Nat \ {0}
        /\ next <= Len(aabbs) + 1
    BY <1>6, PoolHasRoot DEF Fresh
  <2> QED
    BY <1>6, <2>1 DEF TreeTypeOK, Fresh
<1>8. PoolOK
  <2>1. nodeIndex % 4 = 1
    BY DEF Fresh
  <2>2. \A n \in 0..PoolSize - 1 : n >= nodeIndex => IsLeaf(n) /\ List(n) = <<>>
    BY DEF Fresh
  <2> QED
    BY <1>1, <1>2, <2>1, <2>2 DEF PoolOK
<1>9. CellsOK(C)
  BY <1>1, <1>2, <1>5, RootIsCell DEF CellsOK
<1>10. BoundsOK(C)
  <2>1. IntegerBox(Root)
    BY FrameBoxes DEF Fresh, Root
  <2>2. CellBounds(Root, RootCell) = Scaled(Root)
    BY <2>1, RootCellBounds
  <2> QED
    BY <1>1, <1>5, <2>2 DEF BoundsOK, Fresh
<1>11. DivisionOK(C)
  <2>1. Len(List(0)) = 0 /\ 0 <= MAX_COL_NBR
    BY <1>2, QuadAssumption
  <2> QED
    BY <1>1, <1>2, <2>1 DEF DivisionOK
<1>12. PathsOK(Up)
  BY <1>1, <1>2, <1>5 DEF PathsOK
<1>13. NestOK(Up)
  BY <1>1, <1>5 DEF NestOK
<1>14. OrderOK(Up)
  <2>1. Increasing(List(0)) /\ DOMAIN List(0) = {}
    BY <1>2 DEF Increasing
  <2> QED
    BY <1>1, <1>6, <2>1 DEF OrderOK
<1>15. ReachOK(Up)
  <2>1. 1..next - 1 = {} /\ DOMAIN List(0) = {}
    BY <1>2 DEF Fresh
  <2> QED
    BY <1>1, <1>6, <2>1 DEF ReachOK
<1> QED
  BY <1>7, <1>8, <1>9, <1>10, <1>11, <1>12, <1>13, <1>14, <1>15 DEF TreeInv, TreeInvFor

\* which is how it starts
LEMMA InitIsFresh == Init => Fresh
<1> SUFFICES ASSUME Init PROVE Fresh
  OBVIOUS
<1>1. FreshNode \in NodeType
  BY DEF FreshNode, NodeType, NoChildren, Rectangle, Vec
<1>2. \A n \in 0..PoolSize - 1 : Nodes[n] = FreshNode
  BY DEF Init
<1>3. Nodes \in [0..PoolSize - 1 -> NodeType]
  BY <1>1 DEF Init
<1>4. FreshNode.Depth = 0 /\ FreshNode.Children = NoChildren /\ FreshNode.ColliderRefAabbs = <<>>
  BY DEF FreshNode
<1> HIDE DEF FreshNode
<1>5. \A n \in 0..PoolSize - 1 : IsLeaf(n) /\ List(n) = <<>>
  BY <1>2, <1>4 DEF IsLeaf, List
<1>6. Nodes[0].Depth = 0
  BY <1>2, <1>4, PoolHasRoot
<1> QED
  BY <1>3, <1>5, <1>6 DEF Fresh, Init

\* and how SetUpRoot leaves it.
LEMMA SetUpRootIsFresh == TreeInv /\ SetUpRoot => Fresh'
<1> SUFFICES ASSUME NEW C, NEW Up, TreeInvFor(C, Up), SetUpRoot PROVE Fresh'
  BY DEF TreeInv
<1> DEFINE P == 0..PoolSize - 1
<1>1. TreeTypeOK /\ CellsOK(C) /\ Nodes \in [P -> NodeType]
  BY DEF TreeInvFor, TreeTypeOK
<1>2. aabbs' \in Seq(Boxes)
  <2>1. PICK n \in 0..MaxItems : aabbs' \in [1..n -> Boxes]
    BY DEF SetUpRoot
  <2> QED
    BY <2>1, BoxesAssumption
<1>3. Nodes[0].Depth = 0 /\ 0 \in P
  BY <1>1, TypeFacts, RootIsCell, PoolHasRoot DEF CellsOK
<1>4. PICK box : box = Scaled(RootBounds(aabbs'))
  OBVIOUS
<1>5. box \in [type : {"Rectangle"}, minBound : Vec, maxBound : Vec]
  <2>1. PICK boxes : boxes = aabbs'
    OBVIOUS
  <2>2. PICK r : r = RootBounds(boxes)
    OBVIOUS
  <2>3. IntegerBox(Scaled(r))
    BY <1>2, <2>1, <2>2, FrameBoxes, ScaledIsBox
  <2>4. /\ Scaled(r).minBound[1] \in Int /\ Scaled(r).minBound[2] \in Int
        /\ Scaled(r).maxBound[1] \in Int /\ Scaled(r).maxBound[2] \in Int
    BY <2>3 DEF IntegerBox
  <2>5. Scaled(r) \in [type : {"Rectangle"}, minBound : Vec, maxBound : Vec]
    BY <2>4 DEF Scaled, Rectangle, Vec
  <2> QED
    BY <1>4, <2>1, <2>2, <2>5
<1>6. PICK pool : pool = [n \in P |-> Cleared(Nodes[n])]
  OBVIOUS
<1>7. Nodes' = [pool EXCEPT ![0].Bounds = box]
  BY <1>1, <1>4, <1>6 DEF SetUpRoot
<1>8. ASSUME NEW n \in P
      PROVE  /\ pool[n] \in NodeType /\ pool[n].ColliderRefAabbs = <<>>
             /\ pool[n].Children = NoChildren /\ pool[n].Depth = Nodes[n].Depth
  <2>1. PICK node \in NodeType : node = Nodes[n]
    BY <1>1
  <2>2. Cleared(node) = [node EXCEPT !.ColliderRefAabbs = <<>>, !.Children = NoChildren]
    BY DEF Cleared
  <2>3. <<>> \in Seq(Nat) /\ NoChildren \in Nat
    BY DEF NoChildren
  <2>4. /\ Cleared(node) \in NodeType /\ Cleared(node).ColliderRefAabbs = <<>>
        /\ Cleared(node).Children = NoChildren /\ Cleared(node).Depth = node.Depth
    BY <2>2, <2>3 DEF NodeType
  <2> QED
    BY <1>6, <2>1, <2>4
<1>9. ASSUME NEW n \in P
      PROVE  /\ Nodes'[n] \in NodeType /\ Nodes'[n].ColliderRefAabbs = <<>>
             /\ Nodes'[n].Children = NoChildren /\ Nodes'[n].Depth = Nodes[n].Depth
             /\ n = 0 => Nodes'[n].Bounds = box
  <2>1. PICK node \in NodeType : node = pool[n]
    BY <1>8
  <2>2. /\ [node EXCEPT !.Bounds = box] \in NodeType
        /\ [node EXCEPT !.Bounds = box].ColliderRefAabbs = node.ColliderRefAabbs
        /\ [node EXCEPT !.Bounds = box].Children = node.Children
        /\ [node EXCEPT !.Bounds = box].Depth = node.Depth
        /\ [node EXCEPT !.Bounds = box].Bounds = box
    BY <1>5 DEF NodeType
  <2>3. DOMAIN pool = P
    BY <1>6
  <2>4. CASE n = 0
    BY <1>3, <1>7, <1>8, <2>1, <2>2, <2>3, <2>4
  <2>5. CASE n # 0
    BY <1>7, <1>8, <2>1, <2>3, <2>5
  <2> QED
    BY <2>4, <2>5
<1>10. Nodes' \in [P -> NodeType]
  <2>1. Nodes' = [n \in P |-> Nodes'[n]]
    BY <1>6, <1>7
  <2> QED
    BY <1>9, <2>1
<1>11. \A n \in P : IsLeaf(n)' /\ List(n)' = <<>>
  BY <1>9 DEF IsLeaf, List
<1>12. Nodes'[0].Depth = 0 /\ Nodes'[0].Bounds = box
  BY <1>3, <1>9
<1>13. nodeIndex' = 1 /\ next' = 1 /\ calls' = <<>>
  BY DEF SetUpRoot, FirstHandedOut
<1>14. Root' = RootBounds(aabbs')
  BY DEF Root
<1> QED
  BY <1>2, <1>4, <1>10, <1>11, <1>12, <1>13, <1>14 DEF Fresh

-----------------------------------------------------------------------------
(* The invariant holds throughout.                                         *)

\* Every step of SetUpRoot and Insert keeps it.
LEMMA NextKeepsTree == TreeInv /\ [Next]_vars => TreeInv'
<1> SUFFICES ASSUME TreeInv, [Next]_vars PROVE TreeInv'
  OBVIOUS
<1>1. PICK C, Up : TreeInvFor(C, Up)
  BY DEF TreeInv
<1>2. CASE SetUpRoot
  <2>1. Fresh'
    BY <1>2, SetUpRootIsFresh
  <2>2. Fresh' => TreeInv'
    BY FreshTree, PTL
  <2> QED
    BY <2>1, <2>2
<1>3. CASE InsertNext
  BY <1>1, <1>3, InsertNextKeeps DEF TreeInv
<1>4. CASE Descend
  BY <1>1, <1>4, DescendKeeps DEF TreeInv
<1>5. CASE Split
  BY <1>1, <1>5, SplitKeeps
<1>6. CASE PushBack
  BY <1>1, <1>6, PushBackKeeps DEF TreeInv
<1>7. CASE UNCHANGED vars
  <2>1. UNCHANGED Nodes /\ UNCHANGED nodeIndex /\ UNCHANGED aabbs /\ UNCHANGED next
        /\ UNCHANGED calls
    BY <1>7 DEF vars
  <2>2. /\ PoolOK' /\ CellsOK(C)' /\ BoundsOK(C)' /\ DivisionOK(C)' /\ PathsOK(Up)' /\ NestOK(Up)'
        /\ Live' = Live
        /\ \A n : (IsLeaf(n)' <=> IsLeaf(n)) /\ List(n)' = List(n)
        /\ \A n, item : Hits(item, n)' <=> Hits(item, n)
    BY <1>1, <2>1, SameTree
  <2>3. TreeTypeOK /\ OrderOK(Up) /\ ReachOK(Up)
    BY <1>1 DEF TreeInvFor
  <2>4. TreeTypeOK'
    BY <2>1, <2>2, <2>3 DEF TreeTypeOK
  <2>5. OrderOK(Up)'
    BY <2>1, <2>2, <2>3 DEF OrderOK
  <2>6. ReachOK(Up)'
    BY <2>1, <2>2, <2>3 DEF ReachOK
  <2> QED
    BY <2>2, <2>4, <2>5, <2>6 DEF TreeInv, TreeInvFor
<1> QED
  BY <1>2, <1>3, <1>4, <1>5, <1>6, <1>7 DEF Next, Insert

\* The inductive invariant: every node of the frame stands for a cell of its own,
\* and every item is listed by the leaves it hits or on its way to them
\* (QuadTree.cpp:26-97).
THEOREM TreeInvAlways == Spec => []TreeInv
<1>1. Init => TreeInv
  BY InitIsFresh, FreshTree
<1> QED
  BY <1>1, NextKeepsTree, PTL DEF Spec

-----------------------------------------------------------------------------
(* The pool and the lists.                                                 *)

\* PoolNeverOverrun: the constructor's pool has a node for every cell there is.
THEOREM PoolSuffices == Spec => []PoolNeverOverrun
<1>1. TreeInv => PoolNeverOverrun
  <2> SUFFICES ASSUME TreeInv, calls # <<>>, IsLeaf(Head(calls).node), Full(Head(calls).node)
               PROVE  nodeIndex + 3 \in DOMAIN Nodes
    BY DEF PoolNeverOverrun
  <2>1. PICK C, Up : TreeInvFor(C, Up)
    BY DEF TreeInv
  <2>2. TreeTypeOK
    BY <2>1 DEF TreeInvFor
  <2>3. PICK h \in Live : h = Head(calls).node
    BY <2>2, HeadCall
  <2>4. IsLeaf(h) /\ Nodes[h].Depth < MAX_DEPTH
    BY <2>3 DEF Full
  <2>5. nodeIndex + 4 <= PoolSize
    BY <2>1, <2>4, RoomForQuarters
  <2> QED
    BY <2>2, <2>5, TypeFacts
<1> QED
  BY <1>1, TreeInvAlways, PTL

\* NoItemTwice: the items of a list come in their order, so none comes twice.
THEOREM ListsAreSets == Spec => []NoItemTwice
<1>1. TreeInv => NoItemTwice
  <2> SUFFICES ASSUME TreeInv, NEW n \in DOMAIN Nodes, NEW i \in DOMAIN List(n),
                      NEW j \in DOMAIN List(n), List(n)[i] = List(n)[j]
               PROVE  i = j
    BY DEF NoItemTwice, List
  <2>1. PICK C, Up : TreeInvFor(C, Up)
    BY DEF TreeInv
  <2>2. TreeTypeOK /\ PoolOK /\ OrderOK(Up)
    BY <2>1 DEF TreeInvFor
  <2>3. n \in 0..PoolSize - 1 /\ PoolSize \in Nat /\ nodeIndex \in Nat
    BY <2>2, TypeFacts
  <2>4. CASE n >= nodeIndex
    BY <2>2, <2>3, <2>4 DEF PoolOK
  <2>5. CASE n \in Live
    <3>1. Increasing(List(n)) /\ List(n) \in Seq(Nat)
      BY <2>2, <2>3, <2>5, TypeFacts DEF OrderOK
    <3>2. List(n)[i] \in Nat /\ i \in Nat /\ j \in Nat
      BY <3>1
    <3>3. ~(i < j) /\ ~(j < i)
      BY <3>1, <3>2 DEF Increasing
    <3> QED
      BY <3>2, <3>3
  <2> QED
    BY <2>3, <2>4, <2>5 DEF Live
<1> QED
  BY <1>1, TreeInvAlways, PTL

-----------------------------------------------------------------------------
(* What a built tree lists.                                                *)

\* Two increasing enumerations of a set do not differ where one would be smaller.
LEMMA NoSmaller ==
    ASSUME NEW N \in Nat, NEW S \in SUBSET Int, NEW f \in [1..N -> S], NEW g \in [1..N -> S],
           Increasing(g), \A s \in S : \E j \in 1..N : g[j] = s, Increasing(f),
           NEW i \in 1..N, \A j \in 1..N : j < i => f[j] = g[j]
    PROVE  ~(f[i] < g[i])
<1> SUFFICES ASSUME f[i] < g[i] PROVE FALSE
  OBVIOUS
<1>1. f[i] \in S /\ f[i] \in Int /\ g[i] \in Int
  OBVIOUS
<1>2. PICK j \in 1..N : g[j] = f[i]
  BY <1>1
<1>3. i \in Int /\ j \in Int
  OBVIOUS
<1>4. CASE j < i
  <2>1. f[j] = f[i]
    BY <1>2, <1>4
  <2>2. f[j] < f[i]
    BY <1>4 DEF Increasing
  <2> QED
    BY <1>1, <2>1, <2>2
<1>5. CASE i < j
  <2>1. g[i] < g[j]
    BY <1>5 DEF Increasing
  <2> QED
    BY <1>1, <1>2, <2>1
<1>6. CASE i = j
  BY <1>1, <1>2, <1>6
<1> QED
  BY <1>3, <1>4, <1>5, <1>6

\* There is one increasing enumeration of a finite set.
LEMMA OneOrder ==
    ASSUME NEW S \in SUBSET Int, IsFiniteSet(S), NEW N \in Nat, N = Cardinality(S),
           NEW f \in [1..N -> S], NEW g \in [1..N -> S], Increasing(f), Increasing(g)
    PROVE  f = g
<1>1. ASSUME NEW h \in [1..N -> S], Increasing(h) PROVE \A s \in S : \E j \in 1..N : h[j] = s
  <2>1. h \in Injection(1..N, S)
    <3>1. ASSUME NEW i \in 1..N, NEW j \in 1..N, h[i] = h[j] PROVE i = j
      <4>1. ~(i < j) /\ ~(j < i)
        <5>1. h[i] \in Int /\ h[j] \in Int
          OBVIOUS
        <5> QED
          BY <1>1, <3>1, <5>1 DEF Increasing
      <4> QED
        BY <4>1
    <3> QED
      BY <3>1 DEF Injection, IsInjective
  <2>2. Cardinality(1..N) = N
    BY FS_Interval
  <2>3. h \in Surjection(1..N, S)
    BY <2>1, <2>2, FS_Injection
  <2> QED
    BY <2>3 DEF Surjection
<1>2. SUFFICES ASSUME f # g PROVE FALSE
  OBVIOUS
<1> DEFINE D == {i \in 1..N : f[i] # g[i]}
<1>3. D # {} /\ D \in SUBSET Nat
  BY <1>2
<1>4. PICK i \in D : \A j \in D : i <= j
  <2> HIDE DEF D
  <2> QED
    BY <1>3, LeastNatural
<1>5. i \in 1..N /\ \A j \in 1..N : j < i => f[j] = g[j]
  BY <1>4
<1>6. ~(f[i] < g[i])
  BY <1>1, <1>5, NoSmaller
<1>7. ~(g[i] < f[i])
  BY <1>1, <1>5, NoSmaller
<1>8. f[i] \in Int /\ g[i] \in Int /\ f[i] # g[i]
  BY <1>4
<1> QED
  BY <1>6, <1>7, <1>8

\* A list in the order of insertion is what InOrder makes of its items.
LEMMA InOrderIs ==
    ASSUME NEW list \in Seq(Nat), Increasing(list), NEW S, S = {list[i] : i \in 1..Len(list)}
    PROVE  IsFiniteSet(S) /\ Cardinality(S) = Len(list) /\ list = InOrder(S)
<1> DEFINE N == Len(list)
<1>1. N \in Nat /\ list \in [1..N -> S] /\ S \in SUBSET Int /\ \A i \in 1..N : list[i] \in Nat
  OBVIOUS
<1> HIDE DEF N
<1>2. list \in Bijection(1..N, S)
  <2>1. ASSUME NEW i \in 1..N, NEW j \in 1..N, list[i] = list[j] PROVE i = j
    <3>1. DOMAIN list = 1..N /\ list[i] \in Int /\ list[j] \in Int
      BY <1>1
    <3>2. ~(i < j) /\ ~(j < i)
      BY <2>1, <3>1 DEF Increasing
    <3> QED
      BY <3>2
  <2>2. \A s \in S : \E i \in 1..N : list[i] = s
    BY DEF N
  <2> QED
    BY <1>1, <2>1, <2>2 DEF Bijection, Injection, Surjection, IsInjective
<1>3. IsFiniteSet(1..N) /\ Cardinality(1..N) = N
  BY <1>1, FS_Interval
<1>4. IsFiniteSet(S) /\ Cardinality(S) = N
  BY <1>2, <1>3, FS_Bijection DEF ExistsBijection
<1> DEFINE Good(l) == l \in [1..Cardinality(S) -> S] /\ Increasing(l)
<1>5. Good(list)
  BY <1>1, <1>4
<1>6. InOrder(S) = CHOOSE l \in [1..Cardinality(S) -> S] : Increasing(l)
  BY DEF InOrder, Increasing
<1>7. Good(InOrder(S))
  BY <1>5, <1>6
<1>8. list = InOrder(S)
  BY <1>1, <1>4, <1>5, <1>7, OneOrder
<1> QED
  BY <1>4, <1>8 DEF N

\* Between frames nothing is on its way, and the boxes are those of the frame.
LEMMA BuiltFacts ==
    ASSUME NEW C, NEW Up, TreeInvFor(C, Up), Quiet, aabbs # <<>>
    PROVE  /\ OrderedBoxes(aabbs) /\ Ordered(Root) /\ IntegerBox(Root)
           /\ DOMAIN aabbs = 1..Len(aabbs) /\ 1..next - 1 = DOMAIN aabbs /\ Len(calls) = 0
           /\ \A n \in Live : C[n] \in Cells /\ Nodes[n].Bounds = CellBounds(Root, C[n])
           /\ \A n \in Live : n = 0 <=> Depth(C[n]) = 0
           /\ \A n \in Live, item \in DOMAIN aabbs :
                 Hits(item, n) <=> item \in Reaching(aabbs, Root, C[n])
<1>1. TreeTypeOK /\ CellsOK(C) /\ BoundsOK(C)
  BY DEF TreeInvFor
<1>2. /\ aabbs \in Seq(Boxes) /\ Len(aabbs) \in Nat /\ next \in Nat /\ next <= Len(aabbs) + 1
      /\ next > Len(aabbs) /\ calls = <<>>
  BY <1>1 DEF TreeTypeOK, Quiet
<1>3. DOMAIN aabbs = 1..Len(aabbs) /\ 1..next - 1 = DOMAIN aabbs /\ Len(calls) = 0
  BY <1>2
<1>4. OrderedBoxes(aabbs) /\ Ordered(Root) /\ IntegerBox(Root)
  BY <1>2, FrameBoxes DEF Root
<1>5. \A n \in Live : C[n] \in Cells /\ Nodes[n].Bounds = CellBounds(Root, C[n])
  BY <1>1 DEF CellsOK, BoundsOK
<1>6. 0 \in Live /\ C[0] = RootCell /\ \A m, n \in Live : C[m] = C[n] => m = n
  BY <1>1, TypeFacts DEF CellsOK
<1>7. \A n \in Live : n = 0 <=> Depth(C[n]) = 0
  BY <1>5, <1>6, RootIsCell, OneRootCell
<1>8. ASSUME NEW n \in Live, NEW item \in DOMAIN aabbs
      PROVE  Hits(item, n) <=> item \in Reaching(aabbs, Root, C[n])
  BY <1>5, <1>7 DEF Hits, Reaching
<1> QED
  BY <1>3, <1>4, <1>5, <1>7, <1>8

\* A leaf of the built tree lists what reaches its cell.
LEMMA LeafLists ==
    ASSUME NEW C, NEW Up, TreeInvFor(C, Up), Quiet, aabbs # <<>>, NEW n \in Live, IsLeaf(n)
    PROVE  LET S == Reaching(aabbs, Root, C[n])
           IN  /\ S = {List(n)[i] : i \in 1..Len(List(n))}
               /\ Cardinality(S) = Len(List(n)) /\ List(n) = InOrder(S)
               /\ IsFiniteSet(S)
<1> DEFINE S == Reaching(aabbs, Root, C[n])
<1>1. TreeTypeOK /\ OrderOK(Up) /\ ReachOK(Up)
  BY DEF TreeInvFor
<1>2. List(n) \in Seq(Nat) /\ DOMAIN List(n) = 1..Len(List(n))
  BY <1>1, TypeFacts
<1>3. /\ DOMAIN aabbs = 1..next - 1 /\ Len(calls) = 0
      /\ \A item \in DOMAIN aabbs : Hits(item, n) <=> item \in S
  BY BuiltFacts
<1>4. S \subseteq DOMAIN aabbs
  BY DEF Reaching
<1> HIDE DEF S
<1>5. ASSUME NEW item \in S PROVE \E i \in 1..Len(List(n)) : List(n)[i] = item
  <2>1. item \in 1..next - 1 /\ Hits(item, n)
    BY <1>3, <1>4
  <2>2. ~\E j \in 1..Len(calls) : calls[j].item = item /\ calls[j].node \in Up[n]
    BY <1>3
  <2> QED
    BY <1>1, <1>2, <2>1, <2>2 DEF ReachOK
<1>6. ASSUME NEW i \in 1..Len(List(n)) PROVE List(n)[i] \in S
  <2>1. List(n)[i] \in 1..next - 1
    BY <1>1, <1>2 DEF OrderOK
  <2>2. Hits(List(n)[i], n)
    BY <1>1, <1>2 DEF ReachOK
  <2> QED
    BY <1>3, <2>1, <2>2
<1>7. S = {List(n)[i] : i \in 1..Len(List(n))}
  BY <1>5, <1>6
<1>8. Increasing(List(n))
  BY <1>1 DEF OrderOK
<1>9. IsFiniteSet(S) /\ Cardinality(S) = Len(List(n)) /\ List(n) = InOrder(S)
  BY <1>2, <1>7, <1>8, InOrderIs
<1> QED
  BY <1>7, <1>9 DEF S

\* The nodes that were divided are the cells that had to be.
LEMMA LeafIsUndivided ==
    ASSUME NEW C, NEW Up, TreeInvFor(C, Up), Quiet, aabbs # <<>>, NEW n \in Live
    PROVE  IsLeaf(n) <=> ~Subdivided(aabbs, Root, C[n])
<1>1. TreeTypeOK /\ DivisionOK(C) /\ CellsOK(C)
  BY DEF TreeInvFor
<1>2. ASSUME IsLeaf(n), Subdivided(aabbs, Root, C[n]) PROVE FALSE
  <2>1. Nodes[n].Depth < MAX_DEPTH /\ Cardinality(Reaching(aabbs, Root, C[n])) > MAX_COL_NBR
    BY <1>1, <1>2 DEF CellsOK, Subdivided
  <2>2. Len(List(n)) <= MAX_COL_NBR
    BY <1>1, <1>2, <2>1 DEF DivisionOK
  <2>3. Cardinality(Reaching(aabbs, Root, C[n])) = Len(List(n)) /\ Len(List(n)) \in Nat
    <3>1. List(n) \in Seq(Nat)
      BY <1>1, TypeFacts
    <3> QED
      BY <1>2, <3>1, LeafLists
  <2> QED
    BY <2>1, <2>2, <2>3, QuadAssumption
<1> QED
  BY <1>1, <1>2 DEF DivisionOK

\* Every cell that division came to has a node.
LEMMA CellsHaveNodes ==
    ASSUME NEW C, NEW Up, TreeInvFor(C, Up), Quiet, aabbs # <<>>, NEW cell \in Cells,
           Depth(cell) = 0 \/ Subdivided(aabbs, Root, Parent(cell))
    PROVE  \E n \in Live : C[n] = cell
<1> DEFINE Lost(c) == /\ c \in Cells
                      /\ Depth(c) = 0 \/ Subdivided(aabbs, Root, Parent(c))
                      /\ ~\E n \in Live : C[n] = c
           Depths == {d \in Nat : \E c : Lost(c) /\ d = Depth(c)}
<1>1. SUFFICES ASSUME Lost(cell) PROVE FALSE
  OBVIOUS
<1>2. \A c : Lost(c) => Depth(c) \in Nat
  BY CellCoordinates
<1>3. Depths # {} /\ Depths \in SUBSET Nat
  BY <1>1, <1>2
<1>4. PICK least \in Depths : \A d \in Depths : least <= d
  <2> HIDE DEF Depths
  <2> QED
    BY <1>3, LeastNatural
<1>5. PICK c : Lost(c) /\ least = Depth(c)
  BY <1>4
<1>6. CellsOK(C) /\ TreeTypeOK
  BY DEF TreeInvFor
<1>7. Depth(c) # 0
  <2>1. 0 \in Live /\ C[0] = RootCell
    BY <1>6, TypeFacts DEF CellsOK
  <2> QED
    BY <1>5, <2>1, OneRootCell
<1>8. PICK parent \in Cells, k \in 0..3 :
          /\ parent = Parent(c) /\ c = Quarter(parent, k) /\ Depth(parent) = Depth(c) - 1
  BY <1>5, <1>7, CellIsQuarter
<1>9. Subdivided(aabbs, Root, parent)
  BY <1>5, <1>7, <1>8
<1>10. PICK n \in Live : C[n] = parent
  <2>1. Depth(parent) = 0 \/ Subdivided(aabbs, Root, Parent(parent))
    BY <1>8, <1>9, BuiltFacts, ParentsDivided
  <2>2. ~(Depth(parent) \in Depths)
    BY <1>2, <1>4, <1>5, <1>8
  <2>3. ~Lost(parent)
    BY <1>2, <2>2
  <2> QED
    BY <1>8, <2>1, <2>3
<1>11. ~IsLeaf(n)
  BY <1>9, <1>10, LeafIsUndivided
<1>12. C[Child(n, k)] = c
  BY <1>6, <1>8, <1>10, <1>11 DEF CellsOK
<1>13. Child(n, k) \in Live
  <2>1. /\ n < Nodes[n].Children /\ Nodes[n].Children + 3 < nodeIndex
    BY <1>11 DEF TreeInvFor, PoolOK
  <2>2. Nodes[n].Children \in Nat /\ nodeIndex \in Nat
    BY <1>6, TypeFacts
  <2> QED
    BY <2>1, <2>2 DEF Child, Live
<1> QED
  BY <1>5, <1>12, <1>13

\* The leaves of the built tree are the leaves of QuadCells.
LEMMA LeavesAre ==
    ASSUME NEW C, NEW Up, TreeInvFor(C, Up), Quiet, aabbs # <<>>
    PROVE  /\ \A n \in Live : IsLeaf(n) => C[n] \in Leaves(aabbs, Root)
           /\ \A cell \in Leaves(aabbs, Root) : \E n \in Live : IsLeaf(n) /\ C[n] = cell
<1>1. TreeTypeOK /\ PoolOK /\ CellsOK(C) /\ DivisionOK(C)
  BY DEF TreeInvFor
<1>2. ASSUME NEW n \in Live, IsLeaf(n) PROVE C[n] \in Leaves(aabbs, Root)
  <2>1. C[n] \in Cells /\ ~Subdivided(aabbs, Root, C[n])
    BY <1>2, BuiltFacts, LeafIsUndivided
  <2>2. CASE n = 0
    BY <2>1, <2>2, BuiltFacts DEF Leaves
  <2>3. CASE n # 0
    <3>1. PICK p \in Live, k \in 0..3 : ~IsLeaf(p) /\ n = Child(p, k)
      BY <1>1, <2>3 DEF PoolOK
    <3>2. Subdivided(aabbs, Root, C[p]) /\ C[n] = Quarter(C[p], k) /\ Depth(C[p]) < MAX_DEPTH
      BY <1>1, <3>1 DEF DivisionOK, CellsOK
    <3>3. Parent(C[n]) = C[p]
      BY <3>2, BuiltFacts, QuarterIsCell
    <3> QED
      BY <2>1, <3>2, <3>3 DEF Leaves
  <2> QED
    BY <2>2, <2>3
<1>3. ASSUME NEW cell \in Leaves(aabbs, Root)
      PROVE  \E n \in Live : IsLeaf(n) /\ C[n] = cell
  <2>1. /\ cell \in Cells /\ ~Subdivided(aabbs, Root, cell)
        /\ Depth(cell) = 0 \/ Subdivided(aabbs, Root, Parent(cell))
    BY DEF Leaves
  <2>2. PICK n \in Live : C[n] = cell
    BY <2>1, CellsHaveNodes
  <2> QED
    BY <2>1, <2>2, LeafIsUndivided
<1> QED
  BY <1>2, <1>3

\* The cell that the invariant gives a node is the one its path from the root gives.
LEMMA CellsArePaths ==
    ASSUME NEW C, NEW Up, TreeInvFor(C, Up)
    PROVE  C = CellOf
<1> DEFINE k(node) == (node - 1) % 4
           above(node) == CHOOSE p \in 0..node - 1 : Nodes[p].Children = node - k(node)
           Eq(g) == g = [node \in 0..nodeIndex - 1 |->
                            IF node = 0 THEN <<0, 0, 0>>
                            ELSE <<g[above(node)][1] + 1, 2 * g[above(node)][2] + (k(node) \div 2),
                                   2 * g[above(node)][3] + (k(node) % 2)>>]
<1>1. CellOf = CHOOSE g : Eq(g)
  BY DEF CellOf
<1>2. TreeTypeOK /\ PoolOK /\ CellsOK(C)
  BY DEF TreeInvFor
<1>3. ASSUME NEW p \in Live, NEW q \in Live, ~IsLeaf(p), ~IsLeaf(q),
             Nodes[p].Children = Nodes[q].Children
      PROVE  p = q
  <2>1. Child(p, 0) = Child(q, 0)
    BY <1>3 DEF Child
  <2>2. Quarter(C[p], 0) = Quarter(C[q], 0)
    BY <1>2, <1>3, <2>1 DEF CellsOK
  <2>3. /\ C[p] \in Cells /\ Depth(C[p]) < MAX_DEPTH
        /\ C[q] \in Cells /\ Depth(C[q]) < MAX_DEPTH
    BY <1>2, <1>3 DEF CellsOK
  <2>4. C[p] = C[q]
    BY <2>2, <2>3, QuarterIsCell
  <2> QED
    BY <1>2, <2>4 DEF CellsOK
<1>4. ASSUME NEW n \in Live, n # 0
      PROVE  /\ above(n) \in 0..n - 1 /\ above(n) \in Live /\ above(n) \in Nat
             /\ C[n] = Quarter(C[above(n)], k(n))
  <2>1. PICK p \in Live, l \in 0..3 : ~IsLeaf(p) /\ n = Child(p, l)
    BY <1>2, <1>4 DEF PoolOK
  <2>2. /\ p < Nodes[p].Children /\ Nodes[p].Children % 4 = 1
        /\ Nodes[p].Children \in Nat /\ p \in Nat /\ n \in Nat /\ nodeIndex \in Nat
    BY <1>2, <2>1, TypeFacts DEF PoolOK
  <2>3. PICK c \in Nat : c = Nodes[p].Children
    BY <2>2
  <2>4. n = c + l /\ c % 4 = 1 /\ p < c
    BY <2>1, <2>2, <2>3 DEF Child
  <2>5. k(n) = l /\ n - k(n) = c
    BY <2>2, <2>4
  <2>6. p \in 0..n - 1 /\ Nodes[p].Children = n - k(n)
    BY <2>2, <2>3, <2>4, <2>5
  <2>7. above(n) \in 0..n - 1 /\ Nodes[above(n)].Children = n - k(n)
    BY <2>6
  <2> HIDE DEF above, k
  <2>8. above(n) \in Live /\ above(n) \in Nat
    BY <2>2, <2>7 DEF Live
  <2>9. ~IsLeaf(above(n))
    BY <2>1, <2>5, <2>7, <2>3 DEF IsLeaf
  <2>10. above(n) = p
    BY <1>3, <2>1, <2>3, <2>5, <2>7, <2>8, <2>9
  <2> QED
    BY <1>2, <2>1, <2>5, <2>7, <2>8, <2>10 DEF CellsOK
<1> HIDE DEF above, k
<1>5. Eq(C)
  <2>1. C = [n \in Live |-> C[n]]
    BY <1>2 DEF CellsOK
  <2>2. C[0] = <<0, 0, 0>>
    BY <1>2 DEF CellsOK, RootCell
  <2>3. ASSUME NEW n \in Live, n # 0
        PROVE  C[n] = <<C[above(n)][1] + 1, 2 * C[above(n)][2] + (k(n) \div 2),
                        2 * C[above(n)][3] + (k(n) % 2)>>
    BY <1>4, <2>3 DEF Quarter
  <2> QED
    BY <2>1, <2>2, <2>3 DEF Live
<1>6. ASSUME NEW g, Eq(g) PROVE g = C
  <2>1. /\ g = [n \in Live |-> g[n]] /\ C = [n \in Live |-> C[n]]
        /\ g[0] = C[0]
    <3>1. 0 \in Live
      BY <1>2, TypeFacts
    <3> QED
      BY <1>2, <1>6, <3>1 DEF CellsOK, RootCell, Live
  <2>2. ASSUME NEW n \in Live, n # 0, g[above(n)] = C[above(n)] PROVE g[n] = C[n]
    <3>1. g[n] = <<g[above(n)][1] + 1, 2 * g[above(n)][2] + (k(n) \div 2),
                   2 * g[above(n)][3] + (k(n) % 2)>>
      BY <1>6, <2>2 DEF Live
    <3> QED
      BY <1>4, <2>2, <3>1 DEF Quarter
  <2> DEFINE D == {n \in Live : g[n] # C[n]}
  <2>3. D = {}
    <3> SUFFICES ASSUME D # {} PROVE FALSE
      OBVIOUS
    <3>1. D \in SUBSET Nat
      BY <1>2, TypeFacts
    <3>2. PICK n \in D : \A m \in D : n <= m
      <4> HIDE DEF D
      <4> QED
        BY <3>1, LeastNatural
    <3>3. n \in Live /\ n \in Nat /\ n # 0 /\ g[n] # C[n]
      BY <2>1, <3>1, <3>2
    <3>4. above(n) \in Live /\ above(n) \in Nat /\ above(n) < n
      BY <1>4, <3>3
    <3>5. ~(above(n) \in D)
      BY <3>2, <3>3, <3>4
    <3> QED
      BY <2>2, <3>3, <3>4, <3>5
  <2> QED
    BY <2>1, <2>3
<1> HIDE DEF Eq
<1> QED
  BY <1>1, <1>5, <1>6

-----------------------------------------------------------------------------
(* The built tree.                                                         *)

\* BuildsTheCells: whatever the last frame left in the pool, the insertions end in
\* the tree QuadCells defines from the boxes, for every depth and every length of
\* the lists (QuadTree.cpp:26-97).
THEOREM BuiltTreeIsTheCells == Spec => []BuildsTheCells
<1>1. TreeInv => BuildsTheCells
  <2> SUFFICES ASSUME TreeInv, Quiet, aabbs # <<>> PROVE BuildsTheCells
    BY DEF BuildsTheCells
  <2> DEFINE OfNode(n) == [cell |-> CellOf[n], bounds |-> Nodes[n].Bounds,
                           list |-> Nodes[n].ColliderRefAabbs]
             OfCell(cell) == [cell |-> cell, bounds |-> CellBounds(Root, cell),
                              list |-> InOrder(Reaching(aabbs, Root, cell))]
             LiveLeaves == {n \in Live : IsLeaf(n)}
  <2>1. PICK C, Up : TreeInvFor(C, Up)
    BY DEF TreeInv
  <2>2. C = CellOf
    BY <2>1, CellsArePaths
  <2>3. ASSUME NEW n \in LiveLeaves
        PROVE  OfNode(n) = OfCell(C[n]) /\ C[n] \in Leaves(aabbs, Root)
    <3>1. n \in Live /\ IsLeaf(n)
      OBVIOUS
    <3>2. Nodes[n].Bounds = CellBounds(Root, C[n])
      BY <2>1, <3>1, BuiltFacts
    <3>3. Nodes[n].ColliderRefAabbs = InOrder(Reaching(aabbs, Root, C[n]))
      BY <2>1, <3>1, LeafLists DEF List
    <3>4. C[n] \in Leaves(aabbs, Root)
      BY <2>1, <3>1, LeavesAre
    <3> QED
      BY <2>2, <3>2, <3>3, <3>4
  <2>4. ASSUME NEW cell \in Leaves(aabbs, Root) PROVE \E n \in LiveLeaves : C[n] = cell
    BY <2>1, LeavesAre
  <2> HIDE DEF OfNode, OfCell, LiveLeaves
  <2>5. {OfNode(n) : n \in LiveLeaves} = {OfCell(cell) : cell \in Leaves(aabbs, Root)}
    <3>1. \A n \in LiveLeaves : \E cell \in Leaves(aabbs, Root) : OfNode(n) = OfCell(cell)
      BY <2>3
    <3>2. \A cell \in Leaves(aabbs, Root) : \E n \in LiveLeaves : OfNode(n) = OfCell(cell)
      BY <2>3, <2>4
    <3> QED
      BY <3>1, <3>2
  <2> QED
    BY <2>5 DEF BuildsTheCells, OfNode, OfCell, LiveLeaves, Live, Root
<1> QED
  BY <1>1, TreeInvAlways, PTL

\* TouchingBoxesMeet: the pairs the leaves give World.cpp:199-203 miss none of the
\* boxes that touch.
THEOREM TouchingBoxesListed == Spec => []TouchingBoxesMeet
<1>1. TreeInv => TouchingBoxesMeet
  <2> SUFFICES ASSUME TreeInv, Quiet, NEW i \in DOMAIN aabbs, NEW j \in DOMAIN aabbs,
                      IntersectRectangles(aabbs[i], aabbs[j])
               PROVE  \E node \in 0..nodeIndex - 1 :
                          IsLeaf(node) /\ {i, j} \subseteq Range(Nodes[node].ColliderRefAabbs)
    BY DEF TouchingBoxesMeet
  <2>1. PICK C, Up : TreeInvFor(C, Up)
    BY DEF TreeInv
  <2>2. aabbs # <<>>
    OBVIOUS
  <2>3. OrderedBoxes(aabbs)
    BY <2>1, <2>2, BuiltFacts
  <2>4. PICK cell \in Leaves(aabbs, Root) :
            i \in Reaching(aabbs, Root, cell) /\ j \in Reaching(aabbs, Root, cell)
    BY <2>3, TouchingBoxesShareLeaf DEF Root
  <2>5. PICK n \in Live : IsLeaf(n) /\ C[n] = cell
    BY <2>1, <2>2, LeavesAre
  <2>6. Reaching(aabbs, Root, cell) = {List(n)[a] : a \in 1..Len(List(n))}
    BY <2>1, <2>2, <2>5, LeafLists
  <2>7. DOMAIN List(n) = 1..Len(List(n))
    BY <2>1, TypeFacts DEF TreeInvFor
  <2>8. {i, j} \subseteq Range(List(n))
    BY <2>4, <2>6, <2>7 DEF Range
  <2> QED
    BY <2>5, <2>8 DEF Live, List
<1> QED
  BY <1>1, TreeInvAlways, PTL

=============================================================================
