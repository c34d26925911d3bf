------------------------------ MODULE QuadTree ------------------------------
(***************************************************************************)
(* The quadtree of Physics/src/QuadTree.cpp as it is built: a fixed pool   *)
(* of nodes recycled every frame, and Insert recursing from the root.  The *)
(* call stack of Insert is explicit, so that every call is one step.       *)
(*                                                                         *)
(* The environment is World::SetUpQuadTree (World.cpp:155-186): SetUpRoot, *)
(* then one Insert per attached collider in the order of their slots.  A   *)
(* collider is its number in that order.  Boxes bounds what it can hand    *)
(* over and MaxItems how many; frames follow each other for ever.          *)
(***************************************************************************)
EXTENDS QuadCells, Functions

CONSTANTS Boxes, MaxItems

ASSUME BoxesAssumption ==
    /\ MaxItems \in Nat
    /\ \A box \in Boxes : \A k \in 1..2 :
          /\ box.minBound[k] \in Int /\ box.maxBound[k] \in Int
          /\ box.minBound[k] <= box.maxBound[k]

VARIABLES
    Nodes,        \* the pool; [0] is the root
    nodeIndex,    \* _nodeIndex: the first node not handed out this frame
    aabbs,        \* the boxes of this frame
    next,         \* the next one SetUpQuadTree inserts
    calls         \* the pending calls Insert(node, item), innermost first

vars == <<Nodes, nodeIndex, aabbs, next, calls>>

\* What the constructor's loop has summed after a depth: Pow(4, i) for each up to it.
NodesTo[depth \in Nat] == IF depth = 0 THEN 1 ELSE NodesTo[depth - 1] + TwoTo[2 * depth]

\* Every node of a complete tree.
PoolSize == NodesTo[MAX_DEPTH]

NoChildren == 0   \* nullptr: the root is nobody's child

\* Children are consecutive nodes of the pool: Children is the first of them.
IsLeaf(node) == Nodes[node].Children = NoChildren

FreshNode == [ColliderRefAabbs |-> <<>>, Bounds |-> Rectangle(<<0, 0>>, <<0, 0>>),
              Children |-> NoChildren, Depth |-> 0]

Init ==
    /\ Nodes = [node \in 0..PoolSize - 1 |-> FreshNode]
    /\ nodeIndex = 1
    /\ aabbs = <<>>
    /\ next = 1
    /\ calls = <<>>

-----------------------------------------------------------------------------
Quiet == calls = <<>> /\ next > Len(aabbs)

\* Mutant: the list of the last frame stays.
KeptList(node) == [node EXCEPT !.Children = NoChildren]

\* What SetUpRoot clears of a node: Bounds and Depth keep last frame's values until
\* SubdivideNode overwrites them.
Cleared(node) == [node EXCEPT !.ColliderRefAabbs = <<>>, !.Children = NoChildren]

\* Mutant: nodes go on being handed out where the last frame stopped.
WhereItStopped == nodeIndex

FirstHandedOut == 1

\* A frame begins.
SetUpRoot ==
    /\ Quiet
    /\ \E n \in 0..MaxItems : aabbs' \in [1..n -> Boxes]
    /\ Nodes' = [[node \in DOMAIN Nodes |-> Cleared(Nodes[node])]
                    EXCEPT ![0].Bounds = Scaled(RootBounds(aabbs'))]
    /\ nodeIndex' = FirstHandedOut
    /\ next' = 1
    /\ calls' = <<>>

\* SetUpQuadTree's loop calls Insert on the root.
InsertNext ==
    /\ calls = <<>>
    /\ next <= Len(aabbs)
    /\ calls' = <<[node |-> 0, item |-> next]>>
    /\ next' = next + 1
    /\ UNCHANGED <<Nodes, nodeIndex, aabbs>>

\* The calls that the loop "if Intersect(col.Aabb, child->Bounds) Insert(*child, col)"
\* makes for one child and the given items, in order.
CallsFor(pool, child, items) ==
    LET Intersects(item) == IntersectRectangles(Scaled(aabbs[item]), pool[child].Bounds)
        made[k \in 0..Len(items)] ==
            IF k = 0 THEN <<>>
            ELSE IF Intersects(items[k])
                 THEN Append(made[k - 1], [node |-> child, item |-> items[k]])
                 ELSE made[k - 1]
    IN  made[Len(items)]

\* ... for the four children starting at the given one.
CallsForChildren(pool, first, items) ==
    CallsFor(pool, first, items) \o CallsFor(pool, first + 1, items)
        \o CallsFor(pool, first + 2, items) \o CallsFor(pool, first + 3, items)

\* Mutant: Insert(node, ...) for Insert( *child, ...).
DescendNowhere ==
    /\ calls # <<>>
    /\ ~IsLeaf(Head(calls).node)
    /\ UNCHANGED <<Nodes, nodeIndex, aabbs, next, calls>>

\* Insert on a node that has children.
Descend ==
    /\ calls # <<>>
    /\ LET node == Head(calls).node
       IN  /\ ~IsLeaf(node)
           /\ calls' = CallsForChildren(Nodes, Nodes[node].Children, <<Head(calls).item>>)
                       \o Tail(calls)
    /\ UNCHANGED <<Nodes, nodeIndex, aabbs, next>>

\* Mutant: one more collider than MAX_COL_NBR.
FullTooLate(node) ==
    Len(Nodes[node].ColliderRefAabbs) > MAX_COL_NBR /\ Nodes[node].Depth < MAX_DEPTH

Full(node) == Len(Nodes[node].ColliderRefAabbs) >= MAX_COL_NBR /\ Nodes[node].Depth < MAX_DEPTH

\* The box of each child SubdivideNode makes of a box.
ChildBounds(box, k) ==
    LET half == <<(box.maxBound[1] - box.minBound[1]) \div 2,
                  (box.maxBound[2] - box.minBound[2]) \div 2>>
        low  == <<box.minBound[1] + (k \div 2) * half[1], box.minBound[2] + (k % 2) * half[2]>>
    IN  IF k = 3 THEN Rectangle(low, box.maxBound) ELSE Rectangle(low, Plus(low, half))

\* SubdivideNode takes the next four nodes of the pool.
SubdivideNode(node) ==
    [n \in DOMAIN Nodes |->
        IF n = node THEN [Nodes[n] EXCEPT !.Children = nodeIndex]
        ELSE IF n \in nodeIndex..nodeIndex + 3
             THEN [Nodes[n] EXCEPT !.Bounds = ChildBounds(Nodes[node].Bounds, n - nodeIndex),
                                   !.Depth = Nodes[node].Depth + 1]
             ELSE Nodes[n]]

\* Mutant: the new item is not among them.
ListedAlready(node, item) == Nodes[node].ColliderRefAabbs

\* What a full leaf hands over to its children.
HandedDown(node, item) == Append(Nodes[node].ColliderRefAabbs, item)

\* Insert on a full leaf: subdivide, hand the list and the new item over to the
\* children, child by child, and clear the list (which no call made for the
\* children reads, so it is cleared here).
Split ==
    /\ calls # <<>>
    /\ LET node  == Head(calls).node
           items == HandedDown(node, Head(calls).item)
           pool  == SubdivideNode(node)
       IN  /\ IsLeaf(node)
           /\ Full(node)
           /\ Nodes' = [pool EXCEPT ![node].ColliderRefAabbs = <<>>]
           /\ calls' = CallsForChildren(pool, nodeIndex, items) \o Tail(calls)
    /\ nodeIndex' = nodeIndex + 4
    /\ UNCHANGED <<aabbs, next>>

\* Insert on a leaf with room, or at the maximal depth.
PushBack ==
    /\ calls # <<>>
    /\ LET node == Head(calls).node
       IN  /\ IsLeaf(node)
           /\ ~Full(node)
           /\ Nodes' = [Nodes EXCEPT ![node].ColliderRefAabbs = Append(@, Head(calls).item)]
    /\ calls' = Tail(calls)
    /\ UNCHANGED <<nodeIndex, aabbs, next>>

Insert == Descend \/ Split \/ PushBack

Next == SetUpRoot \/ InsertNext \/ Insert

\* World::Update runs to its end once called; only the start of a frame waits
\* for the application.
Spec == Init /\ [][Next]_vars /\ WF_vars(InsertNext \/ Insert)

-----------------------------------------------------------------------------
(* Properties.                                                             *)

\* SubdivideNode indexes the pool without a check (QuadTree.cpp:28-39), as often
\* as boxes make it: the pool the constructor sizes always suffices, frame after
\* frame.
PoolNeverOverrun ==
    calls # <<>> /\ IsLeaf(Head(calls).node) /\ Full(Head(calls).node)
        => nodeIndex + 3 \in DOMAIN Nodes

\* A leaf never lists a collider twice, even while lists are being handed down
\* or are left over from the last frame: a pair would be resolved against itself.
NoItemTwice ==
    \A node \in DOMAIN Nodes :
        LET list == Nodes[node].ColliderRefAabbs
        IN  \A i, j \in DOMAIN list : list[i] = list[j] => i = j

\* The broad phase misses nothing: once the tree is built, two boxes that touch
\* are listed together by some leaf (World.cpp:199-203 pairs only those).
TouchingBoxesMeet ==
    Quiet => \A i, j \in DOMAIN aabbs :
                IntersectRectangles(aabbs[i], aabbs[j]) =>
                    \E node \in 0..nodeIndex - 1 :
                        IsLeaf(node) /\ {i, j} \subseteq Range(Nodes[node].ColliderRefAabbs)

\* A set of items in the order of their insertion.
InOrder(items) ==
    CHOOSE list \in [1..Cardinality(items) -> items] :
        \A i, j \in DOMAIN list : i < j => list[i] < list[j]

\* The cell a node of this frame stands for: its path from the root.
CellOf ==
    LET cell[node \in 0..nodeIndex - 1] ==
            IF node = 0 THEN <<0, 0, 0>>
            ELSE LET k == (node - 1) % 4
                     parent == CHOOSE p \in 0..node - 1 : Nodes[p].Children = node - k
                 IN  <<cell[parent][1] + 1, 2 * cell[parent][2] + (k \div 2),
                       2 * cell[parent][3] + (k % 2)>>
    IN  cell

\* The insertions end in the tree that QuadCells defines outright from the boxes:
\* the same leaves, with the same bounds, lists and place in the walk, whatever
\* tree the last frame left in the pool (QuadTree.cpp:90-97 resets only a part).
BuildsTheCells ==
    (Quiet /\ aabbs # <<>>) => {[cell |-> CellOf[node], bounds |-> Nodes[node].Bounds,
               list |-> Nodes[node].ColliderRefAabbs] :
                    node \in {n \in 0..nodeIndex - 1 : IsLeaf(n)}}
             = {[cell |-> cell, bounds |-> CellBounds(RootBounds(aabbs), cell),
                 list |-> InOrder(Reaching(aabbs, RootBounds(aabbs), cell))] :
                    cell \in Leaves(aabbs, RootBounds(aabbs))}

\* Every call of Insert that SetUpQuadTree makes returns, however the boxes
\* coincide: MAX_DEPTH stops the recursion.
InsertReturns == (calls # <<>>) ~> (calls = <<>>)

=============================================================================
