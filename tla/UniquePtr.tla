----------------------------- MODULE UniquePtr -----------------------------
(***************************************************************************)
(* The owning pointer (Common/include/UniquePtr.h): objects are created by *)
(* MakeUnique, handed on by moves and conversions, and deleted by the      *)
(* pointer that has them last.                                             *)
(***************************************************************************)
EXTENDS Integers, FiniteSets

CONSTANTS Pointers,    \* the variables of the client
          Objects      \* bound: objects it creates

ASSUME PointersAssumption == IsFiniteSet(Pointers) /\ IsFiniteSet(Objects)

VARIABLES
    owned,      \* what is in _ptr of each pointer that lives: a set of at most one
    deletes     \* history: how often each created object was deleted

ptrVars == <<owned, deletes>>

PtrInit ==
    /\ owned = [p \in {} |-> {}]
    /\ deletes = [o \in {} |-> 0]

Living  == DOMAIN owned
Created == DOMAIN deletes

Null == {}

-----------------------------------------------------------------------------
\* owned with the pointers of new set to what it says.
Set(new) == [p \in Living \cup DOMAIN new |-> IF p \in DOMAIN new THEN new[p] ELSE owned[p]]

Pair(p, x, q, y) == [r \in {p, q} |-> IF r = p THEN x ELSE y]

\* delete of nullptr does nothing.
Delete(what) == [o \in Created |-> IF o \in what THEN deletes[o] + 1 ELSE deletes[o]]

MakeUnique(p, object) ==
    /\ p \notin Living /\ object \notin Created
    /\ owned' = Set([r \in {p} |-> {object}])
    /\ deletes' = [o \in Created \cup {object} |-> IF o = object THEN 0 ELSE deletes[o]]

\* Mutant: the source keeps the pointer.
CopyConstruct(p, q) ==
    /\ p \notin Living /\ q \in Living
    /\ owned' = Set(Pair(p, owned[q], q, owned[q]))
    /\ UNCHANGED deletes

\* The move constructor; the conversion to UniquePtr<U> does the same.
MoveConstruct(p, q) ==
    /\ p \notin Living /\ q \in Living
    /\ owned' = Set(Pair(p, owned[q], q, Null))
    /\ UNCHANGED deletes

\* Mutant: the object that is assigned over is forgotten.
MoveAssignLeaking(p, q) ==
    /\ p \in Living /\ q \in Living
    /\ owned' = IF p = q THEN owned ELSE Set(Pair(p, owned[q], q, Null))
    /\ UNCHANGED deletes

\* Mutant: assignment from itself is not looked for.
MoveAssignBlindly(p, q) ==
    /\ p \in Living /\ q \in Living
    /\ deletes' = Delete(owned[p])
    /\ owned' = IF p = q THEN Set([r \in {p} |-> Null]) ELSE Set(Pair(p, owned[q], q, Null))

MoveAssign(p, q) ==
    /\ p \in Living /\ q \in Living
    /\ IF p = q THEN UNCHANGED ptrVars
       ELSE /\ deletes' = Delete(owned[p])
            /\ owned' = Set(Pair(p, owned[q], q, Null))

\* The destructor.
Destroy(p) ==
    /\ p \in Living
    /\ deletes' = Delete(owned[p])
    /\ owned' = [q \in Living \ {p} |-> owned[q]]

PtrNext ==
    \/ \E p \in Pointers, object \in Objects : MakeUnique(p, object)
    \/ \E p, q \in Pointers : MoveConstruct(p, q) \/ MoveAssign(p, q)
    \/ \E p \in Pointers : Destroy(p)

PtrSpec == PtrInit /\ [][PtrNext]_ptrVars

-----------------------------------------------------------------------------
(* Properties.                                                             *)

\* Every object has one owner and was not deleted, or has none and was deleted
\* once: no sequence of moves, conversions, assignments and destructions leaks an
\* object, deletes it twice or leaves a pointer to what was deleted.
OneOwnerOrDeletedOnce ==
    \A object \in Created :
        LET owners == {p \in Living : object \in owned[p]}
        IN  \/ Cardinality(owners) = 1 /\ deletes[object] = 0
            \/ owners = {} /\ deletes[object] = 1

\* An assignment deletes what its target had and hands over what its source had,
\* also when they are one (UniquePtr.h:54): the source's object survives it.
AssignmentHandsOver ==
    [][\A p, q \in Living : MoveAssign(p, q) =>
            owned'[p] = owned[q] /\ \A object \in owned[q] : deletes'[object] = 0]_ptrVars

=============================================================================
