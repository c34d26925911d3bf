------------------------------- MODULE Common -------------------------------
(***************************************************************************)
(* What Common/ gives a program to keep memory with: a pool, a stack and   *)
(* owning pointers.  They share no state, so their steps commute and it is *)
(* enough to look at programs that use one of them.                        *)
(***************************************************************************)
EXTENDS PoolAllocator, StackAllocator, UniquePtr

VARIABLE use      \* which one this program uses

commonVars == <<poolVars, stackVars, ptrVars, use>>

CommonInit == PoolInit /\ StackInit /\ PtrInit /\ use \in {"pool", "stack", "pointers"}

CommonNext ==
    /\ \/ use = "pool" /\ PoolNext /\ UNCHANGED <<stackVars, ptrVars>>
       \/ use = "stack" /\ StackNext /\ UNCHANGED <<poolVars, ptrVars>>
       \/ use = "pointers" /\ PtrNext /\ UNCHANGED <<poolVars, stackVars>>
    /\ UNCHANGED use

CommonSpec == CommonInit /\ [][CommonNext]_commonVars

=============================================================================
