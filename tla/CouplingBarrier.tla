--------------------------- MODULE CouplingBarrier ---------------------------
(***************************************************************************)
(* What ModelE relies on when all its MPI ranks call gcmce_couple_native:  *)
(* the call is a barrier.  The elevation classes of the next interval are  *)
(* agreed on once, when every rank has called, and each rank returns with  *)
(* its own part of them.  A job may be aborted; nothing happens after.     *)
(***************************************************************************)
EXTENDS Integers

CONSTANTS
    Ranks,       \* the MPI ranks of ModelE
    MaxRound,    \* bound on the number of couplings
    Views,       \* the global sets of elevation classes that may be agreed on
    InitView,    \* the set that the coupling of model_start agreed on
    Part(_, _)   \* Part(r, v): the classes of v in the cells of rank r

VARIABLES
    calls,       \* how often each rank has called
    returns,     \* how often each rank has returned
    agreed,      \* how often a view has been agreed on
    view,        \* the view agreed on last
    holds,       \* what each rank has
    dead         \* the job was aborted

vars == <<calls, returns, agreed, view, holds, dead>>

Init ==
    /\ calls = [r \in Ranks |-> 0]
    /\ returns = [r \in Ranks |-> 0]
    /\ agreed = 0
    /\ view = InitView
    /\ holds = [r \in Ranks |-> Part(r, InitView)]
    /\ dead = FALSE

Call(r) ==
    /\ ~dead
    /\ returns[r] = calls[r]
    /\ calls[r] < MaxRound
    /\ calls' = [calls EXCEPT ![r] = @ + 1]
    /\ UNCHANGED <<returns, agreed, view, holds, dead>>

Agree ==
    /\ ~dead
    /\ \A r \in Ranks : calls[r] = agreed + 1
    /\ agreed' = agreed + 1
    /\ view' \in Views
    /\ UNCHANGED <<calls, returns, holds, dead>>

Return(r) ==
    /\ ~dead
    /\ returns[r] < calls[r]
    /\ calls[r] = agreed
    /\ returns' = [returns EXCEPT ![r] = @ + 1]
    /\ holds' = [holds EXCEPT ![r] = Part(r, view)]
    /\ UNCHANGED <<calls, agreed, view, dead>>

Die ==
    /\ ~dead
    /\ dead' = TRUE
    /\ UNCHANGED <<calls, returns, agreed, view, holds>>

Next == Agree \/ Die \/ \E r \in Ranks : Call(r) \/ Return(r)

Spec == Init /\ [][Next]_vars
==============================================================================
