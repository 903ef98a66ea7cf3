------------------------------ MODULE KeptLog ------------------------------
(***************************************************************************)
(* What an append-only log promises: commands are executed one after the   *)
(* other, the log promises to keep more and more of them, and a crash      *)
(* may take back any command at the end that was not yet promised, and     *)
(* no other.                                                                *)
(***************************************************************************)
EXTENDS Naturals

VARIABLES
    executed,   \* how many commands the dataset holds
    promised    \* how many of them will never be taken back

vars == <<executed, promised>>

Init ==
    /\ executed = 0
    /\ promised = 0

Execute ==
    /\ executed' = executed + 1
    /\ UNCHANGED promised

Promise ==
    /\ promised' \in promised..executed
    /\ UNCHANGED executed

Crash ==
    /\ executed' \in promised..executed
    /\ UNCHANGED promised

Next == Execute \/ Promise \/ Crash

Spec == Init /\ [][Next]_vars
=============================================================================
