--------------------------- MODULE MCTaskWorkflow ---------------------------
(* Instances of TaskWorkflow for TLC. *)
EXTENDS TaskWorkflow, TLC

CONSTANTS t1, t2, emp, mgr, e1, m1, m2

\* An employee in MyTasksPage and two managers in AllTasksView.
DeskUserOf == e1 :> emp @@ m1 :> mgr @@ m2 :> mgr
DeskView   == e1 :> "my_tasks" @@ m1 :> "all_tasks" @@ m2 :> "all_tasks"

\* Two managers and an employee, all in AllTasksView.
TrioUserOf == e1 :> emp @@ m1 :> mgr @@ m2 :> mgr
TrioView   == e1 :> "all_tasks" @@ m1 :> "all_tasks" @@ m2 :> "all_tasks"

AllPhases  == {1 .. NumPhases}
EndsOnly   == {{1, NumPhases}}
Symmetry   == Permutations({t1, t2}) \cup Permutations({m1, m2})
=============================================================================
