------------------------- MODULE MCLeaveManagement -------------------------
(***************************************************************************)
(* LeaveManagement for TLC.                                                *)
(***************************************************************************)
EXTENDS LeaveManagement, TLC

CONSTANTS l1, l2, m1, e1

TwoLeaves == {l1, l2}
TheManager == {m1}
TheExecutive == {e1}
Symmetry == Permutations(Leaves) \cup Permutations(Tabs)
=============================================================================
