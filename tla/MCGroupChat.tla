---------------------------- MODULE MCGroupChat ----------------------------
(***************************************************************************)
(* Instances of GroupChat for TLC.                                         *)
(***************************************************************************)
EXTENDS GroupChat, TLC

\* Users, and places for calls, are interchangeable.
Symmetry == Permutations(Users) \cup Permutations(Calls)
=============================================================================
