---------------------------- MODULE MCDirectChat ----------------------------
(***************************************************************************)
(* DirectChat for TLC.                                                     *)
(***************************************************************************)
EXTENDS DirectChat, TLC

Symmetry == Permutations(Pair) \cup Permutations(Convs)
=============================================================================
