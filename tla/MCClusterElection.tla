-------------------------- MODULE MCClusterElection --------------------------
(***************************************************************************)
(* Instances of ClusterElection for TLC.                                   *)
(***************************************************************************)
EXTENDS ClusterElection, TLC

Symmetry == {p @@ q : p \in Permutations(Voters), q \in Permutations(Candidates)}

\* After the last crash nothing reads what is saved.
Seen == <<view, auth, msgs, claims, votes, forgot, strays, strayWins, crashes,
          IF crashes = MaxCrashes THEN {} ELSE <<disk, unsaved>> >>
=============================================================================
