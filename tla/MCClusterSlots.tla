--------------------------- MODULE MCClusterSlots ---------------------------
(***************************************************************************)
(* Instances of ClusterSlots for TLC.                                      *)
(***************************************************************************)
EXTENDS ClusterSlots, TLC

CONSTANTS a, b, c

MCRank == [n \in Nodes |-> CASE n = a -> 1 [] n = b -> 2 [] n = c -> 3]
\* As redis-cli leaves a new cluster: an epoch for each.
MCCreated == MCRank
=============================================================================
