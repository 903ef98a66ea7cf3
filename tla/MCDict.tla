------------------------------- MODULE MCDict -------------------------------
(***************************************************************************)
(* Instances of Dict for TLC. The keys are numbers; their hashes collide   *)
(* in a table of four buckets and some in one of eight.                    *)
(***************************************************************************)
EXTENDS Dict, TLC

MCHash == [k \in DictKeys |-> IF k = 2 THEN 5 ELSE k]
=============================================================================
