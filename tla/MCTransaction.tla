--------------------------- MODULE MCTransaction ---------------------------
(***************************************************************************)
(* Instances of Transaction for TLC.                                       *)
(***************************************************************************)
EXTENDS Transaction

\* One key has a time to live, and another has none.
MCFiles ==
  LET cells == {[val |-> -1, ttl |-> -1, expired |-> FALSE], [val |-> -2, ttl |-> 0, expired |-> FALSE]}
  IN {file \in [Names -> cells] : IsInjective(file)}

Symmetry == Permutations(Clients) \cup Permutations(Dbs)
=============================================================================
