------------------------------ MODULE KeyScan ------------------------------
(***************************************************************************)
(* What a dictionary promises its users, whatever its tables look like:    *)
(* a set of keys that changes only by an insertion or a deletion, and a    *)
(* SCAN that may not end before it has returned every key that was there   *)
(* from its first call to its last (src/.../redis-stable/src/dict.c:1442). *)
(***************************************************************************)
CONSTANT Keys

VARIABLES
  contents,   \* the keys stored
  scanning,   \* a client is between the first and the last call of a SCAN
  owed        \* keys stored since the first call and not returned yet

vars == <<contents, scanning, owed>>

Init ==
  /\ contents = {}
  /\ scanning = FALSE
  /\ owed = {}

Insert(k) ==
  /\ k \notin contents
  /\ contents' = contents \cup {k}
  /\ UNCHANGED <<scanning, owed>>

Delete(k) ==
  /\ k \in contents
  /\ contents' = contents \ {k}
  /\ owed' = owed \ {k}
  /\ UNCHANGED scanning

\* A call returns some keys and no longer owes them. The first call owes all
\* the keys stored; the last one leaves none owed.
Call ==
  /\ owed' \subseteq (IF scanning THEN owed ELSE contents)
  /\ scanning' \in BOOLEAN
  /\ ~scanning' => owed' = {}
  /\ UNCHANGED contents

Next == Call \/ \E k \in Keys : Insert(k) \/ Delete(k)

Spec == Init /\ [][Next]_vars
=============================================================================
