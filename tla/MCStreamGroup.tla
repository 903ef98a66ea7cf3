--------------------------- MODULE MCStreamGroup ---------------------------
(***************************************************************************)
(* StreamGroup for TLC: a group that is read and one that is not.          *)
(***************************************************************************)
EXTENDS StreamGroup, TLC

CONSTANTS g1, g2, c1, c2

OneGroup == {g1}
TwoGroups == {g1, g2}
OneConsumer == {c1}
TwoConsumers == {c1, c2}
Symmetry == Permutations(Consumers)

\* The bound of the run. No property says anything of the replica once it has
\* drifted, and the master, which does not see it, can do without a drift what it
\* does then. The second group, a second consumer and time passing: any two.
Bounded ==
  /\ ~drifted
  /\ ~(s.g[g2].on /\ s.g[g1].consumers = Consumers /\ now = MaxTime)

\* The cached minimum is read while valid only.
Valid(t) == IF t.min_valid THEN t ELSE [t EXCEPT !.min = 0]
Seen == <<Valid(s), Valid(r), now, drifted>>
=============================================================================
