------------------------- MODULE StreamGroup_proofs ------------------------
(***************************************************************************)
(* StreamGroup for every set of groups and consumers and all bounds: the   *)
(* structures of the groups are sound, a lag that is reported is exact,    *)
(* the replica agrees with its master until a command is propagated with   *)
(* less than its effect, and ACKED deletes only what every group was given *)
(* and none has pending.                                                   *)
(***************************************************************************)
EXTENDS StreamGroup, FiniteSetTheorems, WellFoundedInduction, TLAPS

Group ==
  [on : BOOLEAN, last : 0 .. MaxId, read : Unknown .. MaxId,
   pel : [Ids -> Consumers \cup {None}], time : [Ids -> Nat], list : Seq(Ids),
   consumers : SUBSET Consumers, cpel : [Consumers -> SUBSET Ids]]
Stream ==
  [entries : SUBSET Ids, last : 0 .. MaxId, first : 0 .. MaxId, max_deleted : 0 .. MaxId,
   added : 0 .. MaxId, min : 0 .. Top, min_valid : BOOLEAN,
   refs : [Ids -> SUBSET Groups], g : [Groups -> Group]]

Pend(q) == {id \in Ids : q.pel[id] # None}

\* The list has each of the IDs P once, in the order of their times.
ListOK(list, P, time) ==
  /\ list \in Seq(Ids)
  /\ \A i, j \in 1 .. Len(list) : list[i] = list[j] => i = j
  /\ \A id \in Ids : id \in P <=> \E i \in 1 .. Len(list) : list[i] = id
  /\ \A i, j \in 1 .. Len(list) : i < j => time[list[i]] <= time[list[j]]

\* The group q at the time T, but for what its list has.
PelsSound(q, T) ==
  /\ q \in Group
  /\ \A c \in Consumers : q.cpel[c] = {id \in Ids : q.pel[id] = c}
  /\ \A id \in Ids : q.time[id] <= T
  /\ \A id \in Pend(q) : q.on /\ q.pel[id] \in q.consumers

QSound(q, T) == PelsSound(q, T) /\ ListOK(q.list, Pend(q), q.time)

Behind(t, i) == {id \in t.entries : id > i}

\* The counter of what the group q has read, while no tombstone is ahead of it.
CountSound(t, q) ==
  q.read # Unknown =>
    /\ q.on /\ q.last <= t.last
    /\ t.entries # {} /\ q.last >= t.first /\ (t.max_deleted = 0 \/ q.last > t.max_deleted)
       => t.added = q.read + Cardinality(Behind(t, q.last))

EntriesSound(t) ==
  /\ \A id \in t.entries : id <= t.last
  /\ t.first = Edge(t)
  /\ t.max_deleted <= t.last
  /\ Cardinality(t.entries) <= t.added /\ t.added <= t.last

RefsSound(t) == \A id \in Ids : t.refs[id] = {g \in Groups : t.g[g].pel[id] # None}
MinSound(t) == t.min_valid => On(t) # {} /\ t.min = MinLast(t)

Good(t, T) ==
  /\ t \in Stream
  /\ EntriesSound(t) /\ RefsSound(t) /\ MinSound(t)
  /\ \A g \in Groups : QSound(t.g[g], T) /\ CountSound(t, t.g[g])

Agree(t, u) == Stored(t) = Stored(u) /\ \A g \in Groups : Pending(t, g) = Pending(u, g)

\* What the replica has, while it gets all; then what it would have.
Mirror == IF drifted THEN s ELSE r

\* The inductive invariant.
IInv ==
  /\ now \in 0 .. MaxTime /\ drifted \in BOOLEAN
  /\ Good(s, now) /\ Good(Mirror, now) /\ Agree(Mirror, s)

(***************************************************************************)
(* The loops, step by step.                                                *)
(***************************************************************************)
\* A step of each; p are its parameters.
Round(loop, p, acc, id) ==
  CASE loop = "trim" -> TrimOne(acc, id, p)
    [] loop = "claim" -> ClaimNext(acc, id, p[1], p[2], p[3], p[4])
    [] loop = "auto" -> AutoClaimNext(acc, id, p[1], p[2], p[3], p[4])
    [] loop = "read" -> ReadNext(acc, id, p[1], p[2], p[3], p[4], p[5])
    [] loop = "history" -> PelListUpdate(acc, id, now)
    [] loop = "delete" -> DropNACK(acc, p, id)

\* f is the fold over a sequence q, of which it has the outcome for every set of
\* positions.
IsFold(loop, p, base, q, D, f) ==
  f = [S \in SUBSET D |-> IF S = {} THEN base
                          ELSE LET i == Max(S) IN Round(loop, p, f[S \ {i}], q[i])]

\* f has its outcome for the positions up to each.
Iterates(loop, p, base, q, f) ==
  /\ f[0] = base
  /\ \A i \in 1 .. Len(q) : f[i] = Round(loop, p, f[i - 1], q[i])

\* What ReadNew does when its loop is through.
ReadEnd(b, g, last) ==
  IF b.t.g[g].last = last THEN b
  ELSE [b EXCEPT !.u = PropagatedId(@, g, b.t.g[g].last, b.t.g[g].read)]

\* A set of numbers that is not empty has a least element.
LEMMA LeastElement ==
    ASSUME NEW S \in SUBSET Nat, S # {}
    PROVE  \E p \in S : \A q \in S : p <= q
<1>1. PICK p \in S : \A q \in S : ~ (<<q, p>> \in OpToRel(<, Nat))
  BY NatLessThanWellFounded, WFMin
<1>2. \A q \in S : ~ (q < p)
  BY <1>1 DEF OpToRel
<1> QED BY <1>2

\* What holds at first and is kept by every round holds at the end.
LEMMA Climb ==
    ASSUME NEW N \in Nat, NEW J, 0 \in J, \A i \in 1 .. N : i - 1 \in J => i \in J
    PROVE  N \in J
<1> DEFINE S == {i \in 0 .. N : i \notin J}
<1>1. SUFFICES ASSUME S # {} PROVE FALSE
  OBVIOUS
<1>2. S \in SUBSET Nat
  OBVIOUS
<1>3. PICK p \in S : \A q \in S : p <= q
  BY <1>1, <1>2, LeastElement
<1>4. p \in 1 .. N /\ p - 1 \in 0 .. N /\ p - 1 \notin S
  BY <1>3
<1> QED BY <1>3, <1>4

\* The last position of those up to k, of which k is one.
LEMMA LastPosition ==
    ASSUME NEW k \in Nat, NEW S \in SUBSET (1 .. k), k \in S
    PROVE  Max(S) = k
<1> DEFINE P(x) == x \in S /\ \A y \in S : x >= y
<1>1. \A y \in S : y \in Nat /\ y <= k
  OBVIOUS
<1>2. P(k)
  BY <1>1
<1>3. ASSUME NEW x, P(x) PROVE x = k
  <2>1. x \in Nat /\ x <= k /\ x >= k
    BY <1>1, <1>3
  <2> QED BY <2>1
<1>4. Max(S) = CHOOSE x \in S : \A y \in S : x >= y
  BY DEF Max
<1> QED BY <1>2, <1>3, <1>4

\* The fold exists.
LEMMA FoldExists ==
    ASSUME NEW loop, NEW x, NEW base, NEW q, NEW N \in Nat
    PROVE  \E f : IsFold(loop, x, base, q, 1 .. N, f)
<1> DEFINE J == {k \in 0 .. N : \E f : IsFold(loop, x, base, q, 1 .. k, f)}
<1>1. 0 \in J
  <2> DEFINE f == [S \in SUBSET (1 .. 0) |-> base]
  <2>1. \A S \in SUBSET (1 .. 0) : S = {}
    OBVIOUS
  <2>2. IsFold(loop, x, base, q, 1 .. 0, f)
    BY <2>1 DEF IsFold
  <2> HIDE DEF f
  <2> QED BY <2>2
<1>2. ASSUME NEW k \in 1 .. N, k - 1 \in J PROVE k \in J
  <2>1. k \in Nat /\ k - 1 \in Nat
    OBVIOUS
  <2>2. PICK g : IsFold(loop, x, base, q, 1 .. (k - 1), g)
    BY <1>2
  <2> DEFINE f == [S \in SUBSET (1 .. k) |->
                     IF k \in S THEN Round(loop, x, g[S \ {k}], q[k]) ELSE g[S]]
             After(S) == IF S = {} THEN base
                         ELSE Round(loop, x, f[S \ {Max(S)}], q[Max(S)])
  <2>3. ASSUME NEW S \in SUBSET (1 .. k) PROVE f[S] = After(S)
    <3>1. CASE k \in S
      <4>1. S # {} /\ Max(S) = k
        BY <2>1, <3>1, LastPosition
      <4>2. S \ {k} \in SUBSET (1 .. k) /\ k \notin S \ {k}
        OBVIOUS
      <4>3. f[S \ {k}] = g[S \ {k}] /\ f[S] = Round(loop, x, g[S \ {k}], q[k])
        BY <3>1, <4>2
      <4> HIDE DEF f
      <4> QED BY <4>1, <4>3
    <3>2. CASE k \notin S
      <4> DEFINE i == Max(S)
      <4>1. \A y \in 1 .. k : y # k => y \in 1 .. (k - 1)
        BY <2>1
      <4> HIDE DEF i
      <4>2. S \in SUBSET (1 .. (k - 1)) /\ S \ {i} \in SUBSET (1 .. k) /\ k \notin S \ {i}
        BY <3>2, <4>1
      <4>3. f[S] = g[S] /\ f[S \ {i}] = g[S \ {i}]
        BY <3>2, <4>2
      <4>4. g[S] = IF S = {} THEN base ELSE Round(loop, x, g[S \ {i}], q[i])
        BY <2>2, <4>2 DEF IsFold, i
      <4> HIDE DEF f
      <4> QED BY <4>3, <4>4 DEF i
    <3> QED BY <3>1, <3>2
  <2>4. f = [S \in SUBSET (1 .. k) |-> After(S)]
    <3>1. f = [S \in SUBSET (1 .. k) |-> f[S]]
      OBVIOUS
    <3> HIDE DEF f, After
    <3> QED BY <2>3, <3>1
  <2>5. IsFold(loop, x, base, q, 1 .. k, f)
    <3> HIDE DEF f
    <3> QED BY <2>4 DEF IsFold
  <2> HIDE DEF f
  <2> QED BY <2>1, <2>5
<1> HIDE DEF J
<1>3. N \in J
  BY <1>1, <1>2, Climb
<1> QED BY <1>3 DEF J

\* And goes through the positions in order.
LEMMA FoldIterates ==
    ASSUME NEW loop, NEW x, NEW base, NEW E, NEW q \in Seq(E), NEW g,
           IsFold(loop, x, base, q, DOMAIN q, g)
    PROVE  \E f : Iterates(loop, x, base, q, f) /\ f[Len(q)] = g[DOMAIN q]
<1> DEFINE N == Len(q)
           f == [i \in 0 .. N |-> g[1 .. i]]
<1>1. N \in Nat /\ DOMAIN q = 1 .. N
  OBVIOUS
<1> HIDE DEF N
<1>2. g[{}] = base
  BY DEF IsFold
<1>3. ASSUME NEW i \in 1 .. N PROVE g[1 .. i] = Round(loop, x, g[1 .. (i - 1)], q[i])
  <2>1. i \in Nat /\ i \in 1 .. i /\ (1 .. i) \ {i} = 1 .. (i - 1) /\ 1 .. i \in SUBSET (1 .. N)
    BY <1>1
  <2>2. Max(1 .. i) = i /\ 1 .. i # {}
    BY <2>1, LastPosition
  <2>3. g[1 .. i] = Round(loop, x, g[(1 .. i) \ {Max(1 .. i)}], q[Max(1 .. i)])
    BY <1>1, <2>1, <2>2 DEF IsFold
  <2> QED BY <2>1, <2>2, <2>3
<1>4. /\ f[0] = base
      /\ \A i \in 1 .. N : f[i] = Round(loop, x, f[i - 1], q[i])
      /\ f[N] = g[DOMAIN q]
  <2>1. 1 .. 0 = {} /\ 0 \in 0 .. N /\ N \in 0 .. N
    BY <1>1
  <2>2. \A i \in 1 .. N : i \in 0 .. N /\ i - 1 \in 0 .. N
    BY <1>1
  <2> QED BY <1>1, <1>2, <1>3, <2>1, <2>2
<1> HIDE DEF f
<1> QED BY <1>4 DEF Iterates, N

\* streamTrim is its rounds, one after the other.
LEMMA TrimLoop ==
    ASSUME NEW t, NEW trim, trim.by # "none", NEW q \in Seq(Ids), q = Sorted(t.entries)
    PROVE  \E f : /\ Iterates("trim", trim, [t |-> t, stop |-> FALSE], q, f)
                  /\ Trim(t, trim) = f[Len(q)].t
<1> DEFINE base == [t |-> t, stop |-> FALSE]
           IsLoop(h) == h = [S \in SUBSET DOMAIN q |-> IF S = {} THEN base
                               ELSE LET i == Max(S) IN TrimOne(h[S \ {i}], q[i], trim)]
           g == CHOOSE h : IsLoop(h)
<1>1. Trim(t, trim) = g[DOMAIN q].t
  BY DEF Trim, FoldLeft, MapThenFoldSet
<1> HIDE DEF base
<1>2. \A h : IsLoop(h) <=> IsFold("trim", trim, base, q, DOMAIN q, h)
  BY DEF IsFold, Round
<1>3. Len(q) \in Nat /\ DOMAIN q = 1 .. Len(q)
  OBVIOUS
<1> HIDE DEF IsLoop
<1>4. \E h : IsLoop(h)
  BY <1>2, <1>3, FoldExists
<1>5. IsFold("trim", trim, base, q, DOMAIN q, g)
  BY <1>2, <1>4
<1> HIDE DEF g
<1>6. \E f : Iterates("trim", trim, base, q, f) /\ f[Len(q)] = g[DOMAIN q]
  BY <1>5, FoldIterates
<1> QED BY <1>1, <1>6 DEF base

\* So is the claim of what is idle,
LEMMA ClaimLoop ==
    ASSUME NEW acc, NEW g, NEW c, NEW minidle, NEW count, NEW q \in Seq(Ids), q = acc.t.g[g].list
    PROVE  \E f : /\ Iterates("claim", <<g, c, minidle, count>>, acc, q, f)
                  /\ ClaimIdle(acc, g, c, minidle, count) = f[Len(q)]
<1> DEFINE base == acc
           IsLoop(h) == h = [S \in SUBSET DOMAIN q |-> IF S = {} THEN base
                               ELSE LET i == Max(S) IN ClaimNext(h[S \ {i}], q[i], g, c, minidle, count)]
           k == CHOOSE h : IsLoop(h)
<1>1. ClaimIdle(acc, g, c, minidle, count) = k[DOMAIN q]
  BY DEF ClaimIdle, FoldLeft, MapThenFoldSet
<1> HIDE DEF base
<1>2. \A h : IsLoop(h) <=> IsFold("claim", <<g, c, minidle, count>>, base, q, DOMAIN q, h)
  BY DEF IsFold, Round
<1>3. q \in Seq(Ids) /\ Len(q) \in Nat /\ DOMAIN q = 1 .. Len(q)
  OBVIOUS
<1> HIDE DEF IsLoop
<1>4. \E h : IsLoop(h)
  BY ONLY <1>2, <1>3, FoldExists
<1>5. IsFold("claim", <<g, c, minidle, count>>, base, q, DOMAIN q, k)
  BY <1>2, <1>4
<1> HIDE DEF k
<1>6. \E f : Iterates("claim", <<g, c, minidle, count>>, base, q, f) /\ f[Len(q)] = k[DOMAIN q]
  BY ONLY <1>3, <1>5, FoldIterates
<1> QED BY <1>1, <1>6 DEF base

\* ... XAUTOCLAIM,
PendingFrom(g, start) == {id \in start .. MaxId : s.g[g].pel[id] # None}

LEMMA AutoLoop ==
    ASSUME NEW g, NEW c, NEW minidle, NEW start, NEW count, NEW q \in Seq(Ids),
           q = Sorted(PendingFrom(g, start)),
           XAutoClaim(g, c, minidle, start, count)
    PROVE  \E f : /\ Iterates("auto", <<g, c, minidle, count>>,
                              [t |-> CreateConsumer(s, g, c), u |-> r, n |-> 0], q, f)
                  /\ s' = f[Len(q)].t /\ r' = f[Len(q)].u
<1> DEFINE base == [t |-> CreateConsumer(s, g, c), u |-> r, n |-> 0]
           IsLoop(h) == h = [S \in SUBSET DOMAIN q |-> IF S = {} THEN base
                               ELSE LET i == Max(S) IN AutoClaimNext(h[S \ {i}], q[i], g, c, minidle, count)]
           k == CHOOSE h : IsLoop(h)
<1>1. s' = k[DOMAIN q].t /\ r' = k[DOMAIN q].u
  BY DEF XAutoClaim, PendingFrom, FoldLeft, MapThenFoldSet
<1> HIDE DEF base
<1>2. \A h : IsLoop(h) <=> IsFold("auto", <<g, c, minidle, count>>, base, q, DOMAIN q, h)
  BY DEF IsFold, Round
<1>3. q \in Seq(Ids) /\ Len(q) \in Nat /\ DOMAIN q = 1 .. Len(q)
  OBVIOUS
<1> HIDE DEF IsLoop
<1>4. \E h : IsLoop(h)
  BY ONLY <1>2, <1>3, FoldExists
<1>5. IsFold("auto", <<g, c, minidle, count>>, base, q, DOMAIN q, k)
  BY <1>2, <1>4
<1> HIDE DEF k
<1>6. \E f : Iterates("auto", <<g, c, minidle, count>>, base, q, f) /\ f[Len(q)] = k[DOMAIN q]
  BY ONLY <1>3, <1>5, FoldIterates
<1> QED BY <1>1, <1>6 DEF base

\* ... the reading of new entries,
LEMMA ReadLoop ==
    ASSUME NEW acc, NEW g, NEW c, NEW count, NEW noack, NEW last, last = acc.t.g[g].last,
           NEW q \in Seq(Ids), q = Sorted(Behind(acc.t, last))
    PROVE  \E f : /\ Iterates("read", <<g, c, count, noack, last>>, acc, q, f)
                  /\ ReadNew(acc, g, c, count, noack) = ReadEnd(f[Len(q)], g, last)
<1> DEFINE base == acc
           IsLoop(h) == h = [S \in SUBSET DOMAIN q |-> IF S = {} THEN base
                               ELSE LET i == Max(S) IN ReadNext(h[S \ {i}], q[i], g, c, count, noack, last)]
           k == CHOOSE h : IsLoop(h)
<1>1. ReadNew(acc, g, c, count, noack) = ReadEnd(k[DOMAIN q], g, last)
  BY DEF ReadNew, ReadEnd, Behind, FoldLeft, MapThenFoldSet
<1> HIDE DEF base
<1>2. \A h : IsLoop(h) <=> IsFold("read", <<g, c, count, noack, last>>, base, q, DOMAIN q, h)
  BY DEF IsFold, Round
<1>3. q \in Seq(Ids) /\ Len(q) \in Nat /\ DOMAIN q = 1 .. Len(q)
  OBVIOUS
<1> HIDE DEF IsLoop
<1>4. \E h : IsLoop(h)
  BY ONLY <1>2, <1>3, FoldExists
<1>5. IsFold("read", <<g, c, count, noack, last>>, base, q, DOMAIN q, k)
  BY <1>2, <1>4
<1> HIDE DEF k
<1>6. \E f : Iterates("read", <<g, c, count, noack, last>>, base, q, f) /\ f[Len(q)] = k[DOMAIN q]
  BY ONLY <1>3, <1>5, FoldIterates
<1> QED BY <1>1, <1>6 DEF base

\* The group's record alone changes.
Record(t, g, y) == [t EXCEPT !.g[g] = y]

\* ... the reading of the history,
HistoryOf(g, c, start) == {id \in s.g[g].cpel[c] \cap s.entries : id >= start}

LEMMA HistoryLoop ==
    ASSUME NEW g, NEW c, NEW start, NEW q \in Seq(Ids),
           q = Sorted(HistoryOf(g, c, start)),
           NEW x, x = CreateConsumer(s, g, c).g[g], g \in DOMAIN CreateConsumer(s, g, c).g,
           "g" \in DOMAIN CreateConsumer(s, g, c),
           ReadHistory(g, c, start)
    PROVE  \E f : /\ Iterates("history", 0, x, q, f)
                  /\ s' = Record(CreateConsumer(s, g, c), g, f[Len(q)])
<1> DEFINE base == x
           IsLoop(h) == h = [S \in SUBSET DOMAIN q |-> IF S = {} THEN base
                               ELSE LET i == Max(S) IN PelListUpdate(h[S \ {i}], q[i], now)]
           k == CHOOSE h : IsLoop(h)
<1>1. s' = Record(CreateConsumer(s, g, c), g, k[DOMAIN q])
  BY DEF ReadHistory, Record, HistoryOf, FoldLeft, MapThenFoldSet
<1> HIDE DEF base
<1>2. \A h : IsLoop(h) <=> IsFold("history", 0, base, q, DOMAIN q, h)
  BY DEF IsFold, Round
<1>3. q \in Seq(Ids) /\ Len(q) \in Nat /\ DOMAIN q = 1 .. Len(q)
  OBVIOUS
<1> HIDE DEF IsLoop
<1>4. \E h : IsLoop(h)
  BY ONLY <1>2, <1>3, FoldExists
<1>5. IsFold("history", 0, base, q, DOMAIN q, k)
  BY <1>2, <1>4
<1> HIDE DEF k
<1>6. \E f : Iterates("history", 0, base, q, f) /\ f[Len(q)] = k[DOMAIN q]
  BY ONLY <1>3, <1>5, FoldIterates
<1> QED BY <1>1, <1>6 DEF base

\* The consumer is taken out of the group.
Discarded(t, g, c) == [t EXCEPT !.g[g].consumers = @ \ {c}]

\* ... and the deletion of a consumer's pending entries.
LEMMA DeleteLoop ==
    ASSUME NEW t, NEW g, NEW c, NEW q \in Seq(Ids), q = Sorted(t.g[g].cpel[c])
    PROVE  \E f : /\ Iterates("delete", g, t, q, f)
                  /\ DelConsumer(t, g, c) = Discarded(f[Len(q)], g, c)
<1> DEFINE base == t
           IsLoop(h) == h = [S \in SUBSET DOMAIN q |-> IF S = {} THEN base
                               ELSE LET i == Max(S) IN DropNACK(h[S \ {i}], g, q[i])]
           k == CHOOSE h : IsLoop(h)
<1>1. DelConsumer(t, g, c) = Discarded(k[DOMAIN q], g, c)
  BY DEF DelConsumer, Discarded, FoldLeft, MapThenFoldSet
<1> HIDE DEF base
<1>2. \A h : IsLoop(h) <=> IsFold("delete", g, base, q, DOMAIN q, h)
  BY DEF IsFold, Round
<1>3. q \in Seq(Ids) /\ Len(q) \in Nat /\ DOMAIN q = 1 .. Len(q)
  OBVIOUS
<1> HIDE DEF IsLoop
<1>4. \E h : IsLoop(h)
  BY ONLY <1>2, <1>3, FoldExists
<1>5. IsFold("delete", g, base, q, DOMAIN q, k)
  BY <1>2, <1>4
<1> HIDE DEF k
<1>6. \E f : Iterates("delete", g, base, q, f) /\ f[Len(q)] = k[DOMAIN q]
  BY ONLY <1>3, <1>5, FoldIterates
<1> QED BY <1>1, <1>6 DEF base

(***************************************************************************)
(* The IDs of a set in their order.                                        *)
(***************************************************************************)
Increasing(q, S) ==
  q \in [1 .. Cardinality(S) -> S] /\ \A i, j \in 1 .. Cardinality(S) : i < j => q[i] < q[j]

\* Sets of IDs are finite.
LEMMA IdSets ==
    ASSUME NEW S \in SUBSET Ids
    PROVE  /\ IsFiniteSet(S) /\ Cardinality(S) \in Nat /\ Cardinality(S) <= MaxId
           /\ \A id : /\ Cardinality(S \ {id}) = IF id \in S THEN Cardinality(S) - 1 ELSE Cardinality(S)
                      /\ id \in Ids => Cardinality(S \cup {id}) =
                           IF id \in S THEN Cardinality(S) ELSE Cardinality(S) + 1
           /\ Cardinality(S) = 0 <=> S = {}
<1>1. IsFiniteSet(Ids) /\ Cardinality(Ids) = MaxId
  BY FS_Interval, StreamConstants DEF Ids
<1>2. IsFiniteSet(S) /\ Cardinality(S) <= MaxId
  BY <1>1, FS_Subset
<1> QED BY <1>2, FS_CardinalityType, FS_AddElement, FS_RemoveElement, FS_EmptySet

LEMMA IncreasingExists ==
    ASSUME NEW S \in SUBSET Ids
    PROVE  \E q : Increasing(q, S)
<1> DEFINE J == {m \in 0 .. MaxId : \A T \in SUBSET Ids : T \subseteq 1 .. m => \E q : Increasing(q, T)}
<1>1. 0 \in J
  <2>1. ASSUME NEW T \in SUBSET Ids, T \subseteq 1 .. 0 PROVE \E q : Increasing(q, T)
    <3> DEFINE q == [i \in 1 .. 0 |-> 0]
    <3>1. T = {} /\ Cardinality(T) = 0
      BY <2>1, IdSets
    <3>2. q \in [1 .. 0 -> T]
      OBVIOUS
    <3> HIDE DEF q
    <3>3. Increasing(q, T)
      BY <3>1, <3>2 DEF Increasing
    <3> QED BY <3>3
  <2> QED BY <2>1, StreamConstants
<1>2. ASSUME NEW m \in 1 .. MaxId, m - 1 \in J PROVE m \in J
  <2>1. ASSUME NEW T \in SUBSET Ids, T \subseteq 1 .. m PROVE \E q : Increasing(q, T)
    <3> DEFINE R == T \ {m}
    <3>1. R \in SUBSET Ids /\ R \subseteq 1 .. (m - 1)
      BY <2>1
    <3>2. PICK p : Increasing(p, R)
      BY <1>2, <3>1
    <3>3. CASE m \notin T
      <4>1. R = T
        BY <3>3
      <4> QED BY <3>2, <4>1
    <3>4. CASE m \in T
      <4> DEFINE n == Cardinality(T)
                 q == [i \in 1 .. n |-> IF i = n THEN m ELSE p[i]]
      <4>1. n \in Nat /\ n # 0 /\ Cardinality(R) = n - 1
        BY <3>4, IdSets
      <4>2. \A i \in 1 .. n - 1 : p[i] \in R /\ p[i] \in T /\ p[i] < m
        <5>1. \A i \in 1 .. n - 1 : p[i] \in R
          BY <3>2, <4>1 DEF Increasing
        <5>2. \A y \in R : y \in T /\ y \in 1 .. (m - 1)
          BY <3>1
        <5>3. \A y \in R : y \in T /\ y < m
          BY <5>2
        <5> HIDE DEF n, R
        <5> QED BY <5>1, <5>3
      <4>3. \A i, j \in 1 .. n - 1 : i < j => p[i] < p[j]
        BY <3>2, <4>1 DEF Increasing
      <4> HIDE DEF n, R
      <4>4. q \in [1 .. n -> T]
        BY <3>4, <4>1, <4>2
      <4>5. \A i, j \in 1 .. n : i < j => q[i] < q[j]
        BY <4>1, <4>2, <4>3
      <4> HIDE DEF q
      <4>6. Increasing(q, T)
        BY <4>4, <4>5 DEF Increasing, n
      <4> QED BY <4>6
    <3> QED BY <3>3, <3>4
  <2> QED BY <2>1
<1> HIDE DEF J
<1>3. MaxId \in J
  BY <1>1, <1>2, Climb, StreamConstants
<1> QED BY <1>3 DEF J, Ids

Rank(S, x) == Cardinality({y \in S : y < x})

\* The i-th of them is greater than i - 1 others.
LEMMA RankIs ==
    ASSUME NEW S \in SUBSET Ids, NEW p, Increasing(p, S), \A x \in S : \E i \in 1 .. Cardinality(S) : p[i] = x,
           NEW i \in 1 .. Cardinality(S)
    PROVE  Rank(S, p[i]) = i - 1
<1> DEFINE n == Cardinality(S)
           B == {y \in S : y < p[i]}
           f == [j \in 1 .. i - 1 |-> p[j]]
<1>1. n \in Nat /\ IsFiniteSet(S) /\ i \in 1 .. n
  BY IdSets
<1>2. p \in [1 .. n -> S] /\ \A k, j \in 1 .. n : k < j => p[k] < p[j]
  BY DEF Increasing
<1>3. \A x \in S : x \in Int
  BY StreamConstants DEF Ids
<1>4. \A x \in S : \E k \in 1 .. n : p[k] = x
  OBVIOUS
<1> HIDE DEF n
<1>5. \A j \in 1 .. n : p[j] \in Int /\ p[j] \in S
  BY <1>2, <1>3
<1>6. \A j \in 1 .. i - 1 : j \in 1 .. n /\ p[j] \in B
  BY <1>1, <1>2, <1>5
<1>7. \A y \in B : \E j \in 1 .. i - 1 : p[j] = y
  <2>1. ASSUME NEW y \in B PROVE \E j \in 1 .. i - 1 : p[j] = y
    <3>1. PICK k \in 1 .. n : p[k] = y
      BY <1>4
    <3>2. k < i
      <4>1. ~(p[i] < p[k]) /\ p[k] # p[i]
        BY <1>1, <1>5, <3>1
      <4> QED BY <1>1, <1>2, <4>1
    <3> QED BY <3>1, <3>2
  <2> QED BY <2>1
<1>8. \A j, k \in 1 .. i - 1 : p[j] = p[k] => j = k
  <2> SUFFICES ASSUME NEW j \in 1 .. i - 1, NEW k \in 1 .. i - 1, p[j] = p[k], j # k PROVE FALSE
    OBVIOUS
  <2>1. j \in 1 .. n /\ k \in 1 .. n /\ (j < k \/ k < j)
    BY <1>1, <1>6
  <2> QED BY <1>2, <1>5, <2>1
<1> HIDE DEF B
<1>9. f \in Bijection(1 .. i - 1, B)
  <2>1. f \in [1 .. i - 1 -> B]
    BY <1>6
  <2>2. \A y \in B : \E j \in 1 .. i - 1 : f[j] = y
    BY <1>7
  <2>3. \A j, k \in 1 .. i - 1 : f[j] = f[k] => j = k
    BY <1>8
  <2> HIDE DEF f
  <2> QED BY <2>1, <2>2, <2>3 DEF Bijection, Injection, Surjection, IsInjective
<1>10. IsFiniteSet(1 .. i - 1) /\ Cardinality(1 .. i - 1) = i - 1
  <2>1. i - 1 \in Int /\ i - 1 >= 0
    BY <1>1
  <2> QED BY <2>1, FS_Interval
<1> HIDE DEF f
<1>11. Cardinality(B) = i - 1
  <2> DEFINE D == 1 .. i - 1
  <2>1. f \in Bijection(D, B) /\ IsFiniteSet(D) /\ Cardinality(D) = i - 1
    BY <1>9, <1>10
  <2> HIDE DEF D
  <2>2. Cardinality(B) = Cardinality(D)
    BY <2>1, FS_Bijection DEF ExistsBijection
  <2> QED BY <2>1, <2>2
<1> QED BY <1>11 DEF B, Rank

\* Counting what is below finds the elements in their order.
LEMMA SortedIsThat ==
    ASSUME NEW S \in SUBSET Ids, NEW p, Increasing(p, S)
    PROVE  Sorted(S) = p
<1> DEFINE n == Cardinality(S)
<1>1. n \in Nat /\ IsFiniteSet(S)
  BY IdSets
<1>2. p \in [1 .. n -> S] /\ \A i, j \in 1 .. n : i < j => p[i] < p[j]
  BY DEF Increasing
<1>3. \A x \in S : x \in Int
  BY StreamConstants DEF Ids
<1>4. \A x \in S : \E i \in 1 .. n : p[i] = x
  <2>1. \A i, j \in 1 .. n : p[i] = p[j] => i = j
    <3> HIDE DEF n
    <3> SUFFICES ASSUME NEW i \in 1 .. n, NEW j \in 1 .. n, p[i] = p[j], i # j PROVE FALSE
      OBVIOUS
    <3>1. p[i] \in Int /\ p[j] \in Int
      BY <1>2, <1>3
    <3>2. i < j \/ j < i
      BY <1>1
    <3> QED BY <1>2, <3>1, <3>2
  <2>2. p \in Injection(1 .. n, S)
    BY <1>2, <2>1 DEF Injection, IsInjective
  <2>3. Cardinality(1 .. n) = n
    BY <1>1, FS_Interval
  <2>4. p \in Surjection(1 .. n, S)
    BY <1>1, <2>2, <2>3, FS_Injection
  <2> QED BY <2>4 DEF Surjection
<1>5. \A i \in 1 .. n : Rank(S, p[i]) = i - 1
  BY <1>4, RankIs
<1>6. Sorted(S) = [i \in 1 .. n |-> CHOOSE x \in S : Rank(S, x) = i - 1]
  BY DEF Sorted, Rank
<1> HIDE DEF n
<1>7. ASSUME NEW i \in 1 .. n PROVE (CHOOSE x \in S : Rank(S, x) = i - 1) = p[i]
  <2> DEFINE c == CHOOSE x \in S : Rank(S, x) = i - 1
  <2>1. p[i] \in S /\ Rank(S, p[i]) = i - 1
    BY <1>2, <1>5
  <2>2. c \in S /\ Rank(S, c) = i - 1
    BY <2>1
  <2>3. PICK k \in 1 .. n : p[k] = c
    BY <1>4, <2>2
  <2> HIDE DEF c
  <2>4. k - 1 = i - 1
    BY <1>5, <2>2, <2>3
  <2>5. c = p[i]
    BY <1>1, <2>3, <2>4
  <2> QED BY <2>5 DEF c
<1> QED BY <1>2, <1>6, <1>7

\* They are each in it once, the smaller before the greater.
LEMMA SortedIs ==
    ASSUME NEW S \in SUBSET Ids
    PROVE  /\ Sorted(S) \in Seq(Ids) /\ Len(Sorted(S)) = Cardinality(S)
           /\ \A i, j \in 1 .. Len(Sorted(S)) : i < j => Sorted(S)[i] < Sorted(S)[j]
           /\ \A i \in 1 .. Len(Sorted(S)) : Sorted(S)[i] \in S
           /\ \A id \in S : \E i \in 1 .. Len(Sorted(S)) : Sorted(S)[i] = id
<1> DEFINE n == Cardinality(S)
           q == Sorted(S)
<1>0. \A y \in S : y \in Int
  BY StreamConstants DEF Ids
<1>1. n \in Nat /\ IsFiniteSet(S)
  BY IdSets
<1>2. PICK p : Increasing(p, S)
  BY IncreasingExists
<1>3. p \in [1 .. n -> S] /\ \A i, j \in 1 .. n : i < j => p[i] < p[j]
  BY <1>2 DEF Increasing
<1>4. q \in [1 .. n -> S] /\ \A i, j \in 1 .. n : i < j => q[i] < q[j]
  BY <1>2, <1>3, SortedIsThat
<1> HIDE DEF q, n
<1>5. \A i, j \in 1 .. n : i < j => q[i] < q[j]
  BY <1>4
<1>6. q \in Seq(Ids) /\ Len(q) = n
  BY <1>1, <1>4
<1>7. q \in Injection(1 .. n, S)
  <2>1. \A i, j \in 1 .. n : q[i] = q[j] => i = j
    <3> SUFFICES ASSUME NEW i \in 1 .. n, NEW j \in 1 .. n, q[i] = q[j], i # j PROVE FALSE
      OBVIOUS
    <3>1. q[i] \in Int /\ q[j] \in Int
      <4>1. q[i] \in S /\ q[j] \in S
        BY <1>4
      <4> QED BY <1>0, <4>1
    <3>2. i < j \/ j < i
      BY <1>1
    <3> QED BY <1>5, <3>1, <3>2
  <2> QED BY <1>4, <2>1 DEF Injection, IsInjective
<1>8. Cardinality(1 .. n) = n
  BY <1>1, FS_Interval
<1>9. q \in Surjection(1 .. n, S)
  BY <1>1, <1>7, <1>8, FS_Injection DEF n
<1>10. \A id \in S : \E i \in 1 .. n : q[i] = id
  BY <1>9 DEF Surjection
<1> QED BY <1>4, <1>5, <1>6, <1>10 DEF q, n

\* The least and the greatest of numbers.
LEMMA MinIs ==
    ASSUME NEW S \in SUBSET Nat, S # {}
    PROVE  Min(S) \in S /\ \A x \in S : Min(S) <= x
<1>1. \E p \in S : \A q \in S : p <= q
  BY LeastElement
<1> QED BY <1>1 DEF Min

LEMMA MinUnique ==
    ASSUME NEW S \in SUBSET Nat, NEW x \in S, \A y \in S : x <= y
    PROVE  Min(S) = x
<1>1. Min(S) \in S /\ Min(S) <= x
  BY MinIs
<1>2. x <= Min(S) /\ x \in Nat /\ Min(S) \in Nat
  BY <1>1
<1> QED BY <1>1, <1>2

LEMMA MaxIs ==
    ASSUME NEW n \in Nat, NEW S \in SUBSET (0 .. n), S # {}
    PROVE  Max(S) \in S /\ \A x \in S : x <= Max(S)
<1> DEFINE U == {m \in 0 .. n : \A x \in S : x <= m}
<1>1. U \in SUBSET Nat /\ n \in U
  OBVIOUS
<1>2. PICK m \in U : \A y \in U : m <= y
  BY <1>1, LeastElement
<1>3. m \in S
  <2>1. SUFFICES ASSUME m \notin S PROVE FALSE
    OBVIOUS
  <2>2. \A x \in S : x \in Nat /\ x <= m - 1
    BY <1>2, <2>1
  <2>3. PICK x \in S : TRUE
    OBVIOUS
  <2>4. m - 1 \in 0 .. n
    BY <1>2, <2>2, <2>3
  <2>5. m - 1 \in U
    BY <2>2, <2>4
  <2> QED BY <1>2, <2>4, <2>5
<1>4. \A x \in S : m >= x
  BY <1>2
<1>5. Max(S) \in S /\ \A x \in S : Max(S) >= x
  BY <1>3, <1>4 DEF Max
<1> QED BY <1>5

(***************************************************************************)
(* The list of a group.                                                    *)
(***************************************************************************)
\* Where the elements of a concatenation come from.
LEMMA Concatenated ==
    ASSUME NEW E, NEW a \in Seq(E), NEW b \in Seq(E)
    PROVE  /\ a \o b \in Seq(E) /\ Len(a \o b) = Len(a) + Len(b)
           /\ \A i \in 1 .. Len(a) + Len(b) :
                (a \o b)[i] = IF i <= Len(a) THEN a[i] ELSE b[i - Len(a)]
OBVIOUS

\* An ID that is taken out of a list that has it once.
LEMMA Removed ==
    ASSUME NEW q \in Seq(Ids), \A i, j \in 1 .. Len(q) : q[i] = q[j] => i = j,
           NEW p \in 1 .. Len(q)
    PROVE  LET r1 == Unlinked(q, q[p]) IN
           /\ r1 \in Seq(Ids) /\ Len(r1) = Len(q) - 1
           /\ \A i \in 1 .. Len(q) - 1 : r1[i] = IF i < p THEN q[i] ELSE q[i + 1]
<1> DEFINE at == CHOOSE i \in 1 .. Len(q) : q[i] = q[p]
           r1 == Unlinked(q, q[p])
<1>1. at = p
  OBVIOUS
<1>2. r1 = [i \in 1 .. Len(q) - 1 |-> IF i < at THEN q[i] ELSE q[i + 1]]
  BY DEF Unlinked
<1> HIDE DEF at
<1>3. r1 = [i \in 1 .. Len(q) - 1 |-> IF i < p THEN q[i] ELSE q[i + 1]]
  BY <1>1, <1>2
<1> HIDE DEF r1
<1>4. ASSUME NEW i \in 1 .. Len(q) - 1 PROVE (IF i < p THEN q[i] ELSE q[i + 1]) \in Ids
  OBVIOUS
<1>5. Len(q) - 1 \in Nat
  OBVIOUS
<1>6. r1 \in Seq(Ids) /\ Len(r1) = Len(q) - 1
  BY <1>3, <1>4, <1>5
<1> QED BY <1>3, <1>6 DEF r1

\* An ID that is put into a list.
LEMMA Inserted ==
    ASSUME NEW q \in Seq(Ids), NEW k \in 0 .. Len(q), NEW id \in Ids
    PROVE  LET r1 == InsertAt(q, k + 1, id) IN
           /\ r1 \in Seq(Ids) /\ Len(r1) = Len(q) + 1
           /\ \A i \in 1 .. Len(q) + 1 :
                r1[i] = IF i <= k THEN q[i] ELSE IF i = k + 1 THEN id ELSE q[i - 1]
<1> DEFINE r1 == InsertAt(q, k + 1, id)
           a == SubSeq(q, 1, k)
           b == SubSeq(q, k + 1, Len(q))
           m == <<id>>
           N == Len(q)
<1>1. N \in Nat /\ k \in 0 .. N
  OBVIOUS
<1>2. /\ a \in Seq(Ids) /\ Len(a) = k /\ \A i \in 1 .. k : a[i] = q[i]
      /\ b \in Seq(Ids) /\ Len(b) = N - k /\ \A i \in 1 .. N - k : b[i] = q[k + i]
  OBVIOUS
<1>3. m \in Seq(Ids) /\ Len(m) = 1 /\ m[1] = id
  OBVIOUS
<1>4. r1 = (a \o m) \o b
  <2>1. k + 1 - 1 = k
    BY <1>1
  <2>2. r1 = SubSeq(q, 1, (k + 1) - 1) \o <<id>> \o SubSeq(q, k + 1, Len(q))
    BY DEF InsertAt
  <2>3. SubSeq(q, 1, (k + 1) - 1) = SubSeq(q, 1, k)
    BY <2>1
  <2> HIDE DEF r1
  <2> QED BY ONLY <2>2, <2>3
<1> DEFINE d == a \o m
<1> HIDE DEF r1, a, b, m, N
<1>5. /\ d \in Seq(Ids) /\ Len(d) = k + 1
      /\ \A i \in 1 .. k + 1 : d[i] = IF i <= k THEN a[i] ELSE m[i - k]
  <2>1. /\ a \o m \in Seq(Ids) /\ Len(a \o m) = Len(a) + Len(m)
        /\ \A i \in 1 .. Len(a) + Len(m) :
             (a \o m)[i] = IF i <= Len(a) THEN a[i] ELSE m[i - Len(a)]
    <3>1. a \in Seq(Ids) /\ m \in Seq(Ids)
      BY ONLY <1>2, <1>3
    <3> QED BY ONLY <3>1, Concatenated
  <2> HIDE DEF d
  <2>2. d = a \o m
    BY DEF d
  <2> QED BY ONLY <1>2, <1>3, <2>1, <2>2
<1>6. r1 = d \o b
  BY <1>4
<1> HIDE DEF d
<1>7. /\ r1 \in Seq(Ids) /\ Len(r1) = (k + 1) + (N - k)
      /\ \A i \in 1 .. (k + 1) + (N - k) : r1[i] = IF i <= k + 1 THEN d[i] ELSE b[i - (k + 1)]
  <2>1. /\ d \o b \in Seq(Ids) /\ Len(d \o b) = Len(d) + Len(b)
        /\ \A i \in 1 .. Len(d) + Len(b) :
             (d \o b)[i] = IF i <= Len(d) THEN d[i] ELSE b[i - Len(d)]
    <3>1. d \in Seq(Ids) /\ b \in Seq(Ids)
      BY ONLY <1>2, <1>5
    <3> QED BY ONLY <3>1, Concatenated
  <2> QED BY ONLY <1>2, <1>5, <1>6, <2>1
<1>8. (k + 1) + (N - k) = N + 1
  BY <1>1
<1>9. ASSUME NEW i \in 1 .. N + 1
      PROVE  r1[i] = IF i <= k THEN q[i] ELSE IF i = k + 1 THEN id ELSE q[i - 1]
  <2>1. r1[i] = IF i <= k + 1 THEN d[i] ELSE b[i - (k + 1)]
    BY <1>7, <1>8
  <2>2. CASE i <= k
    BY <1>1, <1>2, <1>5, <2>1, <2>2
  <2>3. CASE i = k + 1
    <3>1. i - k = 1 /\ ~(i <= k) /\ i <= k + 1 /\ i \in 1 .. k + 1
      BY <1>1, <2>3
    <3> QED BY <1>3, <1>5, <2>1, <2>3, <3>1
  <2>4. CASE i > k + 1
    <3>1. i - (k + 1) \in 1 .. N - k /\ k + (i - (k + 1)) = i - 1 /\ ~(i <= k + 1) /\ ~(i <= k) /\ i # k + 1
      BY <1>1, <2>4
    <3>2. b[i - (k + 1)] = q[k + (i - (k + 1))]
      BY <1>2, <3>1
    <3> QED BY <2>1, <3>1, <3>2
  <2> QED BY <1>1, <2>2, <2>3, <2>4
<1> QED BY <1>7, <1>8, <1>9 DEF r1, N

\* pelListUnlink: a list without one of its IDs.
LEMMA ListRemoved ==
    ASSUME NEW q, NEW P \in SUBSET Ids, NEW time \in [Ids -> Nat], ListOK(q, P, time), NEW id \in P
    PROVE  ListOK(Unlinked(q, id), P \ {id}, time)
<1>1. q \in Seq(Ids) /\ \A i, j \in 1 .. Len(q) : q[i] = q[j] => i = j
  BY DEF ListOK
<1>2. PICK p \in 1 .. Len(q) : q[p] = id
  BY DEF ListOK
<1> DEFINE N == Len(q)
           r1 == Unlinked(q, id)
           at(i) == IF i < p THEN i ELSE i + 1
<1>3. N \in Nat /\ p \in 1 .. N
  BY <1>1
<1>4. /\ r1 \in Seq(Ids) /\ Len(r1) = N - 1
      /\ \A i \in 1 .. N - 1 : r1[i] = IF i < p THEN q[i] ELSE q[i + 1]
  BY <1>1, <1>2, Removed
<1> HIDE DEF N, r1
<1>5. \A i \in 1 .. N - 1 : at(i) \in 1 .. N /\ at(i) # p /\ r1[i] = q[at(i)]
  <2>1. ASSUME NEW i \in 1 .. N - 1
        PROVE  at(i) \in 1 .. N /\ at(i) # p /\ r1[i] = q[at(i)]
    <3>1. CASE i < p
      BY ONLY <1>3, <1>4, <2>1, <3>1
    <3>2. CASE ~(i < p)
      BY ONLY <1>3, <1>4, <2>1, <3>2
    <3> QED BY <3>1, <3>2
  <2> QED BY <2>1
<1>6. /\ \A i, j \in 1 .. N - 1 : at(i) = at(j) => i = j
      /\ \A i, j \in 1 .. N - 1 : i < j => at(i) < at(j)
  BY <1>3
<1>7. ASSUME NEW j \in 1 .. N, j # p PROVE \E i \in 1 .. N - 1 : at(i) = j
  <2>1. CASE j < p
    <3>1. j \in 1 .. N - 1 /\ at(j) = j
      BY <1>3, <1>7, <2>1
    <3> QED BY <3>1
  <2>2. CASE j > p
    <3>1. j - 1 \in 1 .. N - 1 /\ at(j - 1) = j
      BY <1>3, <2>2
    <3> QED BY <3>1
  <2> QED BY <1>3, <1>7, <2>1, <2>2
<1> HIDE DEF at
<1>8. ASSUME NEW i \in 1 .. N - 1, NEW j \in 1 .. N - 1
      PROVE  (r1[i] = r1[j] => i = j) /\ (i < j => time[r1[i]] <= time[r1[j]])
  <2>1. \A m, n \in 1 .. N : (q[m] = q[n] => m = n) /\ (m < n => time[q[m]] <= time[q[n]])
    BY DEF ListOK, N
  <2>2. at(i) \in 1 .. N /\ r1[i] = q[at(i)] /\ at(j) \in 1 .. N /\ r1[j] = q[at(j)]
    BY <1>5
  <2>3. (at(i) = at(j) => i = j) /\ (i < j => at(i) < at(j))
    BY <1>6
  <2> QED BY ONLY <2>1, <2>2, <2>3
<1>10. ASSUME NEW x \in Ids PROVE x \in P \ {id} <=> \E i \in 1 .. Len(r1) : r1[i] = x
  <2>1. x \in P <=> \E j \in 1 .. N : q[j] = x
    BY DEF ListOK, N
  <2>2. ASSUME x \in P \ {id} PROVE \E i \in 1 .. Len(r1) : r1[i] = x
    <3>1. PICK j \in 1 .. N : q[j] = x
      BY <2>1, <2>2
    <3>2. j # p
      BY <1>2, <2>2, <3>1
    <3> QED BY <1>4, <1>5, <1>7, <3>1, <3>2
  <2>3. ASSUME NEW i \in 1 .. Len(r1), r1[i] = x PROVE x \in P \ {id}
    <3>1. at(i) \in 1 .. N /\ q[at(i)] = x /\ at(i) # p
      BY <1>4, <1>5, <2>3
    <3> QED BY <1>1, <1>2, <2>1, <3>1 DEF N
  <2> QED BY <2>2, <2>3
<1> QED BY <1>4, <1>8, <1>10 DEF ListOK, r1

\* A list with one ID more, at a place that its time allows.
LEMMA ListInserted ==
    ASSUME NEW q, NEW P \in SUBSET Ids, NEW time \in [Ids -> Nat], ListOK(q, P, time),
           NEW id \in Ids \ P, NEW x \in Nat, NEW r1, NEW k \in 0 .. Len(q),
           /\ r1 \in Seq(Ids) /\ Len(r1) = Len(q) + 1
           /\ \A i \in 1 .. Len(q) + 1 :
                r1[i] = IF i <= k THEN q[i] ELSE IF i = k + 1 THEN id ELSE q[i - 1],
           \A i \in 1 .. k : time[q[i]] <= x,
           \A i \in k + 1 .. Len(q) : x <= time[q[i]]
    PROVE  ListOK(r1, P \cup {id}, [time EXCEPT ![id] = x])
<1> DEFINE N == Len(q)
           to(i) == IF i <= k THEN i ELSE i + 1
           from(i) == IF i <= k THEN i ELSE i - 1
           time2 == [time EXCEPT ![id] = x]
<1>1. q \in Seq(Ids) /\ N \in Nat /\ k \in 0 .. N
  BY DEF ListOK
<1>2. \A i \in 1 .. N : q[i] \in P /\ q[i] \in Ids /\ q[i] # id
  BY <1>1 DEF ListOK
<1>3. /\ \A i, j \in 1 .. N : q[i] = q[j] => i = j
      /\ \A i, j \in 1 .. N : i < j => time[q[i]] <= time[q[j]]
      /\ \A y \in Ids : y \in P <=> \E i \in 1 .. N : q[i] = y
  BY DEF ListOK
<1>4. /\ r1 \in Seq(Ids) /\ Len(r1) = N + 1
      /\ \A i \in 1 .. N + 1 : i # k + 1 => r1[i] = q[from(i)]
      /\ r1[k + 1] = id
  BY <1>1
<1>5. \A i \in 1 .. k : time[q[i]] <= x
  OBVIOUS
<1>6. \A i \in k + 1 .. N : x <= time[q[i]]
  OBVIOUS
<1> HIDE DEF N
<1>7. \A i \in 1 .. N + 1 : i # k + 1 => from(i) \in 1 .. N /\ to(from(i)) = i
  BY <1>1
<1>8. \A i \in 1 .. N : to(i) \in 1 .. N + 1 /\ to(i) # k + 1 /\ from(to(i)) = i
  BY <1>1
<1>9. \A i, j \in 1 .. N + 1 : i # k + 1 /\ j # k + 1 => (from(i) = from(j) => i = j) /\ (i < j => from(i) < from(j))
  BY <1>1
<1>10. \A i \in 1 .. N + 1 : (i < k + 1 => from(i) \in 1 .. k) /\ (i > k + 1 => from(i) \in k + 1 .. N)
  BY <1>1
<1>11. k + 1 \in 1 .. N + 1
  BY <1>1
<1> HIDE DEF to, from
<1>12. time2 \in [Ids -> Nat] /\ time2[id] = x /\ \A i \in 1 .. N : time2[q[i]] = time[q[i]]
  BY <1>2
<1> HIDE DEF time2
<1>13. ASSUME NEW i \in 1 .. N + 1, NEW j \in 1 .. N + 1, i < j
       PROVE  r1[i] # r1[j] /\ time2[r1[i]] <= time2[r1[j]]
  <2>0. i # j /\ i \in Int /\ j \in Int
    BY <1>1, <1>13
  <2> DEFINE a == from(i)
             b == from(j)
  <2>1. CASE i = k + 1
    <3>1. j > k + 1 /\ j # k + 1
      BY <1>1, <1>13, <2>1
    <3>2. b \in k + 1 .. N /\ b \in 1 .. N /\ r1[j] = q[b] /\ r1[i] = id
      BY <1>4, <1>7, <1>10, <2>1, <3>1
    <3> HIDE DEF b
    <3>3. x <= time[q[b]]
      BY <1>6, <3>2
    <3> QED BY ONLY <1>2, <1>12, <3>2, <3>3
  <2>2. CASE j = k + 1
    <3>1. i < k + 1 /\ i # k + 1
      BY <1>1, <1>13, <2>2
    <3>2. a \in 1 .. k /\ a \in 1 .. N /\ r1[i] = q[a] /\ r1[j] = id
      BY <1>4, <1>7, <1>10, <2>2, <3>1
    <3> HIDE DEF a
    <3>3. time[q[a]] <= x
      BY <1>5, <3>2
    <3> QED BY ONLY <1>2, <1>12, <3>2, <3>3
  <2>3. CASE i # k + 1 /\ j # k + 1
    <3>1. a < b /\ a # b /\ a \in 1 .. N /\ b \in 1 .. N
      BY <1>7, <1>9, <1>13, <2>0, <2>3
    <3>2. r1[i] = q[a] /\ r1[j] = q[b]
      BY <1>4, <2>3
    <3> HIDE DEF a, b
    <3>3. q[a] # q[b] /\ time[q[a]] <= time[q[b]]
      BY ONLY <1>3, <3>1
    <3> QED BY ONLY <1>12, <3>1, <3>2, <3>3
  <2> QED BY <2>1, <2>2, <2>3
<1>14. \A i, j \in 1 .. N + 1 : r1[i] = r1[j] => i = j
  <2> SUFFICES ASSUME NEW i \in 1 .. N + 1, NEW j \in 1 .. N + 1, i # j PROVE r1[i] # r1[j]
    OBVIOUS
  <2>1. i < j \/ j < i
    BY <1>1
  <2> QED BY <1>13, <2>1
<1>15. ASSUME NEW y \in Ids PROVE y \in P \cup {id} <=> \E i \in 1 .. N + 1 : r1[i] = y
  <2>1. ASSUME y \in P PROVE \E i \in 1 .. N + 1 : r1[i] = y
    <3>1. PICK j \in 1 .. N : q[j] = y
      BY <1>3, <2>1
    <3>2. to(j) \in 1 .. N + 1 /\ r1[to(j)] = y
      BY <1>4, <1>8, <3>1
    <3> QED BY <3>2
  <2>2. ASSUME NEW i \in 1 .. N + 1, r1[i] = y PROVE y \in P \cup {id}
    BY <1>2, <1>4, <1>7, <2>2
  <2> QED BY <1>4, <1>11, <2>1, <2>2
<1> QED BY <1>4, <1>13, <1>14, <1>15 DEF ListOK, time2

\* A list does not change with the times of others.
LEMMA ListTimes ==
    ASSUME NEW q, NEW P \in SUBSET Ids, NEW time, ListOK(q, P, time),
           NEW time2, \A id \in P : time2[id] = time[id]
    PROVE  ListOK(q, P, time2)
<1>1. \A i \in 1 .. Len(q) : q[i] \in P
  BY DEF ListOK
<1> QED BY <1>1 DEF ListOK

\* pelListInsertAtTail: no time is later.
LEMMA ListAppended ==
    ASSUME NEW q, NEW P \in SUBSET Ids, NEW time \in [Ids -> Nat], ListOK(q, P, time),
           NEW id \in Ids \ P, NEW x \in Nat, \A y \in Ids : time[y] <= x
    PROVE  ListOK(Append(q, id), P \cup {id}, [time EXCEPT ![id] = x])
<1> DEFINE k == Len(q)
           r1 == Append(q, id)
<1>1. q \in Seq(Ids) /\ k \in Nat
  BY DEF ListOK
<1>2. r1 \in Seq(Ids) /\ Len(r1) = k + 1 /\ r1[k + 1] = id /\ \A i \in 1 .. k : r1[i] = q[i]
  BY <1>1
<1>3. \A i \in 1 .. k : time[q[i]] <= x
  BY <1>1
<1> HIDE DEF r1
<1>4. k \in 0 .. Len(q)
  BY <1>1
<1>5. \A i \in 1 .. Len(q) + 1 : r1[i] = IF i <= k THEN q[i] ELSE IF i = k + 1 THEN id ELSE q[i - 1]
  BY <1>1, <1>2
<1>6. \A i \in k + 1 .. Len(q) : x <= time[q[i]]
  BY <1>1
<1>7. ListOK(r1, P \cup {id}, [time EXCEPT ![id] = x])
  <2> HIDE DEF k
  <2>1. Len(r1) = Len(q) + 1
    BY <1>2 DEF k
  <2> QED BY <1>2, <1>3, <1>4, <1>5, <1>6, <2>1, ListInserted
<1> QED BY <1>7 DEF r1

\* pelListUpdate: an ID is moved to where its new time belongs.
LEMMA ListUpdated ==
    ASSUME NEW q \in Group, NEW P \in SUBSET Ids, ListOK(q.list, P, q.time), NEW id \in P, NEW x \in Nat
    PROVE  /\ ListOK(PelListUpdate(q, id, x).list, P, PelListUpdate(q, id, x).time)
           /\ PelListUpdate(q, id, x).time = [q.time EXCEPT ![id] = x]
<1> DEFINE time == q.time
           rest == Unlinked(q.list, id)
           K == {j \in 1 .. Len(rest) : time[rest[j]] <= x}
           k == Max({0} \cup K)
           u == PelListUpdate(q, id, x)
           r1 == InsertAt(rest, k + 1, id)
           time2 == [time EXCEPT ![id] = x]
<1>1. time \in [Ids -> Nat]
  BY DEF Group
<1>2. u.list = r1 /\ u.time = time2
  BY DEF PelListUpdate, Group
<1>3. ListOK(rest, P \ {id}, time)
  BY <1>1, ListRemoved
<1>4. rest \in Seq(Ids) /\ Len(rest) \in Nat
  BY <1>3 DEF ListOK
<1> HIDE DEF time, rest
<1>5. k \in {0} \cup K /\ \A j \in K : j <= k
  <2>1. {0} \cup K \in SUBSET (0 .. Len(rest)) /\ {0} \cup K # {}
    BY <1>4
  <2> HIDE DEF K
  <2> QED BY <1>4, <2>1, MaxIs
<1> HIDE DEF k
<1>6. k \in 0 .. Len(rest)
  BY <1>4, <1>5
<1>7. \A i, j \in 1 .. Len(rest) : i < j => time[rest[i]] <= time[rest[j]]
  BY <1>3 DEF ListOK
<1>8. \A i \in 1 .. Len(rest) : time[rest[i]] \in Nat
  BY <1>1, <1>4
<1>9. \A i \in 1 .. k : time[rest[i]] <= x
  <2> SUFFICES ASSUME NEW i \in 1 .. k PROVE time[rest[i]] <= x
    OBVIOUS
  <2>1. k \in K /\ i \in 1 .. Len(rest) /\ k \in 1 .. Len(rest) /\ (i = k \/ i < k)
    BY <1>4, <1>5, <1>6
  <2>2. time[rest[k]] <= x
    BY <2>1
  <2>3. time[rest[i]] <= time[rest[k]]
    BY <1>7, <1>8, <2>1
  <2> QED BY <1>8, <2>1, <2>2, <2>3
<1>10. \A i \in k + 1 .. Len(rest) : x <= time[rest[i]]
  <2> SUFFICES ASSUME NEW i \in k + 1 .. Len(rest) PROVE x <= time[rest[i]]
    OBVIOUS
  <2>1. i \in 1 .. Len(rest) /\ ~(i <= k)
    BY <1>4, <1>6
  <2>2. i \notin K
    BY <1>5, <2>1
  <2> QED BY <1>8, <2>1, <2>2
<1> HIDE DEF K
<1>11. /\ r1 \in Seq(Ids) /\ Len(r1) = Len(rest) + 1
       /\ \A i \in 1 .. Len(rest) + 1 :
            r1[i] = IF i <= k THEN rest[i] ELSE IF i = k + 1 THEN id ELSE rest[i - 1]
  BY <1>4, <1>6, Inserted
<1>12. id \in Ids \ (P \ {id}) /\ P \ {id} \in SUBSET Ids /\ (P \ {id}) \cup {id} = P
  OBVIOUS
<1> HIDE DEF r1
<1>13. ListOK(r1, (P \ {id}) \cup {id}, time2)
  BY <1>1, <1>3, <1>6, <1>9, <1>10, <1>11, <1>12, ListInserted
<1> HIDE DEF time2, u
<1> QED BY <1>2, <1>12, <1>13 DEF u, time, time2

(***************************************************************************)
(* The record of a group.                                                  *)
(***************************************************************************)
\* The entry id is the consumer's c, or with None nobody's.
Put(pel, id, c) == [pel EXCEPT ![id] = c]

\* u is the group q after a step that has left pel pending.
Left(q, u, T, pel) ==
  /\ QSound(u, T)
  /\ u.on = q.on /\ u.last = q.last /\ u.read = q.read /\ u.pel = pel

LEMMA GroupFields ==
    ASSUME NEW q \in Group
    PROVE  /\ q.on \in BOOLEAN /\ q.last \in 0 .. MaxId /\ q.read \in Unknown .. MaxId
           /\ q.pel \in [Ids -> Consumers \cup {None}] /\ q.time \in [Ids -> Nat]
           /\ q.list \in Seq(Ids) /\ q.consumers \in SUBSET Consumers
           /\ q.cpel \in [Consumers -> SUBSET Ids]
BY DEF Group

\* A group with other pending entries.
WithPending(q, pel, time, list, consumers, cpel) ==
  [q EXCEPT !.pel = pel, !.time = time, !.list = list, !.consumers = consumers, !.cpel = cpel]

LEMMA GroupSet ==
    ASSUME NEW q \in Group, NEW pel \in [Ids -> Consumers \cup {None}], NEW time \in [Ids -> Nat],
           NEW list \in Seq(Ids), NEW consumers \in SUBSET Consumers, NEW cpel \in [Consumers -> SUBSET Ids]
    PROVE  LET u == WithPending(q, pel, time, list, consumers, cpel) IN
           /\ u \in Group
           /\ u.on = q.on /\ u.last = q.last /\ u.read = q.read
           /\ u.pel = pel /\ u.time = time /\ u.list = list /\ u.consumers = consumers /\ u.cpel = cpel
BY DEF Group, WithPending

LEMMA Puts ==
    ASSUME NEW pel \in [Ids -> Consumers \cup {None}], NEW id \in Ids, NEW c \in Consumers \cup {None}
    PROVE  /\ Put(pel, id, c) \in [Ids -> Consumers \cup {None}]
           /\ \A y \in Ids : Put(pel, id, c)[y] = IF y = id THEN c ELSE pel[y]
           /\ pel[id] = c => Put(pel, id, c) = pel
BY DEF Put

\* What a group has pending: the owner of each, in whose PEL it is.
LEMMA PendingOf ==
    ASSUME NEW T, NEW q, PelsSound(q, T)
    PROVE  /\ Pend(q) \in SUBSET Ids
           /\ \A id \in Pend(q) : q.on /\ q.pel[id] \in Consumers /\ q.pel[id] \in q.consumers
           /\ \A id \in Ids, c \in Consumers : id \in q.cpel[c] <=> q.pel[id] = c
<1>1. q.pel \in [Ids -> Consumers \cup {None}]
  BY GroupFields DEF PelsSound
<1> QED BY <1>1 DEF PelsSound, Pend

\* The NACK for an entry is gone from all that the group has.
LEMMA UnpendedSound ==
    ASSUME NEW T \in Nat, NEW q, QSound(q, T), NEW id \in Ids, q.pel[id] # None
    PROVE  Left(q, Unpended(q, id), T, Put(q.pel, id, None))
<1> DEFINE u == Unpended(q, id)
           c == q.pel[id]
           pel == [q.pel EXCEPT ![id] = None]
           time == [q.time EXCEPT ![id] = 0]
           list == Unlinked(q.list, id)
           cpel == [q.cpel EXCEPT ![c] = @ \ {id}]
<1>1. q \in Group /\ PelsSound(q, T)
  BY DEF QSound, PelsSound
<1>2. id \in Pend(q) /\ c \in Consumers
  BY <1>1, PendingOf DEF Pend
<1>3. ListOK(list, Pend(q) \ {id}, q.time)
  BY <1>1, <1>2, GroupFields, PendingOf, ListRemoved DEF QSound
<1>4. u = WithPending(q, pel, time, list, q.consumers, cpel)
  BY <1>1 DEF WithPending, Unpended, Group
<1>5. pel \in [Ids -> Consumers \cup {None}] /\ time \in [Ids -> Nat] /\ cpel \in [Consumers -> SUBSET Ids]
  BY <1>1, <1>2, GroupFields
<1>6. list \in Seq(Ids)
  BY <1>3 DEF ListOK
<1>8. u \in Group /\ u.pel = pel /\ u.time = time /\ u.cpel = cpel /\ u.list = list
      /\ u.on = q.on /\ u.last = q.last /\ u.read = q.read /\ u.consumers = q.consumers
  <2>1. q.consumers \in SUBSET Consumers
    BY <1>1, GroupFields
  <2> HIDE DEF u, pel, time, list, cpel
  <2> QED BY ONLY <1>1, <1>4, <1>5, <1>6, <2>1, GroupSet
<1> HIDE DEF u, list
<1>9. Pend(u) = Pend(q) \ {id}
  BY <1>1, <1>8, GroupFields DEF Pend
<1>10. ASSUME NEW d \in Consumers PROVE u.cpel[d] = {y \in Ids : u.pel[y] = d}
  <2>1. q.cpel[d] = {y \in Ids : q.pel[y] = d}
    BY <1>1 DEF PelsSound
  <2>2. d # None
    BY StreamConstants
  <2>3. cpel[d] = IF d = c THEN q.cpel[d] \ {id} ELSE q.cpel[d]
    BY <1>1, GroupFields
  <2>4. \A y \in Ids : pel[y] = d <=> q.pel[y] = d /\ y # id
    <3>1. \A y \in Ids : pel[y] = IF y = id THEN None ELSE q.pel[y]
      BY <1>1, GroupFields
    <3> HIDE DEF pel
    <3> QED BY <2>2, <3>1
  <2> HIDE DEF pel, cpel
  <2> QED BY <1>8, <2>1, <2>3, <2>4
<1>11. \A y \in Ids : u.time[y] <= T
  <2>1. \A y \in Ids : time[y] = IF y = id THEN 0 ELSE q.time[y]
    BY <1>1, GroupFields
  <2>2. \A y \in Ids : q.time[y] <= T
    BY <1>1 DEF PelsSound
  <2> HIDE DEF time
  <2> QED BY <1>8, <2>1, <2>2
<1>12. ASSUME NEW y \in Pend(u) PROVE u.on /\ u.pel[y] \in u.consumers
  <2>1. y \in Pend(q) /\ y # id /\ y \in Ids
    BY <1>9, <1>12 DEF Pend
  <2>2. pel[y] = q.pel[y]
    BY <1>1, <2>1, GroupFields
  <2>3. q.on /\ q.pel[y] \in q.consumers
    BY <1>1, <2>1 DEF PelsSound
  <2> QED BY <1>8, <2>2, <2>3
<1>13. ListOK(u.list, Pend(u), u.time)
  <2>1. \A y \in Pend(q) \ {id} : u.time[y] = q.time[y]
    <3>1. \A y \in Ids : y # id => time[y] = q.time[y]
      BY <1>1, GroupFields
    <3> HIDE DEF time
    <3> QED BY <1>8, <3>1 DEF Pend
  <2>2. Pend(q) \ {id} \in SUBSET Ids
    BY DEF Pend
  <2>3. ListOK(list, Pend(q) \ {id}, u.time)
    BY ONLY <1>3, <2>1, <2>2, ListTimes
  <2> QED BY <1>8, <1>9, <2>3
<1>14. QSound(u, T)
  BY <1>8, <1>10, <1>11, <1>12, <1>13 DEF QSound, PelsSound
<1> QED BY <1>8, <1>14 DEF Left, u, Put

\* A time and a place in the list change.
LEMMA UpdatedSound ==
    ASSUME NEW T \in Nat, NEW q, PelsSound(q, T), NEW P \in SUBSET Ids, ListOK(q.list, P, q.time),
           NEW id \in P, NEW x \in 0 .. T
    PROVE  LET u == PelListUpdate(q, id, x) IN
           /\ PelsSound(u, T) /\ ListOK(u.list, P, u.time)
           /\ u.on = q.on /\ u.last = q.last /\ u.read = q.read /\ u.pel = q.pel
           /\ u.consumers = q.consumers
<1> DEFINE u == PelListUpdate(q, id, x)
           time == [q.time EXCEPT ![id] = x]
<1>1. q \in Group /\ x \in Nat /\ x <= T
  BY DEF PelsSound
<1>2. ListOK(u.list, P, u.time) /\ u.time = time
  BY <1>1, ListUpdated
<1>3. u = [q EXCEPT !.time = time, !.list = u.list]
  BY <1>1, <1>2 DEF PelListUpdate, Group
<1> HIDE DEF u
<1>4. u.list \in Seq(Ids)
  BY <1>2 DEF ListOK
<1>5. time \in [Ids -> Nat] /\ \A y \in Ids : time[y] = IF y = id THEN x ELSE q.time[y]
  BY <1>1, GroupFields
<1>6. /\ u.on = q.on /\ u.last = q.last /\ u.read = q.read /\ u.pel = q.pel
      /\ u.consumers = q.consumers /\ u.cpel = q.cpel /\ u.time = time
      /\ u = [on |-> q.on, last |-> q.last, read |-> q.read, pel |-> q.pel, time |-> time,
              list |-> u.list, consumers |-> q.consumers, cpel |-> q.cpel]
  BY <1>1, <1>3 DEF Group
<1> HIDE DEF time
<1>7. u \in Group
  BY <1>1, <1>4, <1>5, <1>6, GroupFields DEF Group
<1>8. PelsSound(u, T)
  BY <1>1, <1>5, <1>6, <1>7 DEF PelsSound, Pend
<1> QED BY <1>2, <1>6, <1>8 DEF u

LEMMA RereadSound ==
    ASSUME NEW T \in Nat, NEW q, QSound(q, T), NEW id \in Ids, q.pel[id] # None, NEW x \in 0 .. T
    PROVE  /\ Left(q, PelListUpdate(q, id, x), T, q.pel)
           /\ PelListUpdate(q, id, x).consumers = q.consumers
<1> DEFINE u == PelListUpdate(q, id, x)
<1>1. id \in Pend(q) /\ Pend(q) \in SUBSET Ids /\ PelsSound(q, T) /\ ListOK(q.list, Pend(q), q.time)
  BY DEF QSound, Pend
<1>2. /\ PelsSound(u, T) /\ ListOK(u.list, Pend(q), u.time)
      /\ u.on = q.on /\ u.last = q.last /\ u.read = q.read /\ u.pel = q.pel
      /\ u.consumers = q.consumers
  BY <1>1, UpdatedSound
<1> HIDE DEF u
<1>3. Pend(u) = Pend(q)
  BY <1>2 DEF Pend
<1> QED BY <1>2, <1>3 DEF Left, QSound, u

\* An entry is put at the tail, for no time is later; its consumer comes next.
LEMMA TailSound ==
    ASSUME NEW T \in Nat, NEW q, QSound(q, T), NEW id \in Ids, q.pel[id] = None
    PROVE  LET u == InsertAtTail(q, id, T) IN
           /\ PelsSound(u, T) /\ ListOK(u.list, Pend(q) \cup {id}, u.time)
           /\ u.on = q.on /\ u.last = q.last /\ u.read = q.read /\ u.pel = q.pel
           /\ u.consumers = q.consumers
<1> DEFINE u == InsertAtTail(q, id, T)
           time == [q.time EXCEPT ![id] = T]
           list == Append(q.list, id)
<1>1. q \in Group /\ PelsSound(q, T) /\ ListOK(q.list, Pend(q), q.time) /\ \A y \in Ids : q.time[y] <= T
  BY DEF QSound, PelsSound
<1>2. Pend(q) \in SUBSET Ids /\ id \in Ids \ Pend(q)
  BY DEF Pend
<1>3. ListOK(list, Pend(q) \cup {id}, time)
  BY <1>1, <1>2, GroupFields, ListAppended
<1>4. list \in Seq(Ids)
  BY <1>3 DEF ListOK
<1>5. u = WithPending(q, q.pel, time, list, q.consumers, q.cpel)
  BY <1>1 DEF WithPending, InsertAtTail, Group
<1>6. time \in [Ids -> Nat] /\ \A y \in Ids : time[y] = IF y = id THEN T ELSE q.time[y]
  BY <1>1, GroupFields
<1> HIDE DEF u, time, list
<1>7. /\ u \in Group /\ u.on = q.on /\ u.last = q.last /\ u.read = q.read /\ u.pel = q.pel
      /\ u.consumers = q.consumers /\ u.cpel = q.cpel /\ u.time = time /\ u.list = list
  <2>1. /\ q.pel \in [Ids -> Consumers \cup {None}] /\ q.consumers \in SUBSET Consumers
        /\ q.cpel \in [Consumers -> SUBSET Ids]
    BY <1>1, GroupFields
  <2> QED BY ONLY <1>1, <1>4, <1>5, <1>6, <2>1, GroupSet
<1>8. PelsSound(u, T)
  BY <1>1, <1>6, <1>7 DEF PelsSound, Pend
<1> QED BY <1>3, <1>7, <1>8 DEF u

\* The consumer's PEL has what the group's has.
LEMMA AssignSound ==
    ASSUME NEW T \in Nat, NEW q, PelsSound(q, T), NEW id \in Ids, q.on, NEW c \in Consumers,
           ListOK(q.list, Pend(q) \cup {id}, q.time)
    PROVE  Left(q, Assign(q, id, c), T, Put(q.pel, id, c))
<1> DEFINE u == Assign(q, id, c)
           pel == [q.pel EXCEPT ![id] = c]
           cpel == [d \in Consumers |-> IF d = c THEN q.cpel[d] \cup {id} ELSE q.cpel[d] \ {id}]
<1>1. q \in Group /\ c # None
  BY StreamConstants DEF PelsSound
<1> DEFINE consumers == q.consumers \cup {c}
<1>2. u = WithPending(q, pel, q.time, q.list, consumers, cpel)
  BY <1>1 DEF WithPending, Assign, Group
<1>3. pel \in [Ids -> Consumers \cup {None}] /\ \A y \in Ids : pel[y] = IF y = id THEN c ELSE q.pel[y]
  BY <1>1, GroupFields
<1>4. cpel \in [Consumers -> SUBSET Ids] /\ consumers \in SUBSET Consumers
  BY <1>1, GroupFields
<1>5. /\ u \in Group /\ u.on = q.on /\ u.last = q.last /\ u.read = q.read /\ u.pel = pel
      /\ u.consumers = q.consumers \cup {c} /\ u.cpel = cpel /\ u.time = q.time /\ u.list = q.list
  <2>1. consumers = q.consumers \cup {c}
    OBVIOUS
  <2>2. q.time \in [Ids -> Nat] /\ q.list \in Seq(Ids)
    BY <1>1, GroupFields
  <2> HIDE DEF u, pel, cpel, consumers
  <2>3. pel \in [Ids -> Consumers \cup {None}]
    BY <1>3
  <2>4. /\ u \in Group /\ u.on = q.on /\ u.last = q.last /\ u.read = q.read /\ u.pel = pel
        /\ u.consumers = consumers /\ u.cpel = cpel /\ u.time = q.time /\ u.list = q.list
    BY ONLY <1>1, <1>2, <1>4, <2>2, <2>3, GroupSet
  <2> QED BY ONLY <2>1, <2>4
<1> HIDE DEF u, pel, consumers
<1>6. Pend(u) = Pend(q) \cup {id}
  BY <1>1, <1>3, <1>5 DEF Pend
<1>7. ASSUME NEW d \in Consumers PROVE u.cpel[d] = {y \in Ids : u.pel[y] = d}
  <2>1. q.cpel[d] = {y \in Ids : q.pel[y] = d}
    BY DEF PelsSound
  <2>2. cpel[d] = IF d = c THEN q.cpel[d] \cup {id} ELSE q.cpel[d] \ {id}
    OBVIOUS
  <2> HIDE DEF cpel
  <2> QED BY <1>3, <1>5, <2>1, <2>2
<1>8. \A y \in Ids : u.time[y] <= T
  BY <1>5 DEF PelsSound
<1>9. \A y \in Pend(u) : u.on /\ u.pel[y] \in u.consumers
  BY <1>3, <1>5, <1>6 DEF PelsSound, Pend
<1>10. ListOK(u.list, Pend(u), u.time)
  BY <1>5, <1>6
<1>11. QSound(u, T)
  BY <1>5, <1>7, <1>8, <1>9, <1>10 DEF QSound, PelsSound
<1> QED BY <1>5, <1>11 DEF Left, u, pel, Put

\* A NACK that is new or is claimed, with its time.
Taken(q, id, c, x, T) ==
  Assign(PelListUpdate(IF q.pel[id] = None THEN InsertAtTail(q, id, T) ELSE q, id, x), id, c)

LEMMA TakenSound ==
    ASSUME NEW T \in Nat, NEW q, QSound(q, T), NEW id \in Ids, q.on, NEW c \in Consumers,
           NEW x \in 0 .. T
    PROVE  Left(q, Taken(q, id, c, x, T), T, Put(q.pel, id, c))
<1> DEFINE v == IF q.pel[id] = None THEN InsertAtTail(q, id, T) ELSE q
           P == Pend(q) \cup {id}
           u == PelListUpdate(v, id, x)
<1>1. P \in SUBSET Ids /\ id \in P
  BY DEF Pend
<1>2. /\ PelsSound(v, T) /\ ListOK(v.list, P, v.time)
      /\ v.on = q.on /\ v.last = q.last /\ v.read = q.read /\ v.pel = q.pel
  <2>1. CASE q.pel[id] = None
    <3>1. v = InsertAtTail(q, id, T)
      BY <2>1
    <3> QED BY <2>1, <3>1, TailSound
  <2>2. CASE q.pel[id] # None
    <3>1. v = q /\ P = Pend(q)
      BY <2>2 DEF Pend
    <3> QED BY <3>1 DEF QSound
  <2> QED BY <2>1, <2>2
<1> HIDE DEF v, P
<1>3. /\ PelsSound(u, T) /\ ListOK(u.list, P, u.time)
      /\ u.on = v.on /\ u.last = v.last /\ u.read = v.read /\ u.pel = v.pel
  BY <1>1, <1>2, UpdatedSound
<1> HIDE DEF u
<1>4. P = Pend(u) \cup {id}
  BY <1>2, <1>3 DEF P, Pend
<1>5. Left(u, Assign(u, id, c), T, Put(u.pel, id, c))
  BY <1>2, <1>3, <1>4, AssignSound
<1>6. Taken(q, id, c, x, T) = Assign(u, id, c)
  BY DEF Taken, u, v
<1> QED BY <1>2, <1>3, <1>5, <1>6 DEF Left

\* ... and one that is new, at the tail.
LEMMA NewSound ==
    ASSUME NEW T \in Nat, NEW q, QSound(q, T), NEW id \in Ids, q.on, q.pel[id] = None,
           NEW c \in Consumers
    PROVE  Left(q, Assign(InsertAtTail(q, id, T), id, c), T, Put(q.pel, id, c))
<1> DEFINE u == InsertAtTail(q, id, T)
<1>1. /\ PelsSound(u, T) /\ ListOK(u.list, Pend(q) \cup {id}, u.time)
      /\ u.on = q.on /\ u.last = q.last /\ u.read = q.read /\ u.pel = q.pel
  BY TailSound
<1> HIDE DEF u
<1>2. Pend(u) = Pend(q)
  BY <1>1 DEF Pend
<1>3. Left(u, Assign(u, id, c), T, Put(u.pel, id, c))
  BY <1>1, <1>2, AssignSound
<1> QED BY <1>1, <1>3 DEF Left, u

(***************************************************************************)
(* The record of a stream.                                                 *)
(***************************************************************************)
LEMMA StreamFields ==
    ASSUME NEW t \in Stream
    PROVE  /\ t.entries \in SUBSET Ids /\ t.last \in 0 .. MaxId /\ t.first \in 0 .. MaxId
           /\ t.max_deleted \in 0 .. MaxId /\ t.added \in 0 .. MaxId /\ t.min \in 0 .. Top
           /\ t.min_valid \in BOOLEAN /\ t.refs \in [Ids -> SUBSET Groups] /\ t.g \in [Groups -> Group]
BY DEF Stream

\* A stream with other pending entries,
WithGroups(t, gs, refs) == [t EXCEPT !.g = gs, !.refs = refs]
\* with another minimum,
WithMin(t, min, valid) == [t EXCEPT !.min = min, !.min_valid = valid]
\* and with other entries.
WithEntries(t, entries, last, first, max_deleted, added) ==
  [t EXCEPT !.entries = entries, !.last = last, !.first = first, !.max_deleted = max_deleted, !.added = added]

\* The entries of u are those of t, and the groups' last IDs and counters.
Kept(t, u) ==
  /\ u.entries = t.entries /\ u.last = t.last /\ u.first = t.first
  /\ u.max_deleted = t.max_deleted /\ u.added = t.added
Heads(t, u) ==
  \A h \in Groups : u.g[h].on = t.g[h].on /\ u.g[h].last = t.g[h].last /\ u.g[h].read = t.g[h].read

LEMMA StreamGroups ==
    ASSUME NEW t \in Stream, NEW gs \in [Groups -> Group], NEW refs \in [Ids -> SUBSET Groups]
    PROVE  LET u == WithGroups(t, gs, refs) IN
           /\ u \in Stream /\ Kept(t, u) /\ u.min = t.min /\ u.min_valid = t.min_valid
           /\ u.g = gs /\ u.refs = refs
BY DEF Stream, WithGroups, Kept

LEMMA StreamMin ==
    ASSUME NEW t \in Stream, NEW min \in 0 .. Top, NEW valid \in BOOLEAN
    PROVE  LET u == WithMin(t, min, valid) IN
           /\ u \in Stream /\ Kept(t, u) /\ u.min = min /\ u.min_valid = valid
           /\ u.g = t.g /\ u.refs = t.refs
BY DEF Stream, WithMin, Kept

LEMMA StreamEntries ==
    ASSUME NEW t \in Stream, NEW entries \in SUBSET Ids, NEW last \in 0 .. MaxId, NEW first \in 0 .. MaxId,
           NEW max_deleted \in 0 .. MaxId, NEW added \in 0 .. MaxId
    PROVE  LET u == WithEntries(t, entries, last, first, max_deleted, added) IN
           /\ u \in Stream
           /\ u.entries = entries /\ u.last = last /\ u.first = first
           /\ u.max_deleted = max_deleted /\ u.added = added
           /\ u.min = t.min /\ u.min_valid = t.min_valid /\ u.g = t.g /\ u.refs = t.refs
BY DEF Stream, WithEntries

\* What depends on the entries, and on the heads of the groups, alone.
LEMMA KeptSound ==
    ASSUME NEW t, NEW u, Kept(t, u), EntriesSound(t)
    PROVE  EntriesSound(u)
BY DEF Kept, EntriesSound, Edge

LEMMA KeptCounts ==
    ASSUME NEW t, NEW u, Kept(t, u), NEW q, CountSound(t, q),
           NEW p, p.on = q.on, p.last = q.last, p.read = q.read
    PROVE  CountSound(u, p)
BY DEF Kept, CountSound, Behind

LEMMA HeadsOn ==
    ASSUME NEW t, NEW u, Heads(t, u)
    PROVE  On(u) = On(t) /\ MinLast(u) = MinLast(t)
<1>1. On(u) = On(t)
  BY DEF Heads, On
<1>2. \A h \in On(t) : u.g[h].last = t.g[h].last
  BY DEF Heads, On
<1>3. {u.g[h].last : h \in On(u)} = {t.g[h].last : h \in On(t)}
  BY <1>1, <1>2
<1> QED BY <1>1, <1>3 DEF MinLast

LEMMA GoodFields ==
    ASSUME NEW T, NEW t, Good(t, T)
    PROVE  /\ t \in Stream /\ EntriesSound(t) /\ RefsSound(t) /\ MinSound(t)
           /\ \A g \in Groups : QSound(t.g[g], T) /\ PelsSound(t.g[g], T) /\ t.g[g] \in Group
                                /\ CountSound(t, t.g[g])
BY DEF Good, QSound, PelsSound

\* Pending entries come and go: what is to be shown.
LEMMA PendingChanged ==
    ASSUME NEW T, NEW t, Good(t, T), NEW gs \in [Groups -> Group],
           NEW refs \in [Ids -> SUBSET Groups],
           \A h \in Groups : QSound(gs[h], T) /\ gs[h].on = t.g[h].on /\ gs[h].last = t.g[h].last
                             /\ gs[h].read = t.g[h].read,
           \A id \in Ids : refs[id] = {h \in Groups : gs[h].pel[id] # None}
    PROVE  LET u == WithGroups(t, gs, refs) IN
           /\ Good(u, T) /\ Kept(t, u) /\ Heads(t, u) /\ u.g = gs
           /\ u.min = t.min /\ u.min_valid = t.min_valid
<1> DEFINE u == WithGroups(t, gs, refs)
<1>1. t \in Stream /\ EntriesSound(t) /\ MinSound(t) /\ \A h \in Groups : CountSound(t, t.g[h])
  BY GoodFields
<1>4. /\ u \in Stream /\ Kept(t, u) /\ u.min = t.min /\ u.min_valid = t.min_valid
      /\ u.g = gs /\ u.refs = refs
  BY <1>1, StreamGroups
<1> HIDE DEF u
<1>5. Heads(t, u)
  BY <1>4 DEF Heads
<1>6. EntriesSound(u)
  BY <1>1, <1>4, KeptSound
<1>7. RefsSound(u)
  BY <1>4 DEF RefsSound
<1>8. MinSound(u)
  BY <1>1, <1>4, <1>5, HeadsOn DEF MinSound
<1>9. ASSUME NEW h \in Groups PROVE QSound(u.g[h], T) /\ CountSound(u, u.g[h])
  BY <1>1, <1>4, <1>5, KeptCounts DEF Heads
<1>10. Good(u, T)
  BY <1>4, <1>6, <1>7, <1>8, <1>9 DEF Good
<1> QED BY <1>4, <1>5, <1>10 DEF u

\* u is the stream t after a step that has left pel pending in the group g.
OneLeft(t, u, T, g, pel) ==
  /\ Good(u, T) /\ Kept(t, u) /\ Heads(t, u)
  /\ u.g[g].pel = pel
  /\ \A h \in Groups : h # g => u.g[h] = t.g[h]

With(t, g, y, refs) == [t EXCEPT !.g[g] = y, !.refs = refs]

\* The index of references, when the group has pel pending.
Index(t, g, pel, refs) ==
  \A id \in Ids : refs[id] = IF pel[id] # None THEN t.refs[id] \cup {g} ELSE t.refs[id] \ {g}

\* A step of one group, with the index of references.
LEMMA OneChanged ==
    ASSUME NEW T, NEW t, Good(t, T), NEW g \in Groups, NEW y, NEW pel, Left(t.g[g], y, T, pel),
           NEW refs \in [Ids -> SUBSET Groups], Index(t, g, pel, refs)
    PROVE  OneLeft(t, With(t, g, y, refs), T, g, pel) /\ With(t, g, y, refs).g[g] = y
<1> DEFINE gs == [t.g EXCEPT ![g] = y]
           u == WithGroups(t, gs, refs)
<1>1. t \in Stream /\ t.g \in [Groups -> Group] /\ RefsSound(t) /\ \A h \in Groups : QSound(t.g[h], T)
  BY GoodFields, StreamFields
<1>2. gs \in [Groups -> Group] /\ \A h \in Groups : gs[h] = IF h = g THEN y ELSE t.g[h]
  <2>1. y \in Group
    BY DEF Left, QSound, PelsSound
  <2> QED BY <1>1, <2>1
<1>3. With(t, g, y, refs) = u
  BY <1>1 DEF With, WithGroups, Stream
<1> HIDE DEF gs
<1>4. \A h \in Groups : QSound(gs[h], T) /\ gs[h].on = t.g[h].on /\ gs[h].last = t.g[h].last
                        /\ gs[h].read = t.g[h].read
  BY <1>1, <1>2 DEF Left
<1>5. ASSUME NEW id \in Ids PROVE refs[id] = {h \in Groups : gs[h].pel[id] # None}
  <2>1. t.refs[id] = {h \in Groups : t.g[h].pel[id] # None}
    BY <1>1 DEF RefsSound
  <2>2. \A h \in Groups : gs[h].pel[id] = IF h = g THEN pel[id] ELSE t.g[h].pel[id]
    BY <1>2 DEF Left
  <2>3. refs[id] = IF pel[id] # None THEN t.refs[id] \cup {g} ELSE t.refs[id] \ {g}
    BY DEF Index
  <2> QED BY ONLY <2>1, <2>2, <2>3, g \in Groups
<1>6. /\ Good(u, T) /\ Kept(t, u) /\ Heads(t, u) /\ u.g = gs
      /\ u.min = t.min /\ u.min_valid = t.min_valid
  BY <1>2, <1>4, <1>5, PendingChanged
<1> HIDE DEF u
<1> QED BY <1>2, <1>3, <1>6 DEF OneLeft, Left

(***************************************************************************)
(* The steps of one group.                                                 *)
(***************************************************************************)
LEMMA OneSame ==
    ASSUME NEW T, NEW t, Good(t, T), NEW g \in Groups
    PROVE  OneLeft(t, t, T, g, t.g[g].pel)
BY DEF OneLeft, Kept, Heads

LEMMA OneThenOne ==
    ASSUME NEW T, NEW t, NEW u, NEW v, NEW g \in Groups, NEW p, NEW q,
           OneLeft(t, u, T, g, p), OneLeft(u, v, T, g, q)
    PROVE  OneLeft(t, v, T, g, q)
BY DEF OneLeft, Kept, Heads

\* The pending entries of a group, of which each has a reference.
LEMMA PelFields ==
    ASSUME NEW T, NEW t, Good(t, T), NEW g \in Groups
    PROVE  /\ t.g[g].pel \in [Ids -> Consumers \cup {None}]
           /\ \A id \in Ids : g \in t.refs[id] <=> t.g[g].pel[id] # None
           /\ \A id \in Ids : t.g[g].pel[id] # None => t.g[g].on /\ t.g[g].pel[id] \in Consumers
<1>1. t.g[g] \in Group /\ RefsSound(t) /\ PelsSound(t.g[g], T)
  BY GoodFields
<1>2. t.g[g].pel \in [Ids -> Consumers \cup {None}]
  BY <1>1, GroupFields
<1>3. \A id \in Ids : t.g[g].pel[id] # None => t.g[g].on /\ t.g[g].pel[id] \in Consumers
  BY <1>1, PendingOf DEF Pend
<1> QED BY <1>1, <1>2, <1>3 DEF RefsSound

LEMMA DropSound ==
    ASSUME NEW T \in Nat, NEW t, Good(t, T), NEW g \in Groups, NEW id \in Ids
    PROVE  OneLeft(t, DropNACK(t, g, id), T, g, Put(t.g[g].pel, id, None))
<1> DEFINE q == t.g[g]
           pel == Put(q.pel, id, None)
           refs == [t.refs EXCEPT ![id] = @ \ {g}]
<1>1. CASE q.pel[id] = None
  <2>1. pel = q.pel
    BY <1>1, PelFields, Puts
  <2>2. DropNACK(t, g, id) = t
    BY <1>1 DEF DropNACK
  <2> QED BY <2>1, <2>2, OneSame
<1>2. CASE q.pel[id] # None
  <2>1. QSound(q, T) /\ t \in Stream
    BY GoodFields
  <2>2. Left(q, Unpended(q, id), T, pel)
    BY <1>2, <2>1, UnpendedSound
  <2>3. DropNACK(t, g, id) = With(t, g, Unpended(q, id), refs)
    BY <1>2, <2>1 DEF DropNACK, With, Stream
  <2>4. refs \in [Ids -> SUBSET Groups] /\ \A y \in Ids : refs[y] = IF y = id THEN t.refs[y] \ {g} ELSE t.refs[y]
    BY <2>1, StreamFields
  <2>5. Index(t, g, pel, refs)
    <3>1. \A y \in Ids : pel[y] = IF y = id THEN None ELSE q.pel[y]
      BY PelFields, Puts
    <3>2. \A y \in Ids : g \in t.refs[y] <=> q.pel[y] # None
      BY PelFields
    <3> HIDE DEF refs, pel
    <3> QED BY <2>4, <3>1, <3>2 DEF Index
  <2> HIDE DEF refs, pel
  <2>6. OneLeft(t, With(t, g, Unpended(q, id), refs), T, g, pel)
    BY <2>2, <2>4, <2>5, OneChanged
  <2> QED BY <2>3, <2>6 DEF pel
<1> QED BY <1>1, <1>2

\* The same entries are pending.
SamePending(p, q) == \A id \in Ids : p[id] # None <=> q[id] # None
LEMMA RecordChanged ==
    ASSUME NEW T, NEW t, Good(t, T), NEW g \in Groups, NEW y, NEW pel, Left(t.g[g], y, T, pel),
           SamePending(pel, t.g[g].pel)
    PROVE  OneLeft(t, Record(t, g, y), T, g, pel) /\ Record(t, g, y).g[g] = y
<1>1. t \in Stream /\ t.refs \in [Ids -> SUBSET Groups]
  BY GoodFields, StreamFields
<1>2. Record(t, g, y) = With(t, g, y, t.refs)
  BY <1>1 DEF With, Stream, Record
<1>3. Index(t, g, pel, t.refs)
  <2>1. \A id \in Ids : g \in t.refs[id] <=> pel[id] # None
    BY PelFields DEF SamePending
  <2> QED BY <2>1 DEF Index
<1>4. OneLeft(t, With(t, g, y, t.refs), T, g, pel) /\ With(t, g, y, t.refs).g[g] = y
  BY <1>1, <1>3, OneChanged
<1> QED BY <1>2, <1>4

LEMMA ConsumerSound ==
    ASSUME NEW T \in Nat, NEW t, Good(t, T), NEW g \in Groups, NEW c \in Consumers
    PROVE  /\ OneLeft(t, CreateConsumer(t, g, c), T, g, t.g[g].pel)
           /\ CreateConsumer(t, g, c).g[g].list = t.g[g].list
           /\ CreateConsumer(t, g, c).g[g].time = t.g[g].time
           /\ CreateConsumer(t, g, c).g[g].cpel = t.g[g].cpel
<1> DEFINE q == t.g[g]
           consumers == q.consumers \cup {c}
           y == WithPending(q, q.pel, q.time, q.list, consumers, q.cpel)
<1>1. q \in Group /\ QSound(q, T) /\ t \in Stream
  BY GoodFields
<1>2. CreateConsumer(t, g, c) = Record(t, g, y)
  <2>1. [q EXCEPT !.consumers = q.consumers \cup {c}] = y
    BY <1>1 DEF WithPending, Group
  <2> HIDE DEF y
  <2> QED BY <2>1 DEF CreateConsumer, Record
<1>3. /\ q.pel \in [Ids -> Consumers \cup {None}] /\ q.time \in [Ids -> Nat] /\ q.list \in Seq(Ids)
      /\ consumers \in SUBSET Consumers /\ q.cpel \in [Consumers -> SUBSET Ids]
  BY <1>1, GroupFields
<1>4. /\ y \in Group /\ y.on = q.on /\ y.last = q.last /\ y.read = q.read /\ y.pel = q.pel
      /\ y.time = q.time /\ y.list = q.list /\ y.consumers = consumers /\ y.cpel = q.cpel
  <2>1. y = WithPending(q, q.pel, q.time, q.list, consumers, q.cpel)
    OBVIOUS
  <2> HIDE DEF q, consumers, y
  <2> QED BY ONLY <1>1, <1>3, <2>1, GroupSet, SMTT(60)
<1> HIDE DEF y
<1>5. QSound(y, T)
  BY <1>1, <1>4 DEF QSound, PelsSound, Pend
<1>6. Left(q, y, T, q.pel)
  BY <1>4, <1>5 DEF Left
<1>7. OneLeft(t, Record(t, g, y), T, g, q.pel) /\ Record(t, g, y).g[g] = y
  <2>1. SamePending(q.pel, q.pel)
    BY DEF SamePending
  <2> QED BY <1>6, <2>1, RecordChanged
<1> QED BY <1>2, <1>4, <1>7

\* A claim is refused.
Refused(t, g, id, force, minidle) ==
  IF t.g[g].pel[id] = None THEN ~force ELSE now - t.g[g].time[id] < minidle

LEMMA ClaimSound ==
    ASSUME now \in Nat, NEW t, Good(t, now), NEW g \in Groups, t.g[g].on, NEW c \in Consumers,
           NEW id \in Ids, NEW force \in BOOLEAN, NEW minidle, NEW time \in 0 .. now
    PROVE  LET u == ClaimOne(t, g, c, id, force, minidle, time) IN
           /\ id \notin t.entries => OneLeft(t, u, now, g, Put(t.g[g].pel, id, None))
           /\ id \in t.entries /\ Refused(t, g, id, force, minidle) => u = t
           /\ id \in t.entries /\ ~Refused(t, g, id, force, minidle)
                => OneLeft(t, u, now, g, Put(t.g[g].pel, id, c))
<1> DEFINE u == ClaimOne(t, g, c, id, force, minidle, time)
           q == t.g[g]
           y == Taken(q, id, c, time, now)
           pel == Put(q.pel, id, c)
           refs == [t.refs EXCEPT ![id] = @ \cup {g}]
<1>1. t \in Stream /\ QSound(q, now) /\ t.refs \in [Ids -> SUBSET Groups] /\ q \in Group /\ t.g \in [Groups -> Group]
  BY GoodFields, StreamFields
<1>2. Left(q, y, now, pel)
  BY <1>1, TakenSound
<1>3. \A z \in Ids : pel[z] = IF z = id THEN c ELSE q.pel[z]
  BY PelFields, Puts
<1>4. c # None
  BY StreamConstants
<1>5. CASE id \notin t.entries
  <2>1. u = DropNACK(t, g, id)
    BY <1>5 DEF ClaimOne
  <2> QED BY <1>5, <2>1, DropSound
<1>6. CASE id \in t.entries /\ Refused(t, g, id, force, minidle)
  BY <1>6 DEF ClaimOne, Refused
<1>7. CASE id \in t.entries /\ ~Refused(t, g, id, force, minidle) /\ q.pel[id] # None
  <2>1. u = [t EXCEPT !.g[g] = Assign(PelListUpdate(@, id, time), id, c)]
    BY <1>7 DEF ClaimOne, Refused
  <2>2. y = Assign(PelListUpdate(q, id, time), id, c)
    BY <1>7 DEF Taken
  <2> HIDE DEF y, pel, u
  <2>3. u = Record(t, g, y)
    BY <2>1, <2>2 DEF Record
  <2>4. SamePending(pel, q.pel)
    BY <1>3, <1>4, <1>7 DEF SamePending
  <2>5. OneLeft(t, Record(t, g, y), now, g, pel)
    BY <1>2, <2>4, RecordChanged
  <2> QED BY <1>7, <2>3, <2>5 DEF u, pel
<1>8. CASE id \in t.entries /\ ~Refused(t, g, id, force, minidle) /\ q.pel[id] = None
  <2> DEFINE v == CreateNACK(t, g, id, now)
             z == InsertAtTail(q, id, now)
  <2>1. u = [v EXCEPT !.g[g] = Assign(PelListUpdate(@, id, time), id, c)]
    BY <1>8 DEF ClaimOne, Refused
  <2>2. y = Assign(PelListUpdate(z, id, time), id, c)
    BY <1>8 DEF Taken
  <2>3. v = With(t, g, z, refs)
    BY <1>1 DEF CreateNACK, With, Stream
  <2>4. v.g[g] = z
    <3> HIDE DEF z, refs, v
    <3> QED BY <1>1, <2>3 DEF With, Stream
  <2> HIDE DEF y, pel, u, z, v
  <2>5. u = [v EXCEPT !.g[g] = y]
    BY <2>1, <2>2, <2>4
  <2>6. u = With(t, g, y, refs)
    <3> HIDE DEF refs
    <3> QED BY <1>1, <2>3, <2>5 DEF With, Stream
  <2>7. refs \in [Ids -> SUBSET Groups] /\ \A x \in Ids : refs[x] = IF x = id THEN t.refs[x] \cup {g} ELSE t.refs[x]
    BY <1>1
  <2> HIDE DEF refs
  <2>8. Index(t, g, pel, refs)
    <3>1. \A x \in Ids : g \in t.refs[x] <=> q.pel[x] # None
      BY PelFields
    <3> QED BY <1>3, <1>4, <2>7, <3>1 DEF Index
  <2>9. OneLeft(t, With(t, g, y, refs), now, g, pel)
    BY <1>2, <2>7, <2>8, OneChanged
  <2> QED BY <1>8, <2>6, <2>9 DEF u, pel
<1> HIDE DEF u
<1> QED BY <1>5, <1>6, <1>7, <1>8 DEF u

\* XCLAIM ... FORCE, as the replica gets it, is never refused.
LEMMA PropagatedSound ==
    ASSUME now \in Nat, NEW t, Good(t, now), NEW g \in Groups, t.g[g].on, NEW c \in Consumers,
           NEW id \in Ids, NEW time \in 0 .. now, NEW last, ~(last > t.g[g].last)
    PROVE  OneLeft(t, Propagated(t, g, c, id, time, last), now, g,
                   Put(t.g[g].pel, id, IF id \in t.entries THEN c ELSE None))
<1> DEFINE u == CreateConsumer(t, g, c)
           v == ClaimOne(u, g, c, id, TRUE, 0, time)
<1>1. Propagated(t, g, c, id, time, last) = v
  BY DEF Propagated
<1>2. OneLeft(t, u, now, g, t.g[g].pel)
  BY ConsumerSound
<1> HIDE DEF u
<1>3. Good(u, now) /\ u.g[g].on /\ u.entries = t.entries /\ u.g[g].pel = t.g[g].pel
  BY <1>2 DEF OneLeft, Heads, Kept
<1>4. ~Refused(u, g, id, TRUE, 0)
  <2>1. u.g[g].time \in [Ids -> Nat] /\ u.g[g].time[id] <= now
    BY <1>3, GoodFields, GroupFields DEF PelsSound
  <2>2. u.g[g].time[id] \in Nat
    BY <2>1
  <2>3. ~(now - u.g[g].time[id] < 0)
    BY <2>1, <2>2
  <2> QED BY <2>3 DEF Refused
<1>5. /\ id \notin u.entries => OneLeft(u, v, now, g, Put(u.g[g].pel, id, None))
      /\ id \in u.entries => OneLeft(u, v, now, g, Put(u.g[g].pel, id, c))
  BY <1>3, <1>4, ClaimSound
<1> HIDE DEF v
<1>6. OneLeft(u, v, now, g, Put(t.g[g].pel, id, IF id \in t.entries THEN c ELSE None))
  BY <1>3, <1>5
<1> QED BY <1>1, <1>2, <1>6, OneThenOne

\* A NACK for a new entry, or the one it has.
LEMMA DeliverSound ==
    ASSUME now \in Nat, NEW t, Good(t, now), NEW g \in Groups, t.g[g].on, NEW c \in Consumers, NEW id \in Ids
    PROVE  OneLeft(t, Deliver(t, g, c, id), now, g, Put(t.g[g].pel, id, c))
<1> DEFINE u == Deliver(t, g, c, id)
           q == t.g[g]
           pel == Put(q.pel, id, c)
           refs == [t.refs EXCEPT ![id] = @ \cup {g}]
<1>1. t \in Stream /\ QSound(q, now) /\ t.refs \in [Ids -> SUBSET Groups] /\ q \in Group /\ t.g \in [Groups -> Group]
  BY GoodFields, StreamFields
<1>2. \A z \in Ids : pel[z] = IF z = id THEN c ELSE q.pel[z]
  BY PelFields, Puts
<1>3. c # None /\ now \in 0 .. now
  BY StreamConstants
<1>4. CASE q.pel[id] # None
  <2> DEFINE y == Taken(q, id, c, now, now)
  <2>1. Left(q, y, now, pel)
    BY <1>1, <1>3, TakenSound
  <2>2. y = Assign(PelListUpdate(q, id, now), id, c)
    BY <1>4 DEF Taken
  <2>3. u = [t EXCEPT !.g[g] = Assign(PelListUpdate(@, id, now), id, c)]
    BY <1>4 DEF Deliver
  <2> HIDE DEF y, pel, u
  <2>4. u = Record(t, g, y)
    BY <2>2, <2>3 DEF Record
  <2>5. SamePending(pel, q.pel)
    BY <1>2, <1>3, <1>4 DEF SamePending
  <2>6. OneLeft(t, Record(t, g, y), now, g, pel)
    BY <2>1, <2>5, RecordChanged
  <2> QED BY <2>4, <2>6 DEF u, pel
<1>5. CASE q.pel[id] = None
  <2> DEFINE v == CreateNACK(t, g, id, now)
             z == InsertAtTail(q, id, now)
             y == Assign(z, id, c)
  <2>1. Left(q, y, now, pel)
    BY <1>1, <1>5, NewSound
  <2>2. u = [v EXCEPT !.g[g] = Assign(@, id, c)]
    BY <1>5 DEF Deliver
  <2>3. v = With(t, g, z, refs)
    BY <1>1 DEF CreateNACK, With, Stream
  <2>4. v.g[g] = z
    <3> HIDE DEF z, refs, v
    <3> QED BY <1>1, <2>3 DEF With, Stream
  <2>5. y = Assign(z, id, c)
    OBVIOUS
  <2> HIDE DEF y, pel, u, z, v
  <2>6. u = [v EXCEPT !.g[g] = y]
    BY <2>2, <2>4, <2>5
  <2>7. u = With(t, g, y, refs)
    <3> HIDE DEF refs
    <3> QED BY <1>1, <2>3, <2>6 DEF With, Stream
  <2>8. refs \in [Ids -> SUBSET Groups] /\ \A x \in Ids : refs[x] = IF x = id THEN t.refs[x] \cup {g} ELSE t.refs[x]
    BY <1>1
  <2> HIDE DEF refs
  <2>9. Index(t, g, pel, refs)
    <3>1. \A x \in Ids : g \in t.refs[x] <=> q.pel[x] # None
      BY PelFields
    <3> QED BY <1>2, <1>3, <2>8, <3>1 DEF Index
  <2>10. OneLeft(t, With(t, g, y, refs), now, g, pel)
    BY <2>1, <2>8, <2>9, OneChanged
  <2> QED BY <2>7, <2>10 DEF u, pel
<1> QED BY <1>4, <1>5

(***************************************************************************)
(* The entries.                                                            *)
(***************************************************************************)
EdgeOf(E) == IF E = {} THEN 0 ELSE Min(E)

\* The first of some IDs.
LEMMA Edges ==
    ASSUME NEW E \in SUBSET Ids
    PROVE  /\ EdgeOf(E) \in 0 .. MaxId
           /\ E # {} => EdgeOf(E) \in E /\ \A x \in E : EdgeOf(E) <= x
           /\ \A id \in E : E \ {id} # {} /\ id # EdgeOf(E) => EdgeOf(E \ {id}) = EdgeOf(E)
<1>1. E \in SUBSET Nat /\ Ids \in SUBSET Nat
  BY DEF Ids
<1>2. E # {} => EdgeOf(E) \in E /\ \A x \in E : EdgeOf(E) <= x
  BY <1>1, MinIs DEF EdgeOf
<1>3. ASSUME NEW id \in E, E \ {id} # {}, id # EdgeOf(E) PROVE EdgeOf(E \ {id}) = EdgeOf(E)
  <2>1. EdgeOf(E) \in E \ {id} /\ \A x \in E \ {id} : EdgeOf(E) <= x
    BY <1>2, <1>3
  <2>2. E \ {id} \in SUBSET Nat
    BY <1>1
  <2>3. Min(E \ {id}) = EdgeOf(E)
    BY ONLY <2>1, <2>2, MinUnique
  <2> QED BY <1>3, <2>3 DEF EdgeOf
<1>4. EdgeOf(E) \in 0 .. MaxId
  <2>1. CASE E = {}
    BY <2>1, StreamConstants DEF EdgeOf
  <2>2. CASE E # {}
    <3>1. EdgeOf(E) \in Ids
      BY <1>2, <2>2
    <3>2. \A x \in Ids : x \in 0 .. MaxId
      BY StreamConstants DEF Ids
    <3> QED BY <3>1, <3>2
  <2> QED BY <2>1, <2>2
<1> QED BY <1>2, <1>3, <1>4

\* An entry is gone, and max_deleted is md.
GoneEntry(t, id, md) ==
  WithEntries(t, t.entries \ {id}, t.last, EdgeOf(t.entries \ {id}), md, t.added)

\* No group waits for the entry, or it is the first.
Passed(t, id) ==
  \/ \A x \in t.entries : id <= x
  \/ \A h \in Groups : t.g[h].on => id <= t.g[h].last

\* What the groups have is kept.
GroupsKept(t, u) == u.g = t.g /\ u.refs = t.refs /\ u.min = t.min /\ u.min_valid = t.min_valid

LEMMA GroupsKeptSound ==
    ASSUME NEW T, NEW t, NEW u \in Stream, Good(t, T), GroupsKept(t, u), EntriesSound(u),
           \A h \in Groups : CountSound(u, t.g[h])
    PROVE  Good(u, T)
<1>1. Heads(t, u)
  BY DEF Heads, GroupsKept
<1>2. RefsSound(u) /\ MinSound(u)
  BY <1>1, GoodFields, HeadsOn DEF GroupsKept, RefsSound, MinSound
<1> QED BY <1>2, GoodFields DEF GroupsKept, Good

LEMMA GoneSound ==
    ASSUME NEW T, NEW t, Good(t, T), NEW id \in t.entries, NEW md,
           \/ md = IF id > t.max_deleted THEN id ELSE t.max_deleted
           \/ md = t.max_deleted /\ Passed(t, id)
    PROVE  LET u == GoneEntry(t, id, md) IN
           /\ Good(u, T) /\ GroupsKept(t, u)
           /\ u.entries = t.entries \ {id} /\ u.last = t.last /\ u.first = EdgeOf(t.entries \ {id})
           /\ u.max_deleted = md /\ u.added = t.added
<1> DEFINE u == GoneEntry(t, id, md)
           E == t.entries
           F == E \ {id}
<1>1. t \in Stream /\ EntriesSound(t) /\ E \in SUBSET Ids /\ F \in SUBSET Ids /\ id \in Ids
      /\ t.last \in 0 .. MaxId /\ t.max_deleted \in 0 .. MaxId /\ t.added \in 0 .. MaxId
  BY GoodFields, StreamFields
<1>2. id \in 1 .. MaxId /\ id <= t.last /\ t.max_deleted <= t.last
  BY <1>1 DEF EntriesSound, Ids
<1>3. md \in 0 .. MaxId /\ md <= t.last /\ t.max_deleted <= md
  BY <1>1, <1>2, StreamConstants
<1>4. EdgeOf(F) \in 0 .. MaxId
  BY <1>1, Edges
<1>5. /\ u \in Stream
      /\ u.entries = F /\ u.last = t.last /\ u.first = EdgeOf(F) /\ u.max_deleted = md /\ u.added = t.added
      /\ u.min = t.min /\ u.min_valid = t.min_valid /\ u.g = t.g /\ u.refs = t.refs
  <2> DEFINE f == EdgeOf(F)
  <2> HIDE DEF f
  <2>1. /\ WithEntries(t, F, t.last, f, md, t.added) \in Stream
        /\ LET v == WithEntries(t, F, t.last, f, md, t.added) IN
           /\ v.entries = F /\ v.last = t.last /\ v.first = f /\ v.max_deleted = md /\ v.added = t.added
           /\ v.min = t.min /\ v.min_valid = t.min_valid /\ v.g = t.g /\ v.refs = t.refs
    <3>1. f \in 0 .. MaxId
      BY <1>4 DEF f
    <3> QED BY ONLY <1>1, <1>3, <3>1, StreamEntries
  <2> QED BY <2>1 DEF f, GoneEntry
<1> HIDE DEF u
<1>6. Cardinality(F) = Cardinality(E) - 1 /\ Cardinality(E) \in Nat
  BY <1>1, IdSets
<1>7. EntriesSound(u)
  <2>1. \A x \in F : x <= t.last
    BY <1>1 DEF EntriesSound
  <2>2. Cardinality(F) <= t.added /\ t.added <= t.last
    BY <1>1, <1>6 DEF EntriesSound
  <2> QED BY <1>3, <1>5, <2>1, <2>2 DEF EntriesSound, Edge, EdgeOf
<1>8. ASSUME NEW h \in Groups PROVE CountSound(u, t.g[h])
  <2> DEFINE q == t.g[h]
  <2>1. CountSound(t, q) /\ q.last \in 0 .. MaxId
    BY GoodFields, GroupFields
  <2>2. SUFFICES ASSUME q.read # Unknown, F # {}, q.last >= EdgeOf(F), md = 0 \/ q.last > md
                 PROVE  t.added = q.read + Cardinality(Behind(u, q.last))
    BY <1>5, <2>1 DEF CountSound
  <2>3. EdgeOf(F) \in F /\ EdgeOf(F) \in E /\ E # {}
    BY <1>1, <2>2, Edges
  <2>4. t.first = EdgeOf(E) /\ EdgeOf(E) <= EdgeOf(F)
    BY <1>1, <2>3, Edges DEF EntriesSound, Edge, EdgeOf
  <2>5. EdgeOf(E) \in Nat /\ EdgeOf(F) \in Nat
    BY <1>1, Edges
  <2>6. q.last >= t.first /\ (t.max_deleted = 0 \/ q.last > t.max_deleted)
    BY <1>1, <1>3, <2>1, <2>2, <2>4, <2>5
  <2>7. t.added = q.read + Cardinality(Behind(t, q.last)) /\ q.on
    BY <2>1, <2>2, <2>3, <2>6 DEF CountSound
  <2>8. id <= q.last
    <3>1. CASE md = IF id > t.max_deleted THEN id ELSE t.max_deleted
      BY <1>1, <1>2, <1>3, <2>1, <2>2, <3>1
    <3>2. CASE \A x \in E : id <= x
      <4>1. id <= EdgeOf(F)
        BY <2>3, <3>2
      <4> QED BY <1>2, <2>1, <2>2, <2>5, <4>1
    <3>3. CASE \A g \in Groups : t.g[g].on => id <= t.g[g].last
      BY <2>7, <3>3
    <3> QED BY <3>1, <3>2, <3>3 DEF Passed
  <2>9. Behind(u, q.last) = Behind(t, q.last)
    BY <1>2, <1>5, <2>1, <2>8 DEF Behind
  <2> QED BY <2>7, <2>9
<1>9. GroupsKept(t, u)
  BY <1>5 DEF GroupsKept
<1>10. Good(u, T)
  BY <1>5, <1>7, <1>8, <1>9, GroupsKeptSound
<1> QED BY <1>5, <1>9, <1>10 DEF u

\* streamAppendItem
LEMMA AppendSound ==
    ASSUME NEW T, NEW t, Good(t, T), NEW id \in Ids, id > t.last
    PROVE  LET u == Append_(t, id) IN
           /\ Good(u, T) /\ GroupsKept(t, u)
           /\ u.entries = t.entries \cup {id} /\ u.last = id /\ u.added = t.added + 1
           /\ u.first = (IF t.entries = {} THEN id ELSE t.first) /\ u.max_deleted = t.max_deleted
<1> DEFINE u == Append_(t, id)
           E == t.entries
           F == E \cup {id}
           f == IF E = {} THEN id ELSE t.first
           n == t.added + 1
<1>1. t \in Stream /\ EntriesSound(t) /\ E \in SUBSET Ids /\ F \in SUBSET Ids
      /\ t.last \in 0 .. MaxId /\ t.max_deleted \in 0 .. MaxId /\ t.added \in 0 .. MaxId /\ t.first \in 0 .. MaxId
  BY GoodFields, StreamFields
<1>2. id \in 1 .. MaxId /\ n \in 0 .. MaxId /\ n <= id /\ f \in 0 .. MaxId /\ t.max_deleted <= id
  BY <1>1, StreamConstants DEF EntriesSound, Ids
<1>3. /\ u \in Stream
      /\ u.entries = F /\ u.last = id /\ u.first = f /\ u.max_deleted = t.max_deleted /\ u.added = n
      /\ u.min = t.min /\ u.min_valid = t.min_valid /\ u.g = t.g /\ u.refs = t.refs
  <2>1. u = WithEntries(t, F, id, f, t.max_deleted, n)
    BY <1>1 DEF Append_, WithEntries, Stream
  <2>2. id \in 0 .. MaxId
    BY <1>2
  <2> HIDE DEF u, f, n, E, F
  <2> QED BY <1>1, <1>2, <2>1, <2>2, StreamEntries
<1> HIDE DEF u
<1>4. \A x \in E : x \in Nat /\ x < id
  <2>1. \A x \in E : x <= t.last /\ x \in Nat
    BY <1>1 DEF EntriesSound, Ids
  <2> QED BY <1>1, <2>1 DEF Ids
<1>5. f = EdgeOf(F)
  <2>1. F \in SUBSET Nat /\ F # {} /\ id \in F
    BY <1>4 DEF Ids
  <2>2. CASE E = {}
    <3>1. f = id /\ \A y \in F : id <= y
      BY <1>2, <2>2
    <3>2. Min(F) = id
      BY <2>1, <3>1, MinUnique
    <3> QED BY <2>1, <3>1, <3>2 DEF EdgeOf
  <2>3. CASE E # {}
    <3>1. f = EdgeOf(E) /\ f \in E /\ \A x \in E : f <= x
      BY <1>1, <2>3, Edges DEF EntriesSound, Edge, EdgeOf
    <3>2. f \in F /\ \A y \in F : f <= y
      BY <1>2, <1>4, <3>1
    <3> HIDE DEF f, F
    <3>3. Min(F) = f
      BY <2>1, <3>2, MinUnique
    <3> QED BY <2>1, <3>3 DEF EdgeOf
  <2> QED BY <2>2, <2>3
<1>6. id \notin E
  BY <1>2, <1>4
<1>7. Cardinality(F) = Cardinality(E) + 1 /\ Cardinality(E) \in Nat
  BY <1>1, <1>6, IdSets
<1>8. EntriesSound(u)
  <2>1. \A x \in F : x <= id
    BY <1>2, <1>4
  <2>2. Cardinality(F) <= n
    BY <1>1, <1>7 DEF EntriesSound
  <2> HIDE DEF f, n, F
  <2> QED BY <1>2, <1>3, <1>5, <2>1, <2>2 DEF EntriesSound, Edge, EdgeOf
<1>9. ASSUME NEW h \in Groups PROVE CountSound(u, t.g[h])
  <2> DEFINE q == t.g[h]
  <2>1. CountSound(t, q) /\ q.last \in 0 .. MaxId /\ q.read \in Unknown .. MaxId
    BY GoodFields, GroupFields
  <2>2. CASE q.read = Unknown
    BY <2>2 DEF CountSound
  <2>3. CASE q.read # Unknown
    <3>1. q.on /\ q.last <= t.last /\ q.last < id
      BY <1>1, <1>2, <2>1, <2>3 DEF CountSound
    <3>2. ASSUME q.last >= f, t.max_deleted = 0 \/ q.last > t.max_deleted
          PROVE  n = q.read + Cardinality(Behind(u, q.last))
      <4>1. E # {} /\ f = t.first
        BY <1>2, <2>1, <3>1, <3>2
      <4>2. t.added = q.read + Cardinality(Behind(t, q.last))
        BY <2>1, <2>3, <3>2, <4>1 DEF CountSound
      <4>3. Behind(t, q.last) \in SUBSET Ids /\ id \notin Behind(t, q.last)
            /\ Behind(u, q.last) = Behind(t, q.last) \cup {id}
        BY <1>1, <1>3, <1>6, <3>1 DEF Behind
      <4>4. /\ Cardinality(Behind(u, q.last)) = Cardinality(Behind(t, q.last)) + 1
            /\ Cardinality(Behind(t, q.last)) \in Nat
        BY <4>3, IdSets
      <4> QED BY <2>1, <4>2, <4>4 DEF Unknown
    <3> QED BY <1>2, <1>3, <2>1, <3>1, <3>2 DEF CountSound
  <2> QED BY <2>2, <2>3
<1>10. GroupsKept(t, u)
  BY <1>3 DEF GroupsKept
<1>11. Good(u, T)
  BY <1>3, <1>8, <1>9, <1>10, GroupsKeptSound
<1> QED BY <1>3, <1>10, <1>11 DEF u

(***************************************************************************)
(* Two streams that are alike.                                             *)
(***************************************************************************)
\* They differ in nothing but times, orders, consumers and the cached minimum.
Alike(t, u) == Kept(t, u) /\ Heads(t, u) /\ \A h \in Groups : u.g[h].pel = t.g[h].pel

LEMMA AgreeIsAlike ==
    ASSUME NEW T, NEW t, Good(t, T), NEW u, Good(u, T)
    PROVE  Agree(u, t) <=> Alike(t, u)
<1>1. Agree(u, t) => Alike(t, u)
  BY DEF Agree, Stored, Pending, Alike, Kept, Heads
<1>2. ASSUME Alike(t, u) PROVE Agree(u, t)
  <2>1. u.refs = t.refs
    <3>1. u.refs \in [Ids -> SUBSET Groups] /\ t.refs \in [Ids -> SUBSET Groups]
      BY GoodFields, StreamFields
    <3>2. ASSUME NEW id \in Ids PROVE u.refs[id] = t.refs[id]
      <4>1. u.refs[id] = {h \in Groups : u.g[h].pel[id] # None} /\ t.refs[id] = {h \in Groups : t.g[h].pel[id] # None}
        BY GoodFields DEF RefsSound
      <4>2. \A h \in Groups : u.g[h].pel[id] = t.g[h].pel[id]
        BY <1>2 DEF Alike
      <4> QED BY <4>1, <4>2
    <3> QED BY <3>1, <3>2
  <2> QED BY <1>2, <2>1 DEF Agree, Stored, Pending, Alike, Kept, Heads
<1> QED BY <1>1, <1>2

LEMMA AlikeSelf ==
    ASSUME NEW t
    PROVE  Alike(t, t)
BY DEF Alike, Kept, Heads

LEMMA AlikeBack ==
    ASSUME NEW t, NEW u, Alike(t, u)
    PROVE  Alike(u, t)
BY DEF Alike, Kept, Heads

LEMMA AlikeThen ==
    ASSUME NEW t, NEW u, NEW v, Alike(t, u), Alike(u, v)
    PROVE  Alike(t, v)
BY DEF Alike, Kept, Heads

\* The same step of a group leaves them alike,
LEMMA AlikeOne ==
    ASSUME NEW T, NEW t, NEW u, Alike(t, u), NEW g \in Groups, NEW pel,
           NEW t2, OneLeft(t, t2, T, g, pel), NEW u2, OneLeft(u, u2, T, g, pel)
    PROVE  Alike(t2, u2)
BY DEF Alike, OneLeft, Kept, Heads

\* a step that leaves the same pending does,
LEMMA AlikeStill ==
    ASSUME NEW T, NEW t, NEW g \in Groups, NEW t2, OneLeft(t, t2, T, g, t.g[g].pel)
    PROVE  Alike(t, t2)
BY DEF Alike, OneLeft

\* and a step of the entries that is the same for both.
LEMMA AlikeEntries ==
    ASSUME NEW t, NEW u, Alike(t, u), NEW t2, NEW u2, GroupsKept(t, t2), GroupsKept(u, u2), Kept(t2, u2)
    PROVE  Alike(t2, u2)
BY DEF Alike, GroupsKept, Heads

\* What the replica has is what it gets, if the command is propagated.
LEMMA BothAlike ==
    ASSUME NEW T, NEW t, NEW u, Good(u, T), Alike(t, u), t \in Stream,
           NEW t2, t2 \in Stream, NEW c, Good(c, T), Alike(t2, c),
           NEW u2, u2 = IF Core(t2) = Core(t) THEN u ELSE c
    PROVE  Good(u2, T) /\ Alike(t2, u2)
<1>1. CASE Core(t2) = Core(t)
  <2>1. \A v \in Stream : /\ Core(v).entries = v.entries /\ Core(v).last = v.last /\ Core(v).first = v.first
                          /\ Core(v).max_deleted = v.max_deleted /\ Core(v).added = v.added /\ Core(v).g = v.g
    BY DEF Core, Stream
  <2>2. Kept(t, t2) /\ t2.g = t.g
    BY <1>1, <2>1 DEF Kept
  <2>3. Alike(t2, u)
    BY <2>2 DEF Alike, Kept, Heads
  <2> QED BY <1>1, <2>3
<1>2. CASE Core(t2) # Core(t)
  BY <1>2
<1> QED BY <1>1, <1>2

\* Nothing is lost when time passes.
LEMMA GoodLater ==
    ASSUME NEW T \in Nat, NEW X \in Nat, T <= X, NEW t, Good(t, T)
    PROVE  Good(t, X)
<1>1. \A g \in Groups : QSound(t.g[g], X)
  <2>1. \A g \in Groups, id \in Ids : t.g[g].time[id] \in Nat /\ t.g[g].time[id] <= T
    BY GoodFields, GroupFields DEF PelsSound
  <2>2. \A g \in Groups, id \in Ids : t.g[g].time[id] <= X
    BY <2>1
  <2> QED BY <2>2, GoodFields DEF QSound, PelsSound
<1> QED BY <1>1 DEF Good

(***************************************************************************)
(* Deletions.                                                              *)
(***************************************************************************)
\* The first entry, which is what streamDeleteItem leaves it or looks up.
LEMMA DeleteIsGone ==
    ASSUME NEW T, NEW t, Good(t, T), NEW id \in t.entries
    PROVE  DeleteItem(t, id) = GoneEntry(t, id, IF id > t.max_deleted THEN id ELSE t.max_deleted)
<1> DEFINE E == t.entries
           md == IF id > t.max_deleted THEN id ELSE t.max_deleted
           u == [t EXCEPT !.entries = E \ {id}, !.max_deleted = md]
           f == IF u.entries = {} \/ id = t.first THEN Edge(u) ELSE u.first
           v == [u EXCEPT !.first = f]
<1>1. t \in Stream /\ E \in SUBSET Ids /\ t.first = EdgeOf(E)
  BY GoodFields, StreamFields DEF EntriesSound, Edge, EdgeOf
<1>2. DeleteItem(t, id) = v
  BY <1>1 DEF DeleteItem, Stream
<1>3. u.entries = E \ {id} /\ u.first = t.first
  BY <1>1 DEF Stream
<1>4. f = EdgeOf(E \ {id})
  <2>1. Edge(u) = EdgeOf(E \ {id})
    BY <1>3 DEF Edge, EdgeOf
  <2>2. E \ {id} # {} /\ id # t.first => EdgeOf(E \ {id}) = t.first
    BY <1>1, Edges
  <2> HIDE DEF u
  <2> QED BY <1>3, <2>1, <2>2
<1>5. v = WithEntries(t, E \ {id}, t.last, f, md, t.added)
  <2> HIDE DEF f, md
  <2> QED BY <1>1 DEF WithEntries, Stream
<1> HIDE DEF v, f
<1> QED BY <1>2, <1>4, <1>5 DEF GoneEntry

\* What a deletion of an entry does.
Gone(t, u, id) ==
  /\ GroupsKept(t, u)
  /\ u.entries = t.entries \ {id} /\ u.last = t.last /\ u.added = t.added
  /\ u.first = EdgeOf(t.entries \ {id})

LEMMA DeleteItemSound ==
    ASSUME NEW T, NEW t, Good(t, T), NEW id \in Ids
    PROVE  LET u == DeleteItem(t, id) IN
           /\ Good(u, T) /\ Gone(t, u, id)
           /\ u.max_deleted = IF id \in t.entries /\ id > t.max_deleted THEN id ELSE t.max_deleted
<1>1. CASE id \in t.entries
  BY <1>1, DeleteIsGone, GoneSound DEF Gone
<1>2. CASE id \notin t.entries
  <2>1. DeleteItem(t, id) = t /\ t.entries \ {id} = t.entries
    BY <1>2 DEF DeleteItem
  <2>2. t.first = EdgeOf(t.entries)
    BY GoodFields DEF EntriesSound, Edge, EdgeOf
  <2> QED BY <1>2, <2>1, <2>2 DEF Gone, GroupsKept
<1> QED BY <1>1, <1>2

\* ... and what streamTrim leaves, which does not move max_deleted.
NoTombstone(t, md) == [t EXCEPT !.max_deleted = md]

LEMMA TrimmedSound ==
    ASSUME NEW T, NEW t, Good(t, T), NEW id \in Ids, Passed(t, id)
    PROVE  LET u == NoTombstone(DeleteItem(t, id), t.max_deleted) IN
           /\ Good(u, T) /\ Gone(t, u, id) /\ u.max_deleted = t.max_deleted
<1> DEFINE u == NoTombstone(DeleteItem(t, id), t.max_deleted)
<1>0. t \in Stream
  BY GoodFields
<1>1. CASE id \in t.entries
  <2> DEFINE md == IF id > t.max_deleted THEN id ELSE t.max_deleted
  <2>1. DeleteItem(t, id) = GoneEntry(t, id, md)
    BY <1>1, DeleteIsGone
  <2>2. NoTombstone(GoneEntry(t, id, md), t.max_deleted) = GoneEntry(t, id, t.max_deleted)
    <3> HIDE DEF md
    <3> QED BY <1>0 DEF NoTombstone, GoneEntry, WithEntries, Stream
  <2> QED BY <1>1, <2>1, <2>2, GoneSound DEF Gone
<1>2. CASE id \notin t.entries
  <2>1. DeleteItem(t, id) = t /\ t.entries \ {id} = t.entries
    BY <1>2 DEF DeleteItem
  <2>2. t.first = EdgeOf(t.entries)
    BY GoodFields DEF EntriesSound, Edge, EdgeOf
  <2>3. NoTombstone(t, t.max_deleted) = t
    BY <1>0 DEF NoTombstone, Stream
  <2> QED BY <2>1, <2>2, <2>3 DEF Gone, GroupsKept
<1> QED BY <1>1, <1>2

(***************************************************************************)
(* The cached minimum, and who has an entry referenced.                    *)
(***************************************************************************)
LEMMA MinLastIs ==
    ASSUME NEW t \in Stream
    PROVE  /\ MinLast(t) \in 0 .. Top
           /\ \A h \in Groups : t.g[h].on => MinLast(t) <= t.g[h].last
           /\ On(t) # {} => \E h \in Groups : t.g[h].on /\ t.g[h].last = MinLast(t)
           /\ \A x \in Nat, h \in Groups : /\ t.g[h].on /\ t.g[h].last = x
                                           /\ \A k \in Groups : t.g[k].on => x <= t.g[k].last
                                           => MinLast(t) = x
<1> DEFINE L == {t.g[h].last : h \in On(t)}
           S == L \cup {Top}
<1>1. \A h \in Groups : t.g[h].last \in 0 .. MaxId
  BY StreamFields, GroupFields
<1>2. Top \in Nat /\ MaxId \in Nat /\ Top > MaxId
  BY StreamConstants DEF Top
<1>3. S \in SUBSET Nat /\ \A x \in L : x <= MaxId /\ x \in 0 .. MaxId
  BY <1>1, <1>2 DEF On
<1>4. Top \in S /\ MinLast(t) = Min(S)
  BY DEF MinLast
<1>5. \A h \in Groups : t.g[h].on => t.g[h].last \in L
  BY DEF On
<1>6. \A x \in L : \E h \in Groups : t.g[h].on /\ t.g[h].last = x
  BY DEF On
<1>7. On(t) # {} => L # {}
  OBVIOUS
<1> HIDE DEF L
<1>8. Min(S) \in S /\ \A x \in S : Min(S) <= x
  BY <1>3, <1>4, MinIs
<1>9. Min(S) \in 0 .. Top
  BY <1>2, <1>3, <1>8
<1>10. On(t) # {} => Min(S) \in L
  <2>1. SUFFICES ASSUME On(t) # {}, Min(S) = Top PROVE FALSE
    BY <1>8
  <2>2. PICK x \in L : TRUE
    BY <1>7, <2>1
  <2>3. Min(S) <= x
    BY <1>8, <2>2
  <2> QED BY <1>2, <1>3, <2>1, <2>2, <2>3
<1>11. ASSUME NEW x \in Nat, NEW h \in Groups, t.g[h].on, t.g[h].last = x,
              \A k \in Groups : t.g[k].on => x <= t.g[k].last
       PROVE  Min(S) = x
  <2>1. x \in S /\ x <= MaxId
    BY <1>1, <1>5, <1>11
  <2>2. \A y \in S : x <= y
    BY <1>2, <1>6, <1>11, <2>1
  <2> QED BY <1>3, <2>1, <2>2, MinUnique
<1> QED BY <1>4, <1>5, <1>6, <1>8, <1>9, <1>10, <1>11

LEMMA CachedSound ==
    ASSUME NEW T, NEW t, Good(t, T)
    PROVE  LET u == Cached(t) IN
           /\ Good(u, T) /\ Kept(t, u) /\ u.g = t.g /\ u.refs = t.refs
           /\ On(t) # {} => u.min = MinLast(t)
<1>1. CASE On(t) = {} \/ t.min_valid
  BY <1>1, GoodFields DEF Cached, Kept, MinSound
<1>2. CASE On(t) # {} /\ ~t.min_valid
  <2> DEFINE u == WithMin(t, MinLast(t), TRUE)
  <2>1. Cached(t) = u
    BY <1>2 DEF Cached, WithMin
  <2>2. t \in Stream /\ MinLast(t) \in 0 .. Top
    BY GoodFields, MinLastIs
  <2>3. /\ u \in Stream /\ Kept(t, u) /\ u.min = MinLast(t) /\ u.min_valid = TRUE
        /\ u.g = t.g /\ u.refs = t.refs
    BY <2>2, StreamMin
  <2> HIDE DEF u
  <2>4. MinSound(u)
    <3>1. On(u) = On(t) /\ MinLast(u) = MinLast(t)
      BY <2>3 DEF On, MinLast
    <3> QED BY <1>2, <2>3, <3>1 DEF MinSound
  <2>5. EntriesSound(u) /\ RefsSound(u)
    BY <2>3, GoodFields, KeptSound DEF RefsSound
  <2>6. \A h \in Groups : QSound(u.g[h], T) /\ CountSound(u, u.g[h])
    BY <2>3, GoodFields, KeptCounts
  <2> QED BY <2>1, <2>3, <2>4, <2>5, <2>6 DEF Good
<1> QED BY <1>1, <1>2

\* What no group references was read by all, and none has it pending.
LEMMA Unreferenced ==
    ASSUME NEW T, NEW t, Good(t, T), NEW id \in Ids
    PROVE  /\ ~Referenced(t, id) => \A h \in Groups : (t.g[h].on => id <= t.g[h].last) /\ t.g[h].pel[id] = None
           /\ \A u : Good(u, T) /\ Alike(t, u) => (Referenced(u, id) <=> Referenced(t, id))
<1>1. t \in Stream /\ MinLast(t) \in Nat /\ id \in Nat
  BY GoodFields, MinLastIs DEF Ids, Top
<1>2. \A u : Good(u, T) => (Referenced(u, id) <=> On(u) # {} /\ (MinLast(u) < id \/ u.refs[id] # {}))
  BY CachedSound DEF Referenced
<1>3. ASSUME ~Referenced(t, id), NEW h \in Groups
      PROVE  (t.g[h].on => id <= t.g[h].last) /\ t.g[h].pel[id] = None
  <2>1. On(t) = {} \/ (~(MinLast(t) < id) /\ t.refs[id] = {})
    BY <1>2, <1>3
  <2>2. t.g[h].pel[id] # None => h \in t.refs[id] /\ t.g[h].on
    BY PelFields
  <2>3. t.g[h].on => h \in On(t)
    BY DEF On
  <2>4. t.g[h].on => MinLast(t) <= t.g[h].last /\ t.g[h].last \in Nat
    BY <1>1, MinLastIs, StreamFields, GroupFields
  <2> QED BY <1>1, <2>1, <2>2, <2>3, <2>4
<1>4. ASSUME NEW u, Good(u, T), Alike(t, u)
      PROVE  Referenced(u, id) <=> Referenced(t, id)
  <2>1. On(u) = On(t) /\ MinLast(u) = MinLast(t)
    BY <1>4, HeadsOn DEF Alike
  <2>2. u.refs[id] = t.refs[id]
    BY <1>4, AgreeIsAlike DEF Agree, Stored
  <2> QED BY <1>2, <1>4, <2>1, <2>2
<1> QED BY <1>3, <1>4

\* streamCleanupEntryCGroupRefs: no group has the entry pending.
LEMMA CleanupSound ==
    ASSUME NEW T \in Nat, NEW t, Good(t, T), NEW id \in Ids
    PROVE  LET u == CleanupRefs(t, id) IN
           /\ Good(u, T) /\ Kept(t, u) /\ Heads(t, u)
           /\ \A h \in Groups : u.g[h].pel = Put(t.g[h].pel, id, None)
<1> DEFINE gs == [h \in Groups |-> IF h \in t.refs[id] THEN Unpended(t.g[h], id) ELSE t.g[h]]
           refs == [t.refs EXCEPT ![id] = {}]
<1>1. t \in Stream /\ t.refs \in [Ids -> SUBSET Groups] /\ RefsSound(t)
  BY GoodFields, StreamFields
<1>2. CleanupRefs(t, id) = WithGroups(t, gs, refs)
  BY <1>1 DEF CleanupRefs, WithGroups, Stream
<1>3. ASSUME NEW h \in Groups
      PROVE  Left(t.g[h], gs[h], T, Put(t.g[h].pel, id, None))
  <2>1. QSound(t.g[h], T) /\ t.g[h].pel \in [Ids -> Consumers \cup {None}]
    BY GoodFields, PelFields
  <2>2. h \in t.refs[id] <=> t.g[h].pel[id] # None
    BY PelFields
  <2>3. CASE t.g[h].pel[id] # None
    <3>1. gs[h] = Unpended(t.g[h], id)
      BY <2>2, <2>3
    <3> QED BY <2>1, <2>3, <3>1, UnpendedSound
  <2>4. CASE t.g[h].pel[id] = None
    <3>1. gs[h] = t.g[h] /\ Put(t.g[h].pel, id, None) = t.g[h].pel
      BY <2>1, <2>2, <2>4, Puts
    <3> HIDE DEF gs
    <3> QED BY <2>1, <3>1 DEF Left
  <2> QED BY <2>3, <2>4
<1>4. gs = [h \in Groups |-> gs[h]]
  OBVIOUS
<1>5. \A x \in Ids : refs[x] = IF x = id THEN {} ELSE t.refs[x]
  BY <1>1
<1>6. refs \in [Ids -> SUBSET Groups]
  BY <1>1
<1> HIDE DEF gs, refs
<1>7. gs \in [Groups -> Group]
  BY <1>3, <1>4 DEF Left, QSound, PelsSound
<1>8. ASSUME NEW x \in Ids PROVE refs[x] = {h \in Groups : gs[h].pel[x] # None}
  <2>1. \A h \in Groups : gs[h].pel[x] = IF x = id THEN None ELSE t.g[h].pel[x]
    BY <1>3, PelFields, Puts DEF Left
  <2>2. t.refs[x] = {h \in Groups : t.g[h].pel[x] # None}
    BY <1>1 DEF RefsSound
  <2> QED BY <1>5, <2>1, <2>2
<1>9. \A h \in Groups : /\ QSound(gs[h], T) /\ gs[h].on = t.g[h].on /\ gs[h].last = t.g[h].last
                        /\ gs[h].read = t.g[h].read /\ gs[h].pel = Put(t.g[h].pel, id, None)
  BY <1>3 DEF Left
<1> QED BY <1>2, <1>6, <1>7, <1>8, <1>9, PendingChanged

(***************************************************************************)
(* A deletion, as its mode says.                                           *)
(***************************************************************************)
Stays(t, id, mode) == mode = "ACKED" /\ Referenced(t, id)
Cleared(t, id, mode) ==
  CASE mode = "KEEPREF" -> t
    [] mode = "DELREF" -> CleanupRefs(t, id)
    [] mode = "ACKED" -> Cached(t)

\* What it does, but for max_deleted.
Cut(t, u, id, mode) ==
  /\ Heads(t, u)
  /\ \A h \in Groups : u.g[h].pel = IF mode = "DELREF" THEN Put(t.g[h].pel, id, None) ELSE t.g[h].pel
  /\ u.entries = IF Stays(t, id, mode) THEN t.entries ELSE t.entries \ {id}
  /\ u.last = t.last /\ u.added = t.added /\ u.first = EdgeOf(u.entries)

LEMMA ModesDiffer ==
    ASSUME NEW mode \in Modes
    PROVE  /\ mode \in {"KEEPREF", "DELREF", "ACKED"}
           /\ "KEEPREF" # "DELREF" /\ "KEEPREF" # "ACKED" /\ "DELREF" # "ACKED"
BY DEF Modes

LEMMA DeleteAsIs ==
    ASSUME NEW mode \in Modes, NEW t, NEW id
    PROVE  DeleteAs(t, id, mode) = IF Stays(t, id, mode) THEN Cleared(t, id, mode)
                                   ELSE DeleteItem(Cleared(t, id, mode), id)
<1>1. CASE mode = "KEEPREF"
  BY <1>1 DEF DeleteAs, Cleared, Stays
<1>2. CASE mode = "DELREF"
  BY <1>2 DEF DeleteAs, Cleared, Stays
<1>3. CASE mode = "ACKED"
  BY <1>3 DEF DeleteAs, Cleared, Stays
<1> QED BY <1>1, <1>2, <1>3, ModesDiffer

LEMMA ClearedSound ==
    ASSUME NEW T \in Nat, NEW t, Good(t, T), NEW id \in Ids, NEW mode \in Modes
    PROVE  LET u == Cleared(t, id, mode) IN
           /\ Good(u, T) /\ Kept(t, u) /\ Heads(t, u)
           /\ \A h \in Groups : u.g[h].pel = IF mode = "DELREF" THEN Put(t.g[h].pel, id, None) ELSE t.g[h].pel
<1>1. CASE mode = "KEEPREF"
  <2>1. Cleared(t, id, mode) = t
    BY <1>1 DEF Cleared
  <2> QED BY <1>1, <2>1, AlikeSelf DEF Alike
<1>2. CASE mode = "DELREF"
  <2>1. Cleared(t, id, mode) = CleanupRefs(t, id)
    BY <1>2 DEF Cleared
  <2> QED BY <1>2, <2>1, CleanupSound
<1>3. CASE mode = "ACKED"
  <2>1. Cleared(t, id, mode) = Cached(t)
    BY <1>3 DEF Cleared
  <2>2. Good(Cached(t), T) /\ Kept(t, Cached(t)) /\ Cached(t).g = t.g
    BY CachedSound
  <2>3. Heads(t, Cached(t))
    BY <2>2 DEF Heads
  <2> QED BY <1>3, <2>1, <2>2, <2>3
<1> QED BY <1>1, <1>2, <1>3, ModesDiffer

\* What is gone after the references were cleared.
LEMMA CutGone ==
    ASSUME NEW T \in Nat, NEW t, Good(t, T), NEW id \in Ids, NEW mode \in Modes,
           NEW u, IF Stays(t, id, mode) THEN u = Cleared(t, id, mode) ELSE Gone(Cleared(t, id, mode), u, id)
    PROVE  Cut(t, u, id, mode)
<1> DEFINE v == Cleared(t, id, mode)
<1>1. /\ Kept(t, v) /\ Heads(t, v)
      /\ \A h \in Groups : v.g[h].pel = IF mode = "DELREF" THEN Put(t.g[h].pel, id, None) ELSE t.g[h].pel
  BY ClearedSound
<1>2. t.first = EdgeOf(t.entries)
  BY GoodFields DEF EntriesSound, Edge, EdgeOf
<1> HIDE DEF v
<1>3. CASE Stays(t, id, mode)
  BY <1>1, <1>2, <1>3 DEF Cut, Kept, v
<1>4. CASE ~Stays(t, id, mode)
  <2>1. Gone(v, u, id)
    BY <1>4 DEF v
  <2>2. u.g = v.g /\ u.entries = t.entries \ {id} /\ u.last = t.last /\ u.added = t.added
        /\ u.first = EdgeOf(t.entries \ {id})
    BY <1>1, <2>1 DEF Gone, GroupsKept, Kept
  <2>3. Heads(t, u)
    BY <1>1, <2>2 DEF Heads
  <2> QED BY <1>1, <1>4, <2>2, <2>3 DEF Cut
<1> QED BY <1>3, <1>4

LEMMA DeleteAsSound ==
    ASSUME NEW T \in Nat, NEW t, Good(t, T), NEW id \in Ids, NEW mode \in Modes
    PROVE  LET u == DeleteAs(t, id, mode) IN
           /\ Good(u, T) /\ Cut(t, u, id, mode)
           /\ u.max_deleted = IF ~Stays(t, id, mode) /\ id \in t.entries /\ id > t.max_deleted
                                THEN id ELSE t.max_deleted
<1> DEFINE v == Cleared(t, id, mode)
           u == DeleteAs(t, id, mode)
<1>1. Good(v, T) /\ Kept(t, v)
  BY ClearedSound
<1>2. u = IF Stays(t, id, mode) THEN v ELSE DeleteItem(v, id)
  BY DeleteAsIs
<1>3. /\ Good(DeleteItem(v, id), T) /\ Gone(v, DeleteItem(v, id), id)
      /\ DeleteItem(v, id).max_deleted = IF id \in v.entries /\ id > v.max_deleted THEN id ELSE v.max_deleted
  <2> HIDE DEF v
  <2> QED BY <1>1, DeleteItemSound
<1> HIDE DEF u
<1>4. Cut(t, u, id, mode)
  BY <1>2, <1>3, CutGone
<1> HIDE DEF v
<1> QED BY <1>1, <1>2, <1>3, <1>4 DEF Kept, u

LEMMA TrimAsSound ==
    ASSUME NEW T \in Nat, NEW t, Good(t, T), NEW id \in Ids, NEW mode \in Modes,
           mode = "ACKED" \/ Passed(t, id)
    PROVE  LET u == NoTombstone(DeleteAs(t, id, mode), t.max_deleted) IN
           Good(u, T) /\ Cut(t, u, id, mode) /\ u.max_deleted = t.max_deleted
<1> DEFINE v == Cleared(t, id, mode)
           w == DeleteAs(t, id, mode)
           u == NoTombstone(w, t.max_deleted)
<1>1. Good(v, T) /\ Kept(t, v) /\ Heads(t, v) /\ v.max_deleted = t.max_deleted
  BY ClearedSound DEF Kept
<1>2. w = IF Stays(t, id, mode) THEN v ELSE DeleteItem(v, id)
  BY DeleteAsIs
<1> HIDE DEF w
<1>3. CASE Stays(t, id, mode)
  <2>1. v \in Stream
    BY <1>1, GoodFields
  <2>2. u = v
    <3> HIDE DEF v
    <3>1. w = v
      BY <1>2, <1>3
    <3> QED BY <1>1, <2>1, <3>1 DEF NoTombstone, Stream
  <2>3. Cut(t, u, id, mode)
    <3> HIDE DEF u
    <3> QED BY <1>3, <2>2, CutGone
  <2> HIDE DEF u, v
  <2> QED BY <1>1, <2>2, <2>3 DEF u, w
<1>4. CASE ~Stays(t, id, mode)
  <2>1. Passed(t, id)
    <3>1. CASE mode = "ACKED"
      BY <1>4, <3>1, Unreferenced DEF Stays, Passed
    <3> QED BY <3>1
  <2>2. Passed(v, id)
    BY <1>1, <2>1 DEF Passed, Kept, Heads
  <2>3. u = NoTombstone(DeleteItem(v, id), v.max_deleted)
    BY <1>1, <1>2, <1>4
  <2>4. Good(u, T) /\ Gone(v, u, id) /\ u.max_deleted = v.max_deleted
    <3> HIDE DEF u, v
    <3> QED BY <1>1, <2>2, <2>3, TrimmedSound
  <2>5. Cut(t, u, id, mode)
    <3> HIDE DEF u
    <3> QED BY <1>4, <2>4, CutGone
  <2> HIDE DEF u, v
  <2> QED BY <1>1, <2>4, <2>5 DEF u, w
<1> QED BY <1>3, <1>4

\* It is the same for two that are alike.
LEMMA CutAlike ==
    ASSUME NEW T, NEW t, NEW u, Good(t, T), Good(u, T), Alike(t, u), NEW id \in Ids, NEW mode,
           NEW t2, Cut(t, t2, id, mode), NEW u2, Cut(u, u2, id, mode), t2.max_deleted = u2.max_deleted
    PROVE  Alike(t2, u2)
<1>1. Stays(t, id, mode) <=> Stays(u, id, mode)
  BY Unreferenced DEF Stays
<1>2. t2.entries = u2.entries
  BY <1>1 DEF Cut, Alike, Kept
<1>3. Kept(t2, u2)
  BY <1>2 DEF Cut, Alike, Kept
<1>4. Heads(t2, u2)
  BY DEF Cut, Alike, Heads
<1>5. \A h \in Groups : u2.g[h].pel = t2.g[h].pel
  BY DEF Cut, Alike
<1> QED BY <1>3, <1>4, <1>5 DEF Alike

LEMMA DeleteAsAlike ==
    ASSUME NEW T \in Nat, NEW t, NEW u, Good(t, T), Good(u, T), Alike(t, u), NEW id \in Ids, NEW mode \in Modes
    PROVE  Alike(DeleteAs(t, id, mode), DeleteAs(u, id, mode))
<1>1. /\ Cut(t, DeleteAs(t, id, mode), id, mode)
      /\ DeleteAs(t, id, mode).max_deleted = IF ~Stays(t, id, mode) /\ id \in t.entries /\ id > t.max_deleted
                                               THEN id ELSE t.max_deleted
  BY DeleteAsSound
<1>2. /\ Cut(u, DeleteAs(u, id, mode), id, mode)
      /\ DeleteAs(u, id, mode).max_deleted = IF ~Stays(u, id, mode) /\ id \in u.entries /\ id > u.max_deleted
                                               THEN id ELSE u.max_deleted
  BY DeleteAsSound
<1>3. Stays(t, id, mode) <=> Stays(u, id, mode)
  BY Unreferenced DEF Stays
<1>4. u.entries = t.entries /\ u.max_deleted = t.max_deleted
  BY DEF Alike, Kept
<1>5. DeleteAs(t, id, mode).max_deleted = DeleteAs(u, id, mode).max_deleted
  BY <1>1, <1>2, <1>3, <1>4
<1> QED BY <1>1, <1>2, <1>5, CutAlike

(***************************************************************************)
(* streamTrim                                                              *)
(***************************************************************************)
Trimming == [t : Stream, stop : BOOLEAN]

LEMMA TrimOneSound ==
    ASSUME NEW T \in Nat, NEW acc \in Trimming, Good(acc.t, T), NEW id \in Ids, NEW trim, trim.mode \in Modes,
           acc.stop \/ trim.mode = "ACKED" \/ Passed(acc.t, id)
    PROVE  LET v == TrimOne(acc, id, trim) IN
           /\ v \in Trimming /\ Good(v.t, T)
           /\ IF acc.stop \/ Enough(acc.t, trim, id)
                THEN v.t = acc.t /\ v.stop
                ELSE Cut(acc.t, v.t, id, trim.mode) /\ v.t.max_deleted = acc.t.max_deleted /\ ~v.stop
<1> DEFINE u == NoTombstone(DeleteAs(acc.t, id, trim.mode), acc.t.max_deleted)
<1>1. CASE acc.stop \/ Enough(acc.t, trim, id)
  <2>1. TrimOne(acc, id, trim) = [acc EXCEPT !.stop = TRUE]
    BY <1>1 DEF TrimOne
  <2> QED BY <1>1, <2>1 DEF Trimming
<1>2. CASE ~(acc.stop \/ Enough(acc.t, trim, id))
  <2>1. TrimOne(acc, id, trim) = [acc EXCEPT !.t = u]
    BY <1>2 DEF TrimOne, NoTombstone
  <2>2. Good(u, T) /\ Cut(acc.t, u, id, trim.mode) /\ u.max_deleted = acc.t.max_deleted
    BY <1>2, TrimAsSound
  <2> HIDE DEF u
  <2>3. u \in Stream
    BY <2>2, GoodFields
  <2> QED BY <1>2, <2>1, <2>2, <2>3 DEF Trimming
<1> QED BY <1>1, <1>2

\* Nothing but what all have read and none has pending goes.
OnlyAcked(t, u) ==
  /\ Heads(t, u) /\ \A h \in Groups : u.g[h].pel = t.g[h].pel
  /\ \A x \in t.entries \ u.entries, h \in Groups :
       (t.g[h].on => x <= t.g[h].last) /\ t.g[h].pel[x] = None

IsTrim(trim) ==
  trim.by \in {"maxlen", "minid"} /\ trim.at \in Nat /\ trim.until \in Nat /\ trim.mode \in Modes

\* What a trim of t leaves, but for which entries.
Cropped(t, u, mode) ==
  /\ Heads(t, u)
  /\ u.last = t.last /\ u.added = t.added /\ u.max_deleted = t.max_deleted
  /\ u.entries \subseteq t.entries
  /\ \A x \in t.entries : x \notin u.entries => ~Stays(t, x, mode)
  /\ \A h \in Groups, x \in Ids :
       u.g[h].pel[x] = IF mode = "DELREF" /\ x \in t.entries /\ x \notin u.entries
                         THEN None ELSE t.g[h].pel[x]

\* Of the entries E are left: none is gone that trim does not reach, or before
\* one that may go and does not,
Takes(t, E, trim) ==
  /\ \A x \in t.entries : x \notin E =>
       /\ x < trim.until
       /\ trim.by = "minid" => x < trim.at
       /\ \A y \in E : ~Stays(t, y, trim.mode) => x < y
  /\ trim.by = "maxlen" /\ E # t.entries => Cardinality(E) >= trim.at

\* and all are gone that may.
Finished(t, E, trim) ==
  \A y \in E : Stays(t, y, trim.mode) \/ y >= trim.until
               \/ (IF trim.by = "maxlen" THEN Cardinality(E) <= trim.at ELSE y >= trim.at)

\* The entries of q after the i-th have those that may go.
Ahead(t, E, mode, q, i) == \A y \in E : Stays(t, y, mode) \/ \E j \in 1 .. Len(q) : i < j /\ q[j] = y

\* The trim of t, when i of the entries q are through.
TrimmingSound(T, t, q, trim, a, i) ==
  /\ a \in Trimming /\ Good(a.t, T) /\ Cropped(t, a.t, trim.mode) /\ Takes(t, a.t.entries, trim)
  /\ IF a.stop THEN Finished(t, a.t.entries, trim) ELSE Ahead(t, a.t.entries, trim.mode, q, i)

\* What is left when the entry id was looked at.
Rest(t, E, id, mode) == IF Stays(t, id, mode) THEN E ELSE E \ {id}

\* What stays does so to the end.
LEMMA CroppedStays ==
    ASSUME NEW T, NEW t, Good(t, T), NEW u, Good(u, T), NEW mode \in Modes, Cropped(t, u, mode), NEW id \in Ids
    PROVE  Stays(u, id, mode) <=> Stays(t, id, mode)
<1>1. CASE mode # "ACKED"
  BY <1>1 DEF Stays
<1>2. CASE mode = "ACKED"
  <2>1. mode # "DELREF"
    BY <1>2, ModesDiffer
  <2>2. \A v : Good(v, T) => (Referenced(v, id) <=> On(v) # {} /\ (MinLast(v) < id \/ v.refs[id] # {}))
    BY CachedSound DEF Referenced
  <2>3. On(u) = On(t) /\ MinLast(u) = MinLast(t)
    BY HeadsOn DEF Cropped
  <2>4. \A h \in Groups : u.g[h].pel[id] = t.g[h].pel[id]
    BY <2>1 DEF Cropped
  <2>5. u.refs[id] = {h \in Groups : u.g[h].pel[id] # None} /\ t.refs[id] = {h \in Groups : t.g[h].pel[id] # None}
    BY GoodFields DEF RefsSound
  <2>6. u.refs[id] = t.refs[id]
    BY <2>4, <2>5
  <2>7. Referenced(u, id) <=> Referenced(t, id)
    BY <2>2, <2>3, <2>6
  <2> QED BY <2>7 DEF Stays
<1> QED BY <1>1, <1>2

\* An entry goes, or does not.
LEMMA CroppedMore ==
    ASSUME NEW T, NEW t, Good(t, T), NEW u, Good(u, T), NEW mode \in Modes, Cropped(t, u, mode),
           NEW id \in t.entries, NEW v, Cut(u, v, id, mode), v.max_deleted = u.max_deleted
    PROVE  /\ Cropped(t, v, mode)
           /\ v.entries = Rest(t, u.entries, id, mode)
<1>1. id \in Ids /\ t.entries \in SUBSET Ids
  BY GoodFields, StreamFields
<1>2. Stays(u, id, mode) <=> Stays(t, id, mode)
  BY <1>1, CroppedStays
<1>3. v.entries = IF Stays(t, id, mode) THEN u.entries ELSE u.entries \ {id}
  BY <1>2 DEF Cut
<1>4. Heads(t, v) /\ v.last = t.last /\ v.added = t.added /\ v.max_deleted = t.max_deleted
  BY DEF Cut, Cropped, Heads
<1>5. /\ v.entries \subseteq t.entries
      /\ \A x \in t.entries : x \notin v.entries => ~Stays(t, x, mode)
  BY <1>3 DEF Cropped
<1>6. ASSUME NEW h \in Groups, NEW x \in Ids
      PROVE  v.g[h].pel[x] = IF mode = "DELREF" /\ x \in t.entries /\ x \notin v.entries
                               THEN None ELSE t.g[h].pel[x]
  <2>1. u.g[h].pel[x] = IF mode = "DELREF" /\ x \in t.entries /\ x \notin u.entries
                          THEN None ELSE t.g[h].pel[x]
    BY <1>6 DEF Cropped
  <2>2. CASE mode # "DELREF"
    <3>1. v.g[h].pel = u.g[h].pel
      BY <2>2 DEF Cut
    <3> QED BY <2>1, <2>2, <3>1
  <2>3. CASE mode = "DELREF"
    <3>1. v.g[h].pel = Put(u.g[h].pel, id, None)
      BY <2>3 DEF Cut
    <3>2. u.g[h].pel \in [Ids -> Consumers \cup {None}] /\ None \in Consumers \cup {None}
      BY PelFields
    <3>3. Put(u.g[h].pel, id, None)[x] = IF x = id THEN None ELSE u.g[h].pel[x]
      BY <1>1, <3>2, Puts
    <3>4. ~Stays(t, id, mode)
      BY <2>3, ModesDiffer DEF Stays
    <3> QED BY <1>3, <2>1, <2>3, <3>1, <3>3, <3>4
  <2> QED BY <2>2, <2>3
<1>7. Cropped(t, v, mode)
  BY <1>4, <1>5, <1>6 DEF Cropped
<1> QED BY <1>3, <1>7 DEF Rest

LEMMA TrimKeeps ==
    ASSUME NEW T \in Nat, NEW t, Good(t, T), NEW q \in Seq(Ids), NEW trim, IsTrim(trim),
           \A i, j \in 1 .. Len(q) : i < j => q[i] < q[j],
           NEW i \in 1 .. Len(q), q[i] \in t.entries, NEW a, TrimmingSound(T, t, q, trim, a, i - 1)
    PROVE  TrimmingSound(T, t, q, trim, TrimOne(a, q[i], trim), i)
<1> DEFINE id == q[i]
           mode == trim.mode
           v == TrimOne(a, id, trim)
           E == a.t.entries
<1>1. i \in Nat /\ id \in Ids /\ id \in Nat /\ \A j \in 1 .. Len(q) : q[j] \in Ids /\ q[j] \in Nat
  <2>1. \A j \in 1 .. Len(q) : q[j] \in Ids
    OBVIOUS
  <2>2. Ids \subseteq Nat
    BY DEF Ids
  <2>3. i \in Nat
    OBVIOUS
  <2> QED BY <2>1, <2>2, <2>3
<1>2. /\ a \in Trimming /\ Good(a.t, T) /\ a.stop \in BOOLEAN
      /\ Cropped(t, a.t, mode) /\ Takes(t, E, trim)
      /\ a.stop => Finished(t, E, trim)
      /\ ~a.stop => Ahead(t, E, mode, q, i - 1)
      /\ trim.at \in Nat /\ trim.until \in Nat /\ mode \in Modes /\ trim.by \in {"maxlen", "minid"}
  BY DEF TrimmingSound, Trimming, IsTrim
<1>3. ASSUME NEW y \in E, ~a.stop, ~Stays(t, y, mode)
      PROVE  y \in Nat /\ id <= y /\ (y # id => id < y /\ \E j \in 1 .. Len(q) : i < j /\ q[j] = y)
  <2>1. PICK j \in 1 .. Len(q) : i - 1 < j /\ q[j] = y
    BY <1>2, <1>3 DEF Ahead
  <2>2. i = j \/ i < j
    BY <1>1, <2>1
  <2>3. i < j => id < q[j]
    OBVIOUS
  <2> QED BY <1>1, <2>1, <2>2, <2>3
<1>4. a.stop \/ mode = "ACKED" \/ Passed(a.t, id)
  <2>1. ASSUME ~a.stop, mode # "ACKED", NEW y \in E PROVE id <= y
    BY <1>3, <2>1 DEF Stays
  <2> QED BY <2>1 DEF Passed
<1>5. /\ v \in Trimming /\ Good(v.t, T)
      /\ IF a.stop \/ Enough(a.t, trim, id)
           THEN v.t = a.t /\ v.stop
           ELSE Cut(a.t, v.t, id, mode) /\ v.t.max_deleted = a.t.max_deleted /\ ~v.stop
  BY <1>1, <1>2, <1>4, TrimOneSound
<1>6. E \in SUBSET Ids /\ t.entries \in SUBSET Ids /\ E \subseteq t.entries /\ Ids \subseteq Nat
  BY <1>2, GoodFields, StreamFields DEF Cropped, Ids
<1> HIDE DEF v
<1>7. CASE a.stop \/ Enough(a.t, trim, id)
  <2>1. v.t = a.t /\ v.stop
    BY <1>5, <1>7
  <2>2. ASSUME ~a.stop PROVE Finished(t, E, trim)
    <3>1. id >= trim.until \/ (IF trim.by = "maxlen" THEN Cardinality(E) <= trim.at ELSE id >= trim.at)
      BY <1>7, <2>2 DEF Enough
    <3>2. ASSUME NEW y \in E, ~Stays(t, y, mode) PROVE id <= y /\ y \in Nat
      BY <1>3, <2>2, <3>2
    <3> HIDE DEF E, id
    <3> QED BY <1>1, <1>2, <3>1, <3>2 DEF Finished
  <2> QED BY <1>2, <1>5, <2>1, <2>2 DEF TrimmingSound, v
<1>8. CASE ~a.stop /\ ~Enough(a.t, trim, id)
  <2> DEFINE F == v.t.entries
  <2>1. Cut(a.t, v.t, id, mode) /\ v.t.max_deleted = a.t.max_deleted /\ ~v.stop
    BY <1>5, <1>8
  <2>2. Cropped(t, v.t, mode) /\ F = IF Stays(t, id, mode) THEN E ELSE E \ {id}
    <3> DEFINE b == a.t
               w == v.t
    <3>1. /\ id \in t.entries /\ mode \in Modes /\ Good(b, T) /\ Cropped(t, b, mode)
          /\ Cut(b, w, id, mode) /\ w.max_deleted = b.max_deleted
      BY <1>2, <2>1
    <3> HIDE DEF id, mode, b, w
    <3>2. Cropped(t, w, mode) /\ w.entries = Rest(t, b.entries, id, mode)
      BY ONLY Good(t, T), <3>1, CroppedMore
    <3> QED BY <3>2 DEF b, w, Rest
  <2>3. /\ id < trim.until /\ (trim.by = "minid" => id < trim.at)
        /\ trim.by = "maxlen" => Cardinality(E) > trim.at
    <3>1. Cardinality(E) \in Nat
      BY <1>6, IdSets
    <3>2. "maxlen" # "minid"
      OBVIOUS
    <3> HIDE DEF E, id
    <3> QED BY <1>1, <1>2, <1>8, <3>1, <3>2 DEF Enough, E
  <2>4. Cardinality(F) >= Cardinality(E) - 1 /\ Cardinality(F) \in Nat /\ Cardinality(E) \in Nat
    <3>1. F = E \/ F = E \ {id}
      BY <2>2
    <3> HIDE DEF F, E, id
    <3>2. Cardinality(E) \in Nat
      BY <1>6, IdSets
    <3>3. Cardinality(E \ {id}) = IF id \in E THEN Cardinality(E) - 1 ELSE Cardinality(E)
      BY <1>6, IdSets
    <3>4. Cardinality(E \ {id}) \in {Cardinality(E), Cardinality(E) - 1} /\ Cardinality(E \ {id}) \in Nat
      <4>1. E \ {id} \in SUBSET Ids
        BY <1>6
      <4> QED BY <3>3, <4>1, IdSets
    <3>5. Cardinality(F) = Cardinality(E) \/ Cardinality(F) = Cardinality(E \ {id})
      BY <3>1
    <3> QED BY <3>2, <3>4, <3>5
  <2> HIDE DEF F
  <2>5. \A y \in E : ~Stays(t, y, mode) => y \in F \/ y = id
    BY <2>2
  <2>6. F \subseteq E /\ (id \in F => Stays(t, id, mode))
    BY <2>2
  <2>7. ASSUME NEW x \in t.entries, x \notin F
        PROVE  /\ x < trim.until /\ (trim.by = "minid" => x < trim.at)
               /\ \A y \in F : ~Stays(t, y, mode) => x < y
    <3>1. CASE x \notin E
      BY <1>2, <2>6, <2>7, <3>1 DEF Takes
    <3>2. CASE x \in E
      <4>1. x = id
        BY <2>2, <2>7, <3>2
      <4>2. \A y \in F : ~Stays(t, y, mode) => id < y
        BY <1>3, <1>8, <2>6
      <4> QED BY <2>3, <4>1, <4>2
    <3> QED BY <3>1, <3>2
  <2>8. trim.by = "maxlen" => Cardinality(F) >= trim.at
    <3> HIDE DEF E
    <3> QED BY <1>2, <2>3, <2>4
  <2>9. Takes(t, F, trim)
    BY <2>7, <2>8 DEF Takes
  <2>10. Ahead(t, F, mode, q, i)
    <3>1. ASSUME NEW y \in F, ~Stays(t, y, mode) PROVE \E j \in 1 .. Len(q) : i < j /\ q[j] = y
      <4>1. y \in E /\ y # id
        BY <2>6, <3>1
      <4> QED BY <1>3, <1>8, <3>1, <4>1
    <3> QED BY <3>1 DEF Ahead
  <2> QED BY <1>5, <2>1, <2>2, <2>9, <2>10 DEF TrimmingSound, F, v
<1> QED BY <1>7, <1>8

\* streamTrim
LEMMA TrimIs ==
    ASSUME NEW T \in Nat, NEW t, Good(t, T), NEW trim, IsTrim(trim)
    PROVE  LET u == Trim(t, trim) IN
           /\ Good(u, T) /\ Cropped(t, u, trim.mode)
           /\ Takes(t, u.entries, trim) /\ Finished(t, u.entries, trim)
<1> DEFINE q == Sorted(t.entries)
<1>1. trim.by # "none" /\ trim.mode \in Modes
  BY DEF IsTrim
<1>2. t.entries \in SUBSET Ids /\ t \in Stream
  BY GoodFields, StreamFields
<1>3. /\ q \in Seq(Ids)
      /\ \A i, j \in 1 .. Len(q) : i < j => q[i] < q[j]
      /\ \A i \in 1 .. Len(q) : q[i] \in t.entries
      /\ \A id \in t.entries : \E i \in 1 .. Len(q) : q[i] = id
  BY <1>2, SortedIs
<1>4. q = Sorted(t.entries)
  OBVIOUS
<1> HIDE DEF q
<1>5. PICK f : /\ Iterates("trim", trim, [t |-> t, stop |-> FALSE], q, f)
               /\ Trim(t, trim) = f[Len(q)].t
  BY ONLY <1>1, <1>3, <1>4, TrimLoop
<1> DEFINE J == {i \in 0 .. Len(q) : TrimmingSound(T, t, q, trim, f[i], i)}
<1>6. Len(q) \in Nat
  BY <1>3
<1>7. 0 \in J
  <2>1. f[0] = [t |-> t, stop |-> FALSE]
    BY <1>5 DEF Iterates
  <2>2. f[0] \in Trimming /\ f[0].t = t /\ ~f[0].stop
    BY <1>2, <2>1 DEF Trimming
  <2>3. Ahead(t, t.entries, trim.mode, q, 0)
    <3>1. \A id \in t.entries : \E i \in 1 .. Len(q) : 0 < i /\ q[i] = id
      BY <1>3, <1>6
    <3> QED BY <3>1 DEF Ahead
  <2>4. Cropped(t, t, trim.mode)
    BY AlikeSelf DEF Cropped, Alike
  <2>5. Takes(t, t.entries, trim)
    BY DEF Takes
  <2>6. TrimmingSound(T, t, q, trim, f[0], 0)
    BY <2>2, <2>3, <2>4, <2>5 DEF TrimmingSound
  <2> QED BY <1>6, <2>6
<1>8. ASSUME NEW i \in 1 .. Len(q), i - 1 \in J PROVE i \in J
  <2> DEFINE a == f[i - 1]
  <2>1. f[i] = TrimOne(a, q[i], trim)
    BY <1>5 DEF Iterates, Round
  <2>2. TrimmingSound(T, t, q, trim, a, i - 1)
    BY <1>8
  <2> HIDE DEF a
  <2>3. q[i] \in t.entries
    BY <1>3
  <2>4. TrimmingSound(T, t, q, trim, TrimOne(a, q[i], trim), i)
    BY ONLY <1>3, <2>2, <2>3, i \in 1 .. Len(q), T \in Nat, Good(t, T), IsTrim(trim), TrimKeeps
  <2> QED BY <1>6, <2>1, <2>4
<1> HIDE DEF J
<1>9. Len(q) \in J
  BY <1>6, <1>7, <1>8, Climb
<1> DEFINE b == f[Len(q)]
<1>10. TrimmingSound(T, t, q, trim, b, Len(q))
  BY <1>9 DEF J
<1> HIDE DEF b
<1>11. b \in Trimming /\ Good(b.t, T) /\ Cropped(t, b.t, trim.mode) /\ Takes(t, b.t.entries, trim)
  BY <1>10 DEF TrimmingSound
<1>12. Finished(t, b.t.entries, trim)
  <2>1. CASE b.stop
    BY <1>10, <2>1 DEF TrimmingSound
  <2>2. CASE ~b.stop
    <3>1. Ahead(t, b.t.entries, trim.mode, q, Len(q))
      BY <1>10, <2>2 DEF TrimmingSound
    <3>2. \A j \in 1 .. Len(q) : ~(Len(q) < j)
      BY <1>6
    <3> QED BY <3>1, <3>2 DEF Ahead, Finished
  <2> QED BY <2>1, <2>2
<1> QED BY <1>5, <1>11, <1>12 DEF b

\* What is left of a trim is the only outcome.
LEMMA OneTaken ==
    ASSUME NEW t, t.entries \in SUBSET Ids, NEW trim, IsTrim(trim),
           NEW E \in SUBSET t.entries, Takes(t, E, trim), NEW F \in SUBSET t.entries, Finished(t, F, trim),
           \A x \in t.entries : x \notin E => ~Stays(t, x, trim.mode),
           \A x \in t.entries : x \notin F => ~Stays(t, x, trim.mode),
           Takes(t, F, trim)
    PROVE  F \subseteq E
<1> SUFFICES ASSUME NEW y \in F, y \notin E PROVE FALSE
  OBVIOUS
<1>1. y \in t.entries /\ y \in Nat /\ trim.at \in Nat /\ trim.until \in Nat /\ trim.by \in {"maxlen", "minid"}
  BY DEF IsTrim, Ids
<1>2. y < trim.until /\ (trim.by = "minid" => y < trim.at) /\ ~Stays(t, y, trim.mode)
  BY <1>1 DEF Takes
<1>3. trim.by = "maxlen" /\ Cardinality(F) <= trim.at
  <2>1. Stays(t, y, trim.mode) \/ y >= trim.until
          \/ (IF trim.by = "maxlen" THEN Cardinality(F) <= trim.at ELSE y >= trim.at)
    BY DEF Finished
  <2> QED BY <1>1, <1>2, <2>1
<1>4. Cardinality(E) >= trim.at
  BY <1>1, <1>3 DEF Takes
<1>5. E \subseteq F
  <2> SUFFICES ASSUME NEW z \in E, z \notin F PROVE FALSE
    OBVIOUS
  <2>1. z \in t.entries /\ z \in Nat /\ ~Stays(t, z, trim.mode)
    BY DEF Ids
  <2>2. z < y
    BY <1>2, <2>1 DEF Takes
  <2>3. y < z
    BY <1>1, <2>1 DEF Takes
  <2> QED BY <1>1, <2>1, <2>2, <2>3
<1>6. IsFiniteSet(F) /\ F \in SUBSET Ids /\ E \in SUBSET Ids
  BY IdSets
<1>7. Cardinality(E) \in Nat /\ Cardinality(F) \in Nat /\ Cardinality(E) < Cardinality(F)
  BY <1>5, <1>6, FS_Subset, FS_CardinalityType
<1> QED BY <1>1, <1>3, <1>4, <1>7

\* Two that are alike are so after trims with the same mode that leave the same.
LEMMA CroppedAlike ==
    ASSUME NEW T, NEW t, NEW u, Good(t, T), Alike(t, u), NEW mode,
           NEW v, Good(v, T), Cropped(t, v, mode), NEW w, Good(w, T), Cropped(u, w, mode), v.entries = w.entries
    PROVE  Alike(v, w)
<1>1. v.first = EdgeOf(v.entries) /\ w.first = EdgeOf(w.entries)
  BY GoodFields DEF EntriesSound, Edge, EdgeOf
<1>2. Kept(v, w) /\ Heads(v, w)
  BY <1>1 DEF Alike, Kept, Heads, Cropped
<1>3. ASSUME NEW h \in Groups PROVE w.g[h].pel = v.g[h].pel
  <2>1. w.g[h].pel \in [Ids -> Consumers \cup {None}] /\ v.g[h].pel \in [Ids -> Consumers \cup {None}]
    BY PelFields
  <2>2. u.g[h].pel = t.g[h].pel /\ u.entries = t.entries
    BY DEF Alike, Kept
  <2>3. \A x \in Ids : w.g[h].pel[x] = v.g[h].pel[x]
    BY <2>2 DEF Cropped
  <2> QED BY <2>1, <2>3
<1> QED BY <1>2, <1>3 DEF Alike

\* A trim of t and one of u that is told of what it left.
LEMMA TrimAlike ==
    ASSUME NEW T \in Nat, NEW t, Good(t, T), NEW u, Good(u, T), Alike(t, u),
           NEW trim, IsTrim(trim), NEW x, IsTrim(x), x.mode = trim.mode,
           Takes(t, Trim(t, trim).entries, x), Finished(t, Trim(t, trim).entries, x)
    PROVE  Alike(Trim(t, trim), Trim(u, x))
<1> DEFINE v == Trim(t, trim)
           w == Trim(u, x)
           E == v.entries
           F == w.entries
<1>1. Good(v, T) /\ Cropped(t, v, trim.mode)
  BY TrimIs
<1>2. Good(w, T) /\ Cropped(u, w, x.mode) /\ Takes(u, F, x) /\ Finished(u, F, x)
  BY TrimIs
<1> HIDE DEF v, w
<1>3. t.entries \in SUBSET Ids /\ u.entries = t.entries
  BY GoodFields, StreamFields DEF Alike, Kept
<1>4. \A y \in Ids : Stays(u, y, x.mode) <=> Stays(t, y, x.mode)
  BY Unreferenced DEF Stays
<1>5. E \in SUBSET t.entries /\ F \in SUBSET t.entries
  BY <1>1, <1>2, <1>3 DEF Cropped
<1>6. Takes(t, F, x) /\ Finished(t, F, x)
  <2>1. \A y \in F : Stays(u, y, x.mode) <=> Stays(t, y, x.mode)
    BY <1>3, <1>4, <1>5
  <2> HIDE DEF F
  <2> QED BY <1>2, <1>3, <2>1 DEF Takes, Finished
<1>7. \A y \in t.entries : (y \notin E => ~Stays(t, y, x.mode)) /\ (y \notin F => ~Stays(t, y, x.mode))
  BY <1>1, <1>2, <1>3, <1>4 DEF Cropped
<1>8. Takes(t, E, x) /\ Finished(t, E, x)
  BY DEF v
<1> HIDE DEF E, F
<1>9. E = F
  BY <1>3, <1>5, <1>6, <1>7, <1>8, OneTaken
<1>10. Alike(v, w)
  BY <1>1, <1>2, <1>9, CroppedAlike DEF E, F
<1> QED BY <1>10 DEF v, w

\* A trim that is exact, for two that are alike.
LEMMA TrimSound ==
    ASSUME NEW T \in Nat, NEW t, Good(t, T), NEW u, Good(u, T), Alike(t, u), NEW trim \in Trims \cup {NoTrim}
    PROVE  Good(Trim(t, trim), T) /\ Good(Trim(u, trim), T) /\ Alike(Trim(t, trim), Trim(u, trim))
<1>1. CASE trim = NoTrim
  <2>1. trim.by = "none"
    BY <1>1 DEF NoTrim
  <2> QED BY <2>1 DEF Trim
<1>2. CASE trim \in Trims
  <2>1. IsTrim(trim)
    BY <1>2, StreamConstants DEF Trims, IsTrim, Top
  <2> QED BY <2>1, TrimIs, TrimAlike
<1> QED BY <1>1, <1>2

\* What ACKED trims.
LEMMA TrimsAcked ==
    ASSUME NEW T \in Nat, NEW t, Good(t, T), NEW trim \in Trims, trim.mode = "ACKED"
    PROVE  OnlyAcked(t, Trim(t, trim))
<1> DEFINE u == Trim(t, trim)
<1>1. IsTrim(trim)
  BY StreamConstants DEF Trims, IsTrim, Top
<1>2. Good(u, T) /\ Cropped(t, u, "ACKED")
  BY <1>1, TrimIs
<1> HIDE DEF u
<1>3. "ACKED" # "DELREF" /\ t.entries \in SUBSET Ids
  BY GoodFields, StreamFields
<1>4. ASSUME NEW h \in Groups PROVE u.g[h].pel = t.g[h].pel
  <2>1. u.g[h].pel \in [Ids -> Consumers \cup {None}] /\ t.g[h].pel \in [Ids -> Consumers \cup {None}]
    BY <1>2, PelFields
  <2>2. \A x \in Ids : u.g[h].pel[x] = t.g[h].pel[x]
    BY <1>2, <1>3 DEF Cropped
  <2> QED BY <2>1, <2>2
<1>5. \A x \in t.entries \ u.entries : x \in Ids /\ ~Referenced(t, x)
  BY <1>2, <1>3 DEF Cropped, Stays
<1>6. \A x \in t.entries \ u.entries, h \in Groups : (t.g[h].on => x <= t.g[h].last) /\ t.g[h].pel[x] = None
  BY <1>5, Unreferenced
<1>7. Heads(t, u)
  BY <1>2 DEF Cropped
<1> QED BY <1>4, <1>6, <1>7 DEF OnlyAcked, u

\* What an approximate trim is propagated as, unless that is less than it did.
LEMMA RewrittenAlike ==
    ASSUME NEW T \in Nat, NEW t, Good(t, T), NEW u, Good(u, T), Alike(t, u), NEW trim \in Trims,
           NEW x \in Rewritten(t, Trim(t, trim), trim), ~Lost(t.entries \ Trim(t, trim).entries, x)
    PROVE  Good(Trim(u, x), T) /\ Alike(Trim(t, trim), Trim(u, x))
<1> DEFINE v == Trim(t, trim)
           E == v.entries
<1>1. IsTrim(trim)
  BY StreamConstants DEF Trims, IsTrim, Top
<1>2. Good(v, T) /\ Cropped(t, v, trim.mode) /\ Takes(t, E, trim)
  BY <1>1, TrimIs
<1>3. x \in Rewritten(t, v, trim) /\ ~Lost(t.entries \ E, x)
  OBVIOUS
<1> HIDE DEF v
<1>4. /\ t.entries \in SUBSET Ids /\ E \in SUBSET t.entries /\ E \in SUBSET Ids /\ Ids \subseteq Nat
      /\ Top \in Nat /\ \A y \in Ids : y < Top
  BY <1>2, GoodFields, StreamFields, StreamConstants DEF Cropped, Ids, Top
<1>5. Cardinality(E) \in Nat
  BY <1>4, IdSets
<1> HIDE DEF E
<1>6. /\ IsTrim(x) /\ x.mode = trim.mode
      /\ x.by = "maxlen" => x.at = Cardinality(E)
      /\ x.by = "minid" => \A y \in E : x.at <= y
  <2>1. CASE trim.by = "maxlen"
    <3>1. x \in [by : {"maxlen"}, at : {Cardinality(E)}, mode : {trim.mode}, until : 2 .. Top]
      BY <1>3, <2>1 DEF Rewritten, E
    <3> QED BY <1>1, <1>4, <1>5, <3>1 DEF IsTrim
  <2>2. CASE trim.by # "maxlen"
    <3> DEFINE M == E \cup {Top}
    <3>1. x \in [by : {"minid"}, at : FirstEdges(t, v, trim), mode : {trim.mode}, until : {Top}]
      BY <1>3, <2>2 DEF Rewritten
    <3>2. x.at = Min(M) \/ (x.at \in t.entries /\ \A y \in E : x.at < y)
      BY <3>1 DEF FirstEdges, E
    <3>3. M \in SUBSET Nat /\ Top \in M
      BY <1>4
    <3>4. Min(M) \in M /\ \A y \in M : Min(M) <= y
      BY <3>3, MinIs
    <3>5. x.at \in Nat
      BY <1>4, <3>2, <3>3, <3>4
    <3>6. \A y \in E : x.at <= y
      BY <1>4, <3>2, <3>4, <3>5
    <3> HIDE DEF M
    <3> QED BY <1>1, <1>4, <3>1, <3>5, <3>6 DEF IsTrim
  <2> QED BY <2>1, <2>2
<1>7. \A y \in t.entries : y \notin E => y < x.until /\ (x.by = "minid" => y < x.at)
  <2>1. SUFFICES ASSUME NEW y \in t.entries, y \notin E PROVE y < x.until /\ (x.by = "minid" => y < x.at)
    OBVIOUS
  <2>2. ~(y >= x.until \/ (x.by = "minid" /\ y >= x.at))
    <3>1. y \in t.entries \ E
      BY <2>1
    <3> QED BY <1>3, <3>1 DEF Lost
  <2>3. y \in Nat /\ x.until \in Nat /\ x.at \in Nat
    BY <1>4, <1>6 DEF IsTrim
  <2> QED BY <2>2, <2>3
<1>8. Takes(t, E, x)
  BY <1>2, <1>5, <1>6, <1>7 DEF Takes
<1>9. Finished(t, E, x)
  <2>1. x.by \in {"maxlen", "minid"} /\ x.at \in Nat
    BY <1>6 DEF IsTrim
  <2>2. \A y \in E : y \in Nat
    BY <1>4
  <2> QED BY <1>5, <1>6, <2>1, <2>2 DEF Finished
<1>10. Takes(t, Trim(t, trim).entries, x) /\ Finished(t, Trim(t, trim).entries, x)
  BY <1>8, <1>9 DEF E, v
<1> QED BY <1>1, <1>6, <1>10, TrimAlike, TrimIs

(***************************************************************************)
(* Groups come, go and are moved.                                          *)
(***************************************************************************)
Headed(t, g, y, refs, valid) == [t EXCEPT !.g[g] = y, !.refs = refs, !.min_valid = valid]

\* The cached minimum does not count as valid when the group that had it moves
\* or goes, or when one comes below it.
LEMMA HeadChanged ==
    ASSUME NEW T, NEW t, Good(t, T), NEW g \in Groups, NEW y, QSound(y, T), CountSound(t, y),
           NEW refs \in [Ids -> SUBSET Groups], Index(t, g, y.pel, refs), NEW valid \in BOOLEAN,
           valid => /\ t.min_valid /\ (t.g[g].on => t.g[g].last # t.min)
                    /\ (y.on => t.min <= y.last)
    PROVE  LET u == Headed(t, g, y, refs, valid) IN
           /\ Good(u, T) /\ Kept(t, u) /\ u.g[g] = y /\ \A h \in Groups : h # g => u.g[h] = t.g[h]
<1> DEFINE gs == [t.g EXCEPT ![g] = y]
           v == WithGroups(t, gs, refs)
           u == WithMin(v, t.min, valid)
<1>1. /\ t \in Stream /\ t.g \in [Groups -> Group] /\ RefsSound(t) /\ EntriesSound(t) /\ MinSound(t)
      /\ \A h \in Groups : QSound(t.g[h], T) /\ CountSound(t, t.g[h])
      /\ t.min \in 0 .. Top
  BY GoodFields, StreamFields
<1>2. gs \in [Groups -> Group] /\ \A h \in Groups : gs[h] = IF h = g THEN y ELSE t.g[h]
  <2>1. y \in Group
    BY DEF QSound, PelsSound
  <2> QED BY <1>1, <2>1
<1>3. Headed(t, g, y, refs, valid) = u
  BY <1>1 DEF Headed, WithGroups, WithMin, Stream
<1> HIDE DEF gs
<1>4. v \in Stream /\ Kept(t, v) /\ v.g = gs /\ v.refs = refs
  BY <1>1, <1>2, StreamGroups
<1> HIDE DEF v
<1>5. u \in Stream /\ Kept(v, u) /\ u.min = t.min /\ u.min_valid = valid /\ u.g = gs /\ u.refs = refs
  BY <1>1, <1>4, StreamMin
<1> HIDE DEF u
<1>6. Kept(t, u)
  BY <1>4, <1>5 DEF Kept
<1>7. RefsSound(u)
  <2>1. SUFFICES ASSUME NEW id \in Ids PROVE refs[id] = {h \in Groups : gs[h].pel[id] # None}
    BY <1>5 DEF RefsSound
  <2>2. t.refs[id] = {h \in Groups : t.g[h].pel[id] # None}
    BY <1>1 DEF RefsSound
  <2>3. \A h \in Groups : gs[h].pel[id] = IF h = g THEN y.pel[id] ELSE t.g[h].pel[id]
    BY <1>2
  <2>4. refs[id] = IF y.pel[id] # None THEN t.refs[id] \cup {g} ELSE t.refs[id] \ {g}
    BY DEF Index
  <2> QED BY ONLY <2>2, <2>3, <2>4, g \in Groups
<1>8. MinSound(u)
  <2>1. SUFFICES ASSUME valid PROVE On(u) # {} /\ t.min = MinLast(u)
    BY <1>5 DEF MinSound
  <2>2. On(t) # {} /\ t.min = MinLast(t)
    BY <1>1, <2>1 DEF MinSound
  <2>3. PICK h \in Groups : t.g[h].on /\ t.g[h].last = t.min
    BY <1>1, <2>2, MinLastIs
  <2>4. h # g
    BY <2>1, <2>3
  <2>5. u.g[h].on /\ u.g[h].last = t.min
    BY <1>2, <1>5, <2>3, <2>4
  <2>6. \A k \in Groups : u.g[k].on => t.min <= u.g[k].last
    <3>1. \A k \in Groups : t.g[k].on => t.min <= t.g[k].last
      BY <1>1, <2>2, MinLastIs
    <3> QED BY <1>2, <1>5, <2>1, <3>1
  <2>7. t.min \in Nat
    BY <1>1, StreamConstants DEF Top
  <2>8. MinLast(u) = t.min
    BY ONLY <1>5, <2>5, <2>6, <2>7, MinLastIs
  <2> QED BY <2>5, <2>8 DEF On
<1>9. \A h \in Groups : QSound(u.g[h], T) /\ CountSound(u, u.g[h])
  <2>1. \A h \in Groups : QSound(gs[h], T) /\ CountSound(t, gs[h])
    BY <1>1, <1>2
  <2> QED BY <1>5, <1>6, <2>1, KeptCounts
<1>10. Good(u, T)
  BY <1>1, <1>5, <1>6, <1>7, <1>8, <1>9, KeptSound DEF Good
<1> QED BY <1>2, <1>3, <1>5, <1>6, <1>10

LEMMA IndexSame ==
    ASSUME NEW T, NEW t, Good(t, T), NEW g \in Groups
    PROVE  Index(t, g, t.g[g].pel, t.refs)
<1>1. \A id \in Ids : g \in t.refs[id] <=> t.g[g].pel[id] # None
  BY PelFields
<1> QED BY <1>1 DEF Index

\* The group has another last ID and another counter.
Moved(q, id, n) == [q EXCEPT !.last = id, !.read = n]
Moves(t, u, T, g, id, n) ==
  /\ Good(u, T) /\ Kept(t, u)
  /\ u.g[g].on = t.g[g].on /\ u.g[g].last = id /\ u.g[g].read = n /\ u.g[g].pel = t.g[g].pel
  /\ \A h \in Groups : h # g => u.g[h] = t.g[h]

LEMMA MovedFields ==
    ASSUME NEW T, NEW q, QSound(q, T), NEW id \in 0 .. MaxId, NEW n \in Unknown .. MaxId
    PROVE  LET u == Moved(q, id, n) IN
           QSound(u, T) /\ u.on = q.on /\ u.last = id /\ u.read = n /\ u.pel = q.pel
<1> DEFINE u == Moved(q, id, n)
<1>1. q \in Group
  BY DEF QSound, PelsSound
<1>2. /\ u \in Group /\ u.on = q.on /\ u.last = id /\ u.read = n /\ u.pel = q.pel /\ u.time = q.time
      /\ u.list = q.list /\ u.consumers = q.consumers /\ u.cpel = q.cpel
  BY <1>1 DEF Group, Moved
<1> HIDE DEF u
<1>3. QSound(u, T)
  BY <1>2 DEF QSound, PelsSound, Pend
<1> QED BY <1>2, <1>3 DEF u

LEMMA MovedSound ==
    ASSUME NEW T, NEW t, Good(t, T), NEW g \in Groups, NEW id \in 0 .. MaxId, NEW n \in Unknown .. MaxId,
           CountSound(t, Moved(t.g[g], id, n))
    PROVE  Moves(t, PropagatedId(t, g, id, n), T, g, id, n)
<1> DEFINE q == t.g[g]
           y == Moved(q, id, n)
           valid == t.min_valid /\ q.last # t.min /\ id >= t.min
<1>1. t \in Stream /\ q \in Group /\ QSound(q, T) /\ t.min \in Nat /\ t.min_valid \in BOOLEAN
      /\ t.refs \in [Ids -> SUBSET Groups] /\ id \in Nat
  BY GoodFields, StreamFields, StreamConstants DEF Top
<1>2. QSound(y, T) /\ y.on = q.on /\ y.last = id /\ y.read = n /\ y.pel = q.pel
  BY <1>1, MovedFields
<1>3. PropagatedId(t, g, id, n) = Headed(t, g, y, t.refs, valid)
  <2> DEFINE z == [q EXCEPT !.last = id]
  <2>1. [z EXCEPT !.read = n] = y
    BY <1>1 DEF Moved, Group
  <2>2. UpdateLastId(t, g, id) = [t EXCEPT !.min_valid = valid, !.g[g] = z]
    BY <1>1 DEF UpdateLastId, Stream
  <2> HIDE DEF valid, y, z
  <2>3. UpdateLastId(t, g, id).g[g] = z
    BY <1>1, <2>2 DEF Stream
  <2> DEFINE w == UpdateLastId(t, g, id)
             gz == [t.g EXCEPT ![g] = z]
             gy == [t.g EXCEPT ![g] = y]
  <2>4. PropagatedId(t, g, id, n) = [w EXCEPT !.g[g] = y]
    BY <2>1, <2>3 DEF PropagatedId
  <2>5. w = [t EXCEPT !.min_valid = valid, !.g = gz]
    BY <2>2
  <2>6. gy = [gz EXCEPT ![g] = y]
    <3>1. t.g \in [Groups -> Group]
      BY <1>1, StreamFields
    <3> QED BY <3>1
  <2>7. Headed(t, g, y, t.refs, valid) = [t EXCEPT !.g = gy, !.refs = t.refs, !.min_valid = valid]
    BY DEF Headed
  <2>8. [w EXCEPT !.g[g] = y] = [w EXCEPT !.g = [w.g EXCEPT ![g] = y]]
    OBVIOUS
  <2> HIDE DEF w, gz, gy
  <2>9. w.g = gz
    BY <1>1, <2>5 DEF Stream
  <2>10. [w EXCEPT !.g[g] = y] = [w EXCEPT !.g = gy]
    BY <2>6, <2>8, <2>9
  <2>11. [w EXCEPT !.g = gy] = [t EXCEPT !.g = gy, !.refs = t.refs, !.min_valid = valid]
    BY <1>1, <2>5 DEF Stream
  <2> QED BY <2>4, <2>7, <2>10, <2>11
<1>4. Index(t, g, y.pel, t.refs)
  BY <1>2, IndexSame
<1>5. CountSound(t, y)
  OBVIOUS
<1>6. valid \in BOOLEAN /\ (valid => t.min_valid /\ (q.on => q.last # t.min) /\ (y.on => t.min <= y.last))
  BY <1>1, <1>2
<1> HIDE DEF valid, y
<1>7. LET u == Headed(t, g, y, t.refs, valid) IN
      Good(u, T) /\ Kept(t, u) /\ u.g[g] = y /\ \A h \in Groups : h # g => u.g[h] = t.g[h]
  BY ONLY Good(t, T), g \in Groups, <1>1, <1>2, <1>4, <1>5, <1>6, HeadChanged
<1> QED BY <1>2, <1>3, <1>7 DEF Moves

\* XGROUP SETID, whose counter is unknown.
LEMMA SetIdSound ==
    ASSUME NEW T, NEW t, Good(t, T), NEW g \in Groups, NEW id \in 0 .. MaxId
    PROVE  Moves(t, PropagatedId(t, g, id, Unknown), T, g, id, Unknown)
<1>1. QSound(t.g[g], T) /\ Unknown \in Unknown .. MaxId
  BY GoodFields, StreamConstants DEF Unknown
<1>2. CountSound(t, Moved(t.g[g], id, Unknown))
  BY <1>1, MovedFields DEF CountSound
<1> QED BY <1>1, <1>2, MovedSound

LEMMA AlikeMoves ==
    ASSUME NEW T, NEW t, NEW u, Alike(t, u), NEW g \in Groups, NEW id, NEW n,
           NEW t2, Moves(t, t2, T, g, id, n), NEW u2, Moves(u, u2, T, g, id, n)
    PROVE  Alike(t2, u2)
BY DEF Alike, Moves, Kept, Heads

\* A group with nothing pending.
Fresh(on, last) == [NoGroup EXCEPT !.on = on, !.last = last]

LEMMA FreshSound ==
    ASSUME NEW T \in Nat, NEW on \in BOOLEAN, NEW last \in 0 .. MaxId
    PROVE  LET u == Fresh(on, last) IN
           /\ QSound(u, T) /\ u.on = on /\ u.last = last /\ u.read = Unknown
           /\ u.pel = [i \in Ids |-> None]
<1> DEFINE u == Fresh(on, last)
<1>1. /\ u.on = on /\ u.last = last /\ u.read = Unknown
      /\ u.pel = [i \in Ids |-> None] /\ u.time = [i \in Ids |-> 0] /\ u.list = <<>>
      /\ u.consumers = {} /\ u.cpel = [c \in Consumers |-> {}]
  BY DEF Fresh, NoGroup
<1>2. u \in Group
  <2>1. Unknown \in Unknown .. MaxId /\ <<>> \in Seq(Ids)
    BY StreamConstants DEF Unknown
  <2> QED BY <2>1 DEF Group, Fresh, NoGroup
<1> HIDE DEF u
<1>3. Pend(u) = {}
  BY <1>1 DEF Pend
<1>4. ListOK(u.list, {}, u.time)
  BY <1>1 DEF ListOK
<1>5. PelsSound(u, T)
  BY <1>1, <1>2, <1>3, StreamConstants DEF PelsSound
<1> QED BY <1>1, <1>3, <1>4, <1>5 DEF QSound, u

\* The group becomes y, with nothing pending.
Becomes(t, u, T, g, y) ==
  Good(u, T) /\ Kept(t, u) /\ u.g[g] = y /\ \A h \in Groups : h # g => u.g[h] = t.g[h]

LEMMA CreateSound ==
    ASSUME NEW T \in Nat, NEW t, Good(t, T), NEW g \in Groups, ~t.g[g].on, NEW id \in 0 .. MaxId
    PROVE  Becomes(t, CreateCG(t, g, id), T, g, Fresh(TRUE, id))
<1> DEFINE y == Fresh(TRUE, id)
           x == [NoGroup EXCEPT !.on = TRUE]
           v == [t EXCEPT !.g[g] = x]
           valid == t.min_valid /\ 0 # t.min /\ id >= t.min
<1>1. t \in Stream /\ t.min \in Nat /\ t.min_valid \in BOOLEAN
      /\ t.refs \in [Ids -> SUBSET Groups] /\ id \in Nat
  BY GoodFields, StreamFields, StreamConstants DEF Top
<1>2. QSound(y, T) /\ y.on = TRUE /\ y.last = id /\ y.read = Unknown /\ y.pel = [i \in Ids |-> None]
  BY FreshSound
<1>3. CreateCG(t, g, id) = Headed(t, g, y, t.refs, valid)
  <2>1. [x EXCEPT !.last = id] = y /\ x.last = 0
    BY DEF Fresh, NoGroup
  <2>2. CreateCG(t, g, id) = UpdateLastId(v, g, id)
    BY DEF CreateCG
  <2> HIDE DEF x, y
  <2>3. v.g[g] = x /\ v.min = t.min /\ v.min_valid = t.min_valid
    BY <1>1 DEF Stream
  <2>4. UpdateLastId(v, g, id) = [v EXCEPT !.min_valid = valid, !.g[g] = y]
    BY <2>1, <2>3 DEF UpdateLastId
  <2> HIDE DEF valid
  <2> QED BY <1>1, <2>2, <2>4 DEF Headed, Stream
<1>4. Index(t, g, y.pel, t.refs)
  <2>1. \A i \in Ids : g \notin t.refs[i]
    BY PelFields
  <2> QED BY <1>2, <2>1 DEF Index
<1>5. CountSound(t, y)
  BY <1>2 DEF CountSound
<1>6. valid \in BOOLEAN /\ (valid => t.min_valid /\ (t.g[g].on => t.g[g].last # t.min) /\ (y.on => t.min <= y.last))
  BY <1>1, <1>2
<1> HIDE DEF valid, y
<1>7. LET u == Headed(t, g, y, t.refs, valid) IN
      Good(u, T) /\ Kept(t, u) /\ u.g[g] = y /\ \A h \in Groups : h # g => u.g[h] = t.g[h]
  BY ONLY Good(t, T), g \in Groups, <1>1, <1>2, <1>4, <1>5, <1>6, HeadChanged
<1> QED BY <1>3, <1>7 DEF Becomes, y

LEMMA DestroySound ==
    ASSUME NEW T \in Nat, NEW t, Good(t, T), NEW g \in Groups
    PROVE  Becomes(t, DestroyCG(t, g), T, g, Fresh(FALSE, 0))
<1> DEFINE y == Fresh(FALSE, 0)
           refs == [id \in Ids |-> t.refs[id] \ {g}]
           valid == t.min_valid /\ t.min # t.g[g].last
<1>1. t \in Stream /\ t.min_valid \in BOOLEAN /\ t.refs \in [Ids -> SUBSET Groups]
  BY GoodFields, StreamFields
<1>2. QSound(y, T) /\ y.on = FALSE /\ y.read = Unknown /\ y.pel = [i \in Ids |-> None]
  <2>1. 0 \in 0 .. MaxId /\ FALSE \in BOOLEAN
    BY StreamConstants
  <2> QED BY <2>1, FreshSound, Zenon
<1>3. DestroyCG(t, g) = Headed(t, g, y, refs, valid)
  <2>1. NoGroup = y
    <3>1. NoGroup \in Group /\ NoGroup.on = FALSE /\ NoGroup.last = 0
      <4>1. Unknown \in Unknown .. MaxId /\ <<>> \in Seq(Ids) /\ 0 \in 0 .. MaxId
        BY StreamConstants DEF Unknown
      <4> QED BY <4>1 DEF Group, NoGroup
    <3> QED BY <3>1 DEF Fresh, Group
  <2> HIDE DEF y
  <2>2. DestroyCG(t, g) = [t EXCEPT !.refs = refs, !.min_valid = valid, !.g[g] = y]
    BY <2>1 DEF DestroyCG
  <2> HIDE DEF refs, valid
  <2> QED BY <1>1, <2>2 DEF Headed, Stream
<1>4. refs \in [Ids -> SUBSET Groups] /\ \A i \in Ids : refs[i] = t.refs[i] \ {g}
  BY <1>1
<1> HIDE DEF refs
<1>5. Index(t, g, y.pel, refs)
  BY <1>2, <1>4 DEF Index
<1>6. CountSound(t, y)
  BY <1>2 DEF CountSound
<1>7. valid \in BOOLEAN /\ (valid => t.min_valid /\ (t.g[g].on => t.g[g].last # t.min) /\ (y.on => t.min <= y.last))
  BY <1>1, <1>2
<1> HIDE DEF valid, y
<1>8. LET u == Headed(t, g, y, refs, valid) IN
      Good(u, T) /\ Kept(t, u) /\ u.g[g] = y /\ \A h \in Groups : h # g => u.g[h] = t.g[h]
  BY ONLY Good(t, T), g \in Groups, <1>1, <1>2, <1>4, <1>5, <1>6, <1>7, HeadChanged
<1> QED BY <1>3, <1>8 DEF Becomes, y

LEMMA AlikeBecomes ==
    ASSUME NEW T, NEW t, NEW u, Alike(t, u), NEW g \in Groups, NEW y,
           NEW t2, Becomes(t, t2, T, g, y), NEW u2, Becomes(u, u2, T, g, y)
    PROVE  Alike(t2, u2)
BY DEF Alike, Becomes, Kept, Heads

(***************************************************************************)
(* streamDelConsumer                                                       *)
(***************************************************************************)
\* Two streams that are alike, when i of the consumer's IDs q are through.
DeletingSound(T, g, c, q, a, b, i) ==
  /\ Good(a, T) /\ Good(b, T) /\ Alike(a, b)
  /\ \A id \in Ids : a.g[g].pel[id] = c => \E j \in 1 .. Len(q) : i < j /\ q[j] = id

LEMMA DeleteKeeps ==
    ASSUME NEW T \in Nat, NEW g \in Groups, NEW c \in Consumers, NEW q \in Seq(Ids),
           NEW i \in 1 .. Len(q), NEW a, NEW b, DeletingSound(T, g, c, q, a, b, i - 1)
    PROVE  DeletingSound(T, g, c, q, DropNACK(a, g, q[i]), DropNACK(b, g, q[i]), i)
<1> DEFINE id == q[i]
           v == DropNACK(a, g, id)
           w == DropNACK(b, g, id)
           pel == Put(a.g[g].pel, id, None)
<1>1. id \in Ids /\ i \in Nat
  OBVIOUS
<1>2. /\ Good(a, T) /\ Good(b, T) /\ Alike(a, b) /\ b.g[g].pel = a.g[g].pel
      /\ \A x \in Ids : a.g[g].pel[x] = c => \E j \in 1 .. Len(q) : i - 1 < j /\ q[j] = x
  BY DEF DeletingSound, Alike
<1>3. OneLeft(a, v, T, g, pel)
  BY <1>1, <1>2, DropSound
<1>4. OneLeft(b, w, T, g, pel)
  BY <1>1, <1>2, DropSound
<1>5. \A x \in Ids : pel[x] = IF x = id THEN None ELSE a.g[g].pel[x]
  BY <1>1, <1>2, PelFields, Puts
<1> HIDE DEF v, w, pel
<1>6. Good(v, T) /\ Good(w, T) /\ Alike(v, w) /\ v.g[g].pel = pel
  <2>1. Good(v, T) /\ Good(w, T) /\ v.g[g].pel = pel
    BY <1>3, <1>4 DEF OneLeft
  <2> QED BY <1>2, <1>3, <1>4, <2>1, AlikeOne
<1>7. ASSUME NEW x \in Ids, v.g[g].pel[x] = c PROVE \E j \in 1 .. Len(q) : i < j /\ q[j] = x
  <2>1. x # id /\ a.g[g].pel[x] = c
    BY <1>5, <1>6, <1>7, StreamConstants
  <2>2. PICK j \in 1 .. Len(q) : i - 1 < j /\ q[j] = x
    BY <1>2, <2>1
  <2>3. i < j
    BY <1>1, <2>1, <2>2
  <2> QED BY <2>2, <2>3
<1> QED BY <1>6, <1>7 DEF DeletingSound, v, w

\* The consumer itself goes when it has nothing pending.
LEMMA ConsumerGone ==
    ASSUME NEW T \in Nat, NEW t, Good(t, T), NEW g \in Groups, NEW c \in Consumers,
           \A id \in Ids : t.g[g].pel[id] # c
    PROVE  OneLeft(t, Discarded(t, g, c), T, g, t.g[g].pel)
<1> DEFINE q == t.g[g]
           consumers == q.consumers \ {c}
           y == WithPending(q, q.pel, q.time, q.list, consumers, q.cpel)
<1>1. q \in Group /\ QSound(q, T) /\ t \in Stream
  BY GoodFields
<1>2. Discarded(t, g, c) = Record(t, g, y)
  <2>1. [q EXCEPT !.consumers = q.consumers \ {c}] = y
    BY <1>1 DEF WithPending, Group
  <2> HIDE DEF y
  <2> QED BY <2>1 DEF Record, Discarded
<1>3. /\ q.pel \in [Ids -> Consumers \cup {None}] /\ q.time \in [Ids -> Nat] /\ q.list \in Seq(Ids)
      /\ consumers \in SUBSET Consumers /\ q.cpel \in [Consumers -> SUBSET Ids]
  BY <1>1, GroupFields
<1>4. /\ y \in Group /\ y.on = q.on /\ y.last = q.last /\ y.read = q.read /\ y.pel = q.pel
      /\ y.time = q.time /\ y.list = q.list /\ y.consumers = consumers /\ y.cpel = q.cpel
  <2>1. y = WithPending(q, q.pel, q.time, q.list, consumers, q.cpel)
    OBVIOUS
  <2> HIDE DEF q, consumers, y
  <2> QED BY ONLY <1>1, <1>3, <2>1, GroupSet, SMTT(60)
<1> HIDE DEF y
<1>5. QSound(y, T)
  <2>1. Pend(y) = Pend(q)
    BY <1>4 DEF Pend
  <2>2. \A id \in Pend(y) : y.on /\ y.pel[id] \in y.consumers
    BY <1>1, <1>4, <2>1 DEF QSound, PelsSound, Pend
  <2> QED BY <1>1, <1>4, <2>1, <2>2 DEF QSound, PelsSound
<1>6. Left(q, y, T, q.pel)
  BY <1>4, <1>5 DEF Left
<1>7. OneLeft(t, Record(t, g, y), T, g, q.pel)
  <2>1. SamePending(q.pel, q.pel)
    BY DEF SamePending
  <2> QED BY <1>6, <2>1, RecordChanged
<1> QED BY <1>2, <1>7

LEMMA DelConsumerSound ==
    ASSUME NEW T \in Nat, NEW t, Good(t, T), NEW u, Good(u, T), Alike(t, u),
           NEW g \in Groups, NEW c \in Consumers
    PROVE  /\ Good(DelConsumer(t, g, c), T) /\ Good(DelConsumer(u, g, c), T)
           /\ Alike(DelConsumer(t, g, c), DelConsumer(u, g, c))
<1> DEFINE S == t.g[g].cpel[c]
           q == Sorted(S)
<1>1. /\ S \in SUBSET Ids /\ u.g[g].cpel[c] = S
      /\ \A id \in Ids : id \in S <=> t.g[g].pel[id] = c
  <2>1. S = {id \in Ids : t.g[g].pel[id] = c} /\ u.g[g].cpel[c] = {id \in Ids : u.g[g].pel[id] = c}
    BY GoodFields DEF PelsSound
  <2>2. u.g[g].pel = t.g[g].pel
    BY DEF Alike
  <2> QED BY <2>1, <2>2
<1>2. /\ q \in Seq(Ids)
      /\ \A id \in S : \E i \in 1 .. Len(q) : q[i] = id
  BY <1>1, SortedIs
<1>3. q = Sorted(t.g[g].cpel[c]) /\ q = Sorted(u.g[g].cpel[c])
  BY <1>1
<1> HIDE DEF S, q
<1>4. PICK f : /\ Iterates("delete", g, t, q, f)
               /\ DelConsumer(t, g, c) = Discarded(f[Len(q)], g, c)
  <2> DEFINE v == t
  <2>1. q = Sorted(v.g[g].cpel[c])
    BY <1>3
  <2> HIDE DEF v
  <2>2. \E f : /\ Iterates("delete", g, v, q, f)
               /\ DelConsumer(v, g, c) = Discarded(f[Len(q)], g, c)
    BY ONLY <1>2, <2>1, DeleteLoop
  <2> QED BY <2>2 DEF v
<1>5. PICK k : /\ Iterates("delete", g, u, q, k)
               /\ DelConsumer(u, g, c) = Discarded(k[Len(q)], g, c)
  BY ONLY <1>2, <1>3, DeleteLoop
<1> DEFINE J == {i \in 0 .. Len(q) : DeletingSound(T, g, c, q, f[i], k[i], i)}
<1>6. Len(q) \in Nat
  BY <1>2
<1>7. 0 \in J
  <2>1. f[0] = t /\ k[0] = u
    BY <1>4, <1>5 DEF Iterates
  <2>2. \A id \in Ids : t.g[g].pel[id] = c => \E j \in 1 .. Len(q) : 0 < j /\ q[j] = id
    BY <1>1, <1>2, <1>6
  <2>3. DeletingSound(T, g, c, q, f[0], k[0], 0)
    BY <2>1, <2>2 DEF DeletingSound
  <2> QED BY <1>6, <2>3
<1>8. ASSUME NEW i \in 1 .. Len(q), i - 1 \in J PROVE i \in J
  <2> DEFINE a == f[i - 1]
             b == k[i - 1]
  <2>1. f[i] = DropNACK(a, g, q[i]) /\ k[i] = DropNACK(b, g, q[i])
    BY <1>4, <1>5 DEF Iterates, Round
  <2>2. DeletingSound(T, g, c, q, a, b, i - 1)
    BY <1>8
  <2> HIDE DEF a, b
  <2>3. DeletingSound(T, g, c, q, DropNACK(a, g, q[i]), DropNACK(b, g, q[i]), i)
    BY ONLY <1>2, <2>2, T \in Nat, g \in Groups, c \in Consumers, i \in 1 .. Len(q), DeleteKeeps
  <2>4. DeletingSound(T, g, c, q, f[i], k[i], i)
    BY <2>1, <2>3
  <2> QED BY <1>6, <2>4
<1> HIDE DEF J
<1>9. Len(q) \in J
  BY <1>6, <1>7, <1>8, Climb
<1> DEFINE a == f[Len(q)]
           b == k[Len(q)]
<1>10. DeletingSound(T, g, c, q, a, b, Len(q))
  BY <1>9 DEF J
<1> HIDE DEF a, b
<1>11. Good(a, T) /\ Good(b, T) /\ Alike(a, b) /\ b.g[g].pel = a.g[g].pel /\ \A id \in Ids : a.g[g].pel[id] # c
  BY <1>6, <1>10 DEF DeletingSound, Alike
<1>12. /\ OneLeft(a, Discarded(a, g, c), T, g, a.g[g].pel)
       /\ OneLeft(b, Discarded(b, g, c), T, g, a.g[g].pel)
  BY <1>11, ConsumerGone
<1>13. /\ OneLeft(a, DelConsumer(t, g, c), T, g, a.g[g].pel)
       /\ OneLeft(b, DelConsumer(u, g, c), T, g, a.g[g].pel)
  BY <1>4, <1>5, <1>12 DEF a, b
<1>14. Alike(DelConsumer(t, g, c), DelConsumer(u, g, c))
  BY <1>11, <1>13, AlikeOne
<1> QED BY <1>13, <1>14 DEF OneLeft

(***************************************************************************)
(* What holds between the commands.                                        *)
(***************************************************************************)
Sound == Good(s, now) /\ Good(Mirror, now) /\ Alike(s, Mirror)

LEMMA MirrorIs == ~drifted => Mirror = r
BY DEF Mirror

LEMMA SoundAt ==
    ASSUME Good(s', now'), ~drifted' => Good(r', now') /\ Alike(s', r')
    PROVE  Sound'
<1>1. Good(s, now)' <=> Good(s', now')
  BY DEF Good, QSound, PelsSound
<1>2. CASE drifted'
  <2>1. Mirror' = s'
    BY <1>2 DEF Mirror
  <2>2. Alike(s', s')
    BY AlikeSelf
  <2> QED BY <1>1, <2>1, <2>2 DEF Sound, Alike, Kept, Heads
<1>3. CASE ~drifted'
  <2>1. Mirror' = r'
    BY <1>3 DEF Mirror
  <2> QED BY <1>1, <1>3, <2>1 DEF Sound, Good, QSound, PelsSound, Alike
<1> QED BY <1>2, <1>3

LEMMA SoundNext ==
    ASSUME now' = now, Good(s', now), ~drifted' => Good(r', now) /\ Alike(s', r')
    PROVE  Sound'
<1>1. \A t : Good(t, now) => Good(t, now')
  OBVIOUS
<1>2. Good(s', now') /\ (~drifted' => Good(r', now') /\ Alike(s', r'))
  BY <1>1
<1> QED BY <1>2, SoundAt

\* A command is executed at both, if it is propagated: t comes of it at the
\* master, and u where all is got.
Follows(t, u) ==
  /\ s' = t /\ (~drifted => r' = IF Core(t) = Core(s) THEN Mirror ELSE u)
  /\ UNCHANGED <<now, drifted>>

LEMMA BothSound ==
    ASSUME Sound, NEW t, NEW u, Good(t, now), Good(u, now), Alike(t, u), Follows(t, u)
    PROVE  Sound'
<1> DEFINE w == IF Core(t) = Core(s) THEN Mirror ELSE u
<1>1. Good(Mirror, now) /\ Alike(s, Mirror) /\ s \in Stream /\ t \in Stream
  BY GoodFields DEF Sound
<1>2. Good(w, now) /\ Alike(t, w)
  BY ONLY <1>1, Good(u, now), Alike(t, u), BothAlike
<1>3. s' = t /\ (~drifted' => r' = w) /\ now' = now
  BY DEF Follows
<1> HIDE DEF w
<1> QED BY <1>2, <1>3, SoundNext

(***************************************************************************)
(* The claims, at the master t and at the replica u.                       *)
(***************************************************************************)
Reading(a) == a \in [t : Stream, u : {a.u}, n : Int, stop : BOOLEAN]
AutoClaiming(a) == a \in [t : Stream, u : {a.u}, n : Int]

Acc(acc, t, u, n) == [acc EXCEPT !.t = t, !.u = u, !.n = n]
SameLoop(a, b) == (Reading(a) => Reading(b)) /\ (AutoClaiming(a) => AutoClaiming(b))

LEMMA AccFields ==
    ASSUME NEW acc, Reading(acc) \/ AutoClaiming(acc), NEW t \in Stream, NEW u, NEW n \in Int
    PROVE  LET v == Acc(acc, t, u, n) IN v.t = t /\ v.u = u /\ v.n = n /\ SameLoop(acc, v)
BY DEF Reading, AutoClaiming, Acc, SameLoop

\* b is what the replica has, or would have if it got all.
Twin(a, b) == (~drifted => b = a.u) /\ Good(b, now) /\ Alike(a.t, b)

\* The two are sound and alike, and have the entries and the groups' last IDs of t.
PairSound(t, a) ==
  /\ Good(a.t, now) /\ (\E b : Twin(a, b))
  /\ Kept(t, a.t) /\ Heads(t, a.t)

\* What the group has pending but for id it keeps.
RestPending(a, b, g, id) == \A y \in Ids : y # id /\ a.t.g[g].pel[y] # None => b.t.g[g].pel[y] # None

LEMMA ClaimBothSound ==
    ASSUME now \in Nat, NEW acc, Reading(acc) \/ AutoClaiming(acc), NEW t, PairSound(t, acc),
           NEW g \in Groups, acc.t.g[g].on, NEW c \in Consumers,
           NEW id \in Ids, acc.t.g[g].pel[id] # None, NEW minidle
    PROVE  LET v == ClaimBoth(acc, g, c, id, minidle, acc.t.g[g].last) IN
           SameLoop(acc, v) /\ PairSound(t, v) /\ RestPending(acc, v, g, id)
<1>0. PICK b : Twin(acc, b)
  BY DEF PairSound
<1> DEFINE a == acc.t
           q == a.g[g]
           last == q.last
           gone == id \notin a.entries
           t2 == ClaimOne(a, g, c, id, FALSE, minidle, now)
           u3 == IF gone THEN Propagated(acc.u, g, q.pel[id], id, q.time[id], last)
                 ELSE Propagated(acc.u, g, c, id, now, last)
           u2 == IF gone THEN Propagated(b, g, q.pel[id], id, q.time[id], last)
                 ELSE Propagated(b, g, c, id, now, last)
           v == ClaimBoth(acc, g, c, id, minidle, last)
           x == IF gone THEN None ELSE c
<1>1. /\ Good(a, now) /\ Good(b, now) /\ Alike(a, b) /\ Kept(t, a) /\ Heads(t, a)
      /\ b.g[g].on /\ b.g[g].last = last /\ b.g[g].pel = q.pel /\ b.entries = a.entries
  BY <1>0 DEF PairSound, Twin, Alike, Kept, Heads
<1>2. q.pel[id] \in Consumers /\ q.time[id] \in 0 .. now /\ ~(last > last) /\ now \in 0 .. now
  <2>1. q \in Group /\ PelsSound(q, now)
    BY <1>1, GoodFields
  <2>2. q.time \in [Ids -> Nat] /\ q.time[id] <= now /\ last \in 0 .. MaxId
    BY <2>1, GroupFields DEF PelsSound
  <2>3. q.pel[id] \in Consumers
    BY <1>1, PelFields
  <2>4. q.time[id] \in Nat /\ last \in Nat
    BY <2>2
  <2> QED BY <2>2, <2>3, <2>4
<1>3. CASE ~gone /\ now - q.time[id] < minidle
  <2>1. v = acc
    BY <1>3 DEF ClaimBoth
  <2> HIDE DEF v
  <2> QED BY <2>1 DEF SameLoop, RestPending, v
<1>4. CASE gone \/ ~(now - q.time[id] < minidle)
  <2>1. v = Acc(acc, t2, u3, acc.n + 1)
    BY <1>4 DEF ClaimBoth, Acc
  <2>0. ~drifted => u2 = u3
    BY <1>0 DEF Twin
  <2> HIDE DEF u3
  <2>2. OneLeft(a, t2, now, g, Put(q.pel, id, x))
    <3>1. FALSE \in BOOLEAN
      OBVIOUS
    <3>2. /\ gone => OneLeft(a, t2, now, g, Put(q.pel, id, None))
          /\ ~gone /\ ~Refused(a, g, id, FALSE, minidle) => OneLeft(a, t2, now, g, Put(q.pel, id, c))
      <4> HIDE DEF a, q
      <4>1. Good(a, now) /\ a.g[g].on /\ q = a.g[g]
        BY <1>1 DEF a, q
      <4> QED BY <1>2, <3>1, <4>1, ClaimSound, Zenon DEF t2, gone
    <3>3. ~gone => ~Refused(a, g, id, FALSE, minidle)
      BY <1>4 DEF Refused
    <3> QED BY <3>2, <3>3
  <2>3. OneLeft(b, u2, now, g, Put(q.pel, id, x))
    <3>1. CASE gone
      <4>1. u2 = Propagated(b, g, q.pel[id], id, q.time[id], last) /\ id \notin b.entries
        BY <1>1, <3>1
      <4> HIDE DEF u2
      <4>2. OneLeft(b, u2, now, g, Put(b.g[g].pel, id, None))
        BY <1>1, <1>2, <4>1, PropagatedSound
      <4> QED BY <1>1, <3>1, <4>2
    <3>2. CASE ~gone
      <4>1. u2 = Propagated(b, g, c, id, now, last) /\ id \in b.entries
        BY <1>1, <3>2
      <4> HIDE DEF u2
      <4>2. OneLeft(b, u2, now, g, Put(b.g[g].pel, id, c))
        BY <1>1, <1>2, <4>1, PropagatedSound
      <4> QED BY <1>1, <3>2, <4>2
    <3> QED BY <3>1, <3>2
  <2> HIDE DEF t2, u2, v
  <2>4. /\ Good(t2, now) /\ Good(u2, now) /\ Kept(a, t2) /\ Heads(a, t2)
        /\ t2.g[g].pel = Put(q.pel, id, x) /\ t2 \in Stream /\ u2 \in Stream
    BY <2>2, <2>3, GoodFields DEF OneLeft
  <2>5. Alike(t2, u2)
    BY <1>1, <2>2, <2>3, AlikeOne
  <2>6. Kept(t, t2) /\ Heads(t, t2)
    BY <1>1, <2>4 DEF Kept, Heads
  <2>7. v.t = t2 /\ v.u = u3 /\ SameLoop(acc, v)
    <3>1. acc.n \in Int
      BY DEF Reading, AutoClaiming
    <3>2. acc.n + 1 \in Int
      BY <3>1
    <3> QED BY ONLY <2>1, <2>4, <3>2, Reading(acc) \/ AutoClaiming(acc), AccFields
  <2>8. \A y \in Ids : y # id => Put(q.pel, id, x)[y] = q.pel[y]
    <3>1. x \in Consumers \cup {None} /\ q.pel \in [Ids -> Consumers \cup {None}]
      BY <1>1, PelFields
    <3> HIDE DEF x, q
    <3> QED BY ONLY <3>1, id \in Ids, Puts
  <2>9. RestPending(acc, v, g, id)
    BY <2>4, <2>7, <2>8 DEF RestPending
  <2>10. PairSound(t, v)
    <3>1. Twin(v, u2)
      BY <2>0, <2>4, <2>5, <2>7 DEF Twin
    <3> QED BY <2>4, <2>6, <2>7, <3>1 DEF PairSound
  <2> QED BY <2>7, <2>9, <2>10 DEF v
<1> QED BY <1>3, <1>4

\* The two are what a command leaves.
LEMMA PairNext ==
    ASSUME NEW t, NEW a, PairSound(t, a), s' = a.t, r' = a.u, UNCHANGED <<now, drifted>>
    PROVE  Sound'
<1>1. PICK b : Twin(a, b)
  BY DEF PairSound
<1>2. Good(a.t, now) /\ (~drifted => Good(a.u, now) /\ Alike(a.t, a.u))
  BY <1>1 DEF PairSound, Twin
<1> QED BY <1>2, SoundNext

\* When i of the IDs q are through, the rest are still pending.
ClaimsSound(t, g, q, a, i) ==
  PairSound(t, a) /\ \A j \in 1 .. Len(q) : i < j => a.t.g[g].pel[q[j]] # None

Different(q) == \A i, j \in 1 .. Len(q) : q[i] = q[j] => i = j

LEMMA ClaimKeeps ==
    ASSUME now \in Nat, NEW q \in Seq(Ids), Different(q), NEW i \in 1 .. Len(q), NEW t,
           NEW g \in Groups, t.g[g].on, NEW c \in Consumers, NEW minidle,
           NEW a, Reading(a) \/ AutoClaiming(a), ClaimsSound(t, g, q, a, i - 1)
    PROVE  LET v == ClaimBoth(a, g, c, q[i], minidle, a.t.g[g].last) IN
           /\ SameLoop(a, v)
           /\ ClaimsSound(t, g, q, v, i)
           /\ ClaimsSound(t, g, q, a, i)
<1> DEFINE id == q[i]
           v == ClaimBoth(a, g, c, id, minidle, a.t.g[g].last)
<1>1. id \in Ids /\ i \in Nat /\ i - 1 < i
  OBVIOUS
<1>2. PairSound(t, a) /\ \A j \in 1 .. Len(q) : i - 1 < j => a.t.g[g].pel[q[j]] # None
  BY DEF ClaimsSound
<1>3. a.t.g[g].on /\ a.t.g[g].pel[id] # None
  BY <1>1, <1>2 DEF PairSound, Heads
<1>4. SameLoop(a, v) /\ PairSound(t, v) /\ RestPending(a, v, g, id)
  <2> HIDE DEF id
  <2> QED BY <1>1, <1>2, <1>3, ClaimBothSound
<1> HIDE DEF v
<1>5. ASSUME NEW j \in 1 .. Len(q), i < j PROVE v.t.g[g].pel[q[j]] # None /\ a.t.g[g].pel[q[j]] # None
  <2>1. q[j] \in Ids /\ q[j] # id /\ i - 1 < j
    BY <1>1, <1>5 DEF Different
  <2> QED BY <1>2, <1>4, <2>1 DEF RestPending
<1> QED BY <1>2, <1>4, <1>5 DEF ClaimsSound, v

\* streamReplyWithRange's claims of what is idle
LEMMA ClaimIdleSound ==
    ASSUME now \in Nat, NEW acc, Reading(acc), NEW t, PairSound(t, acc), NEW g \in Groups, t.g[g].on,
           NEW c \in Consumers, NEW minidle, NEW count
    PROVE  LET v == ClaimIdle(acc, g, c, minidle, count) IN Reading(v) /\ PairSound(t, v)
<1> DEFINE q == acc.t.g[g].list
<1>1. /\ q \in Seq(Ids) /\ Different(q)
      /\ \A i \in 1 .. Len(q) : acc.t.g[g].pel[q[i]] # None
  <2>1. ListOK(q, Pend(acc.t.g[g]), acc.t.g[g].time)
    BY GoodFields DEF PairSound, QSound
  <2>2. q \in Seq(Ids) /\ Different(q)
    BY <2>1 DEF ListOK, Different
  <2>3. ASSUME NEW i \in 1 .. Len(q) PROVE q[i] \in Pend(acc.t.g[g])
    <3>1. q[i] \in Ids
      BY <2>2
    <3> QED BY <2>1, <3>1 DEF ListOK
  <2> QED BY <2>2, <2>3 DEF Pend
<1>2. q = acc.t.g[g].list /\ Len(q) \in Nat
  BY <1>1
<1> HIDE DEF q
<1>3. PICK f : /\ Iterates("claim", <<g, c, minidle, count>>, acc, q, f)
               /\ ClaimIdle(acc, g, c, minidle, count) = f[Len(q)]
  BY ONLY <1>1, <1>2, ClaimLoop
<1> DEFINE J == {i \in 0 .. Len(q) : Reading(f[i]) /\ ClaimsSound(t, g, q, f[i], i)}
<1>4. 0 \in J
  <2>1. f[0] = acc
    BY <1>3 DEF Iterates
  <2>2. ClaimsSound(t, g, q, f[0], 0)
    BY <1>1, <2>1 DEF ClaimsSound
  <2> QED BY <1>2, <2>1, <2>2
<1>5. ASSUME NEW i \in 1 .. Len(q), i - 1 \in J PROVE i \in J
  <2> DEFINE a == f[i - 1]
             id == q[i]
             v == ClaimBoth(a, g, c, id, minidle, a.t.g[g].last)
             w == ClaimNext(a, id, g, c, minidle, count)
  <2>1. f[i] = w
    BY <1>3 DEF Iterates, Round
  <2>2. Reading(a) /\ ClaimsSound(t, g, q, a, i - 1)
    BY <1>5
  <2>3. w = v \/ w = a \/ w = [a EXCEPT !.stop = TRUE]
    BY DEF ClaimNext
  <2> HIDE DEF a, w
  <2>4. Reading(v) /\ ClaimsSound(t, g, q, v, i) /\ ClaimsSound(t, g, q, a, i)
    BY <1>1, <2>2, ClaimKeeps DEF SameLoop
  <2> HIDE DEF v
  <2>5. CASE w = [a EXCEPT !.stop = TRUE]
    <3>1. Reading(w) /\ w.t = a.t /\ w.u = a.u
      BY <2>2, <2>5 DEF Reading
    <3>2. ClaimsSound(t, g, q, w, i)
      BY <2>4, <3>1 DEF ClaimsSound, PairSound, Twin
    <3> QED BY <1>2, <2>1, <3>1, <3>2
  <2> QED BY <1>2, <2>1, <2>2, <2>3, <2>4, <2>5
<1> HIDE DEF J
<1>6. Len(q) \in J
  BY <1>2, <1>4, <1>5, Climb
<1>7. Reading(f[Len(q)]) /\ PairSound(t, f[Len(q)])
  BY <1>6 DEF J, ClaimsSound
<1> QED BY <1>3, <1>7

\* A consumer comes, at the master or at both.
LEMMA StartSound ==
    ASSUME now \in Nat, NEW v, Good(v, now), NEW w, Good(w, now), Alike(v, w), NEW g \in Groups, NEW c \in Consumers
    PROVE  LET t == CreateConsumer(v, g, c)
               u == CreateConsumer(w, g, c)
           IN /\ Good(t, now) /\ Good(u, now) /\ Alike(t, w) /\ Alike(t, u) /\ Alike(v, t)
              /\ t.g[g].on = v.g[g].on
              /\ t \in Stream /\ u \in Stream /\ w \in Stream
<1> DEFINE t == CreateConsumer(v, g, c)
           u == CreateConsumer(w, g, c)
<1>1. OneLeft(v, t, now, g, v.g[g].pel) /\ OneLeft(w, u, now, g, w.g[g].pel)
  BY ConsumerSound
<1> HIDE DEF t, u
<1>2. Good(t, now) /\ Good(u, now) /\ Alike(v, t) /\ Alike(w, u)
  <2>1. Alike(v, t)
    BY ONLY <1>1, g \in Groups, AlikeStill
  <2>2. Alike(w, u)
    BY ONLY <1>1, g \in Groups, AlikeStill
  <2> QED BY <1>1, <2>1, <2>2 DEF OneLeft
<1>3. Alike(t, v) /\ Alike(t, w) /\ Alike(t, u)
  <2>1. Alike(t, v)
    BY <1>2, AlikeBack
  <2>2. Alike(t, w)
    BY <2>1, AlikeThen
  <2> QED BY <1>2, <2>1, <2>2, AlikeThen
<1>4. t.g[g].on = v.g[g].on
  BY <1>2 DEF Alike, Heads
<1> QED BY <1>2, <1>3, <1>4, GoodFields DEF t, u

\* xautoclaimCommand
LEMMA AutoClaimSound ==
    ASSUME now \in Nat, Sound, NEW g \in Groups, NEW c \in Consumers,
           NEW minidle, NEW start \in Ids, NEW count, XAutoClaim(g, c, minidle, start, count)
    PROVE  Sound'
<1> DEFINE S == PendingFrom(g, start)
           q == Sorted(S)
           t == CreateConsumer(s, g, c)
           base == [t |-> t, u |-> r, n |-> 0]
<1>1. S \in SUBSET Ids
  BY StreamConstants DEF Ids, PendingFrom
<1>2. /\ q \in Seq(Ids)
      /\ \A i, j \in 1 .. Len(q) : i < j => q[i] < q[j]
      /\ \A i \in 1 .. Len(q) : q[i] \in S
  BY <1>1, SortedIs
<1>3. \A i \in 1 .. Len(q) : s.g[g].pel[q[i]] # None
  BY <1>2 DEF PendingFrom
<1>4. q = Sorted(PendingFrom(g, start))
  OBVIOUS
<1> HIDE DEF q, S
<1>5. Different(q) /\ Len(q) \in Nat
  <2>1. \A i \in 1 .. Len(q) : q[i] \in Nat
    <3>1. Ids \subseteq Nat
      BY DEF Ids
    <3> QED BY <1>1, <1>2, <3>1
  <2>2. ASSUME NEW i \in 1 .. Len(q), NEW j \in 1 .. Len(q), q[i] = q[j] PROVE i = j
    <3>1. i \in Nat /\ j \in Nat /\ (i < j => q[i] < q[j]) /\ (j < i => q[j] < q[i])
      BY <1>2
    <3> QED BY <2>1, <2>2, <3>1
  <2> QED BY <1>2, <2>2 DEF Different
<1>6. PICK f : /\ Iterates("auto", <<g, c, minidle, count>>, base, q, f)
               /\ s' = f[Len(q)].t /\ r' = f[Len(q)].u
  BY ONLY <1>2, <1>4, XAutoClaim(g, c, minidle, start, count), AutoLoop
<1>7. s.g[g].on
  BY DEF XAutoClaim
<1>8. Good(t, now) /\ Good(Mirror, now) /\ Alike(t, Mirror) /\ Alike(s, t) /\ t.g[g].on /\ t \in Stream
  BY <1>7, StartSound DEF Sound
<1>9. AutoClaiming(base) /\ base.t = t /\ base.u = r
  <2> HIDE DEF t
  <2> QED BY <1>8 DEF AutoClaiming
<1> HIDE DEF t, base
<1>10. ClaimsSound(t, g, q, base, 0)
  <2>1. Kept(t, t) /\ Heads(t, t)
    BY AlikeSelf DEF Alike
  <2>2. t.g[g].pel = s.g[g].pel
    BY <1>8 DEF Alike
  <2>3. Twin(base, Mirror)
    BY <1>8, <1>9, MirrorIs DEF Twin
  <2> QED BY <1>3, <1>8, <1>9, <2>1, <2>2, <2>3 DEF ClaimsSound, PairSound
<1> DEFINE J == {i \in 0 .. Len(q) : AutoClaiming(f[i]) /\ ClaimsSound(t, g, q, f[i], i)}
<1>11. 0 \in J
  <2>1. f[0] = base
    BY <1>6 DEF Iterates
  <2> QED BY <1>5, <1>9, <1>10, <2>1
<1>12. ASSUME NEW i \in 1 .. Len(q), i - 1 \in J PROVE i \in J
  <2> DEFINE a == f[i - 1]
             id == q[i]
             v == ClaimBoth(a, g, c, id, minidle, a.t.g[g].last)
             w == AutoClaimNext(a, id, g, c, minidle, count)
  <2>1. f[i] = w
    BY <1>6 DEF Iterates, Round
  <2>2. AutoClaiming(a) /\ ClaimsSound(t, g, q, a, i - 1)
    BY <1>12
  <2>3. w = v \/ w = a
    BY DEF AutoClaimNext
  <2> HIDE DEF a, w
  <2>4. AutoClaiming(v) /\ ClaimsSound(t, g, q, v, i) /\ ClaimsSound(t, g, q, a, i)
    BY <1>2, <1>5, <1>8, <2>2, ClaimKeeps DEF SameLoop
  <2> HIDE DEF v
  <2> QED BY <1>5, <2>1, <2>2, <2>3, <2>4
<1> HIDE DEF J
<1>13. Len(q) \in J
  BY <1>5, <1>11, <1>12, Climb
<1>14. PairSound(t, f[Len(q)])
  BY <1>13 DEF J, ClaimsSound
<1>15. UNCHANGED <<now, drifted>>
  BY DEF XAutoClaim
<1> QED BY <1>6, <1>14, <1>15, PairNext

(***************************************************************************)
(* The count of what a group has read.                                     *)
(***************************************************************************)
LEMMA EntriesFields ==
    ASSUME NEW T, NEW t, Good(t, T)
    PROVE  /\ t.entries \in SUBSET Ids /\ t.last \in Nat /\ t.first \in Nat /\ t.max_deleted \in Nat
           /\ t.added \in Nat /\ t.added <= MaxId /\ MaxId \in Nat
           /\ \A x \in t.entries : x \in Nat /\ x <= t.last /\ t.first <= x
           /\ t.entries # {} => t.first \in t.entries
           /\ Cardinality(t.entries) \in Nat /\ Cardinality(t.entries) <= t.added
           /\ (t.entries # {} => Cardinality(t.entries) > 0)
<1>1. t \in Stream /\ EntriesSound(t)
  BY GoodFields
<1>2. t.entries \in SUBSET Ids /\ t.last \in 0 .. MaxId /\ t.first \in 0 .. MaxId /\ t.max_deleted \in 0 .. MaxId
      /\ t.added \in 0 .. MaxId /\ MaxId \in Nat
  BY <1>1, StreamFields, StreamConstants
<1>3. t.first = EdgeOf(t.entries)
  BY <1>1 DEF EntriesSound, Edge, EdgeOf
<1>4. t.entries # {} => t.first \in t.entries /\ \A x \in t.entries : t.first <= x
  BY <1>2, <1>3, Edges
<1>5. Cardinality(t.entries) \in Nat /\ (t.entries # {} => Cardinality(t.entries) # 0)
  BY <1>2, IdSets
<1>6. \A x \in t.entries : x \in Nat
  BY <1>2 DEF Ids
<1>7. (\A x \in t.entries : x <= t.last) /\ Cardinality(t.entries) <= t.added
  BY <1>1 DEF EntriesSound
<1> QED BY <1>2, <1>4, <1>5, <1>6, <1>7

\* How many are behind an ID.
LEMMA BehindIs ==
    ASSUME NEW T, NEW t, Good(t, T), NEW id \in Nat
    PROVE  /\ Cardinality(Behind(t, id)) \in Nat
           /\ id < t.first => Behind(t, id) = t.entries
           /\ id >= t.last => Cardinality(Behind(t, id)) = 0
           /\ t.entries # {} /\ id = t.first => Cardinality(Behind(t, id)) = Cardinality(t.entries) - 1
           /\ t.entries = {} => Cardinality(Behind(t, id)) = 0
           /\ \A x \in t.entries : x > id /\ (\A y \in t.entries : y > id => x <= y)
                => Cardinality(Behind(t, id)) = Cardinality(Behind(t, x)) + 1
<1>1. /\ t.entries \in SUBSET Ids /\ t.last \in Nat /\ t.first \in Nat
      /\ \A x \in t.entries : x \in Nat /\ x <= t.last /\ t.first <= x
      /\ t.entries # {} => t.first \in t.entries
  BY EntriesFields
<1>2. Behind(t, id) \in SUBSET Ids /\ {} \in SUBSET Ids
  BY <1>1 DEF Behind
<1>3. Cardinality(Behind(t, id)) \in Nat /\ Cardinality({}) = 0
  BY <1>2, IdSets
<1>4. id < t.first => Behind(t, id) = t.entries
  BY <1>1 DEF Behind
<1>5. id >= t.last => Behind(t, id) = {}
  BY <1>1 DEF Behind
<1>6. t.entries = {} => Behind(t, id) = {}
  BY DEF Behind
<1>7. ASSUME t.entries # {}, id = t.first PROVE Cardinality(Behind(t, id)) = Cardinality(t.entries) - 1
  <2>1. Behind(t, id) = t.entries \ {id} /\ id \in t.entries
    BY <1>1, <1>7 DEF Behind
  <2> QED BY <1>1, <2>1, IdSets
<1>8. ASSUME NEW x \in t.entries, x > id, \A y \in t.entries : y > id => x <= y
      PROVE  Cardinality(Behind(t, id)) = Cardinality(Behind(t, x)) + 1
  <2>1. Behind(t, x) = Behind(t, id) \ {x} /\ x \in Behind(t, id)
    BY <1>1, <1>8 DEF Behind
  <2>2. Cardinality(Behind(t, x)) = Cardinality(Behind(t, id)) - 1
    BY <1>2, <2>1, IdSets
  <2> QED BY <1>3, <2>2
<1> QED BY <1>3, <1>4, <1>5, <1>6, <1>7, <1>8

\* streamEstimateDistanceFromFirstEverEntry: what it does not leave unknown is
\* the number of entries that were there and are not behind the ID.
LEMMA DistanceExact ==
    ASSUME NEW T, NEW t, Good(t, T), NEW id \in Nat
    PROVE  /\ Distance(t, id) \in Unknown .. MaxId
           /\ Distance(t, id) # Unknown => t.added = Distance(t, id) + Cardinality(Behind(t, id))
<1> DEFINE d == Distance(t, id)
           k == Cardinality(t.entries)
           b == Cardinality(Behind(t, id))
           unbroken == t.max_deleted = 0 \/ t.max_deleted < t.first
<1>1. /\ t.added \in Nat /\ t.added <= MaxId /\ MaxId \in Nat /\ t.last \in Nat /\ t.first \in Nat /\ t.max_deleted \in Nat
      /\ k \in Nat /\ k <= t.added /\ (t.entries # {} => k > 0)
  BY EntriesFields
<1>2. /\ b \in Nat
      /\ id < t.first => b = k
      /\ id >= t.last => b = 0
      /\ t.entries # {} /\ id = t.first => b = k - 1
      /\ t.entries = {} => b = 0
  BY BehindIs
<1>3. \/ t.added = 0 /\ d = 0
      \/ t.added # 0 /\ t.entries = {} /\ id <= t.last /\ d = t.added
      \/ t.added # 0 /\ ~(t.entries = {} /\ id <= t.last)
         /\ \/ d = Unknown
            \/ id = t.last /\ d = t.added
            \/ id < t.last /\ id < t.first /\ d = t.added - k
            \/ id < t.last /\ id = t.first /\ d = t.added - k + 1
  BY DEF Distance
<1> HIDE DEF d, k, b
<1>4. t.added # 0 /\ ~(t.entries = {} /\ id <= t.last) /\ id <= t.last => t.entries # {}
  OBVIOUS
<1>5. t.added = 0 => t.entries = {}
  BY <1>1
<1>6. d \in Unknown .. MaxId /\ (d # Unknown => t.added = d + b)
  BY <1>1, <1>2, <1>3, <1>4, <1>5 DEF Unknown
<1> QED BY <1>6 DEF d, b

\* streamReplyWithRange: the counter when the group reads the next entry.
LEMMA ReadCountSound ==
    ASSUME NEW T, NEW t, Good(t, T), NEW g \in Groups, t.g[g].on, NEW id \in t.entries, id > t.g[g].last,
           \A x \in t.entries : x > t.g[g].last => id <= x
    PROVE  /\ ReadCount(t, g, id) \in Unknown .. MaxId
           /\ CountSound(t, Moved(t.g[g], id, ReadCount(t, g, id)))
<1> DEFINE q == t.g[g]
           n == ReadCount(t, g, id)
           b == Cardinality(Behind(t, q.last))
           b2 == Cardinality(Behind(t, id))
<1>1. /\ QSound(q, T) /\ CountSound(t, q) /\ q.last \in 0 .. MaxId /\ q.read \in Unknown .. MaxId
  BY GoodFields, GroupFields
<1>2. /\ t.added \in Nat /\ t.added <= MaxId /\ MaxId \in Nat /\ id \in Ids /\ id \in Nat /\ id <= t.last
      /\ Cardinality(t.entries) \in Nat /\ Cardinality(t.entries) <= t.added /\ Cardinality(t.entries) > 0
  BY EntriesFields
<1>3. q.last \in Nat
  BY <1>1
<1>4. b \in Nat /\ b2 \in Nat /\ b = b2 + 1
  BY <1>2, <1>3, BehindIs
<1>5. t.added # 0
  BY <1>2
<1>6. /\ n \in Unknown .. MaxId
      /\ n # Unknown => t.added = n + b2
  <2>1. CASE q.read # Unknown /\ q.last >= t.first /\ ~HasTombstones(t, q.last)
    <3>1. n = q.read + 1
      BY <2>1 DEF ReadCount
    <3>2. t.max_deleted = 0 \/ q.last > t.max_deleted
      <4>1. t.max_deleted = 0 \/ ~(q.last <= t.max_deleted)
        BY <2>1 DEF HasTombstones
      <4> QED BY <1>3, <4>1, EntriesFields
    <3>3. t.added = q.read + b
      BY <1>1, <2>1, <3>2 DEF CountSound
    <3> HIDE DEF n, b, b2
    <3>4. q.read \in Nat
      BY <1>1, <1>2, <2>1 DEF Unknown
    <3> QED BY <1>2, <1>4, <3>1, <3>3, <3>4 DEF Unknown
  <2>2. CASE ~(q.read # Unknown /\ q.last >= t.first /\ ~HasTombstones(t, q.last))
    <3>1. n = Distance(t, id)
      BY <1>5, <2>2 DEF ReadCount
    <3> QED BY <1>2, <3>1, DistanceExact
  <2> QED BY <2>1, <2>2
<1> HIDE DEF n
<1>7. CountSound(t, Moved(q, id, n))
  <2>1. id \in 0 .. MaxId
    BY <1>2, StreamConstants DEF Ids
  <2>2. Moved(q, id, n).on = q.on /\ Moved(q, id, n).last = id /\ Moved(q, id, n).read = n
    <3> HIDE DEF q
    <3> QED BY ONLY <1>1, <1>6, <2>1, MovedFields
  <2> QED BY <1>2, <1>6, <2>2 DEF CountSound
<1> QED BY <1>6, <1>7 DEF n

\* streamReplyWithCGLag: a lag that is reported is exact.
LEMMA LagIs ==
    ASSUME NEW T, NEW t, Good(t, T), NEW g \in Groups, t.g[g].on, Lag(t, g) # Unknown
    PROVE  Lag(t, g) = Cardinality(Behind(t, t.g[g].last))
<1> DEFINE q == t.g[g]
           b == Cardinality(Behind(t, q.last))
           k == Cardinality(t.entries)
           d == Distance(t, q.last)
<1>1. CountSound(t, q) /\ q.last \in 0 .. MaxId /\ q.read \in Unknown .. MaxId
  BY GoodFields, GroupFields
<1>2. /\ t.added \in Nat /\ MaxId \in Nat /\ t.first \in Nat /\ t.max_deleted \in Nat /\ q.last \in Nat
      /\ k \in Nat /\ k <= t.added /\ (t.entries # {} => k > 0 /\ t.first \in t.entries)
      /\ t.entries \in SUBSET Ids
  BY <1>1, EntriesFields
<1>3. /\ b \in Nat
      /\ q.last < t.first => b = k
      /\ t.entries = {} => b = 0
  BY <1>2, BehindIs
<1>4. d \in Unknown .. MaxId /\ (d # Unknown => t.added = d + b)
  BY <1>2, DistanceExact
<1>5. t.entries # {} => t.first # 0
  BY <1>2 DEF Ids
<1>6. CASE t.added = 0 \/ t.entries = {}
  <2>1. Lag(t, g) = 0
    <3>1. t.entries = {}
      BY <1>2, <1>6
    <3> HIDE DEF q, b, k, d
    <3> QED BY <3>1 DEF Lag
  <2> QED BY <1>2, <1>3, <1>6, <2>1
<1>7. CASE ~(t.added = 0 \/ t.entries = {}) /\ q.last < t.first /\ t.max_deleted < t.first
  <2>1. Lag(t, g) = k
    BY <1>7 DEF Lag
  <2> QED BY <1>3, <1>7, <2>1
<1>8. CASE ~(t.added = 0 \/ t.entries = {}) /\ ~(q.last < t.first /\ t.max_deleted < t.first)
  <2>1. Lag(t, g) = IF q.read # Unknown /\ ~HasTombstones(t, q.last) THEN t.added - q.read
                    ELSE IF d # Unknown THEN t.added - d ELSE Unknown
    BY <1>8 DEF Lag
  <2>2. CASE q.read # Unknown /\ ~HasTombstones(t, q.last)
    <3>1. t.max_deleted = 0 \/ q.last > t.max_deleted
      BY <1>2, <1>8, <2>2 DEF HasTombstones
    <3>2. q.last >= t.first
      BY <1>2, <1>5, <1>8, <3>1
    <3>3. t.added = q.read + b
      BY <1>1, <1>8, <2>2, <3>1, <3>2 DEF CountSound
    <3>4. q.read \in Int
      BY <1>1 DEF Unknown
    <3> HIDE DEF b, d
    <3> QED BY <1>2, <1>3, <2>1, <2>2, <3>3, <3>4 DEF b
  <2>3. CASE ~(q.read # Unknown /\ ~HasTombstones(t, q.last))
    <3>1. d # Unknown /\ Lag(t, g) = t.added - d
      BY <2>1, <2>3
    <3>2. d \in Int
      BY <1>4 DEF Unknown
    <3> HIDE DEF d
    <3> QED BY <1>2, <1>3, <1>4, <3>1, <3>2
  <2> QED BY <2>2, <2>3
<1> QED BY <1>6, <1>7, <1>8

(***************************************************************************)
(* The reading of new entries.                                             *)
(***************************************************************************)
\* Alike but for what the group g has read.
AlikeBut(t, u, g) ==
  /\ Kept(t, u)
  /\ \A h \in Groups : u.g[h].on = t.g[h].on /\ u.g[h].pel = t.g[h].pel
  /\ \A h \in Groups : h # g => u.g[h].last = t.g[h].last /\ u.g[h].read = t.g[h].read

\* b is what the replica has, or would have if it got all: the group is where it was.
Lagging(a, b, g, last, read) ==
  /\ ~drifted => b = a.u
  /\ Good(b, now) /\ AlikeBut(a.t, b, g) /\ b.g[g].last = last /\ b.g[g].read = read

\* When i of the entries q behind last are through: the master has the group at
\* the last that was given.
ReadingSound(t, g, last, read, q, count, a, i) ==
  /\ Reading(a) /\ Good(a.t, now) /\ Kept(t, a.t) /\ (\E b : Lagging(a, b, g, last, read))
  /\ a.t.g[g].on
  /\ a.n = count \/ a.t.g[g].last = (IF i = 0 THEN last ELSE q[i])
  /\ a.t.g[g].last > last \/ (a.t.g[g].last = last /\ a.t.g[g].read = read)

LEMMA AlikeButMoves ==
    ASSUME NEW T, NEW t, NEW u, NEW g \in Groups, AlikeBut(t, u, g), NEW id, NEW n, NEW t2, Moves(t, t2, T, g, id, n)
    PROVE  AlikeBut(t2, u, g)
BY DEF AlikeBut, Moves, Kept

LEMMA AlikeButOne ==
    ASSUME NEW T, NEW t, NEW u, NEW g \in Groups, AlikeBut(t, u, g), NEW pel,
           NEW t2, OneLeft(t, t2, T, g, pel), NEW u2, OneLeft(u, u2, T, g, pel)
    PROVE  AlikeBut(t2, u2, g)
BY DEF AlikeBut, OneLeft, Kept, Heads

LEMMA ReadNextSound ==
    ASSUME now \in Nat, NEW t, NEW g \in Groups, NEW last \in Nat, NEW read, NEW q \in Seq(Ids),
           \A i, j \in 1 .. Len(q) : i < j => q[i] < q[j],
           \A i \in 1 .. Len(q) : q[i] \in t.entries /\ q[i] > last,
           \A x \in t.entries : x > last => \E j \in 1 .. Len(q) : q[j] = x,
           NEW c \in Consumers, NEW noack \in BOOLEAN, NEW count, NEW i \in 1 .. Len(q), NEW a,
           ReadingSound(t, g, last, read, q, count, a, i - 1)
    PROVE  ReadingSound(t, g, last, read, q, count, ReadNext(a, q[i], g, c, count, noack, last), i)
<1>0. PICK b : Lagging(a, b, g, last, read)
  BY DEF ReadingSound
<1> DEFINE id == q[i]
           w == ReadNext(a, id, g, c, count, noack, last)
           n == ReadCount(a.t, g, id)
           v == PropagatedId(a.t, g, id, n)
           t2 == IF noack THEN v ELSE Deliver(v, g, c, id)
           u3 == IF noack THEN a.u ELSE Propagated(a.u, g, c, id, now, last)
           u2 == IF noack THEN b ELSE Propagated(b, g, c, id, now, last)
           prev == IF i - 1 = 0 THEN last ELSE q[i - 1]
<1>1. /\ Reading(a) /\ Good(a.t, now) /\ Good(b, now) /\ Kept(t, a.t) /\ AlikeBut(a.t, b, g)
      /\ a.t.g[g].on /\ b.g[g].last = last /\ b.g[g].read = read
      /\ a.n = count \/ a.t.g[g].last = prev
      /\ a.t.g[g].last > last \/ (a.t.g[g].last = last /\ a.t.g[g].read = read)
  BY <1>0 DEF ReadingSound, Lagging
<1>2. i \in Nat /\ id \in Ids /\ id \in Nat /\ \A j \in 1 .. Len(q) : q[j] \in Ids /\ q[j] \in Nat
  <2>1. \A j \in 1 .. Len(q) : q[j] \in Ids
    OBVIOUS
  <2>2. Ids \subseteq Nat
    BY DEF Ids
  <2>3. i \in Nat
    OBVIOUS
  <2> QED BY <2>1, <2>2, <2>3
<1>3. CASE a.n = count
  <2>1. w = a
    BY <1>3 DEF ReadNext
  <2>2. ReadingSound(t, g, last, read, q, count, a, i)
    BY <1>0, <1>1, <1>3 DEF ReadingSound
  <2> QED BY <2>1, <2>2
<1>4. CASE a.n # count
  <2>1. a.t.g[g].last = prev
    BY <1>1, <1>4
  <2>2. id \in a.t.entries /\ b.entries = a.t.entries /\ id > last /\ a.t.entries = t.entries
    BY <1>1 DEF Kept, AlikeBut
  <2>3. prev \in Nat /\ prev >= last /\ id > prev
    <3>1. CASE i - 1 = 0
      BY <2>2, <3>1
    <3>2. CASE i - 1 # 0
      <4>1. i - 1 \in 1 .. Len(q) /\ i - 1 < i
        BY <1>2, <3>2
      <4>2. prev = q[i - 1] /\ prev \in Nat /\ prev > last
        BY <1>2, <3>2, <4>1
      <4>3. q[i - 1] < q[i]
        BY <4>1
      <4> HIDE DEF prev
      <4> QED BY <1>2, <4>2, <4>3
    <3> QED BY <3>1, <3>2
  <2>4. ASSUME NEW x \in a.t.entries, x > prev PROVE id <= x
    <3>1. x \in Nat
      BY <1>1, EntriesFields
    <3>2. x > last
      <4> HIDE DEF prev
      <4> QED BY <2>3, <2>4, <3>1
    <3>3. PICK j \in 1 .. Len(q) : q[j] = x
      BY <2>2, <3>2
    <3>4. CASE j < i
      <4>1. i - 1 \in 1 .. Len(q) /\ i - 1 # 0 /\ (j < i - 1 \/ j = i - 1)
        BY <1>2, <3>4
      <4>2. prev = q[i - 1] /\ (j < i - 1 => q[j] < q[i - 1])
        BY <4>1
      <4>3. x <= prev
        BY <1>2, <3>1, <3>3, <4>1, <4>2
      <4> HIDE DEF prev
      <4> QED BY <2>3, <2>4, <3>1, <4>3
    <3>5. CASE ~(j < i)
      <4>1. i = j \/ i < j
        BY <1>2, <3>5
      <4> QED BY <1>2, <3>1, <3>3, <4>1
    <3> QED BY <3>4, <3>5
  <2>5. n \in Unknown .. MaxId /\ CountSound(a.t, Moved(a.t.g[g], id, n))
    <3> HIDE DEF prev, id
    <3> QED BY <1>1, <2>1, <2>2, <2>3, <2>4, ReadCountSound
  <2>6. w = Acc(a, t2, u3, a.n + 1)
    BY <1>4 DEF ReadNext, PropagatedId, Acc
  <2>0. ~drifted => u2 = u3
    BY <1>0 DEF Lagging
  <2> HIDE DEF n, w, u3
  <2>7. Moves(a.t, v, now, g, id, n)
    <3>1. id \in 0 .. MaxId
      <4>1. \A x \in Ids : x \in 0 .. MaxId
        BY StreamConstants DEF Ids
      <4> QED BY <1>2, <4>1
    <3> HIDE DEF id
    <3> QED BY <1>1, <2>5, <3>1, MovedSound
  <2> HIDE DEF v
  <2>8. /\ Good(v, now) /\ Kept(a.t, v) /\ v.g[g].on /\ v.g[g].last = id /\ v.g[g].pel = a.t.g[g].pel
        /\ v.entries = a.t.entries
    BY <1>1, <2>7 DEF Moves, Kept
  <2>9. AlikeBut(v, b, g)
    BY <1>1, <2>7, AlikeButMoves
  <2>10. /\ Good(t2, now) /\ Good(u2, now) /\ Kept(t, t2) /\ AlikeBut(t2, u2, g)
         /\ t2.g[g].on /\ t2.g[g].last = id
         /\ u2.g[g].last = last /\ u2.g[g].read = read
    <3>1. CASE noack
      <4>1. t2 = v /\ u2 = b
        BY <3>1
      <4> HIDE DEF t2, u2, id
      <4> QED BY <1>1, <2>8, <2>9, <4>1 DEF Kept
    <3>2. CASE ~noack
      <4>1. t2 = Deliver(v, g, c, id) /\ u2 = Propagated(b, g, c, id, now, last)
        BY <3>2
      <4> HIDE DEF t2, u2, id
      <4>2. OneLeft(v, t2, now, g, Put(v.g[g].pel, id, c))
        BY <1>2, <2>8, <4>1, DeliverSound
      <4>3. b.g[g].on /\ b.g[g].pel = v.g[g].pel /\ id \in b.entries /\ ~(last > b.g[g].last) /\ now \in 0 .. now
        BY <1>1, <2>2, <2>8, <2>9 DEF AlikeBut
      <4>4. OneLeft(b, u2, now, g, Put(v.g[g].pel, id, c))
        BY <1>1, <1>2, <4>1, <4>3, PropagatedSound
      <4>5. AlikeBut(t2, u2, g)
        BY <2>9, <4>2, <4>4, AlikeButOne
      <4> QED BY <1>1, <2>8, <4>2, <4>4, <4>5 DEF OneLeft, Kept, Heads
    <3> QED BY <3>1, <3>2
  <2> HIDE DEF t2, u2, id
  <2>11. w.t = t2 /\ w.u = u3 /\ Reading(w)
    <3>1. a.n + 1 \in Int /\ t2 \in Stream
      BY <1>1, <2>10, GoodFields DEF Reading
    <3>2. Reading(a) \/ AutoClaiming(a)
      BY <1>1
    <3>3. w.t = t2 /\ w.u = u3 /\ SameLoop(a, w)
      BY ONLY <2>6, <3>1, <3>2, AccFields
    <3> QED BY <1>1, <3>3 DEF SameLoop
  <2>12. w.t.g[g].last = q[i] /\ i # 0 /\ w.t.g[g].last > last
    BY <1>2, <2>2, <2>10, <2>11 DEF id
  <2>13. ReadingSound(t, g, last, read, q, count, w, i)
    <3>1. Lagging(w, u2, g, last, read)
      BY <2>0, <2>10, <2>11 DEF Lagging
    <3> QED BY <2>10, <2>11, <2>12, <3>1 DEF ReadingSound
  <2> QED BY <2>13 DEF w, id
<1> QED BY <1>3, <1>4

\* ... after which the replica gets where the group is.
LEMMA ReadNewSound ==
    ASSUME now \in Nat, NEW acc, Reading(acc), Good(acc.t, now), (\E b : Twin(acc, b)),
           NEW g \in Groups, acc.t.g[g].on, NEW c \in Consumers, NEW count, NEW noack \in BOOLEAN
    PROVE  LET v == ReadNew(acc, g, c, count, noack) IN Good(v.t, now) /\ \E b : Twin(v, b)
<1> DEFINE t == acc.t
           last == t.g[g].last
           read == t.g[g].read
           S == Behind(t, last)
           q == Sorted(S)
<1>1. t.entries \in SUBSET Ids /\ S \in SUBSET Ids /\ last \in Nat
  <2>1. t.g[g].last \in 0 .. MaxId /\ t.entries \in SUBSET Ids
    BY GoodFields, GroupFields, StreamFields
  <2> QED BY <2>1 DEF Behind
<1>2. /\ q \in Seq(Ids)
      /\ \A i, j \in 1 .. Len(q) : i < j => q[i] < q[j]
      /\ \A i \in 1 .. Len(q) : q[i] \in S
      /\ \A id \in S : \E i \in 1 .. Len(q) : q[i] = id
  BY <1>1, SortedIs
<1>3. /\ \A i \in 1 .. Len(q) : q[i] \in t.entries /\ q[i] > last
      /\ \A x \in t.entries : x > last => \E j \in 1 .. Len(q) : q[j] = x
  BY <1>2 DEF Behind
<1>4. q = Sorted(Behind(acc.t, last))
  OBVIOUS
<1>5. last = acc.t.g[g].last
  OBVIOUS
<1> HIDE DEF q, S, last
<1>6. PICK f : /\ Iterates("read", <<g, c, count, noack, last>>, acc, q, f)
               /\ ReadNew(acc, g, c, count, noack) = ReadEnd(f[Len(q)], g, last)
  BY ONLY <1>2, <1>4, <1>5, ReadLoop
<1> DEFINE J == {i \in 0 .. Len(q) : ReadingSound(t, g, last, read, q, count, f[i], i)}
<1>7. Len(q) \in Nat
  BY <1>2
<1>8. 0 \in J
  <2>1. f[0] = acc
    BY <1>6 DEF Iterates
  <2>2. PICK b : Twin(acc, b)
    OBVIOUS
  <2>4. Kept(t, acc.t) /\ Lagging(acc, b, g, last, read)
    BY <1>5, <2>2 DEF Twin, Lagging, Alike, AlikeBut, Kept, Heads
  <2>3. ReadingSound(t, g, last, read, q, count, acc, 0)
    BY <1>5, <2>4 DEF ReadingSound
  <2> QED BY <1>7, <2>1, <2>3
<1>9. ASSUME NEW i \in 1 .. Len(q), i - 1 \in J PROVE i \in J
  <2> DEFINE a == f[i - 1]
  <2>1. f[i] = ReadNext(a, q[i], g, c, count, noack, last)
    BY <1>6 DEF Iterates, Round
  <2>2. ReadingSound(t, g, last, read, q, count, a, i - 1)
    BY <1>9
  <2> HIDE DEF a, t, read
  <2>3. ReadingSound(t, g, last, read, q, count, ReadNext(a, q[i], g, c, count, noack, last), i)
    BY ONLY <1>1, <1>2, <1>3, <2>2, now \in Nat, g \in Groups, c \in Consumers, noack \in BOOLEAN,
            i \in 1 .. Len(q), ReadNextSound
  <2> QED BY <1>7, <2>1, <2>3
<1> HIDE DEF J
<1>10. Len(q) \in J
  BY <1>7, <1>8, <1>9, Climb
<1> DEFINE b == f[Len(q)]
<1>11. ReadingSound(t, g, last, read, q, count, b, Len(q))
  BY <1>10 DEF J
<1> HIDE DEF b
<1>15. PICK w : Lagging(b, w, g, last, read)
  BY <1>11 DEF ReadingSound
<1>12. /\ Reading(b) /\ Good(b.t, now) /\ Good(w, now) /\ AlikeBut(b.t, w, g)
       /\ w.g[g].last = last /\ w.g[g].read = read /\ (~drifted => w = b.u)
       /\ b.t.g[g].last > last \/ (b.t.g[g].last = last /\ b.t.g[g].read = read)
  BY <1>11, <1>15 DEF ReadingSound, Lagging
<1>13. CASE b.t.g[g].last = last
  <2>1. b.t.g[g].read = read
    BY <1>1, <1>12, <1>13
  <2>2. Twin(b, w)
    BY <1>12, <1>13, <2>1 DEF Twin, Alike, AlikeBut, Heads
  <2>3. ReadNew(acc, g, c, count, noack) = b
    BY <1>6, <1>13 DEF ReadEnd, b
  <2> QED BY <1>12, <2>2, <2>3
<1>14. CASE b.t.g[g].last # last
  <2> DEFINE id == b.t.g[g].last
             n == b.t.g[g].read
             u2 == PropagatedId(w, g, id, n)
             u3 == PropagatedId(b.u, g, id, n)
             v == [b EXCEPT !.u = u3]
  <2>1. ReadNew(acc, g, c, count, noack) = v
    BY <1>6, <1>14 DEF ReadEnd, b
  <2>2. id \in 0 .. MaxId /\ n \in Unknown .. MaxId /\ CountSound(b.t, b.t.g[g]) /\ QSound(w.g[g], now)
    BY <1>12, GoodFields, GroupFields
  <2>8. ~drifted => u2 = u3
    BY <1>12
  <2> HIDE DEF id, n, u3
  <2>3. CountSound(w, Moved(w.g[g], id, n))
    <3>1. Moved(w.g[g], id, n).on = w.g[g].on /\ Moved(w.g[g], id, n).last = id /\ Moved(w.g[g], id, n).read = n
      BY <2>2, MovedFields
    <3>2. Kept(b.t, w) /\ w.g[g].on = b.t.g[g].on
      BY <1>12 DEF AlikeBut
    <3> DEFINE p == Moved(w.g[g], id, n)
    <3>3. p.on = b.t.g[g].on /\ p.last = b.t.g[g].last /\ p.read = b.t.g[g].read
      BY <3>1, <3>2 DEF id, n
    <3> HIDE DEF p
    <3>4. CountSound(w, p)
      BY ONLY <2>2, <3>2, <3>3, KeptCounts
    <3> QED BY <3>4 DEF p
  <2>4. Moves(w, u2, now, g, id, n)
    BY <1>12, <2>2, <2>3, MovedSound
  <2> HIDE DEF u2
  <2>5. Alike(b.t, u2)
    <3>1. /\ Kept(w, u2) /\ u2.g[g].on = w.g[g].on /\ u2.g[g].last = id /\ u2.g[g].read = n
          /\ u2.g[g].pel = w.g[g].pel /\ \A h \in Groups : h # g => u2.g[h] = w.g[h]
      BY <2>4 DEF Moves
    <3> QED BY <1>12, <3>1 DEF Alike, AlikeBut, Kept, Heads, id, n
  <2>6. Good(u2, now)
    BY <2>4 DEF Moves
  <2>7. v.t = b.t /\ v.u = u3
    BY <1>12 DEF Reading
  <2>9. Twin(v, u2)
    BY <2>5, <2>6, <2>7, <2>8 DEF Twin
  <2> QED BY <1>12, <2>1, <2>7, <2>9
<1> QED BY <1>13, <1>14

(***************************************************************************)
(* The commands.                                                           *)
(***************************************************************************)
\* An entry that is added at two that are alike.
LEMMA AppendAlike ==
    ASSUME now \in Nat, NEW v, Good(v, now), NEW w, Good(w, now), Alike(v, w),
           NEW id \in Ids, id > v.last, id > w.last
    PROVE  LET t == Append_(v, id)
               u == Append_(w, id)
           IN Good(t, now) /\ Good(u, now) /\ Alike(t, u) /\ v.entries \subseteq t.entries
<1> DEFINE t == Append_(v, id)
           u == Append_(w, id)
<1>1. /\ Good(t, now) /\ GroupsKept(v, t)
      /\ t.entries = v.entries \cup {id} /\ t.last = id /\ t.added = v.added + 1
      /\ t.first = (IF v.entries = {} THEN id ELSE v.first) /\ t.max_deleted = v.max_deleted
  BY AppendSound
<1>2. /\ Good(u, now) /\ GroupsKept(w, u)
      /\ u.entries = w.entries \cup {id} /\ u.last = id /\ u.added = w.added + 1
      /\ u.first = (IF w.entries = {} THEN id ELSE w.first) /\ u.max_deleted = w.max_deleted
  BY AppendSound
<1> HIDE DEF t, u
<1>3. Kept(t, u)
  BY <1>1, <1>2 DEF Alike, Kept
<1>4. Alike(t, u)
  BY <1>1, <1>2, <1>3, AlikeEntries
<1> QED BY <1>1, <1>2, <1>4 DEF t, u

\* XADD
LEMMA XAddSound ==
    ASSUME now \in Nat, Sound, NEW id \in Ids, NEW trim \in Trims \cup {NoTrim}, XAdd(id, trim)
    PROVE  Sound'
<1> DEFINE t == Append_(s, id)
           u == Append_(Mirror, id)
<1>1. Good(s, now) /\ Good(Mirror, now) /\ Alike(s, Mirror) /\ id > s.last /\ id > Mirror.last
  BY DEF Sound, XAdd, Alike, Kept
<1>2. Good(t, now) /\ Good(u, now) /\ Alike(t, u)
  BY <1>1, AppendAlike
<1>4. Follows(Trim(t, trim), Trim(u, trim))
  BY MirrorIs DEF XAdd, Both, Follows
<1> HIDE DEF t, u
<1>7. Good(Trim(t, trim), now) /\ Good(Trim(u, trim), now) /\ Alike(Trim(t, trim), Trim(u, trim))
  BY <1>2, TrimSound
<1> QED BY <1>4, <1>7, BothSound

\* XTRIM
LEMMA XTrimSound ==
    ASSUME now \in Nat, Sound, NEW trim \in Trims, XTrim(trim)
    PROVE  Sound'
<1>1. Follows(Trim(s, trim), Trim(Mirror, trim))
  BY MirrorIs DEF XTrim, Both, Follows
<1>2. Good(Trim(s, trim), now) /\ Good(Trim(Mirror, trim), now) /\ Alike(Trim(s, trim), Trim(Mirror, trim))
  BY TrimSound DEF Sound
<1> QED BY <1>1, <1>2, BothSound

\* ... and with ~: the replica trims as much, if that can be told.
LEMMA AboutSound ==
    ASSUME now \in Nat, NEW t, Good(t, now), NEW u, NEW w, Good(w, now), Alike(t, w), ~drifted => u = w,
           Sound, NEW trim \in Trims, Approximate(t, u, trim)
    PROVE  Sound'
<1> DEFINE v == Trim(t, trim)
<1>1. PICK x \in Rewritten(t, s', trim) :
        /\ r' = IF Core(s') = Core(s) THEN r ELSE Trim(u, x)
        /\ drifted' = (drifted \/ Lost(t.entries \ s'.entries, x))
  BY DEF Approximate
<1>2. s' = v /\ now' = now
  BY DEF Approximate
<1>3. Good(v, now)
  BY AlikeSelf, TrimSound
<1>4. ASSUME ~drifted' PROVE Good(r', now) /\ Alike(s', r')
  <2>1. ~drifted /\ ~Lost(t.entries \ v.entries, x) /\ x \in Rewritten(t, v, trim)
    BY <1>1, <1>2, <1>4
  <2>2. Good(Trim(w, x), now) /\ Alike(v, Trim(w, x))
    BY <2>1, RewrittenAlike
  <2>3. u = w /\ Good(r, now) /\ Alike(s, r)
    BY <2>1, MirrorIs DEF Sound
  <2> DEFINE y == Trim(w, x)
             z == IF Core(v) = Core(s) THEN r ELSE y
  <2>4. r' = z
    BY <1>1, <1>2, <2>3
  <2>5. s \in Stream /\ v \in Stream
    BY <1>3, GoodFields DEF Sound
  <2>6. Good(y, now) /\ Alike(v, y)
    BY <2>2
  <2> HIDE DEF v, y
  <2>7. Good(z, now) /\ Alike(v, z)
    BY ONLY <2>3, <2>5, <2>6, BothAlike
  <2> HIDE DEF z
  <2> QED BY <1>2, <2>4, <2>7
<1> HIDE DEF v
<1> QED BY <1>2, <1>3, <1>4, SoundNext

LEMMA XTrimAboutSound ==
    ASSUME now \in Nat, Sound, NEW trim \in Trims, XTrimAbout(trim)
    PROVE  Sound'
<1>1. Good(s, now) /\ Good(Mirror, now) /\ Alike(s, Mirror) /\ (~drifted => r = Mirror) /\ Approximate(s, r, trim)
  BY MirrorIs DEF Sound, XTrimAbout
<1> QED BY <1>1, AboutSound

LEMMA XAddAboutSound ==
    ASSUME now \in Nat, Sound, NEW id \in Ids, NEW trim \in Trims, XAddAbout(id, trim)
    PROVE  Sound'
<1> DEFINE t == Append_(s, id)
           u == Append_(r, id)
           w == Append_(Mirror, id)
<1>1. Good(s, now) /\ Good(Mirror, now) /\ Alike(s, Mirror) /\ id > s.last /\ id > Mirror.last
  BY DEF Sound, XAddAbout, Alike, Kept
<1>2. Good(t, now) /\ Good(w, now) /\ Alike(t, w) /\ s.entries \subseteq t.entries
  BY <1>1, AppendAlike
<1>3. ~drifted => u = w
  BY MirrorIs
<1>4. Approximate(t, u, trim)
  BY DEF XAddAbout
<1> HIDE DEF t, u, w
<1> QED BY <1>2, <1>3, <1>4, AboutSound

\* XDEL
LEMMA XDelSound ==
    ASSUME now \in Nat, Sound, NEW id \in Ids, XDel(id)
    PROVE  Sound'
<1> DEFINE t == DeleteItem(s, id)
           u == DeleteItem(Mirror, id)
<1>1. Follows(t, u)
  BY MirrorIs DEF XDel, Both, Follows
<1>2. Good(s, now) /\ Good(Mirror, now) /\ Alike(s, Mirror)
  BY DEF Sound
<1>3. /\ Good(t, now) /\ Gone(s, t, id)
      /\ t.max_deleted = IF id \in s.entries /\ id > s.max_deleted THEN id ELSE s.max_deleted
  BY <1>2, DeleteItemSound
<1>4. /\ Good(u, now) /\ Gone(Mirror, u, id)
      /\ u.max_deleted = IF id \in Mirror.entries /\ id > Mirror.max_deleted THEN id ELSE Mirror.max_deleted
  BY <1>2, DeleteItemSound
<1> HIDE DEF t, u
<1>5. Kept(t, u) /\ GroupsKept(s, t) /\ GroupsKept(Mirror, u)
  BY <1>2, <1>3, <1>4 DEF Alike, Kept, Gone
<1>6. Alike(t, u)
  BY <1>2, <1>5, AlikeEntries
<1> QED BY <1>1, <1>3, <1>4, <1>6, BothSound

\* XDELEX
LEMMA XDelExSound ==
    ASSUME now \in Nat, Sound, NEW id \in Ids, NEW mode \in Modes, XDelEx(id, mode)
    PROVE  Sound'
<1> DEFINE t == DeleteAs(s, id, mode)
           u == DeleteAs(Mirror, id, mode)
           w == IF t.entries = s.entries THEN Mirror ELSE u
<1>1. /\ s' = t /\ now' = now /\ (~drifted' => r' = w)
      /\ ~drifted' => mode # "DELREF" \/ id \in s.entries \/ s.refs[id] = {}
  BY MirrorIs DEF XDelEx, DeleteEx
<1>2. Good(s, now) /\ Good(Mirror, now) /\ Alike(s, Mirror)
  BY DEF Sound
<1>3. /\ Good(t, now) /\ Cut(s, t, id, mode)
      /\ t.max_deleted = IF ~Stays(s, id, mode) /\ id \in s.entries /\ id > s.max_deleted
                           THEN id ELSE s.max_deleted
  BY <1>2, DeleteAsSound
<1>4. Good(u, now)
  BY <1>2, DeleteAsSound
<1>5. Alike(t, u)
  BY <1>2, DeleteAsAlike
<1> HIDE DEF t, u
<1>6. CASE t.entries # s.entries
  <2>1. Good(w, now) /\ Alike(t, w)
    BY <1>4, <1>5, <1>6
  <2> HIDE DEF w
  <2> QED BY <1>1, <1>3, <2>1, SoundNext
<1>7. CASE t.entries = s.entries
  <2>1. w = Mirror
    BY <1>7
  <2> HIDE DEF w
  <2>2. ASSUME ~drifted' PROVE Alike(t, Mirror)
    <3>1. Stays(s, id, mode) \/ id \notin s.entries
      BY <1>3, <1>7 DEF Cut
    <3>2. mode # "DELREF" \/ s.refs[id] = {}
      BY <1>1, <2>2, <3>1, ModesDiffer DEF Stays
    <3>3. s.first = EdgeOf(s.entries)
      BY <1>2, GoodFields DEF EntriesSound, Edge, EdgeOf
    <3>4. Kept(s, t)
      BY <1>3, <1>7, <3>1, <3>3 DEF Cut, Kept
    <3>5. \A h \in Groups : t.g[h].pel = s.g[h].pel
      <4>1. CASE mode # "DELREF"
        BY <1>3, <4>1 DEF Cut
      <4>2. CASE mode = "DELREF"
        <5>1. \A h \in Groups : s.g[h].pel[id] = None /\ s.g[h].pel \in [Ids -> Consumers \cup {None}]
          BY <1>2, <3>2, <4>2, PelFields
        <5>2. None \in Consumers \cup {None}
          OBVIOUS
        <5>3. \A h \in Groups : Put(s.g[h].pel, id, None) = s.g[h].pel
          BY <5>1, <5>2, Puts
        <5> QED BY <1>3, <4>2, <5>3 DEF Cut
      <4> QED BY <4>1, <4>2
    <3>6. Alike(s, t)
      BY <1>3, <3>4, <3>5 DEF Cut, Alike
    <3> QED BY <1>2, <3>6, AlikeBack, AlikeThen
  <2> QED BY <1>1, <1>2, <1>3, <2>1, <2>2, SoundNext
<1> QED BY <1>6, <1>7

\* XACK
LEMMA XAckSound ==
    ASSUME now \in Nat, Sound, NEW g \in Groups, NEW id \in Ids, XAck(g, id)
    PROVE  Sound'
<1> DEFINE t == DropNACK(s, g, id)
           u == DropNACK(Mirror, g, id)
<1>1. Follows(t, u)
  BY MirrorIs DEF XAck, Both, Follows
<1>2. Good(s, now) /\ Good(Mirror, now) /\ Alike(s, Mirror) /\ Mirror.g[g].pel = s.g[g].pel
  BY DEF Sound, Alike
<1>3. OneLeft(s, t, now, g, Put(s.g[g].pel, id, None)) /\ OneLeft(Mirror, u, now, g, Put(s.g[g].pel, id, None))
  BY <1>2, DropSound
<1> HIDE DEF t, u
<1>4. Good(t, now) /\ Good(u, now)
  BY <1>3 DEF OneLeft
<1>5. Alike(t, u)
  BY <1>2, <1>3, AlikeOne
<1> QED BY <1>1, <1>4, <1>5, BothSound

\* XACKDEL
LEMMA XAckDelSound ==
    ASSUME now \in Nat, Sound, NEW g \in Groups, NEW id \in Ids, NEW mode \in Modes, XAckDel(g, id, mode)
    PROVE  Sound'
<1> DEFINE t == DropNACK(s, g, id)
           u == DropNACK(Mirror, g, id)
           t2 == AckDelete(s, g, id, mode)
           u2 == AckDelete(Mirror, g, id, mode)
<1>1. Follows(t2, u2)
  BY MirrorIs DEF XAckDel, Both, Follows
<1>2. Good(s, now) /\ Good(Mirror, now) /\ Alike(s, Mirror) /\ Mirror.g[g].pel = s.g[g].pel
  BY DEF Sound, Alike
<1>3. OneLeft(s, t, now, g, Put(s.g[g].pel, id, None)) /\ OneLeft(Mirror, u, now, g, Put(s.g[g].pel, id, None))
  BY <1>2, DropSound
<1>4. /\ t2 = IF s.g[g].pel[id] = None THEN s ELSE DeleteAs(t, id, mode)
      /\ u2 = IF s.g[g].pel[id] = None THEN Mirror ELSE DeleteAs(u, id, mode)
  BY <1>2 DEF AckDelete
<1> HIDE DEF t, u, t2, u2
<1>5. Good(t, now) /\ Good(u, now)
  BY <1>3 DEF OneLeft
<1>6. Alike(t, u)
  BY <1>2, <1>3, AlikeOne
<1>7. Good(DeleteAs(t, id, mode), now) /\ Good(DeleteAs(u, id, mode), now)
      /\ Alike(DeleteAs(t, id, mode), DeleteAs(u, id, mode))
  BY <1>5, <1>6, DeleteAsSound, DeleteAsAlike
<1>8. Good(t2, now) /\ Good(u2, now) /\ Alike(t2, u2)
  BY <1>2, <1>4, <1>7
<1> QED BY <1>1, <1>8, BothSound

\* XGROUP CREATE, SETID, DESTROY, CREATECONSUMER and DELCONSUMER
LEMMA XGroupSound ==
    ASSUME now \in Nat, Sound, NEW g \in Groups,
           \/ \E id \in 0 .. MaxId : XGroupCreate(g, id) \/ XGroupSetId(g, id)
           \/ XGroupDestroy(g)
           \/ \E c \in Consumers : XGroupCreateConsumer(g, c) \/ XGroupDelConsumer(g, c)
    PROVE  Sound'
<1>1. Good(s, now) /\ Good(Mirror, now) /\ Alike(s, Mirror) /\ Mirror.g[g].on = s.g[g].on /\ Mirror.g[g].pel = s.g[g].pel
  BY DEF Sound, Alike, Heads
<1>2. ASSUME NEW id \in 0 .. MaxId, XGroupCreate(g, id) PROVE Sound'
  <2> DEFINE t == CreateCG(s, g, id)
             u == CreateCG(Mirror, g, id)
  <2>1. ~s.g[g].on /\ Follows(t, u)
    BY <1>2, MirrorIs DEF XGroupCreate, Both, Follows
  <2>2. Becomes(s, t, now, g, Fresh(TRUE, id)) /\ Becomes(Mirror, u, now, g, Fresh(TRUE, id))
    BY <1>1, <2>1, CreateSound
  <2> HIDE DEF t, u
  <2>3. Good(t, now) /\ Good(u, now)
    BY <2>2 DEF Becomes
  <2>4. Alike(t, u)
    BY <1>1, <2>2, AlikeBecomes
  <2> QED BY <2>1, <2>3, <2>4, BothSound
<1>3. ASSUME NEW id \in 0 .. MaxId, XGroupSetId(g, id) PROVE Sound'
  <2> DEFINE t == PropagatedId(s, g, id, Unknown)
             u == PropagatedId(Mirror, g, id, Unknown)
  <2>1. Follows(t, u)
    BY <1>3, MirrorIs DEF XGroupSetId, Both, Follows
  <2>2. Moves(s, t, now, g, id, Unknown) /\ Moves(Mirror, u, now, g, id, Unknown)
    BY <1>1, SetIdSound
  <2> HIDE DEF t, u
  <2>3. Good(t, now) /\ Good(u, now)
    BY <2>2 DEF Moves
  <2>4. Alike(t, u)
    BY <1>1, <2>2, AlikeMoves
  <2> QED BY <2>1, <2>3, <2>4, BothSound
<1>4. ASSUME XGroupDestroy(g) PROVE Sound'
  <2> DEFINE t == DestroyCG(s, g)
             u == DestroyCG(Mirror, g)
  <2>1. Follows(t, u)
    BY <1>4, MirrorIs DEF XGroupDestroy, Both, Follows
  <2>2. Becomes(s, t, now, g, Fresh(FALSE, 0)) /\ Becomes(Mirror, u, now, g, Fresh(FALSE, 0))
    BY <1>1, DestroySound
  <2> HIDE DEF t, u
  <2>3. Good(t, now) /\ Good(u, now)
    BY <2>2 DEF Becomes
  <2>4. Alike(t, u)
    BY <1>1, <2>2, AlikeBecomes
  <2> QED BY <2>1, <2>3, <2>4, BothSound
<1>5. ASSUME NEW c \in Consumers, XGroupCreateConsumer(g, c) PROVE Sound'
  <2> DEFINE t == CreateConsumer(s, g, c)
             u == CreateConsumer(Mirror, g, c)
  <2>1. Follows(t, u)
    BY <1>5, MirrorIs DEF XGroupCreateConsumer, Both, Follows
  <2>2. Good(t, now) /\ Good(u, now) /\ Alike(t, u)
    BY <1>1, StartSound
  <2> HIDE DEF t, u
  <2> QED BY <2>1, <2>2, BothSound
<1>6. ASSUME NEW c \in Consumers, XGroupDelConsumer(g, c) PROVE Sound'
  <2> DEFINE t == DelConsumer(s, g, c)
             u == DelConsumer(Mirror, g, c)
  <2>1. Follows(t, u)
    BY <1>6, MirrorIs DEF XGroupDelConsumer, Both, Follows
  <2>2. Good(t, now) /\ Good(u, now) /\ Alike(t, u)
    BY <1>1, DelConsumerSound
  <2> HIDE DEF t, u
  <2> QED BY <2>1, <2>2, BothSound
<1> QED BY <1>2, <1>3, <1>4, <1>5, <1>6

\* XREADGROUP with the ID >
LEMMA ReadGroupSound ==
    ASSUME now \in Nat, Sound, NEW g \in Groups, NEW c \in Consumers, NEW minidle, NEW count,
           NEW noack \in BOOLEAN, ReadGroup(g, c, minidle, count, noack)
    PROVE  Sound'
<1> DEFINE q == s.g[g]
           new == s.entries # {} /\ Max(s.entries) > q.last
           there == SelectSeq(q.list, LAMBDA id : id \in s.entries)
           idle == minidle # -1 /\ there # <<>> /\ now - q.time[there[1]] >= minidle
           t == CreateConsumer(s, g, c)
           u == IF noack THEN CreateConsumer(Mirror, g, c) ELSE Mirror
           u0 == IF noack THEN CreateConsumer(r, g, c) ELSE r
           start == [t |-> t, n |-> 0, stop |-> FALSE, u |-> u0]
           claimed == IF (new \/ idle) /\ minidle # -1 THEN ClaimIdle(start, g, c, minidle, count) ELSE start
           end == IF new /\ claimed.n < count THEN ReadNew(claimed, g, c, count, noack) ELSE claimed
<1>1. s.g[g].on /\ s' = end.t /\ r' = end.u /\ UNCHANGED <<now, drifted>>
  BY DEF ReadGroup
<1> HIDE DEF new, idle
<1>2. Good(s, now) /\ Good(Mirror, now) /\ Alike(s, Mirror)
  BY DEF Sound
<1>3. /\ Good(t, now) /\ Good(u, now) /\ Alike(t, u) /\ t.g[g].on
      /\ t \in Stream /\ u \in Stream
  BY <1>1, <1>2, StartSound
<1>10. ~drifted => u = u0
  BY MirrorIs
<1> HIDE DEF t, u, u0
<1>4. Reading(start) /\ start.t = t /\ start.u = u0
  BY <1>3 DEF Reading
<1> HIDE DEF start
<1>5. PairSound(t, start)
  <2>1. Twin(start, u)
    BY <1>3, <1>4, <1>10 DEF Twin
  <2> QED BY <1>3, <1>4, <2>1, AlikeSelf DEF PairSound, Alike
<1>6. Reading(claimed) /\ PairSound(t, claimed)
  <2>1. Reading(ClaimIdle(start, g, c, minidle, count)) /\ PairSound(t, ClaimIdle(start, g, c, minidle, count))
    BY <1>3, <1>4, <1>5, ClaimIdleSound
  <2> QED BY <1>4, <1>5, <2>1
<1> HIDE DEF claimed
<1>7. Good(claimed.t, now) /\ (\E b : Twin(claimed, b)) /\ claimed.t.g[g].on
  BY <1>3, <1>6 DEF PairSound, Heads
<1>8. LET v == ReadNew(claimed, g, c, count, noack) IN Good(v.t, now) /\ \E b : Twin(v, b)
  BY <1>6, <1>7, ReadNewSound
<1>9. Good(end.t, now) /\ \E b : Twin(end, b)
  BY <1>7, <1>8
<1> HIDE DEF end
<1>11. ~drifted => Good(end.u, now) /\ Alike(end.t, end.u)
  BY <1>9 DEF Twin
<1> QED BY <1>1, <1>9, <1>11, SoundNext

\* XREADGROUP with another ID: what the consumer has pending changes its times.
LEMMA ReadHistorySound ==
    ASSUME now \in Nat, Sound, NEW g \in Groups, NEW c \in Consumers, NEW start, ReadHistory(g, c, start)
    PROVE  Sound'
<1> DEFINE S == HistoryOf(g, c, start)
           q == Sorted(S)
           t == CreateConsumer(s, g, c)
           x == t.g[g]
<1>1. Good(s, now) /\ Good(Mirror, now) /\ Alike(s, Mirror)
  BY DEF Sound
<1>2. Good(t, now) /\ Alike(t, Mirror) /\ t \in Stream /\ t.g \in [Groups -> Group] /\ x.pel = s.g[g].pel
  <2>1. Good(t, now) /\ Alike(t, Mirror) /\ Alike(s, t) /\ t \in Stream
    BY <1>1, StartSound
  <2> HIDE DEF t
  <2> QED BY <2>1, StreamFields DEF Alike
<1>3. S \in SUBSET Ids /\ \A id \in S : s.g[g].pel[id] = c
  <2>1. s.g[g].cpel[c] = {id \in Ids : s.g[g].pel[id] = c}
    BY <1>1, GoodFields DEF PelsSound
  <2> QED BY <2>1 DEF HistoryOf
<1>4. /\ q \in Seq(Ids)
      /\ \A i \in 1 .. Len(q) : q[i] \in S
  BY <1>3, SortedIs
<1>5. \A i \in 1 .. Len(q) : q[i] \in Ids /\ x.pel[q[i]] # None
  <2> HIDE DEF q, S, t
  <2> QED BY <1>2, <1>3, <1>4, StreamConstants
<1>6. q = Sorted(HistoryOf(g, c, start))
  OBVIOUS
<1> HIDE DEF q, S
<1>7. g \in DOMAIN t.g /\ "g" \in DOMAIN t
  <2> HIDE DEF t
  <2> QED BY <1>2 DEF Stream
<1>8. PICK f : /\ Iterates("history", 0, x, q, f)
               /\ s' = Record(t, g, f[Len(q)])
  BY ONLY <1>4, <1>6, <1>7, ReadHistory(g, c, start), HistoryLoop
<1>9. UNCHANGED <<r, now, drifted>>
  BY DEF ReadHistory
<1> HIDE DEF t, x
<1> DEFINE J == {i \in 0 .. Len(q) : Left(x, f[i], now, x.pel)}
<1>10. Len(q) \in Nat
  BY <1>4
<1>11. 0 \in J
  <2>1. f[0] = x
    BY <1>8 DEF Iterates
  <2>2. QSound(x, now)
    BY <1>2, GoodFields DEF x
  <2>3. Left(x, x, now, x.pel)
    BY <2>2 DEF Left
  <2> QED BY <1>10, <2>1, <2>3
<1>12. ASSUME NEW i \in 1 .. Len(q), i - 1 \in J PROVE i \in J
  <2> DEFINE a == f[i - 1]
             b == PelListUpdate(a, q[i], now)
  <2>1. f[i] = b
    BY <1>8 DEF Iterates, Round
  <2>2. Left(x, a, now, x.pel)
    BY <1>12
  <2> HIDE DEF a
  <2>3. QSound(a, now) /\ a.pel = x.pel /\ a.on = x.on /\ a.last = x.last /\ a.read = x.read
    BY <2>2 DEF Left
  <2>4. now \in 0 .. now /\ q[i] \in Ids /\ a.pel[q[i]] # None
    BY <1>5, <2>3
  <2>5. Left(a, b, now, a.pel)
    BY <2>3, <2>4, RereadSound
  <2> HIDE DEF b
  <2>6. Left(x, b, now, x.pel)
    BY <2>3, <2>5 DEF Left
  <2> QED BY <1>10, <2>1, <2>6
<1> HIDE DEF J
<1>13. Len(q) \in J
  BY <1>10, <1>11, <1>12, Climb
<1>14. Left(x, f[Len(q)], now, x.pel)
  BY <1>13 DEF J
<1>15. OneLeft(t, s', now, g, t.g[g].pel)
  <2>1. SamePending(x.pel, t.g[g].pel)
    BY DEF SamePending, x
  <2>2. OneLeft(t, Record(t, g, f[Len(q)]), now, g, x.pel)
    BY <1>2, <1>14, <2>1, RecordChanged DEF x
  <2> QED BY <1>8, <2>2 DEF x
<1>16. Good(s', now)
  BY <1>15 DEF OneLeft
<1>17. Alike(t, s')
  <2> DEFINE v == s'
  <2>1. OneLeft(t, v, now, g, t.g[g].pel)
    BY <1>15
  <2> HIDE DEF v
  <2>2. Alike(t, v)
    BY ONLY <2>1, g \in Groups, AlikeStill
  <2> QED BY <2>2 DEF v
<1>18. Alike(s', Mirror)
  BY <1>2, <1>17, AlikeBack, AlikeThen
<1>19. ~drifted => Good(r, now) /\ Alike(s', r)
  BY <1>1, <1>18, MirrorIs
<1> QED BY <1>9, <1>16, <1>19, SoundNext

\* XCLAIM
LEMMA XClaimSound ==
    ASSUME now \in Nat, Sound, NEW g \in Groups, NEW c \in Consumers, NEW id \in Ids, NEW force \in BOOLEAN,
           NEW minidle \in Int, NEW time \in 0 .. now, XClaim(g, c, id, force, minidle, time)
    PROVE  Sound'
<1> DEFINE q == s.g[g]
           gone == id \notin s.entries
           due == IF q.pel[id] = None THEN force ELSE now - q.time[id] >= minidle
           t == CreateConsumer(s, g, c)
           t2 == ClaimOne(t, g, c, id, force, minidle, time)
           last == q.last
           u2 == CASE gone /\ q.pel[id] # None -> Propagated(Mirror, g, q.pel[id], id, q.time[id], last)
                   [] ~gone /\ due -> Propagated(Mirror, g, c, id, time, last)
                   [] OTHER -> Mirror
<1>1. q.on /\ s' = t2 /\ (~drifted => r' = u2) /\ UNCHANGED <<now, drifted>>
  BY MirrorIs DEF XClaim
<1>2. Good(s, now) /\ Good(Mirror, now) /\ Alike(s, Mirror)
  BY DEF Sound
<1>3. /\ Good(t, now) /\ Alike(t, Mirror) /\ Alike(s, t) /\ t.g[g].on
      /\ t.entries = s.entries /\ t.g[g].pel = q.pel /\ t.g[g].time = q.time
      /\ Mirror.entries = s.entries /\ Mirror.g[g].pel = q.pel /\ Mirror.g[g].on /\ Mirror.g[g].last = last
  <2>1. t.g[g].time = q.time
    BY <1>2, ConsumerSound
  <2> HIDE DEF t
  <2>2. Good(t, now) /\ Alike(t, Mirror) /\ Alike(s, t) /\ t.g[g].on
    BY <1>1, <1>2, StartSound DEF t
  <2> QED BY <1>1, <1>2, <2>1, <2>2 DEF Alike, Kept, Heads
<1>4. ~(last > last) /\ q.time[id] \in Nat /\ q.time[id] <= now
  <2>1. q \in Group /\ PelsSound(q, now)
    BY <1>2, GoodFields
  <2>2. q.time \in [Ids -> Nat] /\ last \in 0 .. MaxId /\ q.time[id] <= now
    BY <2>1, GroupFields DEF PelsSound
  <2>3. last \in Nat
    BY <2>2
  <2> QED BY <2>2, <2>3
<1>5. q.time[id] \in 0 .. now
  BY <1>4
<1>6. Refused(t, g, id, force, minidle) <=> ~due
  BY <1>3, <1>4 DEF Refused
<1> HIDE DEF t
<1>7. /\ gone => OneLeft(t, t2, now, g, Put(q.pel, id, None))
      /\ ~gone /\ ~due => t2 = t
      /\ ~gone /\ due => OneLeft(t, t2, now, g, Put(q.pel, id, c))
  <2> HIDE DEF due, q
  <2> QED BY <1>3, <1>6, ClaimSound
<1>8. CASE gone /\ q.pel[id] # None
  <2>1. u2 = Propagated(Mirror, g, q.pel[id], id, q.time[id], last)
    BY <1>8
  <2>2. q.pel[id] \in Consumers /\ ~(last > Mirror.g[g].last) /\ id \notin Mirror.entries
    BY <1>2, <1>3, <1>4, <1>8, PelFields
  <2> HIDE DEF u2, t2
  <2>3. OneLeft(Mirror, u2, now, g, Put(q.pel, id, None))
    BY <1>2, <1>3, <1>5, <2>1, <2>2, PropagatedSound
  <2>4. OneLeft(t, t2, now, g, Put(q.pel, id, None))
    BY <1>7, <1>8
  <2>5. Good(t2, now) /\ Good(u2, now)
    BY <2>3, <2>4 DEF OneLeft
  <2>6. Alike(t2, u2)
    BY <1>3, <2>3, <2>4, AlikeOne
  <2> QED BY <1>1, <2>5, <2>6, SoundNext
<1>9. CASE gone /\ q.pel[id] = None
  <2>1. u2 = Mirror
    BY <1>9
  <2> HIDE DEF u2, t2
  <2>2. Put(q.pel, id, None) = t.g[g].pel
    <3>1. q.pel \in [Ids -> Consumers \cup {None}]
      BY <1>2, PelFields
    <3> DEFINE pel == q.pel
    <3>2. pel \in [Ids -> Consumers \cup {None}] /\ pel[id] = None /\ pel = t.g[g].pel
      BY <1>3, <1>9, <3>1
    <3>3. None \in Consumers \cup {None}
      OBVIOUS
    <3> HIDE DEF pel
    <3>4. Put(pel, id, None) = pel
      BY ONLY <3>2, <3>3, id \in Ids, Puts
    <3> QED BY <3>2, <3>4 DEF pel
  <2>3. OneLeft(t, t2, now, g, t.g[g].pel)
    BY <1>7, <1>9, <2>2
  <2>4. Alike(t, t2)
    BY ONLY <2>3, g \in Groups, AlikeStill
  <2>5. Good(t2, now) /\ Alike(t2, Mirror)
    BY <1>3, <2>3, <2>4, AlikeBack, AlikeThen DEF OneLeft
  <2> QED BY <1>1, <1>2, <2>1, <2>5, SoundNext
<1>10. CASE ~gone /\ due
  <2>1. u2 = Propagated(Mirror, g, c, id, time, last)
    BY <1>10
  <2>2. ~(last > Mirror.g[g].last) /\ id \in Mirror.entries
    BY <1>3, <1>4, <1>10
  <2> HIDE DEF u2, t2
  <2>3. OneLeft(Mirror, u2, now, g, Put(q.pel, id, c))
    BY <1>2, <1>3, <2>1, <2>2, PropagatedSound
  <2>4. OneLeft(t, t2, now, g, Put(q.pel, id, c))
    BY <1>7, <1>10
  <2>5. Good(t2, now) /\ Good(u2, now)
    BY <2>3, <2>4 DEF OneLeft
  <2>6. Alike(t2, u2)
    BY <1>3, <2>3, <2>4, AlikeOne
  <2> QED BY <1>1, <2>5, <2>6, SoundNext
<1>11. CASE ~gone /\ ~due
  <2>1. u2 = Mirror
    BY <1>11
  <2> HIDE DEF u2, t2
  <2> QED BY <1>1, <1>2, <1>3, <1>7, <1>11, <2>1, SoundNext
<1> QED BY <1>8, <1>9, <1>10, <1>11

(***************************************************************************)
(* The invariant, and what follows from it.                                *)
(***************************************************************************)
LEMMA IInvIs ==
    IInv <=> now \in 0 .. MaxTime /\ drifted \in BOOLEAN /\ Sound
<1>1. Good(s, now) /\ Good(Mirror, now) => (Agree(Mirror, s) <=> Alike(s, Mirror))
  BY AgreeIsAlike
<1> QED BY <1>1 DEF IInv, Sound

\* A new stream has no groups and no entries.
LEMMA NewSound0 ==
    Good(NewStream, 0)
<1> DEFINE t == NewStream
<1>1. 0 \in Nat /\ FALSE \in BOOLEAN /\ 0 \in 0 .. MaxId /\ 0 \in 0 .. Top
  BY StreamConstants DEF Top
<1>2. /\ t.entries = {} /\ t.last = 0 /\ t.first = 0 /\ t.max_deleted = 0 /\ t.added = 0
      /\ t.min = 0 /\ t.min_valid = FALSE /\ t.refs = [i \in Ids |-> {}] /\ t.g = [g \in Groups |-> NoGroup]
  BY DEF NewStream
<1>3. NoGroup = Fresh(FALSE, 0)
  <2>1. NoGroup \in Group /\ NoGroup.on = FALSE /\ NoGroup.last = 0
    <3>1. Unknown \in Unknown .. MaxId /\ <<>> \in Seq(Ids)
      BY StreamConstants DEF Unknown
    <3> QED BY <1>1, <3>1 DEF Group, NoGroup
  <2> QED BY <2>1 DEF Fresh, Group
<1>4. QSound(NoGroup, 0) /\ NoGroup.on = FALSE /\ NoGroup.read = Unknown /\ NoGroup.pel = [i \in Ids |-> None]
  <2>1. /\ QSound(Fresh(FALSE, 0), 0) /\ Fresh(FALSE, 0).on = FALSE /\ Fresh(FALSE, 0).read = Unknown
        /\ Fresh(FALSE, 0).pel = [i \in Ids |-> None]
    BY <1>1, FreshSound, Zenon
  <2> QED BY <1>3, <2>1
<1>5. NoGroup \in Group
  BY <1>4 DEF QSound, PelsSound
<1>6. t \in Stream
  BY <1>1, <1>5 DEF Stream, NewStream
<1> HIDE DEF t
<1>7. EntriesSound(t)
  <2>1. {} \in SUBSET Ids
    OBVIOUS
  <2>2. Cardinality({}) = 0
    BY <2>1, IdSets
  <2> QED BY <1>1, <1>2, <2>2 DEF EntriesSound, Edge
<1>8. RefsSound(t)
  <2>1. \A id \in Ids, g \in Groups : t.refs[id] = {} /\ t.g[g].pel[id] = None
    BY <1>2, <1>4
  <2>2. \A id \in Ids : t.refs[id] = {}
    BY <1>2
  <2> QED BY <2>1, <2>2 DEF RefsSound
<1>9. MinSound(t)
  BY <1>2 DEF MinSound
<1>10. \A g \in Groups : QSound(t.g[g], 0) /\ CountSound(t, t.g[g])
  BY <1>2, <1>4 DEF CountSound
<1>11. Good(t, 0)
  BY <1>6, <1>7, <1>8, <1>9, <1>10 DEF Good
<1> QED BY <1>11 DEF t

LEMMA InitSound ==
    Init => IInv
<1> SUFFICES ASSUME Init PROVE IInv
  OBVIOUS
<1>1. Good(s, now) /\ Good(Mirror, now) /\ s = Mirror /\ now = 0
  BY NewSound0, MirrorIs DEF Init
<1>2. Alike(s, Mirror)
  BY <1>1, AlikeSelf
<1>3. now \in 0 .. MaxTime
  BY <1>1, StreamConstants
<1>4. drifted \in BOOLEAN
  BY DEF Init
<1> QED BY <1>1, <1>2, <1>3, <1>4, IInvIs DEF Sound

\* Every command keeps it.
LEMMA NextSound ==
    IInv /\ [Next]_vars => IInv'
<1> SUFFICES ASSUME IInv, [Next]_vars PROVE IInv'
  OBVIOUS
<1>1. now \in Nat /\ now \in 0 .. MaxTime /\ drifted \in BOOLEAN /\ Sound
  BY IInvIs, StreamConstants
<1>2. ASSUME Sound', now' = now, drifted' = drifted \/ drifted' \in BOOLEAN PROVE IInv'
  <2>1. (IInv <=> now \in 0 .. MaxTime /\ drifted \in BOOLEAN /\ Sound)'
    BY IInvIs, PTL
  <2> QED BY <1>1, <1>2, <2>1
<1>3. Readers \subseteq Groups
  BY StreamConstants
<1>4. ASSUME NEW id \in Ids, NEW trim \in Trims \cup {NoTrim}, XAdd(id, trim) PROVE IInv'
  BY <1>1, <1>2, <1>4, XAddSound DEF XAdd, Both
<1>5. ASSUME NEW trim \in Trims, XTrim(trim) PROVE IInv'
  BY <1>1, <1>2, <1>5, XTrimSound DEF XTrim, Both
<1>6. ASSUME NEW id \in Ids, XDel(id) PROVE IInv'
  BY <1>1, <1>2, <1>6, XDelSound DEF XDel, Both
<1>7. ASSUME NEW id \in Ids, NEW mode \in Modes, XDelEx(id, mode) PROVE IInv'
  <2>1. now' = now /\ drifted' \in BOOLEAN
    BY <1>1, <1>7 DEF XDelEx
  <2> QED BY <1>1, <1>2, <1>7, <2>1, XDelExSound
<1>17. ASSUME NEW id \in Ids, NEW trim \in Trims, XAddAbout(id, trim) PROVE IInv'
  <2>1. now' = now /\ drifted' \in BOOLEAN
    BY <1>1, <1>17 DEF XAddAbout, Approximate
  <2> QED BY <1>1, <1>2, <1>17, <2>1, XAddAboutSound
<1>18. ASSUME NEW trim \in Trims, XTrimAbout(trim) PROVE IInv'
  <2>1. now' = now /\ drifted' \in BOOLEAN
    BY <1>1, <1>18 DEF XTrimAbout, Approximate
  <2> QED BY <1>1, <1>2, <1>18, <2>1, XTrimAboutSound
<1>8. ASSUME NEW g \in Groups,
             \/ \E id \in 0 .. MaxId : XGroupCreate(g, id) \/ XGroupSetId(g, id)
             \/ XGroupDestroy(g)
             \/ \E c \in Consumers : XGroupCreateConsumer(g, c) \/ XGroupDelConsumer(g, c)
      PROVE  IInv'
  <2>1. now' = now /\ drifted' = drifted
    BY <1>8 DEF XGroupCreate, XGroupSetId, XGroupDestroy, XGroupCreateConsumer, XGroupDelConsumer, Both
  <2>2. Sound'
    BY <1>1, <1>8, XGroupSound
  <2> QED BY <1>2, <2>1, <2>2
<1>9. ASSUME NEW g \in Readers, NEW c \in Consumers, NEW m \in Idles \cup {-1}, NEW n \in {1, MaxId},
             NEW noack \in BOOLEAN, ReadGroup(g, c, m, n, noack)
      PROVE  IInv'
  <2>1. now' = now /\ drifted' = drifted
    BY <1>9 DEF ReadGroup
  <2> QED BY <1>1, <1>2, <1>3, <1>9, <2>1, ReadGroupSound
<1>10. ASSUME NEW g \in Readers, NEW c \in Consumers, NEW start \in Ids, ReadHistory(g, c, start) PROVE IInv'
  <2>1. now' = now /\ drifted' = drifted
    BY <1>10 DEF ReadHistory
  <2> QED BY <1>1, <1>2, <1>3, <1>10, <2>1, ReadHistorySound
<1>11. ASSUME NEW g \in Readers, NEW c \in Consumers, NEW id \in Ids, NEW force \in BOOLEAN, NEW m \in Idles,
              NEW time \in 0 .. now, XClaim(g, c, id, force, m, time)
       PROVE  IInv'
  <2>1. now' = now /\ drifted' = drifted /\ m \in Int
    BY <1>11, StreamConstants DEF XClaim, Idles
  <2> QED BY <1>1, <1>2, <1>3, <1>11, <2>1, XClaimSound
<1>12. ASSUME NEW g \in Readers, NEW c \in Consumers, NEW m \in Idles, NEW start \in Ids, NEW n \in {1, MaxId},
              XAutoClaim(g, c, m, start, n)
       PROVE  IInv'
  <2>1. now' = now /\ drifted' = drifted
    BY <1>12 DEF XAutoClaim
  <2> QED BY <1>1, <1>2, <1>3, <1>12, <2>1, AutoClaimSound
<1>13. ASSUME NEW g \in Readers, NEW id \in Ids, XAck(g, id) PROVE IInv'
  BY <1>1, <1>2, <1>3, <1>13, XAckSound DEF XAck, Both
<1>14. ASSUME NEW g \in Readers, NEW id \in Ids, NEW mode \in Modes, XAckDel(g, id, mode) PROVE IInv'
  BY <1>1, <1>2, <1>3, <1>14, XAckDelSound DEF XAckDel, Both
<1>15. CASE Tick
  <2>1. now' \in Nat /\ now <= now' /\ now' \in 0 .. MaxTime /\ s' = s /\ r' = r /\ drifted' = drifted
    BY <1>1, <1>15, StreamConstants DEF Tick
  <2>2. Good(s', now') /\ (~drifted' => Good(r', now') /\ Alike(s', r'))
    BY <1>1, <2>1, MirrorIs, GoodLater DEF Sound
  <2>4. Sound'
    BY <2>2, SoundAt
  <2>5. (IInv <=> now \in 0 .. MaxTime /\ drifted \in BOOLEAN /\ Sound)'
    BY IInvIs, PTL
  <2> QED BY <1>1, <2>1, <2>4, <2>5
<1>16. CASE UNCHANGED vars
  <2>1. s' = s /\ r' = r /\ now' = now /\ drifted' = drifted
    BY <1>16 DEF vars
  <2>2. Good(s', now) /\ (~drifted' => Good(r', now) /\ Alike(s', r'))
    BY <1>1, <2>1, MirrorIs DEF Sound
  <2>3. Sound'
    BY <2>1, <2>2, SoundNext
  <2> QED BY <1>2, <2>1, <2>3
<1> QED BY <1>3, <1>4, <1>5, <1>6, <1>7, <1>8, <1>9, <1>10, <1>11, <1>12, <1>13, <1>14, <1>15, <1>16, <1>17, <1>18 DEF Next

\* Whatever commands are executed, whatever is read, claimed, acknowledged,
\* deleted and trimmed: the streams and their groups are sound, and alike while
\* all that was done is propagated.
THEOREM AlwaysSound == Spec => []IInv
<1>1. Init => IInv
  BY InitSound
<1>2. IInv /\ [Next]_vars => IInv'
  BY NextSound
<1> QED BY <1>1, <1>2, PTL DEF Spec

\* A list has no more positions than there are IDs.
LEMMA ListBounded ==
    ASSUME NEW P \in SUBSET Ids, NEW list, NEW time, ListOK(list, P, time)
    PROVE  list \in UNION {[1 .. n -> Ids] : n \in 0 .. MaxId}
<1> DEFINE n == Len(list)
<1>1. list \in Seq(Ids) /\ \A i, j \in 1 .. n : list[i] = list[j] => i = j
  BY DEF ListOK
<1>2. n \in Nat /\ list \in [1 .. n -> Ids]
  BY <1>1
<1> HIDE DEF n
<1>3. list \in Injection(1 .. n, Ids)
  BY <1>1, <1>2 DEF Injection, IsInjective, n
<1>4. IsFiniteSet(Ids) /\ Cardinality(Ids) <= MaxId
  BY IdSets
<1>5. Cardinality(1 .. n) <= Cardinality(Ids)
  BY ONLY <1>3, <1>4, FS_Injection
<1>6. Cardinality(1 .. n) = n
  BY <1>2, FS_Interval
<1>7. Cardinality(Ids) \in Nat
  BY <1>4, FS_CardinalityType
<1>8. n \in 0 .. MaxId
  BY <1>2, <1>4, <1>5, <1>6, <1>7, StreamConstants
<1> QED BY <1>2, <1>8

\* An ID that is pending is at one position, and another at none.
LEMMA ListCounts ==
    ASSUME NEW P \in SUBSET Ids, NEW list, NEW time, ListOK(list, P, time), NEW id \in Ids
    PROVE  Cardinality({j \in DOMAIN list : list[j] = id}) = IF id \in P THEN 1 ELSE 0
<1> DEFINE S == {j \in DOMAIN list : list[j] = id}
<1>1. /\ DOMAIN list = 1 .. Len(list)
      /\ \A i, j \in 1 .. Len(list) : list[i] = list[j] => i = j
      /\ id \in P <=> \E i \in 1 .. Len(list) : list[i] = id
  BY DEF ListOK
<1>2. CASE id \in P
  <2>1. PICK i \in 1 .. Len(list) : list[i] = id
    BY <1>1, <1>2
  <2>2. S = {i}
    BY <1>1, <2>1
  <2> QED BY <1>2, <2>2, FS_Singleton
<1>3. CASE id \notin P
  <2>1. S = {}
    BY <1>1, <1>3
  <2> QED BY <1>3, <2>1, FS_EmptySet
<1> QED BY <1>2, <1>3

\* What a sound stream has, as the properties say it.
LEMMA StreamHas ==
    ASSUME now \in 0 .. MaxTime, NEW t, Good(t, now)
    PROVE  /\ StreamTypeOK(t) /\ PelsAgreeIn(t) /\ ListSortedIn(t)
           /\ t.min_valid /\ On(t) # {} => t.min = MinLast(t)
<1>1. ASSUME NEW g \in Groups
      PROVE  LET q == t.g[g] IN
             q \in Group /\ PelsSound(q, now) /\ ListOK(q.list, Pend(q), q.time) /\ Pend(q) \in SUBSET Ids
  BY <1>1, GoodFields, PendingOf DEF QSound
<1>2. StreamTypeOK(t)
  <2>1. /\ t.entries \subseteq Ids /\ t.last \in 0 .. MaxId /\ t.first \in 0 .. MaxId
        /\ t.max_deleted \in 0 .. MaxId /\ t.added \in 0 .. MaxId
        /\ t.min \in 0 .. Top /\ t.min_valid \in BOOLEAN /\ t.refs \in [Ids -> SUBSET Groups]
    BY GoodFields, StreamFields
  <2>2. ASSUME NEW g \in Groups PROVE t.g[g] \in GroupType
    <3> DEFINE q == t.g[g]
    <3>1. q \in Group /\ PelsSound(q, now) /\ ListOK(q.list, Pend(q), q.time) /\ Pend(q) \in SUBSET Ids
      BY <1>1
    <3> HIDE DEF q
    <3>2. q.list \in UNION {[1 .. n -> Ids] : n \in 0 .. MaxId}
      BY <3>1, ListBounded
    <3>3. q.time \in [Ids -> 0 .. MaxTime]
      <4>1. \A id \in Ids : q.time[id] \in Nat /\ q.time[id] <= now
        BY <3>1, GroupFields DEF PelsSound
      <4>2. \A id \in Ids : q.time[id] \in 0 .. MaxTime
        BY <4>1, StreamConstants
      <4> QED BY <3>1, <4>2, GroupFields
    <3> DEFINE L == UNION {[1 .. n -> Ids] : n \in 0 .. MaxId}
    <3>4. q.list \in L
      BY <3>2
    <3> HIDE DEF L
    <3>5. q \in [on : BOOLEAN, last : 0 .. MaxId, read : Unknown .. MaxId,
                 pel : [Ids -> Consumers \cup {None}], time : [Ids -> 0 .. MaxTime], list : L,
                 consumers : SUBSET Consumers, cpel : [Consumers -> SUBSET Ids]]
      BY <3>1, <3>3, <3>4 DEF Group
    <3> QED BY <3>5 DEF GroupType, L, q
  <2> QED BY <2>1, <2>2 DEF StreamTypeOK
<1>3. ASSUME NEW g \in Groups, NEW id \in Ids
      PROVE  LET q == t.g[g]
                 pending == q.pel[id] # None
             IN /\ \A c \in Consumers : id \in q.cpel[c] <=> q.pel[id] = c
                /\ Cardinality({j \in DOMAIN q.list : q.list[j] = id}) = IF pending THEN 1 ELSE 0
                /\ g \in t.refs[id] <=> pending
                /\ pending => q.on /\ q.pel[id] \in q.consumers
  <2> DEFINE q == t.g[g]
  <2>1. PelsSound(q, now) /\ ListOK(q.list, Pend(q), q.time) /\ Pend(q) \in SUBSET Ids
    BY <1>1
  <2>2. g \in t.refs[id] <=> q.pel[id] # None
    BY PelFields
  <2> HIDE DEF q
  <2>3. \A c \in Consumers : id \in q.cpel[c] <=> q.pel[id] = c
    BY <2>1, PendingOf
  <2>4. id \in Pend(q) <=> q.pel[id] # None
    BY DEF Pend
  <2>5. q.pel[id] # None => q.on /\ q.pel[id] \in q.consumers
    BY <2>1, <2>4, PendingOf
  <2>6. Cardinality({j \in DOMAIN q.list : q.list[j] = id}) = IF id \in Pend(q) THEN 1 ELSE 0
    BY ONLY <2>1, id \in Ids, ListCounts
  <2> QED BY <2>2, <2>3, <2>4, <2>5, <2>6 DEF q
<1>4. ASSUME NEW g \in Groups
      PROVE  LET q == t.g[g] IN \A i, j \in DOMAIN q.list : i < j => q.time[q.list[i]] <= q.time[q.list[j]]
  <2> DEFINE q == t.g[g]
  <2>1. ListOK(q.list, Pend(q), q.time)
    BY <1>1
  <2> HIDE DEF q
  <2>2. DOMAIN q.list = 1 .. Len(q.list)
    BY <2>1 DEF ListOK
  <2>3. \A i, j \in DOMAIN q.list : i < j => q.time[q.list[i]] <= q.time[q.list[j]]
    BY <2>1, <2>2 DEF ListOK
  <2> QED BY <2>3 DEF q
<1>5. t.min_valid /\ On(t) # {} => t.min = MinLast(t)
  BY GoodFields DEF MinSound
<1>6. PelsAgreeIn(t)
  BY ONLY <1>3 DEF PelsAgreeIn
<1>7. ListSortedIn(t)
  BY ONLY <1>4 DEF ListSortedIn
<1> QED BY <1>2, <1>5, <1>6, <1>7

\* The groups of a stream are sound at the master and at the replica: an entry
\* that is pending is so in the group's PEL, in one consumer's, once in the list
\* by time, which is in order, and in the index of references; and the cached
\* minimum of the groups' last IDs, while it counts as valid, is the minimum.
THEOREM GroupsAreSound == Spec => []GroupsSound
<1>1. IInv => GroupsSound
  <2> SUFFICES ASSUME IInv PROVE GroupsSound
    OBVIOUS
  <2>1. now \in 0 .. MaxTime /\ drifted \in BOOLEAN /\ Good(s, now) /\ (~drifted => Good(r, now))
    BY MirrorIs DEF IInv
  <2>2. ASSUME NEW t \in Followed
        PROVE  /\ StreamTypeOK(t) /\ PelsAgreeIn(t) /\ ListSortedIn(t)
               /\ t.min_valid /\ On(t) # {} => t.min = MinLast(t)
    <3>1. Good(t, now)
      BY <2>1 DEF Followed
    <3> QED BY <2>1, <3>1, StreamHas
  <2>3. TypeOK
    BY <2>1, <2>2 DEF TypeOK
  <2>4. PelsAgree
    BY <2>2 DEF PelsAgree
  <2>5. ListSorted
    BY <2>2 DEF ListSorted
  <2>6. MinCached
    BY <2>2 DEF MinCached
  <2> QED BY <2>3, <2>4, <2>5, <2>6 DEF GroupsSound
<1> QED BY <1>1, AlwaysSound, PTL

\* A lag that XINFO GROUPS reports is the number of entries that the group has
\* still to be given, whatever was deleted and trimmed, and wherever it was set.
THEOREM LagIsExact == Spec => []LagExact
<1>1. IInv => LagExact
  <2> SUFFICES ASSUME IInv, NEW t \in Followed, NEW g \in On(t), Lag(t, g) # Unknown
               PROVE  Lag(t, g) = Cardinality({id \in t.entries : id > t.g[g].last})
    BY DEF LagExact
  <2>1. Good(t, now) /\ g \in Groups /\ t.g[g].on
    BY MirrorIs DEF IInv, On, Followed
  <2>2. Lag(t, g) = Cardinality(Behind(t, t.g[g].last))
    BY <2>1, LagIs
  <2> QED BY <2>2 DEF Behind
<1> QED BY <1>1, AlwaysSound, PTL

\* The replica has the entries of its master and what it has pending, and with
\* whom, though reads and claims are propagated as XCLAIMs and XGROUP SETIDs and
\* approximate trims as exact ones: until a rewritten trim says less than was
\* done (t_stream.c:2394) or an XDELEX drops references without being propagated
\* (4589).
THEOREM ReplicaIsTheSame == Spec => []ReplicaAgrees
<1>1. IInv => ReplicaAgrees
  BY MirrorIs DEF IInv, Agree, ReplicaAgrees
<1> QED BY <1>1, AlwaysSound, PTL

\* XDELEX, XACKDEL and the trims with ACKED remove only what every group has
\* been given and none has pending.
THEOREM AckedIsSafe == Spec => AckedSafe
<1> DEFINE Safe == \A id \in s.entries \ s'.entries, g \in On(s') :
                     id <= s'.g[g].last /\ s'.g[g].pel[id] = None
<1>1. IInv /\ [Next]_vars => [Safe \/ ~AckedStep]_vars
  <2> SUFFICES ASSUME IInv, AckedStep PROVE Safe
    OBVIOUS
  <2>1. now \in Nat /\ Good(s, now) /\ Readers \subseteq Groups
    BY StreamConstants DEF IInv
  <2>2. ASSUME NEW t, OnlyAcked(t, s'), s.entries \subseteq t.entries PROVE Safe
    BY <2>2 DEF OnlyAcked, Heads, On
  <2>3. "ACKED" \in Modes /\ "ACKED" # "DELREF"
    BY DEF Modes
  <2>4. ASSUME NEW t, Good(t, now), NEW id \in Ids PROVE OnlyAcked(t, DeleteAs(t, id, "ACKED"))
    <3> DEFINE u == DeleteAs(t, id, "ACKED")
    <3>1. Cut(t, u, id, "ACKED")
      BY <2>1, <2>3, <2>4, DeleteAsSound
    <3> HIDE DEF u
    <3>2. Heads(t, u) /\ \A h \in Groups : u.g[h].pel = t.g[h].pel
      BY <2>3, <3>1 DEF Cut
    <3>3. ASSUME NEW x \in t.entries \ u.entries PROVE x = id /\ ~Referenced(t, id)
      BY <3>1, <3>3 DEF Cut, Stays
    <3>4. ~Referenced(t, id) => \A h \in Groups : (t.g[h].on => id <= t.g[h].last) /\ t.g[h].pel[id] = None
      BY <2>4, Unreferenced
    <3>5. OnlyAcked(t, u)
      BY <3>2, <3>3, <3>4 DEF OnlyAcked
    <3> QED BY <3>5 DEF u
  <2>5. ASSUME NEW id \in Ids, XDelEx(id, "ACKED") PROVE Safe
    <3>1. s' = DeleteAs(s, id, "ACKED")
      BY <2>5 DEF XDelEx, DeleteEx
    <3> QED BY <2>1, <2>2, <2>4, <3>1
  <2>6. ASSUME NEW g \in Readers, NEW id \in Ids, XAckDel(g, id, "ACKED") PROVE Safe
    <3> DEFINE t == DropNACK(s, g, id)
    <3>1. s' = IF s.g[g].pel[id] = None THEN s ELSE DeleteAs(t, id, "ACKED")
      BY <2>6 DEF XAckDel, Both, AckDelete
    <3>2. OneLeft(s, t, now, g, Put(s.g[g].pel, id, None))
      BY <2>1, DropSound
    <3> HIDE DEF t
    <3>3. Good(t, now) /\ t.entries = s.entries
      BY <3>2 DEF OneLeft, Kept
    <3>4. CASE s.g[g].pel[id] = None
      BY <3>1, <3>4
    <3>5. CASE s.g[g].pel[id] # None
      BY <2>2, <2>4, <3>1, <3>3, <3>5
    <3> QED BY <3>4, <3>5
  <2>7. ASSUME NEW trim \in Trims, trim.mode = "ACKED", XTrim(trim) \/ XTrimAbout(trim) PROVE Safe
    <3>1. s' = Trim(s, trim)
      BY <2>7 DEF XTrim, XTrimAbout, Approximate, Both
    <3>2. OnlyAcked(s, Trim(s, trim))
      BY <2>1, <2>7, TrimsAcked
    <3> QED BY <2>2, <3>1, <3>2
  <2>8. ASSUME NEW trim \in Trims, trim.mode = "ACKED", NEW id \in Ids, XAdd(id, trim) \/ XAddAbout(id, trim) PROVE Safe
    <3> DEFINE t == Append_(s, id)
    <3>1. s' = Trim(t, trim) /\ id > s.last
      BY <2>8 DEF XAdd, XAddAbout, Approximate, Both
    <3>2. Good(t, now) /\ t.entries = s.entries \cup {id}
      BY <2>1, <3>1, AppendSound
    <3> HIDE DEF t
    <3>3. OnlyAcked(t, Trim(t, trim))
      BY <2>1, <2>8, <3>2, TrimsAcked
    <3> QED BY <2>2, <3>1, <3>2, <3>3
  <2> QED BY <2>5, <2>6, <2>7, <2>8 DEF AckedStep
<1>2. Spec => [][Safe \/ ~AckedStep]_vars
  BY <1>1, AlwaysSound, PTL DEF Spec
<1> QED BY <1>2, PTL DEF AckedSafe
============================================================================
