-------------------------- MODULE Keyspace_proofs --------------------------
(***************************************************************************)
(* The keyspace of Redis: the transactions that watch its keys, and the    *)
(* dictionary that holds them.                                             *)
(*                                                                         *)
(* Transaction for every set of clients, databases and keys, every number  *)
(* of writes and every length of a queue: the lists of who watches what    *)
(* agree, an EXEC that runs finds what its client saw, and one that fails  *)
(* does so for a change.                                                   *)
(*                                                                         *)
(* Dict for every finite set of keys, every hash, every width of the       *)
(* cursor and every ratio: the tables are sound in the middle of a resize, *)
(* a SCAN returns all that stays, and a safe iterator returns it once.     *)
(***************************************************************************)
EXTENDS Dict, Transaction, FiniteSetTheorems, WellFoundedInduction, TLAPS

(***************************************************************************)
(* The two loops over a sequence, step by step: the watchers of a key that *)
(* is touched, and the commands of a queue.                                *)
(***************************************************************************)
Visit(t, n, acc, c) ==
  CASE acc.stop -> acc
    [] ~acc.stop /\ n \notin acc.t.cl[c].stale ->
         [acc EXCEPT !.t = Touched(@, c)]
    [] ~acc.stop /\ n \in acc.t.cl[c].stale ->
         IF t.db[n] = None THEN [acc EXCEPT !.t.cl[c].stale = @ \ {n}]
         ELSE [acc EXCEPT !.stop = TRUE]

RunNext(c, acc, cmd) ==
  [t |-> Call(acc.t, c, cmd, acc.v), v |-> acc.v + (IF Writes(cmd) THEN 1 ELSE 0)]

\* A step of either.
Round(loop, t, x, acc, y) == IF loop = "touch" THEN Visit(t, x, acc, y) ELSE RunNext(x, acc, y)

\* f is the fold over a sequence q, of which it has the outcome for every set of
\* positions.
IsFold(loop, t, x, base, q, D, f) ==
  f = [S \in SUBSET D |-> IF S = {} THEN base
                          ELSE LET i == Max(S) IN Round(loop, t, x, f[S \ {i}], q[i])]
IsVisitFold(t, x, base, q, D, f) ==
  f = [S \in SUBSET D |-> IF S = {} THEN base
                          ELSE LET i == Max(S) IN Visit(t, x, f[S \ {i}], q[i])]
IsRunFold(x, base, q, D, f) ==
  f = [S \in SUBSET D |-> IF S = {} THEN base
                          ELSE LET i == Max(S) IN RunNext(x, f[S \ {i}], q[i])]

\* f has its outcome for the positions up to each.
Iterates(loop, t, x, base, q, f) ==
  /\ f[0] = base
  /\ \A i \in 1 .. Len(q) : f[i] = Round(loop, t, x, f[i - 1], q[i])

\* A set of numbers that is not empty has a least element.
LEMMA LeastElement ==
    ASSUME NEW S \in SUBSET Nat, S # {}
    PROVE  \E p \in S : \A q \in S : p <= q
<1>1. PICK p \in S : \A q \in S : ~ (<<q, p>> \in OpToRel(<, Nat))
  BY NatLessThanWellFounded, WFMin
<1>2. \A q \in S : ~ (q < p)
  BY <1>1 DEF OpToRel
<1> QED BY <1>2

\* The last position of those up to k, of which k is one.
LEMMA LastPosition ==
    ASSUME NEW k \in Nat, NEW S \in SUBSET (1 .. k), k \in S
    PROVE  Max(S) = k
<1> DEFINE P(x) == x \in S /\ \A y \in S : x >= y
<1>1. \A y \in S : y \in Nat /\ y <= k
  OBVIOUS
<1>2. P(k)
  BY <1>1
<1>3. ASSUME NEW x, P(x) PROVE x = k
  <2>1. x \in Nat /\ x <= k /\ x >= k
    BY <1>1, <1>3
  <2> QED BY <2>1
<1>4. Max(S) = CHOOSE x \in S : \A y \in S : x >= y
  BY DEF Max
<1> QED BY <1>2, <1>3, <1>4

\* The fold exists.
LEMMA FoldExists ==
    ASSUME NEW loop, NEW t, NEW x, NEW base, NEW q, NEW N \in Nat
    PROVE  \E f : IsFold(loop, t, x, base, q, 1 .. N, f)
<1> DEFINE Bad == {k \in Nat : ~ \E f : IsFold(loop, t, x, base, q, 1 .. k, f)}
<1>1. SUFFICES ASSUME Bad # {} PROVE FALSE
  OBVIOUS
<1>2. PICK k \in Bad : \A j \in Bad : k <= j
  BY <1>1, LeastElement
<1>3. CASE k = 0
  <2> DEFINE f == [S \in SUBSET (1 .. k) |-> base]
  <2>1. \A S \in SUBSET (1 .. k) : S = {}
    BY <1>3
  <2>2. IsFold(loop, t, x, base, q, 1 .. k, f)
    BY <2>1 DEF IsFold
  <2> QED BY <2>2
<1>4. CASE k # 0
  <2>1. k \in Nat /\ k - 1 \in Nat
    BY <1>4
  <2>2. PICK g : IsFold(loop, t, x, base, q, 1 .. (k - 1), g)
    <3>1. k - 1 \notin Bad
      <4> HIDE DEF Bad
      <4> QED BY <1>2, <2>1
    <3> QED BY <2>1, <3>1
  <2> DEFINE f == [S \in SUBSET (1 .. k) |->
                     IF k \in S THEN Round(loop, t, x, g[S \ {k}], q[k]) ELSE g[S]]
             After(S) == IF S = {} THEN base
                         ELSE Round(loop, t, x, f[S \ {Max(S)}], q[Max(S)])
  <2>3. ASSUME NEW S \in SUBSET (1 .. k) PROVE f[S] = After(S)
    <3>1. CASE k \in S
      <4>1. S # {} /\ Max(S) = k
        BY <2>1, <3>1, LastPosition
      <4>2. S \ {k} \in SUBSET (1 .. k) /\ k \notin S \ {k}
        OBVIOUS
      <4>3. f[S \ {k}] = g[S \ {k}] /\ f[S] = Round(loop, t, x, g[S \ {k}], q[k])
        BY <3>1, <4>2
      <4> HIDE DEF f
      <4> QED BY <4>1, <4>3
    <3>2. CASE k \notin S
      <4> DEFINE i == Max(S)
      <4>1. \A y \in 1 .. k : y # k => y \in 1 .. (k - 1)
        BY <2>1
      <4> HIDE DEF i
      <4>2. S \in SUBSET (1 .. (k - 1)) /\ S \ {i} \in SUBSET (1 .. k) /\ k \notin S \ {i}
        BY <3>2, <4>1
      <4>3. f[S] = g[S] /\ f[S \ {i}] = g[S \ {i}]
        BY <3>2, <4>2
      <4>4. g[S] = IF S = {} THEN base ELSE Round(loop, t, x, g[S \ {i}], q[i])
        BY <2>2, <4>2 DEF IsFold, i
      <4> HIDE DEF f
      <4> QED BY <4>3, <4>4 DEF i
    <3> QED BY <3>1, <3>2
  <2>4. f = [S \in SUBSET (1 .. k) |-> After(S)]
    <3>1. f = [S \in SUBSET (1 .. k) |-> f[S]]
      OBVIOUS
    <3> HIDE DEF f, After
    <3> QED BY <2>3, <3>1
  <2>5. IsFold(loop, t, x, base, q, 1 .. k, f)
    <3> HIDE DEF f
    <3> QED BY <2>4 DEF IsFold
  <2> HIDE DEF f
  <2> QED BY <2>1, <2>5
<1> QED BY <1>3, <1>4

\* And goes through the positions in order.
LEMMA FoldIterates ==
    ASSUME NEW loop, NEW t, NEW x, NEW base, NEW E, NEW q \in Seq(E), NEW g,
           IsFold(loop, t, x, base, q, DOMAIN q, g)
    PROVE  \E f : Iterates(loop, t, x, base, q, f) /\ f[Len(q)] = g[DOMAIN q]
<1> DEFINE N == Len(q)
           f == [i \in 0 .. N |-> g[1 .. i]]
<1>1. N \in Nat /\ DOMAIN q = 1 .. N
  OBVIOUS
<1> HIDE DEF N
<1>2. g[{}] = base
  BY DEF IsFold
<1>3. ASSUME NEW i \in 1 .. N PROVE g[1 .. i] = Round(loop, t, x, g[1 .. (i - 1)], q[i])
  <2>1. i \in Nat /\ i \in 1 .. i /\ (1 .. i) \ {i} = 1 .. (i - 1) /\ 1 .. i \in SUBSET (1 .. N)
    BY <1>1
  <2>2. Max(1 .. i) = i /\ 1 .. i # {}
    BY <2>1, LastPosition
  <2>3. g[1 .. i] = Round(loop, t, x, g[(1 .. i) \ {Max(1 .. i)}], q[Max(1 .. i)])
    BY <1>1, <2>1, <2>2 DEF IsFold
  <2> QED BY <2>1, <2>2, <2>3
<1>4. /\ f[0] = base
      /\ \A i \in 1 .. N : f[i] = Round(loop, t, x, f[i - 1], q[i])
      /\ f[N] = g[DOMAIN q]
  <2>1. 1 .. 0 = {} /\ 0 \in 0 .. N /\ N \in 0 .. N
    BY <1>1
  <2>2. \A i \in 1 .. N : i \in 0 .. N /\ i - 1 \in 0 .. N
    BY <1>1
  <2> QED BY <1>1, <1>2, <1>3, <2>1, <2>2
<1> HIDE DEF f
<1> QED BY <1>4 DEF Iterates, N

\* touchWatchedKey is the last of its iterates.
LEMMA TouchFold ==
    ASSUME NEW t, NEW n, t.watched_keys[n] \in Seq(Clients)
    PROVE  \E f : /\ Iterates("touch", t, n, [t |-> t, stop |-> FALSE], t.watched_keys[n], f)
                  /\ TouchWatchedKey(t, n) = f[Len(t.watched_keys[n])].t
<1> DEFINE base == [t |-> t, stop |-> FALSE]
           q == t.watched_keys[n]
           g == CHOOSE h : IsVisitFold(t, n, base, q, DOMAIN q, h)
<1>1. Len(q) \in Nat /\ DOMAIN q = 1 .. Len(q)
  OBVIOUS
<1>2. TouchWatchedKey(t, n) = g[DOMAIN q].t
  BY DEF TouchWatchedKey, FoldLeft, MapThenFoldSet, IsVisitFold, Visit
<1> HIDE DEF q, base
<1>3. \A h : IsVisitFold(t, n, base, q, DOMAIN q, h) <=> IsFold("touch", t, n, base, q, DOMAIN q, h)
  BY DEF IsVisitFold, IsFold, Round
<1>4. \E h : IsVisitFold(t, n, base, q, DOMAIN q, h)
  BY <1>1, <1>3, FoldExists
<1>5. IsFold("touch", t, n, base, q, DOMAIN q, g)
  BY <1>3, <1>4
<1> HIDE DEF g
<1>6. \E f : Iterates("touch", t, n, base, q, f) /\ f[Len(q)] = g[DOMAIN q]
  BY <1>5, FoldIterates DEF q
<1> QED BY <1>2, <1>6 DEF q, base

\* The queue of an EXEC is run by the last of its iterates.
LEMMA RunFold ==
    ASSUME NEW t, NEW c, NEW v, NEW q \in Seq(Commands)
    PROVE  \E f : /\ Iterates("run", t, c, [t |-> t, v |-> v], q, f)
                  /\ RunQueue(t, c, q, v) = f[Len(q)]
<1> DEFINE base == [t |-> t, v |-> v]
           g == CHOOSE h : IsRunFold(c, base, q, DOMAIN q, h)
<1>1. Len(q) \in Nat /\ DOMAIN q = 1 .. Len(q)
  OBVIOUS
<1>2. RunQueue(t, c, q, v) = g[DOMAIN q]
  BY DEF RunQueue, FoldLeft, MapThenFoldSet, IsRunFold, RunNext
<1> HIDE DEF base
<1>3. \A h : IsRunFold(c, base, q, DOMAIN q, h) <=> IsFold("run", t, c, base, q, DOMAIN q, h)
  BY DEF IsRunFold, IsFold, Round
<1>4. \E h : IsRunFold(c, base, q, DOMAIN q, h)
  BY <1>1, <1>3, FoldExists
<1>5. IsFold("run", t, c, base, q, DOMAIN q, g)
  BY <1>3, <1>4
<1> HIDE DEF g
<1>6. \E f : Iterates("run", t, c, base, q, f) /\ f[Len(q)] = g[DOMAIN q]
  BY <1>5, FoldIterates
<1> QED BY <1>2, <1>6 DEF base

(***************************************************************************)
(* The server: its types, and the lists of watchers.                       *)
(***************************************************************************)

\* What is known when k writes have been made.
CellTo(k) == [val : UpTo(k), ttl : UpTo(k), expired : BOOLEAN]
ServerTo(k) == [db : [Names -> CellTo(k)], watched_keys : [Names -> Seq(Clients)],
                watching_clients : 0 .. Cardinality(Clients), cl : [Clients -> Client],
                replica : BOOLEAN]

\* The client x of a server; on a replica it can queue no writes.
ClientSound(x, replica) ==
  /\ x \in Client /\ x.stale \subseteq x.watched /\ Len(x.queue) <= MaxQueue
  /\ replica => \A i \in 1 .. Len(x.queue) : x.queue[i].op \in {"get", "unwatch"}

Watchers(t) == {c \in Clients : t.cl[c].watched # {}}
ListSound(t, n) ==
  /\ IsInjective(t.watched_keys[n])
  /\ \A c \in Clients : n \in t.cl[c].watched <=> Contains(t.watched_keys[n], c)
Lists(t) == (\A n \in Names : ListSound(t, n)) /\ t.watching_clients = Cardinality(Watchers(t))

Good(t, k) == t \in ServerTo(k) /\ Lists(t) /\ \A c \in Clients : ClientSound(t.cl[c], t.replica)

LEMMA UpToFields ==
    ASSUME NEW k \in Nat
    PROVE  /\ 0 \in UpTo(k) /\ k \in UpTo(k)
           /\ \A j \in Nat : j >= k => UpTo(k) \subseteq UpTo(j)
BY DEF UpTo

\* What was written by the k-th write, at a later one.
LEMMA CellsGrow ==
    ASSUME NEW k \in Nat, NEW j \in Nat, j >= k PROVE CellTo(k) \subseteq CellTo(j)
BY UpToFields DEF CellTo

\* The types of the parts of a server, and of a client.
LEMMA ServerFields ==
    ASSUME NEW k, NEW t, t \in ServerTo(k)
    PROVE  /\ t.db \in [Names -> CellTo(k)] /\ t.watched_keys \in [Names -> Seq(Clients)]
           /\ t.watching_clients \in 0 .. Cardinality(Clients)
           /\ t.cl \in [Clients -> Client] /\ t.replica \in BOOLEAN
           /\ t = [db |-> t.db, watched_keys |-> t.watched_keys,
                   watching_clients |-> t.watching_clients, cl |-> t.cl, replica |-> t.replica]
BY DEF ServerTo

LEMMA ClientFields ==
    ASSUME NEW x \in Client
    PROVE  /\ x.multi \in BOOLEAN /\ x.cas \in BOOLEAN /\ x.err \in BOOLEAN
           /\ x.queue \in Seq(Commands) /\ x.watched \in SUBSET Names /\ x.stale \in SUBSET Names
BY DEF Client

\* Where the elements of a concatenation come from.
LEMMA Concatenated ==
    ASSUME NEW E, NEW a \in Seq(E), NEW b \in Seq(E)
    PROVE  /\ a \o b \in Seq(E) /\ Len(a \o b) = Len(a) + Len(b)
           /\ \A i \in 1 .. Len(a) + Len(b) :
                (a \o b)[i] = IF i <= Len(a) THEN a[i] ELSE b[i - Len(a)]
OBVIOUS

\* The watcher c leaves a list that has it once.
LEMMA Removed ==
    ASSUME NEW q \in Seq(Clients), IsInjective(q), NEW c \in Clients
    PROVE  /\ RemoveFirst(q, c) \in Seq(Clients)
           /\ IsInjective(RemoveFirst(q, c))
           /\ \A d \in Clients : Contains(RemoveFirst(q, c), d) <=> Contains(q, d) /\ d # c
<1> DEFINE r == RemoveFirst(q, c)
<1>1. CASE ~ \E i \in 1 .. Len(q) : q[i] = c
  <2>1. r = q
    BY <1>1 DEF RemoveFirst
  <2> HIDE DEF r
  <2> QED BY <1>1, <2>1 DEF Contains, r
<1>2. ASSUME NEW p \in 1 .. Len(q), q[p] = c PROVE r \in Seq(Clients) /\ IsInjective(r)
                    /\ \A d \in Clients : Contains(r, d) <=> Contains(q, d) /\ d # c
  <2> DEFINE I == {i \in 1 .. Len(q) : q[i] = c}
  <2>1. I = {p}
    BY <1>2 DEF IsInjective
  <2>2. Min(I) = p
    <3>1. Min(I) = CHOOSE x \in I : \A y \in I : x <= y
      BY DEF Min
    <3>2. p <= p
      OBVIOUS
    <3> HIDE DEF I
    <3> QED BY <2>1, <3>1, <3>2
  <2>3. SelectInSeq(q, LAMBDA v : v = c) = p
    <3>1. SelectInSeq(q, LAMBDA v : v = c) = IF I # {} THEN Min(I) ELSE 0
      BY DEF SelectInSeq
    <3> HIDE DEF I
    <3> QED BY <2>1, <2>2, <3>1
  <2>4. r = SubSeq(q, 1, p - 1) \o SubSeq(q, p + 1, Len(q))
    BY <1>2, <2>3 DEF RemoveFirst, RemoveAt
  <2> DEFINE a == SubSeq(q, 1, p - 1)
             b == SubSeq(q, p + 1, Len(q))
             N == Len(q)
  <2>5. N \in Nat /\ p \in 1 .. N
    OBVIOUS
  <2>6. /\ a \in Seq(Clients) /\ Len(a) = p - 1 /\ \A i \in 1 .. p - 1 : a[i] = q[i]
        /\ b \in Seq(Clients) /\ Len(b) = N - p /\ \A i \in 1 .. N - p : b[i] = q[p + i]
    OBVIOUS
  <2>7. r = a \o b
    BY <2>4
  <2> HIDE DEF r, a, b
  <2>8. /\ r \in Seq(Clients) /\ Len(r) = N - 1
        /\ \A i \in 1 .. N - 1 : r[i] = IF i < p THEN q[i] ELSE q[i + 1]
    <3>1. r \in Seq(Clients) /\ Len(r) = Len(a) + Len(b)
          /\ \A i \in 1 .. Len(a) + Len(b) : r[i] = IF i <= Len(a) THEN a[i] ELSE b[i - Len(a)]
      BY <2>6, <2>7, Concatenated
    <3> HIDE DEF N
    <3>2. Len(r) = N - 1
      BY <2>5, <2>6, <3>1
    <3>3. ASSUME NEW i \in 1 .. N - 1 PROVE r[i] = IF i < p THEN q[i] ELSE q[i + 1]
      <4>1. r[i] = IF i <= p - 1 THEN a[i] ELSE b[i - (p - 1)]
        BY <2>5, <2>6, <3>1, <3>2
      <4>2. CASE i < p
        BY <2>5, <2>6, <4>1, <4>2
      <4>3. CASE ~(i < p)
        <5>1. i - (p - 1) \in 1 .. N - p /\ p + (i - (p - 1)) = i + 1 /\ ~(i <= p - 1)
          BY <2>5, <4>3
        <5>2. b[i - (p - 1)] = q[p + (i - (p - 1))]
          BY <2>6, <5>1
        <5> QED BY <4>1, <4>3, <5>1, <5>2
      <4> QED BY <4>2, <4>3
    <3> QED BY <3>1, <3>2, <3>3
  <2>9. \A i, j \in 1 .. N : q[i] = q[j] => i = j
    BY DEF IsInjective, N
  <2> DEFINE at(i) == IF i < p THEN i ELSE i + 1
  <2>10. \A i \in 1 .. N - 1 : at(i) \in 1 .. N /\ at(i) # p /\ r[i] = q[at(i)]
    <3> HIDE DEF N
    <3> QED BY <2>5, <2>8
  <2>11. \A i, j \in 1 .. N - 1 : at(i) = at(j) => i = j
    <3> HIDE DEF N
    <3> QED BY <2>5
  <2>12. \A j \in 1 .. N : j # p => \E i \in 1 .. N - 1 : at(i) = j
    <3> HIDE DEF N
    <3> SUFFICES ASSUME NEW j \in 1 .. N, j # p PROVE \E i \in 1 .. N - 1 : at(i) = j
      OBVIOUS
    <3>1. CASE j < p
      BY <2>5, <3>1
    <3>2. CASE j > p
      <4>1. j - 1 \in 1 .. N - 1 /\ at(j - 1) = j
        BY <2>5, <3>2
      <4> QED BY <4>1
    <3> QED BY <2>5, <3>1, <3>2
  <2> HIDE DEF at
  <2>13. IsInjective(r)
    <3>1. DOMAIN r = 1 .. N - 1
      BY <2>8
    <3>2. \A i, j \in 1 .. N - 1 : r[i] = r[j] => i = j
      BY <2>9, <2>10, <2>11
    <3> QED BY <3>1, <3>2 DEF IsInjective
  <2>14. ASSUME NEW d \in Clients PROVE Contains(r, d) <=> Contains(q, d) /\ d # c
    <3>1. ASSUME NEW i \in 1 .. N - 1, r[i] = d PROVE Contains(q, d) /\ d # c
      <4>1. at(i) \in 1 .. N /\ q[at(i)] = d /\ at(i) # p
        BY <2>10, <3>1
      <4> QED BY <1>2, <2>9, <4>1 DEF Contains, N
    <3>2. ASSUME NEW j \in 1 .. N, q[j] = d, d # c PROVE Contains(r, d)
      <4>1. j # p
        BY <1>2, <3>2
      <4>2. PICK i \in 1 .. N - 1 : at(i) = j
        BY <2>12, <4>1
      <4>3. i \in 1 .. Len(r) /\ r[i] = d
        BY <2>8, <2>10, <3>2, <4>2
      <4> QED BY <4>3 DEF Contains
    <3> QED BY <2>8, <3>1, <3>2 DEF Contains, N
  <2> QED BY <2>8, <2>13, <2>14
<1> QED BY <1>1, <1>2

\* The clients change, but not in what they watch.
LEMMA ClientsChange ==
    ASSUME NEW k, NEW t, Good(t, k), NEW x,
           x \in [Clients -> Client],
           \A d \in Clients : x[d].watched = t.cl[d].watched /\ ClientSound(x[d], t.replica)
    PROVE  /\ Good([t EXCEPT !.cl = x], k)
           /\ [t EXCEPT !.cl = x].cl = x
           /\ [t EXCEPT !.cl = x].db = t.db /\ [t EXCEPT !.cl = x].replica = t.replica
           /\ [t EXCEPT !.cl = x].watched_keys = t.watched_keys
<1> DEFINE r == [t EXCEPT !.cl = x]
<1>1. /\ r \in ServerTo(k) /\ r.cl = x /\ r.db = t.db /\ r.replica = t.replica
      /\ r.watched_keys = t.watched_keys /\ r.watching_clients = t.watching_clients
  BY DEF Good, ServerTo
<1> HIDE DEF r
<1>2. Watchers(r) = Watchers(t)
  BY <1>1 DEF Watchers
<1>3. Lists(r)
  BY <1>1, <1>2 DEF Lists, ListSound, Good
<1> QED BY <1>1, <1>3 DEF Good, r

\* One client changes, and not what it watches: both ends still agree.
LEMMA ClientChanges ==
    ASSUME NEW k, NEW t, Good(t, k), NEW c \in Clients, NEW y,
           y.watched = t.cl[c].watched, ClientSound(y, t.replica)
    PROVE  /\ Good([t EXCEPT !.cl[c] = y], k)
           /\ [t EXCEPT !.cl[c] = y].cl = [t.cl EXCEPT ![c] = y]
           /\ [t EXCEPT !.cl[c] = y].db = t.db /\ [t EXCEPT !.cl[c] = y].replica = t.replica
           /\ [t EXCEPT !.cl[c] = y].watched_keys = t.watched_keys
<1> DEFINE x == [t.cl EXCEPT ![c] = y]
<1>1. t.cl \in [Clients -> Client] /\ \A d \in Clients : ClientSound(t.cl[d], t.replica)
  BY DEF Good, ServerTo
<1>2. /\ x \in [Clients -> Client]
      /\ \A d \in Clients : x[d].watched = t.cl[d].watched /\ ClientSound(x[d], t.replica)
  BY <1>1 DEF ClientSound
<1>3. [t EXCEPT !.cl[c] = y] = [t EXCEPT !.cl = x]
  OBVIOUS
<1> HIDE DEF x
<1>4. /\ Good([t EXCEPT !.cl = x], k)
      /\ [t EXCEPT !.cl = x].cl = x
      /\ [t EXCEPT !.cl = x].db = t.db /\ [t EXCEPT !.cl = x].replica = t.replica
      /\ [t EXCEPT !.cl = x].watched_keys = t.watched_keys
  BY <1>2, ClientsChange
<1> QED BY <1>3, <1>4 DEF x

\* Finitely many clients watch.
LEMMA Counting ==
    ASSUME NEW k, NEW t, Good(t, k)
    PROVE  IsFiniteSet(Watchers(t)) /\ Cardinality(Watchers(t)) \in Nat
           /\ Cardinality(Clients) \in Nat
BY TransactionConstants, FS_Subset, FS_CardinalityType DEF Watchers

\* No more clients watch than there are.
LEMMA CountBound ==
    ASSUME NEW t
    PROVE  Cardinality(Watchers(t)) \in 0 .. Cardinality(Clients)
<1>1. Watchers(t) \subseteq Clients /\ IsFiniteSet(Clients)
  BY TransactionConstants DEF Watchers
<1>2. /\ IsFiniteSet(Watchers(t)) /\ Cardinality(Watchers(t)) <= Cardinality(Clients)
  BY <1>1, FS_Subset
<1>3. Cardinality(Watchers(t)) \in Nat /\ Cardinality(Clients) \in Nat
  BY <1>1, <1>2, FS_CardinalityType
<1> QED BY <1>2, <1>3

\* What a client that watches no more leaves behind.
Unwatched(x) == [x EXCEPT !.watched = {}, !.stale = {}]

\* unwatchAllKeys: the client is on no list any more, and the other watchers stay in their order.
LEMMA UnwatchFields ==
    ASSUME NEW k, NEW t, Good(t, k), NEW c \in Clients
    PROVE  /\ Good(UnwatchAllKeys(t, c), k)
           /\ UnwatchAllKeys(t, c).db = t.db /\ UnwatchAllKeys(t, c).replica = t.replica
           /\ UnwatchAllKeys(t, c).cl = [t.cl EXCEPT ![c] = Unwatched(@)]
<1> DEFINE r == UnwatchAllKeys(t, c)
           x == t.cl[c]
           cl2 == [t.cl EXCEPT ![c] = Unwatched(@)]
<1>1. /\ t \in ServerTo(k) /\ t.cl \in [Clients -> Client] /\ x \in Client
      /\ \A d \in Clients : ClientSound(t.cl[d], t.replica)
  BY DEF Good, ServerTo
<1>2. x.stale \subseteq x.watched
  BY <1>1 DEF ClientSound
<1>3. CASE x.watched = {}
  <2>1. r = t
    BY <1>3 DEF UnwatchAllKeys
  <2>2. Unwatched(x) = x
    BY <1>1, <1>2, <1>3 DEF Unwatched, Client
  <2>3. cl2 = t.cl
    BY <1>1, <2>2
  <2> QED BY <2>1, <2>3
<1>4. CASE x.watched # {}
  <2> DEFINE lists == [n \in Names |-> IF n \in x.watched THEN RemoveFirst(t.watched_keys[n], c)
                                       ELSE t.watched_keys[n]]
  <2>1. r = [t EXCEPT !.watched_keys = lists, !.cl[c].watched = {}, !.cl[c].stale = {},
                      !.watching_clients = @ - 1]
    BY <1>4 DEF UnwatchAllKeys
  <2>2. \A n \in Names : t.watched_keys[n] \in Seq(Clients) /\ ListSound(t, n)
    BY DEF Good, ServerTo, Lists
  <2> HIDE DEF lists
  <2>3. /\ r.db = t.db /\ r.replica = t.replica /\ r.watched_keys = lists
        /\ r.cl = cl2 /\ r.watching_clients = t.watching_clients - 1
        /\ r = [db |-> r.db, watched_keys |-> r.watched_keys,
                watching_clients |-> r.watching_clients, cl |-> r.cl, replica |-> r.replica]
    <3> DEFINE cl1 == [t.cl EXCEPT ![c].watched = {}]
               cl3 == [cl1 EXCEPT ![c].stale = {}]
    <3>1. r = [[[t EXCEPT !.watched_keys = lists] EXCEPT !.cl = cl3]
                 EXCEPT !.watching_clients = t.watching_clients - 1]
      BY <1>1, <2>1, ServerFields
    <3>2. cl3 = cl2
      BY <1>1 DEF Unwatched, Client
    <3> HIDE DEF cl3, cl2, r
    <3> QED BY <1>1, <3>1, <3>2, ServerFields DEF ServerTo
  <2>4. Unwatched(x) \in Client /\ ClientSound(Unwatched(x), t.replica)
        /\ Unwatched(x).watched = {} /\ Unwatched(x).stale = {}
    BY <1>1 DEF Client, ClientSound, Unwatched
  <2>5. /\ cl2 \in [Clients -> Client]
        /\ \A d \in Clients : ClientSound(cl2[d], t.replica)
        /\ \A d \in Clients : cl2[d].watched = IF d = c THEN {} ELSE t.cl[d].watched
    BY <1>1, <2>4
  <2> HIDE DEF r, cl2
  <2>6. ASSUME NEW n \in Names PROVE lists[n] \in Seq(Clients) /\ ListSound(r, n)
    <3>1. CASE n \in x.watched
      <4>1. lists[n] = RemoveFirst(t.watched_keys[n], c)
        BY <3>1 DEF lists
      <4> DEFINE q == t.watched_keys[n]
      <4>4. q \in Seq(Clients) /\ IsInjective(q)
        BY <2>2 DEF ListSound
      <4> HIDE DEF q
      <4>5. /\ RemoveFirst(q, c) \in Seq(Clients) /\ IsInjective(RemoveFirst(q, c))
            /\ \A d \in Clients : Contains(RemoveFirst(q, c), d) <=> Contains(q, d) /\ d # c
        BY <4>4, Removed
      <4>2. /\ lists[n] \in Seq(Clients) /\ IsInjective(lists[n])
            /\ \A d \in Clients : Contains(lists[n], d) <=> Contains(t.watched_keys[n], d) /\ d # c
        BY <4>1, <4>5 DEF q
      <4>3. \A d \in Clients : n \in t.cl[d].watched <=> Contains(t.watched_keys[n], d)
        BY <2>2 DEF ListSound
      <4> QED BY <2>3, <2>5, <4>2, <4>3 DEF ListSound
    <3>2. CASE n \notin x.watched
      <4>1. lists[n] = t.watched_keys[n]
        BY <3>2 DEF lists
      <4> QED BY <2>2, <2>3, <2>5, <3>2, <4>1 DEF ListSound
    <3> QED BY <3>1, <3>2
  <2>7. Watchers(r) = Watchers(t) \ {c} /\ c \in Watchers(t)
    BY <1>4, <2>3, <2>5 DEF Watchers
  <2>8. r.watching_clients = Cardinality(Watchers(r))
    <3>1. t.watching_clients = Cardinality(Watchers(t)) /\ IsFiniteSet(Watchers(t))
      BY Counting DEF Good, Lists
    <3>2. Cardinality(Watchers(t) \ {c}) = Cardinality(Watchers(t)) - 1
      BY <2>7, <3>1, FS_RemoveElement
    <3> QED BY <2>3, <2>7, <3>1, <3>2
  <2>9. r \in ServerTo(k)
    <3>1. r.watched_keys \in [Names -> Seq(Clients)]
      <4>1. lists = [n \in Names |-> lists[n]]
        BY DEF lists
      <4> QED BY <2>3, <2>6, <4>1
    <3>2. r.watching_clients \in 0 .. Cardinality(Clients)
      BY <2>8, CountBound
    <3>3. r.db \in [Names -> CellTo(k)] /\ r.replica \in BOOLEAN /\ r.cl \in [Clients -> Client]
      BY <2>3, <2>5 DEF Good, ServerTo
    <3> QED BY <2>3, <3>1, <3>2, <3>3 DEF ServerTo
  <2>10. Good(r, k)
    BY <2>3, <2>5, <2>6, <2>8, <2>9 DEF Good, Lists
  <2> QED BY <2>3, <2>10 DEF r, cl2
<1> QED BY <1>3, <1>4

\* A client that is told of a change: marked, and unwatched.
LEMMA TouchedFields ==
    ASSUME NEW k, NEW t, Good(t, k), NEW c \in Clients
    PROVE  /\ Good(Touched(t, c), k)
           /\ Touched(t, c).db = t.db /\ Touched(t, c).replica = t.replica
           /\ Touched(t, c).cl = [t.cl EXCEPT ![c] = Unwatched([@ EXCEPT !.cas = TRUE])]
<1> DEFINE y == [t.cl[c] EXCEPT !.cas = TRUE]
           u == [t EXCEPT !.cl[c] = y]
<1>1. t.cl \in [Clients -> Client] /\ ClientSound(t.cl[c], t.replica)
  BY DEF Good, ServerTo
<1>2. ClientSound(y, t.replica) /\ y.watched = t.cl[c].watched
  BY <1>1 DEF ClientSound, Client
<1>3. [t EXCEPT !.cl[c].cas = TRUE] = u
  OBVIOUS
<1> HIDE DEF y
<1>4. Good(u, k) /\ u.cl = [t.cl EXCEPT ![c] = y] /\ u.db = t.db /\ u.replica = t.replica
  BY <1>2, ClientChanges
<1> HIDE DEF u
<1>5. Touched(t, c) = UnwatchAllKeys(u, c)
  BY <1>3 DEF Touched
<1>6. /\ Good(Touched(t, c), k) /\ Touched(t, c).db = t.db /\ Touched(t, c).replica = t.replica
      /\ Touched(t, c).cl = [u.cl EXCEPT ![c] = Unwatched(@)]
  BY <1>4, <1>5, UnwatchFields
<1>7. [u.cl EXCEPT ![c] = Unwatched(@)] = [t.cl EXCEPT ![c] = Unwatched(y)]
  BY <1>1, <1>4
<1>8. [t.cl EXCEPT ![c] = Unwatched(y)] = [t.cl EXCEPT ![c] = Unwatched([@ EXCEPT !.cas = TRUE])]
  BY DEF y
<1> QED BY <1>6, <1>7, <1>8

LEMMA IdleSound == ASSUME NEW b PROVE ClientSound(Idle, b)
BY TransactionConstants DEF ClientSound, Client, Idle

\* discardTransaction leaves a client idle, and the others as they were.
LEMMA DiscardFields ==
    ASSUME NEW k, NEW t, Good(t, k), NEW c \in Clients
    PROVE  /\ Good(DiscardTransaction(t, c), k)
           /\ DiscardTransaction(t, c).db = t.db /\ DiscardTransaction(t, c).replica = t.replica
           /\ DiscardTransaction(t, c).cl = [t.cl EXCEPT ![c] = Idle]
<1> DEFINE u == UnwatchAllKeys(t, c)
<1>1. /\ Good(u, k) /\ u.db = t.db /\ u.replica = t.replica
      /\ u.cl = [t.cl EXCEPT ![c] = Unwatched(@)]
  BY UnwatchFields
<1>2. t.cl \in [Clients -> Client] /\ t.cl[c] \in Client
  BY DEF Good, ServerTo
<1>3. DiscardTransaction(t, c) = [u EXCEPT !.cl[c] = Idle]
  BY DEF DiscardTransaction
<1> DEFINE y == Idle
<1>4. y.watched = u.cl[c].watched
  BY <1>1, <1>2 DEF Unwatched, Idle, Client
<1>5. ClientSound(y, u.replica)
  BY IdleSound
<1> HIDE DEF u, y
<1>6. /\ Good([u EXCEPT !.cl[c] = y], k)
      /\ [u EXCEPT !.cl[c] = y].cl = [u.cl EXCEPT ![c] = y]
      /\ [u EXCEPT !.cl[c] = y].db = u.db /\ [u EXCEPT !.cl[c] = y].replica = u.replica
  <2>1. Good(u, k)
    BY <1>1
  <2> QED BY <2>1, <1>4, <1>5, ClientChanges
<1>7. [u.cl EXCEPT ![c] = y] = [t.cl EXCEPT ![c] = y]
  BY <1>1, <1>2
<1> QED BY <1>1, <1>3, <1>6, <1>7 DEF y

(***************************************************************************)
(* A key that is touched.                                                  *)
(***************************************************************************)

\* What touchWatchedKey makes of a watcher d that it reaches.
Told(t, n, d) ==
  IF n \in t.cl[d].stale THEN [t.cl[d] EXCEPT !.stale = @ \ {n}]
  ELSE Unwatched([t.cl[d] EXCEPT !.cas = TRUE])

\* It does not end there.
Passed(t, n, d) == n \in t.cl[d].stale => t.db[n] = None

\* After the first i watchers of n.
Touching(k, t, n, i, acc) ==
  /\ Good(acc.t, k) /\ acc.t.db = t.db /\ acc.t.replica = t.replica
  /\ \A d \in Clients :
       acc.t.cl[d] = t.cl[d]
         \/ (acc.t.cl[d] = Told(t, n, d) /\ Passed(t, n, d) /\ n \in t.cl[d].watched)
  /\ \A j \in 1 .. Len(t.watched_keys[n]) : i < j =>
       acc.t.cl[t.watched_keys[n][j]] = t.cl[t.watched_keys[n][j]]
  /\ ~acc.stop => \A j \in 1 .. i : LET d == t.watched_keys[n][j] IN
                    acc.t.cl[d] = Told(t, n, d) /\ Passed(t, n, d)
  /\ acc.stop => \E e \in Clients : ~Passed(t, n, e)

\* One round of the loop of touchWatchedKey.
LEMMA VisitSound ==
    ASSUME NEW k, NEW t, Good(t, k), NEW n \in Names, NEW a, NEW c \in Clients, NEW b \in BOOLEAN,
           Good(a, k), a.db = t.db, a.replica = t.replica, a.cl[c] = t.cl[c],
           NEW r, r = Visit(t, n, [t |-> a, stop |-> b], c)
    PROVE  /\ r.stop \in BOOLEAN /\ r = [t |-> r.t, stop |-> r.stop]
           /\ Good(r.t, k) /\ r.t.db = t.db /\ r.t.replica = t.replica
           /\ \A d \in Clients : d # c => r.t.cl[d] = a.cl[d]
           /\ IF b \/ ~Passed(t, n, c) THEN r.stop /\ r.t = a
              ELSE ~r.stop /\ r.t.cl[c] = Told(t, n, c)
<1> DEFINE acc == [t |-> a, stop |-> b]
<1>1. acc.t = a /\ acc.stop = b
  OBVIOUS
<1>2. a.cl \in [Clients -> Client] /\ ClientSound(t.cl[c], t.replica) /\ t.cl[c] \in Client
  BY DEF Good, ServerTo
<1>3. CASE b
  <2>1. r = [t |-> a, stop |-> TRUE]
    BY <1>3 DEF Visit
  <2>2. r.t = a /\ r.stop = TRUE
    BY <2>1
  <2> QED BY <1>3, <2>1, <2>2
<1>4. CASE ~b /\ n \notin t.cl[c].stale
  <2>1. r = [t |-> Touched(a, c), stop |-> FALSE]
    BY <1>4 DEF Visit
  <2>2. /\ Good(Touched(a, c), k)
        /\ Touched(a, c).db = a.db /\ Touched(a, c).replica = a.replica
        /\ Touched(a, c).cl = [a.cl EXCEPT ![c] = Unwatched([@ EXCEPT !.cas = TRUE])]
    BY TouchedFields
  <2>3. /\ Touched(a, c).cl[c] = Told(t, n, c)
        /\ \A d \in Clients : d # c => Touched(a, c).cl[d] = a.cl[d]
    BY <1>2, <1>4, <2>2 DEF Told
  <2>4. Passed(t, n, c)
    BY <1>4 DEF Passed
  <2>5. r.t = Touched(a, c) /\ r.stop = FALSE
    BY <2>1
  <2> QED BY <1>4, <2>1, <2>2, <2>3, <2>4, <2>5
<1>5. CASE ~b /\ n \in t.cl[c].stale /\ t.db[n] = None
  <2> DEFINE y == [t.cl[c] EXCEPT !.stale = @ \ {n}]
             z == [a EXCEPT !.cl[c] = y]
  <2>1. r = [t |-> z, stop |-> FALSE]
    <3>1. r = [acc EXCEPT !.t.cl[c].stale = @ \ {n}]
      BY <1>5 DEF Visit
    <3>2. [acc EXCEPT !.t.cl[c].stale = @ \ {n}] = [acc EXCEPT !.t = z]
      OBVIOUS
    <3>3. [acc EXCEPT !.t = z] = [t |-> z, stop |-> b]
      <4> HIDE DEF z
      <4> QED OBVIOUS
    <3> QED BY <1>5, <3>1, <3>2, <3>3
  <2>2. y.watched = a.cl[c].watched /\ ClientSound(y, a.replica) /\ y = Told(t, n, c)
    BY <1>2, <1>5 DEF ClientSound, Client, Told
  <2>3. Passed(t, n, c)
    BY <1>5 DEF Passed
  <2> HIDE DEF y
  <2>4. Good(z, k) /\ z.cl = [a.cl EXCEPT ![c] = y] /\ z.db = a.db /\ z.replica = a.replica
    BY <2>2, ClientChanges
  <2> HIDE DEF z
  <2>5. r.t = z /\ r.stop = FALSE
    BY <2>1
  <2>6. z.cl[c] = y /\ \A d \in Clients : d # c => z.cl[d] = a.cl[d]
    BY <1>2, <2>4
  <2> QED BY <1>5, <2>1, <2>2, <2>3, <2>4, <2>5, <2>6
<1>6. CASE ~b /\ n \in t.cl[c].stale /\ t.db[n] # None
  <2>1. r = [t |-> a, stop |-> TRUE]
    BY <1>6 DEF Visit
  <2>2. ~Passed(t, n, c)
    BY <1>6 DEF Passed
  <2>3. r.t = a /\ r.stop = TRUE
    BY <2>1
  <2> QED BY <1>6, <2>1, <2>2, <2>3
<1> QED BY <1>3, <1>4, <1>5, <1>6

\* touchWatchedKey tells every watcher, or stops at one for which the key was expired.
LEMMA TouchSound ==
    ASSUME NEW k, NEW t, Good(t, k), NEW n \in Names
    PROVE  LET r == TouchWatchedKey(t, n) IN
           /\ Good(r, k) /\ r.db = t.db /\ r.replica = t.replica
           /\ \A d \in Clients :
                r.cl[d] = t.cl[d]
                  \/ (r.cl[d] = Told(t, n, d) /\ Passed(t, n, d) /\ n \in t.cl[d].watched)
           /\ (\A d \in Clients : Passed(t, n, d)) =>
                \A d \in Clients : n \in t.cl[d].watched => r.cl[d] = Told(t, n, d)
<1> DEFINE q == t.watched_keys[n]
           N == Len(q)
           base == [t |-> t, stop |-> FALSE]
<1>1. q \in Seq(Clients) /\ N \in Nat /\ ListSound(t, n)
  BY DEF Good, ServerTo, Lists
<1>2. PICK f : Iterates("touch", t, n, base, q, f) /\ TouchWatchedKey(t, n) = f[N].t
  BY <1>1, TouchFold
<1> DEFINE Well(i) == /\ f[i] = [t |-> f[i].t, stop |-> f[i].stop] /\ f[i].stop \in BOOLEAN
                      /\ Touching(k, t, n, i, f[i])
<1>3. Well(0)
  <2>1. f[0] = base
    BY <1>2 DEF Iterates
  <2>2. base.t = t /\ base.stop = FALSE
    OBVIOUS
  <2>3. 1 .. 0 = {}
    OBVIOUS
  <2> HIDE DEF base, q
  <2> QED BY <2>1, <2>2, <2>3 DEF Touching, base
<1>4. ASSUME NEW i \in 1 .. N, Well(i - 1) PROVE Well(i)
  <2> DEFINE a == f[i - 1].t
             b == f[i - 1].stop
             c == q[i]
             r == f[i]
  <2>1. c \in Clients /\ b \in BOOLEAN /\ f[i - 1] = [t |-> a, stop |-> b]
    BY <1>1, <1>4
  <2>2. r = Visit(t, n, [t |-> a, stop |-> b], c)
    <3>1. r = Round("touch", t, n, f[i - 1], q[i])
      BY <1>2 DEF Iterates
    <3> QED BY <2>1, <3>1 DEF Round
  <2>3. Touching(k, t, n, i - 1, f[i - 1])
    BY <1>4
  <2>4. Good(a, k) /\ a.db = t.db /\ a.replica = t.replica
    BY <2>3 DEF Touching
  <2>5. \A d \in Clients :
          a.cl[d] = t.cl[d]
            \/ (a.cl[d] = Told(t, n, d) /\ Passed(t, n, d) /\ n \in t.cl[d].watched)
    BY <2>3 DEF Touching
  <2>6. \A j \in 1 .. N : i - 1 < j => a.cl[q[j]] = t.cl[q[j]]
    BY <2>3 DEF Touching
  <2>7. ~b => \A j \in 1 .. i - 1 : a.cl[q[j]] = Told(t, n, q[j]) /\ Passed(t, n, q[j])
    BY <2>3 DEF Touching
  <2>8. b => \E e \in Clients : ~Passed(t, n, e)
    BY <2>3 DEF Touching
  <2>9. a.cl[c] = t.cl[c]
    BY <1>1, <2>6
  <2> HIDE DEF a, b, c, r
  <2>10. /\ r.stop \in BOOLEAN /\ r = [t |-> r.t, stop |-> r.stop]
         /\ Good(r.t, k) /\ r.t.db = t.db /\ r.t.replica = t.replica
         /\ \A d \in Clients : d # c => r.t.cl[d] = a.cl[d]
         /\ IF b \/ ~Passed(t, n, c) THEN r.stop /\ r.t = a
            ELSE ~r.stop /\ r.t.cl[c] = Told(t, n, c)
    BY <2>1, <2>2, <2>4, <2>9, VisitSound
  <2>11. \A j \in 1 .. N : q[j] \in Clients /\ (j # i => q[j] # c)
    BY <1>1 DEF ListSound, IsInjective, c
  <2>12. ASSUME NEW d \in Clients
         PROVE  r.t.cl[d] = t.cl[d]
                  \/ (r.t.cl[d] = Told(t, n, d) /\ Passed(t, n, d) /\ n \in t.cl[d].watched)
    <3>1. n \in t.cl[c].watched
      BY <1>1, <2>1 DEF ListSound, Contains, c
    <3> QED BY <2>5, <2>9, <2>10, <3>1
  <2>13. ASSUME NEW j \in 1 .. N, i < j PROVE r.t.cl[q[j]] = t.cl[q[j]]
    BY <1>1, <2>6, <2>10, <2>11, <2>13
  <2>14. ASSUME ~r.stop, NEW j \in 1 .. i
         PROVE  r.t.cl[q[j]] = Told(t, n, q[j]) /\ Passed(t, n, q[j])
    <3>1. ~b /\ Passed(t, n, c) /\ r.t.cl[c] = Told(t, n, c)
      BY <2>10, <2>14
    <3>2. CASE j = i
      BY <3>1, <3>2 DEF c
    <3>3. CASE j # i
      <4>1. j \in 1 .. i - 1 /\ j \in 1 .. N
        BY <1>1, <3>3
      <4> QED BY <2>7, <2>10, <2>11, <3>1, <3>3, <4>1
    <3> QED BY <3>2, <3>3
  <2>15. r.stop => \E e \in Clients : ~Passed(t, n, e)
    BY <2>1, <2>8, <2>10
  <2> HIDE DEF q
  <2>16. Touching(k, t, n, i, r)
    BY <2>10, <2>12, <2>13, <2>14, <2>15 DEF Touching, q
  <2> QED BY <2>10, <2>16 DEF r
<1> HIDE DEF q, N, Well
<1>5. Well(N)
  <2> DEFINE Bad == {i \in 0 .. N : ~Well(i)}
  <2>1. CASE Bad = {}
    BY <1>1, <2>1
  <2>2. CASE Bad # {}
    <3>1. Bad \in SUBSET Nat
      OBVIOUS
    <3>2. PICK p \in Bad : \A j \in Bad : p <= j
      BY <2>2, <3>1, LeastElement
    <3>3. p \in 1 .. N
      BY <1>1, <1>3, <3>2
    <3>4. Well(p - 1)
      <4>1. p - 1 \in 0 .. N /\ ~(p <= p - 1)
        BY <1>1, <3>3
      <4> QED BY <3>2, <4>1
    <3> QED BY <1>4, <3>2, <3>3, <3>4
  <2> QED BY <2>1, <2>2
<1> DEFINE r == f[N].t
<1>6. Touching(k, t, n, N, f[N]) /\ f[N].stop \in BOOLEAN
  BY <1>5 DEF Well
<1>7. /\ Good(r, k) /\ r.db = t.db /\ r.replica = t.replica
      /\ \A d \in Clients :
           r.cl[d] = t.cl[d]
             \/ (r.cl[d] = Told(t, n, d) /\ Passed(t, n, d) /\ n \in t.cl[d].watched)
  BY <1>6 DEF Touching
<1>8. ASSUME \A d \in Clients : Passed(t, n, d), NEW d \in Clients, n \in t.cl[d].watched
      PROVE  r.cl[d] = Told(t, n, d)
  <2>1. ~f[N].stop
    BY <1>6, <1>8 DEF Touching
  <2>2. PICK j \in 1 .. N : q[j] = d
    BY <1>1, <1>8 DEF ListSound, Contains, q, N
  <2> QED BY <1>6, <2>1, <2>2 DEF Touching, q, N
<1> QED BY <1>2, <1>7, <1>8

(***************************************************************************)
(* What the clients saw, and what they would find.                         *)
(***************************************************************************)

\* d watches n, and was not told of a change.
Clean(t, d, n) == n \in t.cl[d].watched /\ ~t.cl[d].cas
Fresh(cell) == [cell EXCEPT !.expired = FALSE]

KeySound(t, n, sn) ==
  /\ \A d \in Clients : Clean(t, d, n) =>
       IF n \in t.cl[d].stale THEN Expired(t, n) /\ sn[d][n] = None
       ELSE sn[d][n] = Fresh(t.db[n])
  /\ n \in Mismarked(t) => \A d \in Clients : ~Clean(t, d, n)
Sound(t, sn, mk) == \A n \in Names \ mk : KeySound(t, n, sn)

LEMMA FreshCell ==
    ASSUME NEW k \in Nat, NEW cell \in CellTo(k), cell.expired = FALSE PROVE Fresh(cell) = cell
BY DEF Fresh, CellTo

LEMMA FreshNone == Fresh(None) = None /\ None.expired = FALSE
<1>1. None \in CellTo(0) /\ None.expired = FALSE
  BY UpToFields DEF CellTo, None
<1> QED BY <1>1, FreshCell

\* Fewer watchers of the same cell, with the same flags.
LEMMA SoundLess ==
    ASSUME NEW t, NEW r, NEW n \in Names, NEW sn, KeySound(t, n, sn), r.db[n] = t.db[n],
           \A d \in Clients : Clean(r, d, n) =>
              Clean(t, d, n) /\ (n \in r.cl[d].stale <=> n \in t.cl[d].stale),
           \A d \in Clients : n \in r.cl[d].stale => n \in t.cl[d].stale
    PROVE  KeySound(r, n, sn)
<1>1. Expired(r, n) = Expired(t, n)
  BY DEF Expired
<1>2. n \in Mismarked(r) => n \in Mismarked(t)
  BY <1>1 DEF Mismarked
<1> QED BY <1>1, <1>2 DEF KeySound

LEMMA SoundWider == ASSUME NEW t, NEW sn, NEW mk, Sound(t, sn, mk), NEW more
                    PROVE  Sound(t, sn, mk \cup more)
BY DEF Sound

LEMMA ToldFields ==
    ASSUME NEW k, NEW t, Good(t, k), NEW n, NEW d \in Clients, NEW y, y = Told(t, n, d)
    PROVE  /\ n \in t.cl[d].stale => y.watched = t.cl[d].watched /\ y.cas = t.cl[d].cas
                                     /\ y.stale = t.cl[d].stale \ {n}
           /\ n \notin t.cl[d].stale => y.watched = {} /\ y.stale = {}
<1>1. t.cl[d] \in Client
  BY DEF Good, ServerTo
<1> QED BY <1>1 DEF Told, Unwatched, Client

\* A key that is put.
Live(k, cell) == cell \in CellTo(k) /\ cell.expired = FALSE

\* keyModified. Where a loop stops early, the key is masked; it cannot stop when
\* the key is deleted or was not expired.
LEMMA PutSound ==
    ASSUME NEW k, NEW t, Good(t, k), NEW n \in Names, NEW cell, Live(k, cell),
           NEW sn, NEW mk, Sound(t, sn, mk)
    PROVE  LET r == Put(t, n, cell) IN
           /\ Good(r, k) /\ r.replica = t.replica /\ r.db[n] = cell
           /\ Sound(r, sn, mk \cup Mismarked(r))
           /\ cell = None \/ ~Expired(t, n) => Sound(r, sn, mk)
<1> DEFINE u == [t EXCEPT !.db[n] = cell]
           r == Put(t, n, cell)
<1>0. cell \in CellTo(k) /\ cell.expired = FALSE
  BY DEF Live
<1>1. Good(u, k) /\ u.cl = t.cl /\ u.replica = t.replica /\ u.db = [t.db EXCEPT ![n] = cell]
  <2> DEFINE db2 == [t.db EXCEPT ![n] = cell]
  <2>1. t.db \in [Names -> CellTo(k)] /\ t \in ServerTo(k) /\ Lists(t)
        /\ \A c \in Clients : ClientSound(t.cl[c], t.replica)
    BY DEF Good, ServerTo
  <2>2. db2 \in [Names -> CellTo(k)] /\ u = [t EXCEPT !.db = db2]
    BY <1>0, <2>1
  <2> HIDE DEF db2, u
  <2>3. /\ u \in ServerTo(k) /\ u.cl = t.cl /\ u.replica = t.replica /\ u.db = db2
        /\ u.watched_keys = t.watched_keys /\ u.watching_clients = t.watching_clients
    BY <2>1, <2>2 DEF ServerTo
  <2>4. Watchers(u) = Watchers(t)
    BY <2>3 DEF Watchers
  <2>5. Lists(u)
    BY <2>1, <2>3, <2>4 DEF Lists, ListSound
  <2> QED BY <2>1, <2>3, <2>5 DEF Good, db2
<1>2. t.db \in [Names -> CellTo(k)] /\ t.cl \in [Clients -> Client]
  BY DEF Good, ServerTo
<1>3. u.db[n] = cell /\ \A m \in Names : m # n => u.db[m] = t.db[m]
  BY <1>1, <1>2
<1> HIDE DEF u
<1>4. r = TouchWatchedKey(u, n)
  BY DEF Put, u
<1> HIDE DEF r
<1>5. /\ Good(r, k) /\ r.db = u.db /\ r.replica = u.replica
      /\ \A d \in Clients :
           r.cl[d] = u.cl[d] \/ (r.cl[d] = Told(u, n, d) /\ Passed(u, n, d))
      /\ (\A d \in Clients : Passed(u, n, d)) =>
           \A d \in Clients : n \in u.cl[d].watched => r.cl[d] = Told(u, n, d)
  BY <1>1, <1>4, TouchSound
<1>6. \A d \in Clients :
        /\ n \in u.cl[d].stale => Told(u, n, d).watched = u.cl[d].watched
             /\ Told(u, n, d).cas = u.cl[d].cas /\ Told(u, n, d).stale = u.cl[d].stale \ {n}
        /\ n \notin u.cl[d].stale => Told(u, n, d).watched = {} /\ Told(u, n, d).stale = {}
  BY <1>1, ToldFields
<1>7. ASSUME NEW m \in Names, m # n, KeySound(t, m, sn) PROVE KeySound(r, m, sn)
  <2>1. ASSUME NEW d \in Clients
        PROVE  /\ Clean(r, d, m) => Clean(t, d, m) /\ (m \in r.cl[d].stale <=> m \in t.cl[d].stale)
               /\ m \in r.cl[d].stale => m \in t.cl[d].stale
    BY <1>1, <1>5, <1>6, <1>7 DEF Clean
  <2>2. r.db[m] = t.db[m]
    BY <1>3, <1>5, <1>7
  <2> QED BY <1>7, <2>1, <2>2, SoundLess
<1>8. ASSUME KeySound(t, n, sn),
             cell = None \/ ~Expired(t, n) \/ n \notin Mismarked(r)
      PROVE  KeySound(r, n, sn)
  <2>1. r.db[n] = cell /\ ~Expired(r, n)
    BY <1>0, <1>3, <1>5 DEF Expired
  <2>2. \A d \in Clients : Clean(r, d, n) => Clean(t, d, n)
    BY <1>1, <1>5, <1>6 DEF Clean
  <2>3. CASE \A d \in Clients : n \notin t.cl[d].stale
    <3>1. \A d \in Clients : Passed(u, n, d)
      BY <1>1, <2>3 DEF Passed
    <3>2. \A d \in Clients : ~Clean(r, d, n)
      BY <1>1, <1>5, <1>6, <2>2, <2>3, <3>1 DEF Clean
    <3> QED BY <3>2 DEF KeySound
  <2>4. CASE cell = None
    <3>1. \A d \in Clients : Passed(u, n, d)
      BY <1>3, <2>4 DEF Passed
    <3>2. ASSUME NEW d \in Clients PROVE n \notin r.cl[d].stale
      <4>1. t.cl[d].stale \subseteq t.cl[d].watched
        BY DEF Good, ClientSound
      <4> QED BY <1>1, <1>5, <1>6, <3>1, <4>1
    <3>3. ASSUME NEW d \in Clients, Clean(r, d, n) PROVE sn[d][n] = Fresh(r.db[n])
      <4>1. Clean(t, d, n)
        BY <2>2, <3>3
      <4>2. n \in t.cl[d].stale
        BY <1>1, <1>5, <1>6, <3>1, <3>3, <4>1 DEF Clean
      <4>3. sn[d][n] = None
        BY <1>8, <4>1, <4>2 DEF KeySound
      <4> QED BY <2>1, <2>4, <4>3, FreshNone
    <3>4. n \notin Mismarked(r)
      BY <3>2 DEF Mismarked
    <3> QED BY <3>2, <3>3, <3>4 DEF KeySound
  <2>5. ASSUME cell # None, NEW e \in Clients, n \in t.cl[e].stale PROVE KeySound(r, n, sn)
    <3>1. ~Passed(u, n, e)
      BY <1>1, <1>3, <2>5 DEF Passed
    <3>2. n \in r.cl[e].stale
      BY <1>1, <1>5, <2>5, <3>1
    <3>3. n \in Mismarked(r)
      BY <2>1, <3>2 DEF Mismarked
    <3>4. n \in Mismarked(t)
      BY <1>8, <2>5, <3>3 DEF Mismarked
    <3>5. \A d \in Clients : ~Clean(r, d, n)
      BY <1>8, <2>2, <3>4 DEF KeySound
    <3> QED BY <3>5 DEF KeySound
  <2> QED BY <2>3, <2>4, <2>5
<1>9. Sound(r, sn, mk \cup Mismarked(r))
  BY <1>7, <1>8 DEF Sound
<1>10. cell = None \/ ~Expired(t, n) => Sound(r, sn, mk)
  BY <1>7, <1>8 DEF Sound
<1> QED BY <1>1, <1>3, <1>5, <1>9, <1>10 DEF r

(***************************************************************************)
(* The commands.                                                           *)
(***************************************************************************)
LEMMA Cells ==
    ASSUME NEW k \in Nat
    PROVE  /\ None \in CellTo(k) /\ Live(k, None)
           /\ \A cell \in CellTo(k), v \in UpTo(k) :
                Live(k, [cell EXCEPT !.ttl = v, !.expired = FALSE])
           /\ \A v \in UpTo(k) : Live(k, [None EXCEPT !.val = v])
<1>1. None \in CellTo(k) /\ None.expired = FALSE
  BY UpToFields DEF CellTo, None
<1>2. ASSUME NEW cell \in CellTo(k), NEW v \in UpTo(k)
      PROVE  /\ [cell EXCEPT !.ttl = v, !.expired = FALSE] \in CellTo(k)
             /\ [cell EXCEPT !.ttl = v, !.expired = FALSE].expired = FALSE
             /\ [cell EXCEPT !.val = v] \in CellTo(k)
             /\ [cell EXCEPT !.val = v].expired = cell.expired
  BY DEF CellTo
<1> QED BY <1>1, <1>2 DEF Live

\* One more write.
LEMMA GoodOn ==
    ASSUME NEW k \in Nat, NEW t, Good(t, k) PROVE Good(t, k + 1)
<1>1. CellTo(k) \subseteq CellTo(k + 1)
  <2>1. k + 1 \in Nat /\ k + 1 >= k
    OBVIOUS
  <2> QED BY <2>1, CellsGrow
<1>2. t.db \in [Names -> CellTo(k + 1)]
  <2>1. t.db \in [Names -> CellTo(k)]
    BY DEF Good, ServerTo
  <2> QED BY <1>1, <2>1
<1>3. t \in ServerTo(k + 1)
  BY <1>2 DEF Good, ServerTo
<1> QED BY <1>3 DEF Good

\* The commands that touch a key, one by one.
LEMMA ExpireIfNeededSound ==
    ASSUME NEW k \in Nat, NEW t, Good(t, k), NEW n \in Names,
           NEW sn, NEW mk, Sound(t, sn, mk), NEW r, r = ExpireIfNeeded(t, n)
    PROVE  /\ Good(r, k) /\ r.replica = t.replica /\ Sound(r, sn, mk)
           /\ t.replica \/ ~Expired(r, n)
           /\ r.db[n] = None \/ r.db[n] = t.db[n]
<1>1. CASE ~(Expired(t, n) /\ ~t.replica)
  <2>1. r = t
    BY <1>1 DEF ExpireIfNeeded
  <2> QED BY <1>1, <2>1
<1>2. CASE Expired(t, n) /\ ~t.replica
  <2>1. r = Put(t, n, None) /\ Live(k, None) /\ None.expired = FALSE
    BY <1>2, Cells, FreshNone DEF ExpireIfNeeded
  <2> DEFINE cell == None
  <2>2. Live(k, cell) /\ r = Put(t, n, cell)
    BY <2>1
  <2> HIDE DEF cell
  <2>3. /\ Good(r, k) /\ r.replica = t.replica /\ r.db[n] = cell
        /\ Sound(r, sn, mk \cup Mismarked(r))
        /\ cell = None \/ ~Expired(t, n) => Sound(r, sn, mk)
    BY <2>2, PutSound
  <2>5. r.db[n] = None
    BY <2>3 DEF cell
  <2> QED BY <2>1, <2>3, <2>5 DEF cell, Expired
<1> QED BY <1>1, <1>2

LEMMA SetKeySound ==
    ASSUME NEW k \in Nat, NEW t, Good(t, k), NEW n \in Names,
           NEW sn, NEW mk, Sound(t, sn, mk), NEW r, r = SetKey(t, n, k + 1)
    PROVE  /\ Good(r, k + 1) /\ r.replica = t.replica
           /\ Sound(r, sn, mk \cup Mismarked(r)) /\ (~t.replica => Sound(r, sn, mk))
<1> DEFINE u == ExpireIfNeeded(t, n)
           cell == [None EXCEPT !.val = k + 1]
<1>1. Good(u, k) /\ u.replica = t.replica /\ Sound(u, sn, mk) /\ (t.replica \/ ~Expired(u, n))
  BY ExpireIfNeededSound
<1>2. Live(k + 1, cell)
  <2>1. k + 1 \in Nat /\ k + 1 \in UpTo(k + 1)
    BY DEF UpTo
  <2> QED BY <2>1, Cells
<1>3. r = Put(u, n, cell)
  BY DEF SetKey
<1> HIDE DEF u, cell
<1>4. Good(u, k + 1)
  BY <1>1, GoodOn
<1>5. /\ Good(r, k + 1) /\ r.replica = u.replica
      /\ Sound(r, sn, mk \cup Mismarked(r))
      /\ cell = None \/ ~Expired(u, n) => Sound(r, sn, mk)
  BY <1>1, <1>2, <1>3, <1>4, PutSound
<1> QED BY <1>1, <1>5

LEMMA ExpireSound ==
    ASSUME NEW k \in Nat, NEW t, Good(t, k), NEW n \in Names,
           NEW sn, NEW mk, Sound(t, sn, mk), NEW r, r = Expire(t, n, k + 1)
    PROVE  /\ Good(r, k + 1) /\ r.replica = t.replica
           /\ Sound(r, sn, mk \cup Mismarked(r)) /\ (~t.replica => Sound(r, sn, mk))
<1> DEFINE u == ExpireIfNeeded(t, n)
           cell == [u.db[n] EXCEPT !.ttl = k + 1, !.expired = FALSE]
<1>1. Good(u, k) /\ u.replica = t.replica /\ Sound(u, sn, mk) /\ (t.replica \/ ~Expired(u, n))
  BY ExpireIfNeededSound
<1>2. Good(u, k + 1)
  BY <1>1, GoodOn
<1>3. Live(k + 1, cell)
  <2>1. k + 1 \in Nat /\ k + 1 \in UpTo(k + 1)
    BY DEF UpTo
  <2>2. u.db \in [Names -> CellTo(k + 1)]
    BY <1>2 DEF Good, ServerTo
  <2>3. u.db[n] \in CellTo(k + 1)
    BY <2>2
  <2> QED BY <2>1, <2>3, Cells
<1>4. r = IF u.db[n] = None THEN u ELSE Put(u, n, cell)
  BY DEF Expire
<1> HIDE DEF u, cell
<1>5. CASE u.db[n] = None
  <2>1. r = u
    BY <1>4, <1>5
  <2> QED BY <1>1, <1>2, <2>1, SoundWider
<1>6. CASE u.db[n] # None
  <2>1. r = Put(u, n, cell)
    BY <1>4, <1>6
  <2>2. /\ Good(r, k + 1) /\ r.replica = u.replica
        /\ Sound(r, sn, mk \cup Mismarked(r))
        /\ cell = None \/ ~Expired(u, n) => Sound(r, sn, mk)
    BY <1>1, <1>2, <1>3, <2>1, PutSound
  <2> QED BY <1>1, <2>2
<1> QED BY <1>5, <1>6

LEMMA DelSound ==
    ASSUME NEW k \in Nat, NEW t, Good(t, k), NEW n \in Names,
           NEW sn, NEW mk, Sound(t, sn, mk), NEW r, r = Del(t, n)
    PROVE  Good(r, k) /\ r.replica = t.replica /\ Sound(r, sn, mk)
<1> DEFINE u == ExpireIfNeeded(t, n)
           cell == None
<1>1. Good(u, k) /\ u.replica = t.replica /\ Sound(u, sn, mk)
  BY ExpireIfNeededSound
<1>2. Live(k, cell)
  BY Cells
<1>3. r = IF u.db[n] = None THEN u ELSE Put(u, n, cell)
  BY DEF Del
<1>4. cell = None
  OBVIOUS
<1> HIDE DEF u, cell
<1>5. CASE u.db[n] = None
  BY <1>1, <1>3, <1>5
<1>6. CASE u.db[n] # None
  <2>1. r = Put(u, n, cell)
    BY <1>3, <1>6
  <2>2. /\ Good(r, k) /\ r.replica = u.replica
        /\ Sound(r, sn, mk \cup Mismarked(r))
        /\ cell = None \/ ~Expired(u, n) => Sound(r, sn, mk)
    BY <1>1, <1>2, <2>1, PutSound
  <2> QED BY <1>1, <1>4, <2>2
<1> QED BY <1>5, <1>6

\* When touchAllWatchedKeysInDb comes to each verdict.
LEMMA Verdicts ==
    ASSUME NEW old, NEW new, new.expired \in BOOLEAN, NEW stale \in BOOLEAN
    PROVE  /\ Verdict(old, new, stale) = "fresh" <=> (stale /\ new = None /\ old # None)
           /\ Verdict(old, new, stale) = "stale" <=>
                (~stale /\ new # None /\ old = None /\ new.expired)
           /\ Verdict(old, new, stale) # "dirty" =>
                (new = None /\ (stale \/ old = None)) \/ (new.expired /\ (stale \/ old = None))
<1> DEFINE v == Verdict(old, new, stale)
<1>1. CASE new = None
  <2>1. new.expired = FALSE
    BY <1>1, FreshNone
  <2>2. CASE old = None
    BY <1>1, <2>1, <2>2 DEF Verdict
  <2>3. CASE old # None
    BY <1>1, <2>1, <2>3 DEF Verdict
  <2> QED BY <2>2, <2>3
<1>2. CASE new # None
  <2>1. CASE stale
    BY <1>2, <2>1 DEF Verdict
  <2>2. CASE ~stale
    BY <1>2, <2>2 DEF Verdict
  <2> QED BY <2>1, <2>2
<1> QED BY <1>1, <1>2

\* touchAllWatchedKeysInDb, and the change that it is told of.
LEMMA TouchAllSound ==
    ASSUME NEW k \in Nat, NEW t, Good(t, k), NEW ds, NEW to \in [Names -> CellTo(k)],
           \A n \in Names : n[1] \notin ds => to[n] = t.db[n],
           NEW sn, NEW mk, Sound(t, sn, mk),
           NEW r, r = [TouchAllWatchedKeys(t, ds, to) EXCEPT !.db = to]
    PROVE  Good(r, k) /\ r.replica = t.replica /\ Sound(r, sn, mk)
<1> DEFINE of(d, v) == {n \in t.cl[d].watched : n[1] \in ds
                          /\ Verdict(t.db[n], to[n], n \in t.cl[d].stale) = v}
           y(d) == [t.cl[d] EXCEPT !.cas = @ \/ of(d, "dirty") # {},
                                   !.stale = (@ \ of(d, "fresh")) \cup of(d, "stale")]
           x == [d \in Clients |-> y(d)]
           u == [t EXCEPT !.cl = x]
<1>1. t.cl \in [Clients -> Client] /\ t.db \in [Names -> CellTo(k)]
      /\ \A d \in Clients : ClientSound(t.cl[d], t.replica)
  BY DEF Good, ServerTo
<1>2. r = [u EXCEPT !.db = to]
  BY DEF TouchAllWatchedKeys
<1>3. ASSUME NEW d \in Clients
      PROVE  /\ x[d] \in Client /\ ClientSound(x[d], t.replica)
             /\ x[d].watched = t.cl[d].watched
             /\ x[d].cas <=> (t.cl[d].cas \/ of(d, "dirty") # {})
             /\ x[d].stale = (t.cl[d].stale \ of(d, "fresh")) \cup of(d, "stale")
  <2>1. /\ of(d, "stale") \subseteq t.cl[d].watched
        /\ t.cl[d] \in Client /\ ClientSound(t.cl[d], t.replica)
    BY <1>1
  <2> DEFINE C == t.cl[d].cas \/ of(d, "dirty") # {}
             S == (t.cl[d].stale \ of(d, "fresh")) \cup of(d, "stale")
             w == t.cl[d]
  <2>2. S \subseteq w.watched
    BY <2>1 DEF ClientSound
  <2>3. x[d] = [w EXCEPT !.cas = C, !.stale = S]
    OBVIOUS
  <2>4. C \in BOOLEAN
    OBVIOUS
  <2>5. w \in Client /\ ClientSound(w, t.replica)
    BY <2>1
  <2> HIDE DEF x, of, C, S, w
  <2>6. [w EXCEPT !.cas = C, !.stale = S] \in Client
    BY <2>2, <2>4, <2>5 DEF Client
  <2>7. LET z == [w EXCEPT !.cas = C, !.stale = S] IN
          z.watched = w.watched /\ z.cas = C /\ z.stale = S /\ z.queue = w.queue
    BY <2>5 DEF Client
  <2>8. x[d] \in Client /\ x[d].watched = w.watched /\ x[d].cas = C /\ x[d].stale = S
        /\ x[d].queue = w.queue
    BY <2>3, <2>6, <2>7
  <2>9. ClientSound(x[d], t.replica)
    BY <2>2, <2>5, <2>8 DEF ClientSound
  <2> QED BY <2>8, <2>9 DEF C, S, w
<1>4. x \in [Clients -> Client]
  <2>1. x = [d \in Clients |-> x[d]]
    OBVIOUS
  <2> HIDE DEF x
  <2> QED BY <1>3, <2>1
<1> HIDE DEF x, u
<1>5. /\ Good(u, k) /\ u.cl = x /\ u.db = t.db /\ u.replica = t.replica
      /\ u.watched_keys = t.watched_keys
  <2> HIDE DEF of
  <2> QED BY <1>3, <1>4, ClientsChange DEF u
<1>6. /\ Good(r, k) /\ r.db = to /\ r.cl = x /\ r.replica = t.replica
  <2>1. /\ r \in ServerTo(k) /\ r.cl = u.cl /\ r.replica = u.replica /\ r.db = to
        /\ r.watched_keys = u.watched_keys /\ r.watching_clients = u.watching_clients
    BY <1>2, <1>5 DEF Good, ServerTo
  <2>2. Watchers(r) = Watchers(u)
    BY <2>1 DEF Watchers
  <2>3. Lists(r)
    BY <1>5, <2>1, <2>2 DEF Lists, ListSound, Good
  <2> QED BY <1>5, <2>1, <2>3 DEF Good
<1>7. ASSUME NEW n \in Names, KeySound(t, n, sn) PROVE KeySound(r, n, sn)
  <2>1. ASSUME NEW d \in Clients
        PROVE  Clean(r, d, n) => Clean(t, d, n) /\ n \notin of(d, "dirty")
    BY <1>3, <1>6 DEF Clean
  <2>2. ASSUME NEW d \in Clients
        PROVE  n \in r.cl[d].stale <=> ((n \in t.cl[d].stale /\ n \notin of(d, "fresh"))
                                         \/ n \in of(d, "stale"))
    <3> HIDE DEF of
    <3> QED BY <1>3, <1>6
  <2>3. CASE n[1] \notin ds
    <3>1. \A d \in Clients : \A v : n \notin of(d, v)
      BY <2>3
    <3>2. r.db[n] = t.db[n]
      BY <1>6, <2>3
    <3> HIDE DEF of
    <3> QED BY <1>7, <2>1, <2>2, <3>1, <3>2, SoundLess
  <2>4. CASE n[1] \in ds
    <3> DEFINE old == t.db[n]
               new == to[n]
    <3>1. /\ old \in CellTo(k) /\ new \in CellTo(k) /\ r.db[n] = new
          /\ Expired(r, n) = new.expired /\ Expired(t, n) = old.expired
          /\ new.expired \in BOOLEAN /\ old.expired \in BOOLEAN
          /\ (new = None => new.expired = FALSE) /\ (old = None => old.expired = FALSE)
      BY <1>1, <1>6, FreshNone DEF Expired, CellTo
    <3>2. ASSUME NEW d \in Clients, n \in t.cl[d].watched, NEW v
          PROVE  n \in of(d, v) <=> Verdict(old, new, n \in t.cl[d].stale) = v
      BY <2>4, <3>2
    <3> HIDE DEF of, old, new
    <3>3. ASSUME NEW d \in Clients, n \in t.cl[d].watched
          PROVE  /\ n \notin of(d, "dirty") => (new = None \/ new.expired)
                                               /\ (n \in t.cl[d].stale \/ old = None)
                 /\ n \in of(d, "fresh") <=> (n \in t.cl[d].stale /\ new = None /\ old # None)
                 /\ n \in of(d, "stale") <=>
                      (n \notin t.cl[d].stale /\ new # None /\ old = None /\ new.expired)
      <4> DEFINE flag == n \in t.cl[d].stale
      <4>1. flag \in BOOLEAN
        OBVIOUS
      <4>2. \A v : n \in of(d, v) <=> Verdict(old, new, flag) = v
        BY <3>2, <3>3
      <4> HIDE DEF flag
      <4>3. /\ Verdict(old, new, flag) = "fresh" <=> (flag /\ new = None /\ old # None)
            /\ Verdict(old, new, flag) = "stale" <=>
                 (~flag /\ new # None /\ old = None /\ new.expired)
            /\ Verdict(old, new, flag) # "dirty" =>
                 (new = None /\ (flag \/ old = None)) \/ (new.expired /\ (flag \/ old = None))
        BY <3>1, <4>1, Verdicts
      <4> QED BY <4>2, <4>3 DEF flag
    <3>4. ASSUME NEW d \in Clients, Clean(r, d, n)
          PROVE  IF n \in r.cl[d].stale THEN Expired(r, n) /\ sn[d][n] = None
                 ELSE sn[d][n] = Fresh(r.db[n])
      <4>1. Clean(t, d, n) /\ n \notin of(d, "dirty") /\ n \in t.cl[d].watched
        BY <2>1, <3>4 DEF Clean
      <4>2. CASE n \in t.cl[d].stale
        <5>1. old.expired /\ sn[d][n] = None
          BY <1>7, <3>1, <4>1, <4>2 DEF KeySound
        <5>2. old # None
          BY <3>1, <5>1
        <5>3. CASE new = None
          BY <2>2, <3>1, <3>3, <4>1, <4>2, <5>1, <5>2, <5>3, FreshNone
        <5>4. CASE new # None
          BY <2>2, <3>1, <3>3, <4>1, <4>2, <5>1, <5>4
        <5> QED BY <5>3, <5>4
      <4>3. CASE n \notin t.cl[d].stale
        <5>1. old = None /\ (new = None \/ new.expired) /\ sn[d][n] = Fresh(old)
          BY <1>7, <3>3, <4>1, <4>3 DEF KeySound, old
        <5>2. CASE new = None
          BY <2>2, <3>1, <3>3, <4>1, <4>3, <5>1, <5>2
        <5>3. CASE new # None
          BY <2>2, <3>1, <3>3, <4>1, <4>3, <5>1, <5>3, FreshNone
        <5> QED BY <5>2, <5>3
      <4> QED BY <4>2, <4>3
    <3>5. ASSUME n \in Mismarked(r), NEW d \in Clients, Clean(r, d, n) PROVE FALSE
      <4>1. ~new.expired /\ \E e \in Clients : n \in r.cl[e].stale
        BY <3>1, <3>5 DEF Mismarked
      <4>2. PICK e \in Clients : n \in r.cl[e].stale
        BY <4>1
      <4>3. n \in t.cl[e].watched
        BY <1>3, <1>6, <4>2 DEF ClientSound
      <4>4. n \in t.cl[e].stale /\ (new = None => old = None)
        BY <2>2, <3>3, <4>1, <4>2, <4>3
      <4>5. Clean(t, d, n) /\ n \notin of(d, "dirty") /\ n \in t.cl[d].watched
        BY <2>1, <3>5 DEF Clean
      <4>6. new = None
        BY <3>3, <4>1, <4>5
      <4>7. ~Expired(t, n)
        BY <3>1, <4>4, <4>6
      <4>8. n \in Mismarked(t)
        BY <4>4, <4>7 DEF Mismarked
      <4> QED BY <1>7, <4>5, <4>8 DEF KeySound
    <3> QED BY <3>4, <3>5 DEF KeySound
  <2> QED BY <2>3, <2>4
<1> QED BY <1>6, <1>7 DEF Sound

\* FLUSHDB and SWAPDB as instances of it.
LEMMA FlushSound ==
    ASSUME NEW k \in Nat, NEW t, Good(t, k), NEW e \in Dbs,
           NEW sn, NEW mk, Sound(t, sn, mk), NEW r, r = Flush(t, e)
    PROVE  Good(r, k) /\ r.replica = t.replica /\ Sound(r, sn, mk)
<1> DEFINE to == [n \in Names |-> IF n[1] = e THEN None ELSE t.db[n]]
           ds == {e}
<1>1. t.db \in [Names -> CellTo(k)] /\ None \in CellTo(k)
  BY Cells DEF Good, ServerTo
<1>2. to \in [Names -> CellTo(k)] /\ \A n \in Names : n[1] \notin ds => to[n] = t.db[n]
  BY <1>1
<1>3. r = [TouchAllWatchedKeys(t, ds, to) EXCEPT !.db = to]
  BY DEF Flush
<1> HIDE DEF to, ds
<1> QED BY <1>2, <1>3, TouchAllSound

LEMMA SwapSound ==
    ASSUME NEW k \in Nat, NEW t, Good(t, k), Cardinality(Dbs) = 2,
           NEW sn, NEW mk, Sound(t, sn, mk), NEW r, r = Swap(t)
    PROVE  Good(r, k) /\ r.replica = t.replica /\ Sound(r, sn, mk)
<1> DEFINE other(a) == CHOOSE d \in Dbs : d # a
           to == [n \in Names |-> t.db[<<other(n[1]), n[2]>>]]
           ds == Dbs
<1>1. t.db \in [Names -> CellTo(k)]
  BY DEF Good, ServerTo
<1>2. ASSUME NEW a \in Dbs PROVE other(a) \in Dbs
  <2>1. \E d \in Dbs : d # a
    <3>1. SUFFICES ASSUME \A d \in Dbs : d = a PROVE FALSE
      OBVIOUS
    <3>2. Dbs = {a}
      BY <3>1
    <3>3. Cardinality(Dbs) = 1
      BY <3>2, FS_Singleton
    <3> QED BY <3>3
  <2> QED BY <2>1
<1>3. \A n \in Names : n[1] \in Dbs /\ n[2] \in Keys
  BY DEF Names
<1> HIDE DEF other
<1>4. \A n \in Names : <<other(n[1]), n[2]>> \in Names
  BY <1>2, <1>3 DEF Names
<1>5. to \in [Names -> CellTo(k)] /\ \A n \in Names : n[1] \notin ds => to[n] = t.db[n]
  BY <1>1, <1>3, <1>4
<1>6. r = [TouchAllWatchedKeys(t, ds, to) EXCEPT !.db = to]
  BY DEF Swap, other
<1> HIDE DEF to, ds
<1> QED BY <1>5, <1>6, TouchAllSound

\* A client that watches no more, and whatever becomes of its other fields.
LEMMA LeaveSound ==
    ASSUME NEW t, NEW r, NEW c \in Clients, NEW sn, NEW mk, Sound(t, sn, mk), r.db = t.db,
           r.cl[c].watched = {}, r.cl[c].stale = {},
           \A d \in Clients : d # c => r.cl[d] = t.cl[d]
    PROVE  Sound(r, sn, mk)
<1> SUFFICES ASSUME NEW n \in Names, KeySound(t, n, sn) PROVE KeySound(r, n, sn)
  BY DEF Sound
<1>1. ASSUME NEW d \in Clients
      PROVE  /\ Clean(r, d, n) => Clean(t, d, n) /\ (n \in r.cl[d].stale <=> n \in t.cl[d].stale)
             /\ n \in r.cl[d].stale => n \in t.cl[d].stale
  BY DEF Clean
<1>2. r.db[n] = t.db[n]
  OBVIOUS
<1> QED BY <1>1, <1>2, SoundLess

\* A client that stops watching, or is discarded: of it nothing is left to show.
LEMMA UnwatchSound ==
    ASSUME NEW k, NEW t, Good(t, k), NEW c \in Clients,
           NEW sn, NEW mk, Sound(t, sn, mk), NEW r, r = UnwatchAllKeys(t, c)
    PROVE  Good(r, k) /\ r.replica = t.replica /\ Sound(r, sn, mk)
<1>1. /\ Good(r, k) /\ r.db = t.db /\ r.replica = t.replica
      /\ r.cl = [t.cl EXCEPT ![c] = Unwatched(@)]
  BY UnwatchFields
<1>2. t.cl \in [Clients -> Client] /\ t.cl[c] \in Client
  BY DEF Good, ServerTo
<1>3. r.cl[c].watched = {} /\ r.cl[c].stale = {}
      /\ \A d \in Clients : d # c => r.cl[d] = t.cl[d]
  BY <1>1, <1>2 DEF Unwatched, Client
<1> QED BY <1>1, <1>3, LeaveSound

LEMMA DiscardSound ==
    ASSUME NEW k, NEW t, Good(t, k), NEW c \in Clients,
           NEW sn, NEW mk, Sound(t, sn, mk), NEW r, r = DiscardTransaction(t, c)
    PROVE  Good(r, k) /\ r.replica = t.replica /\ Sound(r, sn, mk)
<1>1. /\ Good(r, k) /\ r.db = t.db /\ r.replica = t.replica
      /\ r.cl = [t.cl EXCEPT ![c] = Idle]
  BY DiscardFields
<1>2. t.cl \in [Clients -> Client]
  BY DEF Good, ServerTo
<1>3. r.cl[c].watched = {} /\ r.cl[c].stale = {}
      /\ \A d \in Clients : d # c => r.cl[d] = t.cl[d]
  BY <1>1, <1>2 DEF Idle
<1> QED BY <1>1, <1>3, LeaveSound

LEMMA UnwatchCommandSound ==
    ASSUME NEW k, NEW t, Good(t, k), NEW c \in Clients, NEW sn, NEW mk, Sound(t, sn, mk)
    PROVE  LET r == UnwatchCommand(t, c) IN
           Good(r, k) /\ r.replica = t.replica /\ Sound(r, sn, mk)
<1> DEFINE u == UnwatchAllKeys(t, c)
           y == [u.cl[c] EXCEPT !.cas = FALSE]
           r == UnwatchCommand(t, c)
<1>1. Good(u, k) /\ u.db = t.db /\ u.replica = t.replica
      /\ u.cl = [t.cl EXCEPT ![c] = Unwatched(@)]
  BY UnwatchFields
<1>2. t.cl \in [Clients -> Client] /\ t.cl[c] \in Client
  BY DEF Good, ServerTo
<1>3. u.cl[c] \in Client /\ ClientSound(u.cl[c], u.replica)
  BY <1>1 DEF Good, ServerTo
<1>4. u.cl[c].watched = {} /\ u.cl[c].stale = {}
      /\ \A d \in Clients : d # c => u.cl[d] = t.cl[d]
  BY <1>1, <1>2 DEF Unwatched, Client
<1> HIDE DEF u
<1>5. y.watched = u.cl[c].watched /\ y.stale = u.cl[c].stale /\ ClientSound(y, u.replica)
  BY <1>3 DEF ClientSound, Client
<1>6. r = [u EXCEPT !.cl[c] = y]
  BY DEF u, UnwatchCommand
<1> HIDE DEF r, y
<1>7. Good(r, k) /\ r.cl = [u.cl EXCEPT ![c] = y] /\ r.db = u.db /\ r.replica = u.replica
  <2>1. Good(u, k)
    BY <1>1
  <2>2. /\ Good([u EXCEPT !.cl[c] = y], k)
        /\ [u EXCEPT !.cl[c] = y].cl = [u.cl EXCEPT ![c] = y]
        /\ [u EXCEPT !.cl[c] = y].db = u.db /\ [u EXCEPT !.cl[c] = y].replica = u.replica
    BY <2>1, <1>5, ClientChanges
  <2> QED BY <1>6, <2>2
<1>8. u.cl \in [Clients -> Client]
  BY <1>1 DEF Good, ServerTo
<1>9. /\ r.cl[c].watched = {} /\ r.cl[c].stale = {} /\ r.db = t.db
      /\ \A d \in Clients : d # c => r.cl[d] = t.cl[d]
  BY <1>1, <1>4, <1>5, <1>7, <1>8
<1>10. Sound(r, sn, mk)
  BY <1>9, LeaveSound
<1> QED BY <1>1, <1>7, <1>10 DEF r

\* What a command cmd that makes r of t upholds, the writes being j after it.
Upheld(t, r, j, cmd, sn, mk) ==
  /\ Good(r, j) /\ r.replica = t.replica
  /\ Sound(r, sn, mk \cup Mismarked(r))
  /\ ~t.replica \/ cmd.op \in {"get", "unwatch"} => Sound(r, sn, mk)

\* Every command; its number is that of the next write.
LEMMA CallSound ==
    ASSUME NEW k \in Nat, NEW t, Good(t, k), NEW c \in Clients, NEW cmd \in Commands,
           NEW sn, NEW mk, Sound(t, sn, mk), NEW v, v = k + 1,
           NEW w, w = k + (IF Writes(cmd) THEN 1 ELSE 0), NEW r, r = Call(t, c, cmd, v)
    PROVE  Upheld(t, r, w, cmd, sn, mk)
<1>0. r = Call(t, c, cmd, k + 1)
  OBVIOUS
<1>1. \/ cmd.op \in {"get", "set", "expire", "del"} /\ cmd.on \in Names
      \/ cmd.op = "swap" /\ Cardinality(Dbs) = 2
      \/ cmd.op = "flush" /\ cmd.on \in Dbs
      \/ cmd.op = "unwatch"
  <2>1. cmd \in [op : {"get", "set", "expire", "del"}, on : Names]
          \/ (Cardinality(Dbs) = 2 /\ cmd = [op |-> "swap"])
          \/ cmd \in [op : {"flush"}, on : Dbs] \/ cmd = [op |-> "unwatch"]
    BY DEF Commands
  <2> QED BY <2>1
<1>2. CASE cmd.op \in {"set", "expire"} /\ cmd.on \in Names
  <2>1. w = k + 1
    BY <1>2 DEF Writes
  <2>2. CASE cmd.op = "set"
    <3>1. r = SetKey(t, cmd.on, k + 1)
      BY <2>2, <1>0 DEF Call
    <3>2. /\ Good(r, k + 1) /\ r.replica = t.replica
          /\ Sound(r, sn, mk \cup Mismarked(r)) /\ (~t.replica => Sound(r, sn, mk))
      BY <1>2, <3>1, SetKeySound
    <3> QED BY <1>2, <2>1, <2>2, <3>2 DEF Upheld
  <2>3. CASE cmd.op = "expire"
    <3>1. r = Expire(t, cmd.on, k + 1)
      BY <2>3, <1>0 DEF Call
    <3>2. /\ Good(r, k + 1) /\ r.replica = t.replica
          /\ Sound(r, sn, mk \cup Mismarked(r)) /\ (~t.replica => Sound(r, sn, mk))
      BY <1>2, <3>1, ExpireSound
    <3> QED BY <1>2, <2>1, <2>3, <3>2 DEF Upheld
  <2> QED BY <1>2, <2>2, <2>3
<1>3. ASSUME Good(r, k), r.replica = t.replica, Sound(r, sn, mk), cmd.op \notin {"set", "expire"}
      PROVE  Upheld(t, r, w, cmd, sn, mk)
  <2>1. w = k
    BY <1>3 DEF Writes
  <2> QED BY <1>3, <2>1, SoundWider DEF Upheld
<1>4. CASE cmd.op = "get" /\ cmd.on \in Names
  <2>1. r = ExpireIfNeeded(t, cmd.on)
    BY <1>4, <1>0 DEF Call
  <2>2. Good(r, k) /\ r.replica = t.replica /\ Sound(r, sn, mk)
    BY <1>4, <2>1, ExpireIfNeededSound
  <2> QED BY <1>3, <1>4, <2>2
<1>5. CASE cmd.op = "del" /\ cmd.on \in Names
  <2>1. r = Del(t, cmd.on)
    BY <1>5, <1>0 DEF Call
  <2>2. Good(r, k) /\ r.replica = t.replica /\ Sound(r, sn, mk)
    BY <1>5, <2>1, DelSound
  <2> QED BY <1>3, <1>5, <2>2
<1>6. CASE cmd.op = "swap" /\ Cardinality(Dbs) = 2
  <2>1. r = Swap(t)
    BY <1>6, <1>0 DEF Call
  <2>2. Good(r, k) /\ r.replica = t.replica /\ Sound(r, sn, mk)
    BY <1>6, <2>1, SwapSound
  <2> QED BY <1>3, <1>6, <2>2
<1>7. CASE cmd.op = "flush" /\ cmd.on \in Dbs
  <2>1. r = Flush(t, cmd.on)
    BY <1>7, <1>0 DEF Call
  <2>2. Good(r, k) /\ r.replica = t.replica /\ Sound(r, sn, mk)
    BY <1>7, <2>1, FlushSound
  <2> QED BY <1>3, <1>7, <2>2
<1>8. CASE cmd.op = "unwatch"
  <2>1. r = UnwatchCommand(t, c)
    BY <1>8, <1>0 DEF Call
  <2>2. Good(r, k) /\ r.replica = t.replica /\ Sound(r, sn, mk)
    BY <2>1, UnwatchCommandSound
  <2> QED BY <1>3, <1>8, <2>2
<1> QED BY <1>1, <1>2, <1>4, <1>5, <1>6, <1>7, <1>8

\* All the commands of a queue, which writes nothing on a replica.
LEMMA RunQueueSound ==
    ASSUME NEW k \in Nat, NEW t, Good(t, k), NEW c \in Clients, NEW q \in Seq(Commands),
           t.replica => \A i \in 1 .. Len(q) : q[i].op \in {"get", "unwatch"},
           NEW sn, NEW mk, Sound(t, sn, mk)
    PROVE  LET done == RunQueue(t, c, q, k + 1) IN
           /\ done.v - 1 \in Nat /\ done.v - 1 >= k
           /\ Good(done.t, done.v - 1) /\ done.t.replica = t.replica
           /\ Sound(done.t, sn, mk)
<1> DEFINE N == Len(q)
           base == [t |-> t, v |-> k + 1]
<1>1. N \in Nat /\ \A i \in 1 .. N : q[i] \in Commands
  OBVIOUS
<1>2. PICK f : Iterates("run", t, c, base, q, f) /\ RunQueue(t, c, q, k + 1) = f[N]
  BY RunFold
<1> DEFINE Well(i) == \E j \in Nat : /\ f[i].v = j + 1 /\ j >= k
                                     /\ Good(f[i].t, j) /\ f[i].t.replica = t.replica
                                     /\ Sound(f[i].t, sn, mk)
<1>3. Well(0)
  <2>1. f[0] = base
    BY <1>2 DEF Iterates
  <2>2. f[0].v = k + 1 /\ f[0].t = t
    BY <2>1
  <2> QED BY <2>2
<1>4. ASSUME NEW i \in 1 .. N, Well(i - 1) PROVE Well(i)
  <2>1. PICK j \in Nat : /\ f[i - 1].v = j + 1 /\ j >= k
                         /\ Good(f[i - 1].t, j) /\ f[i - 1].t.replica = t.replica
                         /\ Sound(f[i - 1].t, sn, mk)
    BY <1>4
  <2> DEFINE a == f[i - 1].t
             cmd == q[i]
             r == Call(a, c, cmd, j + 1)
             w == IF Writes(cmd) THEN 1 ELSE 0
  <2>2. f[i] = [t |-> r, v |-> j + 1 + w]
    <3>1. f[i] = Round("run", t, c, f[i - 1], q[i])
      BY <1>2 DEF Iterates
    <3> QED BY <2>1, <3>1 DEF Round, RunNext
  <2>3. cmd \in Commands /\ (~a.replica \/ cmd.op \in {"get", "unwatch"})
    BY <1>1, <2>1
  <2>4. w \in {0, 1}
    OBVIOUS
  <2>5. Good(a, j) /\ Sound(a, sn, mk) /\ a.replica = t.replica
    BY <2>1
  <2> HIDE DEF r, a, cmd
  <2>6. Upheld(a, r, j + w, cmd, sn, mk)
    <3> DEFINE v == j + 1
               jj == j + w
    <3>1. r = Call(a, c, cmd, v) /\ v = j + 1 /\ jj = j + (IF Writes(cmd) THEN 1 ELSE 0)
      BY DEF r
    <3> HIDE DEF w, v, jj
    <3>2. Upheld(a, r, jj, cmd, sn, mk)
      BY <2>3, <2>5, <3>1, CallSound
    <3> QED BY <3>2 DEF jj
  <2>7. f[i].t = r /\ f[i].v = j + 1 + w
    BY <2>2
  <2> HIDE DEF w
  <2>8. j + w \in Nat /\ f[i].v = (j + w) + 1 /\ j + w >= k
    BY <2>1, <2>4, <2>7
  <2> QED BY <2>3, <2>5, <2>6, <2>7, <2>8 DEF Upheld
<1> HIDE DEF N, Well
<1>5. Well(N)
  <2> DEFINE Bad == {i \in 0 .. N : ~Well(i)}
  <2>1. CASE Bad = {}
    BY <1>1, <2>1 DEF N
  <2>2. CASE Bad # {}
    <3>1. Bad \in SUBSET Nat
      OBVIOUS
    <3>2. PICK p \in Bad : \A j \in Bad : p <= j
      BY <2>2, <3>1, LeastElement
    <3>3. p \in 1 .. N
      BY <1>1, <1>3, <3>2
    <3>4. Well(p - 1)
      <4>1. p - 1 \in 0 .. N /\ ~(p <= p - 1)
        BY <1>1, <3>3
      <4> QED BY <3>2, <4>1
    <3> QED BY <1>4, <3>2, <3>3, <3>4
  <2> QED BY <2>1, <2>2
<1>6. PICK j \in Nat : /\ f[N].v = j + 1 /\ j >= k
                       /\ Good(f[N].t, j) /\ f[N].t.replica = t.replica
                       /\ Sound(f[N].t, sn, mk)
  BY <1>5 DEF Well
<1>7. f[N].v - 1 = j
  BY <1>6
<1> QED BY <1>2, <1>6, <1>7

(***************************************************************************)
(* The invariant.                                                          *)
(***************************************************************************)

\* The clients' ends of what they watch, and what they saw, after any number of
\* commands; of a key that is masked the second says nothing.
IInv ==
  /\ writes \in 0 .. MaxWrites
  /\ Good(s, writes)
  /\ seen \in [Clients -> [Names -> CellTo(writes)]]
  /\ masked \in SUBSET Names
  /\ Sound(s, seen, masked)

LEMMA Bounds == MaxWrites \in Nat /\ MaxQueue \in Nat
BY TransactionConstants

\* The invariant holds at first, when nobody watches.
LEMMA InitInv == Init => IInv
<1> SUFFICES ASSUME Init PROVE IInv
  OBVIOUS
<1>1. writes = 0 /\ seen = [c \in Clients |-> [n \in Names |-> None]] /\ masked = {}
  BY DEF Init
<1>2. PICK replica \in BOOLEAN, file \in Files :
        s = [db |-> file, watched_keys |-> [n \in Names |-> <<>>], watching_clients |-> 0,
             cl |-> [c \in Clients |-> Idle], replica |-> replica]
  BY DEF Init
<1>3. None \in CellTo(0) /\ file \in [Names -> CellTo(0)]
  <2>1. file \in [Names -> [val : UpTo(0), ttl : UpTo(0), expired : {FALSE}]]
    BY TransactionConstants DEF Names
  <2>2. [val : UpTo(0), ttl : UpTo(0), expired : {FALSE}] \subseteq CellTo(0)
    BY DEF CellTo
  <2>3. None \in CellTo(0)
    BY Cells
  <2> QED BY <2>1, <2>2, <2>3
<1>4. /\ s.db \in [Names -> CellTo(0)] /\ s.cl = [c \in Clients |-> Idle]
      /\ s.watched_keys = [n \in Names |-> <<>>] /\ s.watching_clients = 0
      /\ s.replica \in BOOLEAN
  BY <1>2, <1>3
<1>5. \A c \in Clients : s.cl[c] = Idle
  BY <1>4
<1>6. Idle.watched = {} /\ Idle.stale = {} /\ Idle \in Client
  BY IdleSound DEF Idle, ClientSound
<1>7. Watchers(s) = {} /\ Cardinality({}) = 0
  BY <1>5, <1>6, FS_EmptySet DEF Watchers
<1>8. s \in ServerTo(0)
  <2>1. s.cl \in [Clients -> Client]
    BY <1>4, <1>6
  <2>2. s.watched_keys \in [Names -> Seq(Clients)]
    BY <1>4
  <2>3. s.watching_clients \in 0 .. Cardinality(Clients)
    BY <1>4, <1>7, CountBound
  <2> QED BY <1>2, <1>4, <2>1, <2>2, <2>3 DEF ServerTo
<1>9. Lists(s)
  <2>1. ASSUME NEW n \in Names PROVE ListSound(s, n)
    <3>1. s.watched_keys[n] = <<>> /\ \A c \in Clients : n \notin s.cl[c].watched
      BY <1>4, <1>5, <1>6
    <3> QED BY <3>1 DEF ListSound, IsInjective, Contains
  <2> QED BY <1>4, <1>7, <2>1 DEF Lists
<1>10. Good(s, writes)
  BY <1>1, <1>5, <1>8, <1>9, IdleSound DEF Good
<1>11. Sound(s, seen, masked)
  BY <1>5, <1>6 DEF Sound, KeySound, Clean, Mismarked
<1>12. seen \in [Clients -> [Names -> CellTo(writes)]]
  BY <1>1, <1>3
<1> QED BY <1>1, <1>10, <1>11, <1>12, Bounds DEF IInv

\* A step that begins no watch.
LEMMA KeptSound ==
    ASSUME IInv, NEW k \in Nat, writes' = k, k <= MaxWrites, k >= writes,
           Good(s', k), Sound(s', seen, masked \cup Mismarked(s')), seen' = Kept, Masked
    PROVE  IInv'
<1> DEFINE sn == seen
           sn1 == seen'
           t == s'
           m1 == masked'
<1>1. /\ writes \in Nat /\ writes \in 0 .. MaxWrites
      /\ seen \in [Clients -> [Names -> CellTo(writes)]] /\ masked \in SUBSET Names
  BY DEF IInv
<1>2. writes' \in 0 .. MaxWrites
  BY Bounds
<1>3. CellTo(writes) \subseteq CellTo(k) /\ None \in CellTo(k)
  <2>1. CellTo(writes) \subseteq CellTo(k)
    BY <1>1, CellsGrow
  <2> QED BY <2>1, Cells
<1>4. \A c \in Clients, n \in Names :
        sn1[c][n] = IF n \in t.cl[c].watched THEN sn[c][n] ELSE None
  BY DEF Kept
<1>5. seen' \in [Clients -> [Names -> CellTo(k)]]
  <2>1. \A c \in Clients, n \in Names : sn[c][n] \in CellTo(k)
    BY <1>1, <1>3
  <2>2. seen' = [c \in Clients |-> [n \in Names |-> IF n \in t.cl[c].watched THEN sn[c][n] ELSE None]]
    BY DEF Kept
  <2> HIDE DEF sn, sn1, t
  <2> QED BY <1>3, <2>1, <2>2
<1>6. m1 = {n \in masked \cup Mismarked(t) : t.watched_keys[n] # <<>>}
  BY DEF Masked
<1>7. m1 \in SUBSET Names
  BY <1>1, <1>6 DEF Mismarked
<1>8. Good(t, k) /\ Sound(t, sn, masked \cup Mismarked(t))
  OBVIOUS
<1> HIDE DEF sn, sn1, t, m1
<1>9. ASSUME NEW n \in Names \ m1 PROVE KeySound(t, n, sn1)
  <2>1. CASE n \notin masked \cup Mismarked(t)
    <3>1. KeySound(t, n, sn)
      BY <1>8, <2>1 DEF Sound
    <3> QED BY <1>4, <3>1 DEF KeySound, Clean
  <2>2. CASE n \in masked \cup Mismarked(t)
    <3>1. t.watched_keys[n] = <<>>
      BY <1>6, <1>9, <2>2
    <3>2. \A d \in Clients : n \notin t.cl[d].watched
      BY <1>8, <3>1 DEF Good, Lists, ListSound, Contains
    <3> QED BY <3>2 DEF KeySound, Clean
  <2> QED BY <2>1, <2>2
<1>10. Sound(t, sn1, m1)
  BY <1>9 DEF Sound
<1> QED BY <1>2, <1>5, <1>7, <1>8, <1>10 DEF IInv, t, sn1, m1

\* A step that leaves the databases and the watchers alone.
LEMMA SameSound ==
    ASSUME NEW t, NEW r, NEW sn, NEW mk, Sound(t, sn, mk), r.db = t.db,
           \A d \in Clients : r.cl[d].watched = t.cl[d].watched /\ r.cl[d].stale = t.cl[d].stale
                              /\ r.cl[d].cas = t.cl[d].cas
    PROVE  Sound(r, sn, mk)
BY SoundLess DEF Sound, Clean

\* A step of which the outcome is sound, and which begins no watch.
LEMMA SoundStep ==
    ASSUME IInv, NEW k \in Nat, writes' = k, k <= MaxWrites, k >= writes,
           Good(s', k), Sound(s', seen, masked), seen' = Kept, Masked
    PROVE  IInv'
<1>1. Sound(s', seen, masked \cup Mismarked(s'))
  <2> DEFINE t == s'
  <2>1. Sound(t, seen, masked)
    OBVIOUS
  <2> HIDE DEF t
  <2>2. \A more : Sound(t, seen, masked \cup more)
    BY <2>1, SoundWider
  <2> QED BY <2>2 DEF t
<1> QED BY <1>1, KeptSound

LEMMA Now ==
    ASSUME IInv
    PROVE  /\ writes \in Nat /\ writes <= MaxWrites /\ writes >= writes
           /\ Good(s, writes) /\ Sound(s, seen, masked)
BY Bounds DEF IInv

\* A command of a client, or of the master.
LEMMA CallStep ==
    ASSUME IInv, NEW c \in Clients, NEW cmd \in Commands, Count(cmd),
           s' = Call(s, c, cmd, writes + 1), seen' = Kept, Masked
    PROVE  IInv'
<1> DEFINE k == writes
           v == writes + 1
           w == writes + (IF Writes(cmd) THEN 1 ELSE 0)
           r == Call(s, c, cmd, v)
<1>1. k \in Nat /\ Good(s, k) /\ Sound(s, seen, masked)
  BY Now
<1>2. w \in Nat /\ w >= writes /\ writes' = w /\ w <= MaxWrites
  BY <1>1 DEF Count
<1>3. v = k + 1 /\ w = k + (IF Writes(cmd) THEN 1 ELSE 0) /\ r = Call(s, c, cmd, v)
  OBVIOUS
<1>4. s' = r
  OBVIOUS
<1> HIDE DEF k, v, w, r
<1>5. Upheld(s, r, w, cmd, seen, masked)
  BY <1>1, <1>3, CallSound
<1>6. Good(s', w) /\ Sound(s', seen, masked \cup Mismarked(s'))
  BY <1>4, <1>5 DEF Upheld
<1> QED BY <1>2, <1>6, KeptSound

\* A client c that becomes y, and watches what it did.
LEMMA ClientStep ==
    ASSUME IInv, NEW c \in Clients, NEW y, ClientSound(y, s.replica),
           y.watched = s.cl[c].watched, y.stale = s.cl[c].stale, y.cas = s.cl[c].cas,
           s' = [s EXCEPT !.cl[c] = y], UNCHANGED writes, seen' = Kept, Masked
    PROVE  IInv'
<1> DEFINE t == s
           r == [t EXCEPT !.cl[c] = y]
           k == writes
<1>1. k \in Nat /\ k <= MaxWrites /\ k >= writes /\ writes' = k /\ Good(t, k)
      /\ Sound(t, seen, masked)
  BY Now
<1>2. s' = r /\ ClientSound(y, t.replica)
      /\ y.watched = t.cl[c].watched /\ y.stale = t.cl[c].stale /\ y.cas = t.cl[c].cas
  OBVIOUS
<1> HIDE DEF t, k
<1>3. Good(r, k) /\ r.cl = [t.cl EXCEPT ![c] = y] /\ r.db = t.db
  BY <1>1, <1>2, ClientChanges
<1>4. t.cl \in [Clients -> Client]
  BY <1>1 DEF Good, ServerTo
<1> HIDE DEF r
<1>5. \A d \in Clients : r.cl[d].watched = t.cl[d].watched /\ r.cl[d].stale = t.cl[d].stale
                         /\ r.cl[d].cas = t.cl[d].cas
  BY <1>2, <1>3, <1>4
<1>6. Sound(r, seen, masked)
  BY <1>1, <1>3, <1>5, SameSound
<1>7. Good(s', k) /\ Sound(s', seen, masked)
  BY <1>2, <1>3, <1>6
<1> QED BY <1>1, <1>7, SoundStep

LEMMA ClientNow ==
    ASSUME IInv, NEW c \in Clients
    PROVE  s.cl[c] \in Client /\ ClientSound(s.cl[c], s.replica) /\ s.cl \in [Clients -> Client]
BY DEF IInv, Good, ServerTo

\* The steps, one by one.
LEMMA MultiStep == ASSUME IInv, NEW c \in Clients, Multi(c) PROVE IInv'
<1> DEFINE y == [s.cl[c] EXCEPT !.multi = TRUE]
<1>1. s' = [s EXCEPT !.cl[c] = y] /\ UNCHANGED writes /\ seen' = Kept /\ Masked
  BY DEF Multi
<1>2. /\ ClientSound(y, s.replica)
      /\ y.watched = s.cl[c].watched /\ y.stale = s.cl[c].stale /\ y.cas = s.cl[c].cas
  BY ClientNow DEF ClientSound, Client
<1> HIDE DEF y
<1> QED BY <1>1, <1>2, ClientStep

LEMMA RejectStep == ASSUME IInv, NEW c \in Clients, Reject(c) PROVE IInv'
<1> DEFINE y == [s.cl[c] EXCEPT !.err = TRUE]
<1>1. s' = [s EXCEPT !.cl[c] = y] /\ UNCHANGED writes /\ seen' = Kept /\ Masked
  BY DEF Reject
<1>2. /\ ClientSound(y, s.replica)
      /\ y.watched = s.cl[c].watched /\ y.stale = s.cl[c].stale /\ y.cas = s.cl[c].cas
  BY ClientNow DEF ClientSound, Client
<1> HIDE DEF y
<1> QED BY <1>1, <1>2, ClientStep

LEMMA Appended ==
    ASSUME NEW E, NEW q \in Seq(E), NEW e \in E
    PROVE  /\ Append(q, e) \in Seq(E) /\ Len(Append(q, e)) = Len(q) + 1 /\ Len(q) \in Nat
           /\ \A i \in 1 .. Len(q) : Append(q, e)[i] = q[i]
           /\ Append(q, e)[Len(q) + 1] = e
OBVIOUS

LEMMA QueueStep ==
    ASSUME IInv, NEW c \in Clients, NEW cmd \in Commands, Queue(c, cmd) PROVE IInv'
<1>1. UNCHANGED writes /\ seen' = Kept /\ Masked /\ Len(s.cl[c].queue) < MaxQueue
      /\ (s.replica => cmd.op \in {"get", "unwatch"})
  BY DEF Queue, Allowed
<1>2. CASE s.cl[c].cas \/ s.cl[c].err
  <2>1. s' = s
    BY <1>2 DEF Queue
  <2> DEFINE k == writes
  <2>2. k \in Nat /\ k <= MaxWrites /\ k >= writes /\ writes' = k /\ Good(s, k)
        /\ Sound(s, seen, masked)
    BY <1>1, Now
  <2> HIDE DEF k
  <2>3. Good(s', k) /\ Sound(s', seen, masked)
    BY <2>1, <2>2
  <2> QED BY <1>1, <2>2, <2>3, SoundStep
<1>3. CASE ~(s.cl[c].cas \/ s.cl[c].err)
  <2> DEFINE q == s.cl[c].queue
             q2 == Append(q, cmd)
             y == [s.cl[c] EXCEPT !.queue = q2]
  <2>1. s' = [s EXCEPT !.cl[c] = y]
    BY <1>3 DEF Queue
  <2>2. s.cl[c] \in Client /\ ClientSound(s.cl[c], s.replica) /\ q \in Seq(Commands)
    BY ClientNow DEF Client
  <2>3. Len(q) < MaxQueue /\ (s.replica => \A i \in 1 .. Len(q) : q[i].op \in {"get", "unwatch"})
    BY <1>1, <2>2 DEF ClientSound
  <2> HIDE DEF q
  <2>4. /\ q2 \in Seq(Commands) /\ Len(q2) = Len(q) + 1 /\ Len(q) \in Nat
        /\ \A i \in 1 .. Len(q) : q2[i] = q[i]
        /\ q2[Len(q) + 1] = cmd
    BY <2>2, Appended
  <2> DEFINE N == Len(q)
  <2> HIDE DEF q2
  <2>5. Len(q2) <= MaxQueue /\ (s.replica => \A i \in 1 .. Len(q2) : q2[i].op \in {"get", "unwatch"})
    <3>1. Len(q2) <= MaxQueue
      BY <2>3, <2>4, Bounds
    <3>2. ASSUME s.replica, NEW i \in 1 .. Len(q2) PROVE q2[i].op \in {"get", "unwatch"}
      <4>1. i \in 1 .. N \/ i = N + 1
        BY <2>4
      <4>2. CASE i \in 1 .. N
        BY <2>3, <2>4, <3>2, <4>2
      <4>3. CASE i = N + 1
        BY <1>1, <2>4, <3>2, <4>3
      <4> QED BY <4>1, <4>2, <4>3
    <3> QED BY <3>1, <3>2
  <2>6. /\ y \in Client /\ y.watched = s.cl[c].watched /\ y.stale = s.cl[c].stale
        /\ y.cas = s.cl[c].cas /\ y.queue = q2
    BY <2>2, <2>4 DEF Client
  <2> HIDE DEF y
  <2>7. ClientSound(y, s.replica)
    BY <2>2, <2>5, <2>6 DEF ClientSound
  <2> QED BY <1>1, <2>1, <2>6, <2>7, ClientStep
<1> QED BY <1>2, <1>3

LEMMA DiscardStep == ASSUME IInv, NEW c \in Clients, Discard(c) PROVE IInv'
<1> DEFINE t == s
           r == s'
           k == writes
<1>1. k \in Nat /\ k <= MaxWrites /\ k >= writes /\ Good(t, k) /\ Sound(t, seen, masked)
  BY Now
<1>2. r = DiscardTransaction(t, c) /\ writes' = k /\ seen' = Kept /\ Masked
  BY DEF Discard
<1> HIDE DEF t, r, k
<1>3. Good(r, k) /\ Sound(r, seen, masked)
  BY <1>1, <1>2, DiscardSound
<1> QED BY <1>1, <1>2, <1>3, SoundStep DEF r

\* EXEC: unwatched, run, discarded.
LEMMA ExecStep == ASSUME IInv, NEW c \in Clients, Exec(c) PROVE IInv'
<1> DEFINE q == s.cl[c].queue
           u == UnwatchAllKeys(s, c)
           k == writes
           done == RunQueue(u, c, q, k + 1)
           run == WouldRun(s, c)
           t == IF run THEN done.t ELSE s
           r == s'
<1>1. k \in Nat /\ k <= MaxWrites /\ k >= writes /\ k = writes /\ Good(s, k) /\ Sound(s, seen, masked)
  BY Now
<1>2. r = DiscardTransaction(t, c) /\ writes' = (IF run THEN done.v - 1 ELSE k)
      /\ writes' <= MaxWrites /\ seen' = Kept /\ Masked
  BY DEF Exec
<1>3. q \in Seq(Commands) /\ (s.replica => \A i \in 1 .. Len(q) : q[i].op \in {"get", "unwatch"})
  BY ClientNow DEF Client, ClientSound
<1>4. u = UnwatchAllKeys(s, c)
  OBVIOUS
<1> HIDE DEF q, u, k, r
<1>5. Good(u, k) /\ u.replica = s.replica /\ Sound(u, seen, masked)
  BY <1>1, <1>4, UnwatchSound
<1>6. /\ done.v - 1 \in Nat /\ done.v - 1 >= k
      /\ Good(done.t, done.v - 1) /\ Sound(done.t, seen, masked)
  BY <1>1, <1>3, <1>5, RunQueueSound
<1> DEFINE j == IF run THEN done.v - 1 ELSE k
<1>7. j \in Nat /\ j >= k /\ writes' = j /\ Good(t, j) /\ Sound(t, seen, masked)
  <2> HIDE DEF done, run
  <2> QED BY <1>1, <1>2, <1>6
<1> HIDE DEF done, run, t, j
<1>8. Good(r, j) /\ Sound(r, seen, masked)
  BY <1>2, <1>7, DiscardSound
<1>9. j <= MaxWrites /\ j >= writes
  BY <1>1, <1>2, <1>7
<1> QED BY <1>2, <1>7, <1>8, <1>9, SoundStep DEF r

LEMMA ActiveExpireStep == ASSUME IInv, NEW n \in Names, ActiveExpire(n) PROVE IInv'
<1> DEFINE t == s
           r == s'
           k == writes
<1>1. k \in Nat /\ k <= MaxWrites /\ k >= writes /\ Good(t, k) /\ Sound(t, seen, masked)
  BY Now
<1>2. r = ExpireIfNeeded(t, n) /\ writes' = k /\ seen' = Kept /\ Masked
  BY DEF ActiveExpire
<1> HIDE DEF t, r, k
<1>3. Good(r, k) /\ Sound(r, seen, masked)
  BY <1>1, <1>2, ExpireIfNeededSound
<1> QED BY <1>1, <1>2, <1>3, SoundStep DEF r

\* A key expires under its watchers; what they saw stays, but for the mark.
LEMMA TimePassesStep == ASSUME IInv, NEW n \in Names, TimePasses(n) PROVE IInv'
<1> DEFINE t == s
           r == s'
           k == writes
           cell == [t.db[n] EXCEPT !.expired = TRUE]
           db2 == [t.db EXCEPT ![n] = cell]
<1>1. k \in Nat /\ k <= MaxWrites /\ k >= writes /\ Good(t, k) /\ Sound(t, seen, masked)
  BY Now
<1>2. r = [t EXCEPT !.db = db2] /\ writes' = k /\ seen' = Kept /\ Masked /\ ~Expired(t, n)
  BY DEF TimePasses
<1> HIDE DEF t, r, k
<1>3. /\ t \in ServerTo(k) /\ t.db \in [Names -> CellTo(k)] /\ t.db[n] \in CellTo(k)
      /\ Lists(t) /\ \A c \in Clients : ClientSound(t.cl[c], t.replica)
  BY <1>1 DEF Good, ServerTo
<1>4. cell \in CellTo(k) /\ cell.expired = TRUE /\ Fresh(cell) = Fresh(t.db[n])
  BY <1>3 DEF CellTo, Fresh
<1> HIDE DEF cell
<1>5. db2 \in [Names -> CellTo(k)] /\ db2[n] = cell /\ \A m \in Names : m # n => db2[m] = t.db[m]
  BY <1>3, <1>4
<1> HIDE DEF db2
<1>6. /\ r \in ServerTo(k) /\ r.cl = t.cl /\ r.replica = t.replica /\ r.db = db2
      /\ r.watched_keys = t.watched_keys /\ r.watching_clients = t.watching_clients
  BY <1>2, <1>3, <1>5 DEF ServerTo
<1>7. Good(r, k)
  <2>1. Watchers(r) = Watchers(t)
    BY <1>6 DEF Watchers
  <2>2. Lists(r)
    BY <1>3, <1>6, <2>1 DEF Lists, ListSound
  <2> QED BY <1>3, <1>6, <2>2 DEF Good
<1>8. ASSUME NEW m \in Names, KeySound(t, m, seen) PROVE KeySound(r, m, seen)
  <2>1. CASE m # n
    BY <1>5, <1>6, <1>8, <2>1, SoundLess DEF Clean
  <2>2. CASE m = n
    <3>1. Expired(r, n)
      BY <1>4, <1>5, <1>6 DEF Expired
    <3>2. n \notin Mismarked(r)
      BY <3>1 DEF Mismarked
    <3>3. ASSUME NEW d \in Clients, Clean(r, d, n)
          PROVE  IF n \in r.cl[d].stale THEN Expired(r, n) /\ seen[d][n] = None
                 ELSE seen[d][n] = Fresh(r.db[n])
      <4>1. Clean(t, d, n)
        BY <1>6, <3>3 DEF Clean
      <4> QED BY <1>2, <1>4, <1>5, <1>6, <1>8, <2>2, <3>1, <4>1 DEF KeySound
    <3> QED BY <2>2, <3>2, <3>3 DEF KeySound
  <2> QED BY <2>1, <2>2
<1>9. Sound(r, seen, masked)
  BY <1>1, <1>8 DEF Sound
<1> QED BY <1>1, <1>2, <1>7, <1>9, SoundStep DEF r

\* watchForKey puts the client last on the list of the key.
LEMMA WatchFields ==
    ASSUME NEW k, NEW t, Good(t, k), NEW c \in Clients, NEW n \in Names,
           n \notin t.cl[c].watched
    PROVE  LET r == WatchForKey(t, c, n) IN
           /\ Good(r, k) /\ r.db = t.db /\ r.replica = t.replica
           /\ \A d \in Clients : d # c => r.cl[d] = t.cl[d]
           /\ r.cl[c].watched = t.cl[c].watched \cup {n} /\ r.cl[c].cas = t.cl[c].cas
           /\ r.cl[c].stale = t.cl[c].stale \cup (IF Expired(t, n) THEN {n} ELSE {})
           /\ r.watched_keys[n] # <<>>
<1> DEFINE r == WatchForKey(t, c, n)
           x == t.cl[c]
           W == x.watched \cup {n}
           S == IF Expired(t, n) THEN x.stale \cup {n} ELSE x.stale
           y == [x EXCEPT !.watched = W, !.stale = S]
           cl2 == [t.cl EXCEPT ![c] = y]
           q == t.watched_keys[n]
           q2 == Append(q, c)
           lists == [t.watched_keys EXCEPT ![n] = q2]
           count == IF x.watched = {} THEN t.watching_clients + 1 ELSE t.watching_clients
<1>1. /\ t \in ServerTo(k) /\ t.cl \in [Clients -> Client] /\ x \in Client
      /\ t.watched_keys \in [Names -> Seq(Clients)] /\ q \in Seq(Clients)
      /\ Lists(t) /\ \A d \in Clients : ClientSound(t.cl[d], t.replica)
  BY DEF Good, ServerTo
<1>2. x.stale \subseteq x.watched /\ ClientSound(x, t.replica)
  BY <1>1 DEF ClientSound
<1>3. r = [t EXCEPT !.watched_keys = lists, !.cl = cl2, !.watching_clients = count]
  <2> DEFINE cl1 == [t.cl EXCEPT ![c].watched = W]
             cl3 == [cl1 EXCEPT ![c].stale = S]
  <2>1. r = [[[t EXCEPT !.watched_keys = lists] EXCEPT !.cl = cl3] EXCEPT !.watching_clients = count]
    BY <1>1, ServerFields DEF WatchForKey
  <2>2. cl3 = cl2
    BY <1>1 DEF Client
  <2> HIDE DEF cl3, cl2, lists, count, r
  <2> QED BY <1>1, <2>1, <2>2, ServerFields DEF ServerTo
<1>4. S \subseteq W /\ W \in SUBSET Names
  BY <1>1, <1>2 DEF Client
<1> DEFINE same == S = x.stale \cup (IF Expired(t, n) THEN {n} ELSE {})
<1>5. same
  OBVIOUS
<1> HIDE DEF W, S
<1>6. y \in Client /\ y.watched = W /\ y.stale = S /\ y.cas = x.cas /\ y.queue = x.queue
  BY <1>1, <1>4 DEF Client
<1>7. ClientSound(y, t.replica)
  BY <1>2, <1>4, <1>6 DEF ClientSound
<1> HIDE DEF y
<1>8. cl2 \in [Clients -> Client] /\ cl2[c] = y /\ \A d \in Clients : d # c => cl2[d] = t.cl[d]
  BY <1>1, <1>6
<1>9. q2 \in Seq(Clients) /\ Len(q2) = Len(q) + 1 /\ Len(q) \in Nat
      /\ (\A i \in 1 .. Len(q) : q2[i] = q[i]) /\ q2[Len(q) + 1] = c
  BY <1>1, Appended
<1> HIDE DEF q, q2
<1>10. lists \in [Names -> Seq(Clients)] /\ lists[n] = q2
       /\ \A m \in Names : m # n => lists[m] = t.watched_keys[m]
  BY <1>1, <1>9
<1> HIDE DEF cl2, lists, r, count
<1>11. /\ r.db = t.db /\ r.replica = t.replica /\ r.cl = cl2 /\ r.watched_keys = lists
       /\ r.watching_clients = count
       /\ r = [db |-> r.db, watched_keys |-> r.watched_keys,
               watching_clients |-> r.watching_clients, cl |-> r.cl, replica |-> r.replica]
  BY <1>1, <1>3, ServerFields DEF ServerTo
<1>12. ListSound(t, n) /\ q = t.watched_keys[n]
  BY <1>1 DEF Lists, q
<1>13. ListSound(r, n)
  <2> DEFINE N == Len(q)
  <2>1. \A i \in 1 .. N : q[i] # c
    BY <1>12 DEF ListSound, Contains
  <2>2. \A i, j \in 1 .. N : q[i] = q[j] => i = j
    BY <1>1, <1>12 DEF ListSound, IsInjective
  <2> HIDE DEF N
  <2>3. N \in Nat /\ Len(q2) = N + 1 /\ (\A i \in 1 .. N : q2[i] = q[i]) /\ q2[N + 1] = c
    BY <1>9 DEF N
  <2>4. \A i \in 1 .. N + 1 : i \in 1 .. N \/ i = N + 1
    BY <2>3
  <2>5. \A i, j \in 1 .. N + 1 : q2[i] = q2[j] => i = j
    BY <2>1, <2>2, <2>3, <2>4
  <2>6. IsInjective(q2)
    <3>1. DOMAIN q2 = 1 .. N + 1
      BY <1>9, <2>3
    <3> QED BY <2>5, <3>1 DEF IsInjective
  <2>7. ASSUME NEW d \in Clients PROVE Contains(q2, d) <=> Contains(q, d) \/ d = c
    <3>1. 1 .. N \subseteq 1 .. N + 1 /\ N + 1 \in 1 .. N + 1
      BY <2>3
    <3> QED BY <2>3, <2>4, <3>1 DEF Contains, N
  <2>8. ASSUME NEW d \in Clients PROVE n \in r.cl[d].watched <=> Contains(q2, d)
    <3>1. n \in W
      BY DEF W
    <3>2. n \in t.cl[d].watched <=> Contains(q, d)
      BY <1>12 DEF ListSound
    <3> QED BY <1>6, <1>8, <1>11, <2>7, <3>1, <3>2
  <2> QED BY <1>10, <1>11, <2>6, <2>8 DEF ListSound
<1>14. ASSUME NEW m \in Names, m # n PROVE ListSound(r, m)
  <2>1. ListSound(t, m) /\ lists[m] = t.watched_keys[m]
    BY <1>1, <1>10, <1>14 DEF Lists
  <2>2. \A d \in Clients : m \in r.cl[d].watched <=> m \in t.cl[d].watched
    BY <1>6, <1>8, <1>11, <1>14 DEF W
  <2> QED BY <1>11, <2>1, <2>2 DEF ListSound
<1>15. Watchers(r) = Watchers(t) \cup {c} /\ (c \in Watchers(t) <=> x.watched # {})
  <2>1. r.cl[c].watched # {}
    BY <1>6, <1>8, <1>11 DEF W
  <2> QED BY <1>8, <1>11, <2>1 DEF Watchers
<1>16. r.watching_clients = Cardinality(Watchers(r))
  <2>1. t.watching_clients = Cardinality(Watchers(t)) /\ IsFiniteSet(Watchers(t))
    BY <1>1, Counting DEF Lists
  <2>2. Cardinality(Watchers(t) \cup {c}) =
          IF c \in Watchers(t) THEN Cardinality(Watchers(t)) ELSE Cardinality(Watchers(t)) + 1
    BY <2>1, FS_AddElement
  <2> QED BY <1>11, <1>15, <2>1, <2>2 DEF count
<1>17. r \in ServerTo(k)
  <2>1. r.watching_clients \in 0 .. Cardinality(Clients)
    BY <1>16, CountBound
  <2>2. r.db \in [Names -> CellTo(k)] /\ r.replica \in BOOLEAN
    BY <1>1, <1>11 DEF ServerTo
  <2> QED BY <1>8, <1>10, <1>11, <2>1, <2>2 DEF ServerTo
<1>18. Good(r, k)
  <2>1. \A d \in Clients : ClientSound(r.cl[d], r.replica)
    BY <1>1, <1>7, <1>8, <1>11
  <2>2. Lists(r)
    BY <1>13, <1>14, <1>16 DEF Lists
  <2> QED BY <1>17, <2>1, <2>2 DEF Good
<1>19. r.watched_keys[n] # <<>>
  <2>1. q2 # <<>>
    BY <1>9
  <2> QED BY <1>10, <1>11, <2>1
<1>20. r.cl[c].watched = x.watched \cup {n}
  BY <1>6, <1>8, <1>11 DEF W
<1>21. r.cl[c].stale = x.stale \cup (IF Expired(t, n) THEN {n} ELSE {})
  BY <1>5, <1>6, <1>8, <1>11
<1> QED BY <1>6, <1>8, <1>11, <1>18, <1>19, <1>20, <1>21 DEF r

\* The new watcher saw what is there, and has the flag if that is expired.
LEMMA WatchStep == ASSUME IInv, NEW c \in Clients, NEW n \in Names, Watch(c, n) PROVE IInv'
<1> DEFINE t == s
           r == s'
           k == writes
           sn == seen
           sn1 == seen'
           m1 == masked'
           new == Logical(s, n)
<1>1. /\ k \in Nat /\ k \in 0 .. MaxWrites /\ Good(t, k) /\ Sound(t, sn, masked)
      /\ sn \in [Clients -> [Names -> CellTo(k)]] /\ masked \in SUBSET Names
  BY Now DEF IInv
<1>2. /\ r = WatchForKey(t, c, n) /\ writes' = k /\ n \notin t.cl[c].watched
      /\ sn1 = [sn EXCEPT ![c][n] = new] /\ new = Logical(t, n)
  BY DEF Watch
<1>3. m1 = {m \in masked \cup Mismarked(r) : r.watched_keys[m] # <<>>}
  BY DEF Watch, Masked
<1> HIDE DEF t, r, k, sn, sn1, m1, new
<1>4. /\ Good(r, k) /\ r.db = t.db /\ r.replica = t.replica
      /\ \A d \in Clients : d # c => r.cl[d] = t.cl[d]
      /\ r.cl[c].watched = t.cl[c].watched \cup {n} /\ r.cl[c].cas = t.cl[c].cas
      /\ r.cl[c].stale = t.cl[c].stale \cup (IF Expired(t, n) THEN {n} ELSE {})
      /\ r.watched_keys[n] # <<>>
  BY <1>1, <1>2, WatchFields
<1>5. t.db \in [Names -> CellTo(k)] /\ t.db[n] \in CellTo(k)
  BY <1>1 DEF Good, ServerTo
<1>6. new \in CellTo(k) /\ new = (IF Expired(t, n) THEN None ELSE Fresh(t.db[n]))
  <2>1. t.db[n].expired \in BOOLEAN
    BY <1>5 DEF CellTo
  <2>2. CASE Expired(t, n)
    BY <1>1, <1>2, <2>2, Cells DEF Logical
  <2>3. CASE ~Expired(t, n)
    <3>1. t.db[n].expired = FALSE
      BY <2>1, <2>3 DEF Expired
    <3>2. Fresh(t.db[n]) = t.db[n]
      BY <1>1, <1>5, <3>1, FreshCell
    <3> QED BY <1>2, <1>5, <2>3, <3>2 DEF Logical
  <2> QED BY <2>2, <2>3
<1>7. sn1 \in [Clients -> [Names -> CellTo(k)]] /\ sn1[c][n] = new
      /\ \A d \in Clients, m \in Names : d # c \/ m # n => sn1[d][m] = sn[d][m]
  BY <1>1, <1>2, <1>6
<1>8. ASSUME NEW m \in Names, m \notin m1, m # n PROVE KeySound(r, m, sn1)
  <2>1. \A d \in Clients : /\ m \in r.cl[d].watched <=> m \in t.cl[d].watched
                           /\ m \in r.cl[d].stale <=> m \in t.cl[d].stale
                           /\ r.cl[d].cas = t.cl[d].cas
    BY <1>4, <1>8
  <2>2. CASE r.watched_keys[m] = <<>>
    <3>1. \A d \in Clients : m \notin r.cl[d].watched
      BY <1>4, <2>2 DEF Good, Lists, ListSound, Contains
    <3> QED BY <3>1 DEF KeySound, Clean
  <2>3. CASE m \notin masked
    <3>1. KeySound(t, m, sn)
      BY <1>1, <2>3 DEF Sound
    <3>2. KeySound(r, m, sn)
      BY <1>4, <2>1, <3>1, SoundLess DEF Clean
    <3> QED BY <1>7, <1>8, <3>2 DEF KeySound
  <2> QED BY <1>3, <1>8, <2>2, <2>3
<1>9. ASSUME n \notin m1 PROVE KeySound(r, n, sn1)
  <2>1. n \notin masked /\ n \notin Mismarked(r)
    BY <1>3, <1>4, <1>9
  <2>2. KeySound(t, n, sn)
    BY <1>1, <2>1 DEF Sound
  <2>3. Expired(r, n) = Expired(t, n)
    BY <1>4 DEF Expired
  <2>4. ASSUME NEW d \in Clients, Clean(r, d, n)
        PROVE  IF n \in r.cl[d].stale THEN Expired(r, n) /\ sn1[d][n] = None
               ELSE sn1[d][n] = Fresh(r.db[n])
    <3>1. CASE d # c
      <4>1. Clean(t, d, n)
        BY <1>4, <2>4, <3>1 DEF Clean
      <4> QED BY <1>4, <1>7, <2>2, <2>3, <3>1, <4>1 DEF KeySound
    <3>2. CASE d = c
      <4>1. n \notin t.cl[c].stale
        BY <1>1, <1>2 DEF Good, ClientSound
      <4> QED BY <1>4, <1>6, <1>7, <2>3, <3>2, <4>1
    <3> QED BY <3>1, <3>2
  <2> QED BY <2>1, <2>4 DEF KeySound
<1>10. Sound(r, sn1, m1) /\ m1 \in SUBSET Names
  BY <1>1, <1>3, <1>8, <1>9 DEF Sound, Mismarked
<1> QED BY <1>1, <1>2, <1>4, <1>7, <1>10 DEF IInv, r, sn1, m1, k

\* The invariant is inductive.
LEMMA NextInv == IInv /\ [Next]_vars => IInv'
<1> SUFFICES ASSUME IInv, [Next]_vars PROVE IInv'
  OBVIOUS
<1>1. ASSUME NEW c \in Clients, Multi(c) PROVE IInv'
  BY <1>1, MultiStep
<1>2. ASSUME NEW c \in Clients, Exec(c) PROVE IInv'
  BY <1>2, ExecStep
<1>3. ASSUME NEW c \in Clients, Discard(c) PROVE IInv'
  BY <1>3, DiscardStep
<1>4. ASSUME NEW c \in Clients, Reject(c) PROVE IInv'
  BY <1>4, RejectStep
<1>5. ASSUME NEW c \in Clients, NEW n \in Names, Watch(c, n) PROVE IInv'
  BY <1>5, WatchStep
<1>6. ASSUME NEW c \in Clients, NEW cmd \in Commands, Run(c, cmd) PROVE IInv'
  BY <1>6, CallStep DEF Run
<1>7. ASSUME NEW c \in Clients, NEW cmd \in Commands, Queue(c, cmd) PROVE IInv'
  BY <1>7, QueueStep
<1>8. ASSUME NEW cmd \in Commands, MasterRun(cmd) PROVE IInv'
  <2>1. PICK c \in Clients : s' = Call(s, c, cmd, writes + 1)
    BY <1>8 DEF MasterRun
  <2> QED BY <1>8, <2>1, CallStep DEF MasterRun
<1>9. ASSUME NEW n \in Names, TimePasses(n) PROVE IInv'
  BY <1>9, TimePassesStep
<1>10. ASSUME NEW n \in Names, ActiveExpire(n) PROVE IInv'
  BY <1>10, ActiveExpireStep
<1>11. CASE UNCHANGED vars
  BY <1>11 DEF vars, IInv
<1> QED
  BY <1>1, <1>2, <1>3, <1>4, <1>5, <1>6, <1>7, <1>8, <1>9, <1>10, <1>11 DEF Next

\* The invariant holds in every state (multi.c, db.c: every command and every EXEC).
THEOREM Invariance == Spec => []IInv
BY InitInv, NextInv, PTL DEF Spec

\* What the invariant says of the lists, and of an EXEC.
LEMMA WatchersSoundInv == IInv => WatchersSound
<1> SUFFICES ASSUME IInv PROVE WatchersSound
  OBVIOUS
<1>1. /\ writes \in Nat /\ writes <= MaxWrites /\ Good(s, writes) /\ masked \subseteq Names
      /\ seen \in [Clients -> [Names -> CellTo(writes)]]
  BY Now DEF IInv
<1>2. CellTo(writes) \subseteq Cell
  BY <1>1, CellsGrow, Bounds DEF CellTo, Cell
<1>3. s \in Server
  <2>1. s.db \in [Names -> Cell]
    BY <1>1, <1>2 DEF Good, ServerTo
  <2> QED BY <1>1, <2>1 DEF Good, ServerTo, Server
<1>4. seen \in [Clients -> [Names -> Cell]]
  BY <1>1, <1>2
<1>5. \A c \in Clients : s.cl[c].stale \subseteq s.cl[c].watched /\ Len(s.cl[c].queue) <= MaxQueue
  BY <1>1 DEF Good, ClientSound
<1>6. TypeOK
  BY <1>1, <1>3, <1>4, <1>5 DEF IInv, TypeOK
<1>7. ListsAgree
  BY <1>1 DEF Good, Lists, ListSound, Watchers, ListsAgree
<1> QED BY <1>6, <1>7 DEF WatchersSound

LEMMA RunsInv == IInv => RunsOnWhatWasSeen
<1> SUFFICES ASSUME IInv, NEW c \in Clients, WouldRun(s, c), NEW n \in s.cl[c].watched, n \notin masked
             PROVE  Logical(s, n) = seen[c][n]
  BY DEF RunsOnWhatWasSeen
<1>1. writes \in Nat /\ Good(s, writes) /\ n \in Names
  BY Now, ClientNow DEF Client
<1>2. KeySound(s, n, seen)
  BY <1>1 DEF IInv, Sound
<1>3. Clean(s, c, n) /\ (n \notin s.cl[c].stale => ~Expired(s, n))
  BY DEF WouldRun, Clean, IsWatchedKeyExpired
<1>4. CASE n \in s.cl[c].stale
  BY <1>2, <1>3, <1>4 DEF KeySound, Logical
<1>5. CASE n \notin s.cl[c].stale
  <2>1. s.db[n] \in CellTo(writes)
    BY <1>1 DEF Good, ServerTo
  <2>2. s.db[n].expired = FALSE
    BY <1>3, <1>5, <2>1 DEF Expired, CellTo
  <2>3. Fresh(s.db[n]) = s.db[n]
    BY <1>1, <2>1, <2>2, FreshCell
  <2> QED BY <1>2, <1>3, <1>5, <2>3 DEF KeySound, Logical
<1> QED BY <1>4, <1>5

\* Who watches what is known the same at both ends, by whichever way a watch
\* ends, and the server is of its type (unwatchAllKeys, touchWatchedKey,
\* discardTransaction: multi.c:272).
THEOREM WatchersAgree == Spec => []WatchersSound
BY Invariance, WatchersSoundInv, PTL

\* An EXEC that would run finds every key that is not masked as its client saw it
\* when it began to watch it, whatever the commands, expiries, flushes, swaps and
\* transactions in between (touchWatchedKey and isWatchedKeyExpired, multi.c:373).
THEOREM RunsOnWhatWasSeenAlways == Spec => []RunsOnWhatWasSeen
BY Invariance, RunsInv, PTL

(***************************************************************************)
(* Who is told of a change, and who is not.                                *)
(***************************************************************************)
\* What a put of cell at n makes of the client d: nothing, or what a watcher that
\* is reached becomes.
Reached(t, n, cell, d, x) ==
  /\ n \in t.cl[d].watched
  /\ IF n \in t.cl[d].stale
     THEN cell = None /\ x.watched = t.cl[d].watched /\ x.cas = t.cl[d].cas /\ x.stale = t.cl[d].stale \ {n}
     ELSE x.watched = {} /\ x.stale = {} /\ x.cas

LEMMA PutFields ==
    ASSUME NEW k, NEW t, Good(t, k), NEW n \in Names, NEW cell, Live(k, cell), NEW r, r = Put(t, n, cell)
    PROVE  /\ Good(r, k) /\ r.replica = t.replica /\ r.db[n] = cell
           /\ \A m \in Names : m # n => r.db[m] = t.db[m]
           /\ \A d \in Clients : r.cl[d] = t.cl[d] \/ Reached(t, n, cell, d, r.cl[d])
           /\ cell = None \/ (\A d \in Clients : n \notin t.cl[d].stale) =>
                \A d \in Clients : n \in t.cl[d].watched => Reached(t, n, cell, d, r.cl[d])
<1> DEFINE u == [t EXCEPT !.db[n] = cell]
<1>0. cell \in CellTo(k) /\ cell.expired = FALSE
  BY DEF Live
<1>1. Good(u, k) /\ u.cl = t.cl /\ u.replica = t.replica /\ u.db = [t.db EXCEPT ![n] = cell]
  <2> DEFINE db2 == [t.db EXCEPT ![n] = cell]
  <2>1. t.db \in [Names -> CellTo(k)] /\ t \in ServerTo(k) /\ Lists(t)
        /\ \A c \in Clients : ClientSound(t.cl[c], t.replica)
    BY DEF Good, ServerTo
  <2>2. db2 \in [Names -> CellTo(k)] /\ u = [t EXCEPT !.db = db2]
    BY <1>0, <2>1
  <2> HIDE DEF db2, u
  <2>3. /\ u \in ServerTo(k) /\ u.cl = t.cl /\ u.replica = t.replica /\ u.db = db2
        /\ u.watched_keys = t.watched_keys /\ u.watching_clients = t.watching_clients
    BY <2>1, <2>2 DEF ServerTo
  <2>4. Watchers(u) = Watchers(t)
    BY <2>3 DEF Watchers
  <2>5. Lists(u)
    BY <2>1, <2>3, <2>4 DEF Lists, ListSound
  <2> QED BY <2>1, <2>3, <2>5 DEF Good, db2
<1>2. t.db \in [Names -> CellTo(k)] /\ t.cl \in [Clients -> Client]
  BY DEF Good, ServerTo
<1>3. u.db[n] = cell /\ \A m \in Names : m # n => u.db[m] = t.db[m]
  BY <1>1, <1>2
<1> HIDE DEF u
<1>4. r = TouchWatchedKey(u, n)
  BY DEF Put, u
<1>5. /\ Good(r, k) /\ r.db = u.db /\ r.replica = u.replica
      /\ \A d \in Clients :
           r.cl[d] = u.cl[d]
             \/ (r.cl[d] = Told(u, n, d) /\ Passed(u, n, d) /\ n \in u.cl[d].watched)
      /\ (\A d \in Clients : Passed(u, n, d)) =>
           \A d \in Clients : n \in u.cl[d].watched => r.cl[d] = Told(u, n, d)
  BY <1>1, <1>4, TouchSound
<1>6. ASSUME NEW d \in Clients, r.cl[d] = Told(u, n, d), Passed(u, n, d),
             n \in u.cl[d].watched
      PROVE  Reached(t, n, cell, d, r.cl[d])
  <2> DEFINE x == t.cl[d]  y == Told(u, n, d)
  <2>1. x \in Client /\ u.cl[d] = x
    BY <1>1, <1>2
  <2>2. y = IF n \in x.stale THEN [x EXCEPT !.stale = @ \ {n}] ELSE Unwatched([x EXCEPT !.cas = TRUE])
    BY <2>1 DEF Told
  <2> HIDE DEF x, y
  <2>3. CASE n \in x.stale
    <3>1. y.watched = x.watched /\ y.cas = x.cas /\ y.stale = x.stale \ {n}
      BY <2>1, <2>2, <2>3 DEF Client
    <3>2. cell = None
      BY <1>3, <1>6, <2>1, <2>3 DEF Passed
    <3> QED BY <1>1, <1>6, <2>3, <3>1, <3>2 DEF Reached, x, y
  <2>4. CASE n \notin x.stale
    <3>1. y.watched = {} /\ y.stale = {} /\ y.cas
      BY <2>1, <2>2, <2>4 DEF Client, Unwatched
    <3> QED BY <1>1, <1>6, <2>4, <3>1 DEF Reached, x, y
  <2> QED BY <2>3, <2>4
<1>7. ASSUME cell = None \/ \A d \in Clients : n \notin t.cl[d].stale PROVE \A d \in Clients : Passed(u, n, d)
  BY <1>1, <1>3, <1>7 DEF Passed
<1> QED BY <1>1, <1>3, <1>5, <1>6, <1>7

\* touchAllWatchedKeysInDb comes to the verdict v on the watch of n by d.
Judges(t, ds, to, d, n, v) ==
  n \in t.cl[d].watched /\ n[1] \in ds /\ Verdict(t.db[n], to[n], n \in t.cl[d].stale) = v
\* x is what the client d becomes.
Judged(t, ds, to, d, x) ==
  /\ x.watched = t.cl[d].watched
  /\ x.cas <=> (t.cl[d].cas \/ \E n \in Names : Judges(t, ds, to, d, n, "dirty"))
  /\ \A n \in Names : n \in x.stale <=> \/ n \in t.cl[d].stale /\ ~Judges(t, ds, to, d, n, "fresh")
                                       \/ Judges(t, ds, to, d, n, "stale")

\* Every key of the databases ds has become to[n].
Becoming(t, ds, to) == [TouchAllWatchedKeys(t, ds, to) EXCEPT !.db = to]

LEMMA TouchAllFields ==
    ASSUME NEW k \in Nat, NEW t, Good(t, k), NEW ds, NEW to \in [Names -> CellTo(k)],
           NEW r, r = Becoming(t, ds, to)
    PROVE  /\ Good(r, k) /\ r.replica = t.replica /\ r.db = to
           /\ \A d \in Clients : Judged(t, ds, to, d, r.cl[d])
<1> DEFINE of(d, v) == {n \in t.cl[d].watched : n[1] \in ds
                          /\ Verdict(t.db[n], to[n], n \in t.cl[d].stale) = v}
           y(d) == [t.cl[d] EXCEPT !.cas = @ \/ of(d, "dirty") # {},
                                   !.stale = (@ \ of(d, "fresh")) \cup of(d, "stale")]
           x == [d \in Clients |-> y(d)]
           u == [t EXCEPT !.cl = x]
<1>1. t.cl \in [Clients -> Client] /\ t.db \in [Names -> CellTo(k)]
      /\ \A d \in Clients : ClientSound(t.cl[d], t.replica)
  BY DEF Good, ServerTo
<1>2. r = [u EXCEPT !.db = to]
  BY DEF TouchAllWatchedKeys, Becoming
<1>3. ASSUME NEW d \in Clients
      PROVE  /\ x[d] \in Client /\ ClientSound(x[d], t.replica)
             /\ x[d].watched = t.cl[d].watched
             /\ x[d].cas <=> (t.cl[d].cas \/ of(d, "dirty") # {})
             /\ x[d].stale = (t.cl[d].stale \ of(d, "fresh")) \cup of(d, "stale")
  <2>1. /\ of(d, "stale") \subseteq t.cl[d].watched
        /\ t.cl[d] \in Client /\ ClientSound(t.cl[d], t.replica)
    BY <1>1
  <2> DEFINE C == t.cl[d].cas \/ of(d, "dirty") # {}
             S == (t.cl[d].stale \ of(d, "fresh")) \cup of(d, "stale")
             w == t.cl[d]
  <2>2. S \subseteq w.watched
    BY <2>1 DEF ClientSound
  <2>3. x[d] = [w EXCEPT !.cas = C, !.stale = S]
    OBVIOUS
  <2>4. C \in BOOLEAN
    OBVIOUS
  <2>5. w \in Client /\ ClientSound(w, t.replica)
    BY <2>1
  <2> HIDE DEF x, of, C, S, w
  <2>6. [w EXCEPT !.cas = C, !.stale = S] \in Client
    BY <2>2, <2>4, <2>5 DEF Client
  <2>7. LET z == [w EXCEPT !.cas = C, !.stale = S] IN
          z.watched = w.watched /\ z.cas = C /\ z.stale = S /\ z.queue = w.queue
    BY <2>5 DEF Client
  <2>8. x[d] \in Client /\ x[d].watched = w.watched /\ x[d].cas = C /\ x[d].stale = S
        /\ x[d].queue = w.queue
    BY <2>3, <2>6, <2>7
  <2>9. ClientSound(x[d], t.replica)
    BY <2>2, <2>5, <2>8 DEF ClientSound
  <2> QED BY <2>8, <2>9 DEF C, S, w
<1>4. x \in [Clients -> Client]
  <2>1. x = [d \in Clients |-> x[d]]
    OBVIOUS
  <2> HIDE DEF x
  <2> QED BY <1>3, <2>1
<1> HIDE DEF x, u
<1>5. /\ Good(u, k) /\ u.cl = x /\ u.db = t.db /\ u.replica = t.replica
      /\ u.watched_keys = t.watched_keys
  <2> HIDE DEF of
  <2> QED BY <1>3, <1>4, ClientsChange DEF u
<1>6. /\ Good(r, k) /\ r.db = to /\ r.cl = x /\ r.replica = t.replica
  <2>1. /\ r \in ServerTo(k) /\ r.cl = u.cl /\ r.replica = u.replica /\ r.db = to
        /\ r.watched_keys = u.watched_keys /\ r.watching_clients = u.watching_clients
    BY <1>2, <1>5 DEF Good, ServerTo
  <2>2. Watchers(r) = Watchers(u)
    BY <2>1 DEF Watchers
  <2>3. Lists(r)
    BY <1>5, <2>1, <2>2 DEF Lists, ListSound, Good
  <2> QED BY <1>5, <2>1, <2>3 DEF Good
<1>7. ASSUME NEW d \in Clients PROVE Judged(t, ds, to, d, r.cl[d])
  <2>1. \A n, v : n \in of(d, v) <=> Judges(t, ds, to, d, n, v)
    BY DEF Judges
  <2>2. t.cl[d].watched \subseteq Names
    BY <1>1 DEF Client
  <2>3. of(d, "dirty") # {} <=> \E n \in Names : Judges(t, ds, to, d, n, "dirty")
    BY <2>1, <2>2
  <2> HIDE DEF of
  <2> QED BY <1>3, <1>6, <2>1, <2>3 DEF Judged
<1> QED BY <1>6, <1>7
(***************************************************************************)
(* What makes an EXEC fail.                                                *)
(***************************************************************************)
\* No key that is absent has a watcher with the flag, and so a loop of
\* touchWatchedKey over its watchers reaches them all.
Unflagged(t) == \A n \in Names : t.db[n] = None => \A d \in Clients : n \notin t.cl[d].stale

\* A value is in one place.
Distinct(db) ==
  /\ \A n \in Names : db[n].val = 0 => db[n] = None
  /\ \A m, n \in Names : db[m].val = db[n].val => m = n \/ db[m].val = 0

\* What d saw of n, if it was not told of a change: nothing, and there is nothing
\* or what there is was expired; or a value that is in no other place.
Recalls(t, sn, d, n) ==
  IF n \in t.cl[d].stale THEN sn[d][n] = None
  ELSE IF sn[d][n] = None THEN t.db[n] = None
  ELSE t.db[n] # None /\ \A m \in Names : m # n => Logical(t, m) # sn[d][n]
Calm(t, sn) ==
  /\ Unflagged(t) /\ Distinct(t.db)
  /\ \A d \in Clients, n \in Names : Clean(t, d, n) => Recalls(t, sn, d, n)

\* Nobody watches more than before, and who is told of a change watched n.
Tells(t, r, n) ==
  \A d \in Clients : /\ r.cl[d].watched \subseteq t.cl[d].watched
                     /\ t.cl[d].cas => r.cl[d].cas
                     /\ ~t.cl[d].cas /\ r.cl[d].cas => n \in t.cl[d].watched

\* Who is told of a change would find one.
Warranted(t, r, sn) ==
  \A d \in Clients : ~t.cl[d].cas /\ r.cl[d].cas
                       => \E n \in t.cl[d].watched : Logical(r, n) # sn[d][n]

\* cell may come to n: its value is nowhere else, and nobody saw it.
NewCell(t, sn, n, cell) ==
  /\ cell.val = 0 => cell = None
  /\ \A m \in Names : m # n => t.db[m].val # cell.val \/ cell.val = 0
  /\ \A d \in Clients, m \in Names : sn[d][m] = cell => cell = None

LEMMA CalmHas ==
    ASSUME NEW t, NEW sn, Calm(t, sn), NEW d \in Clients, NEW n \in Names, Clean(t, d, n)
    PROVE  Recalls(t, sn, d, n)
BY DEF Calm

LEMMA DistinctPut ==
    ASSUME NEW k, NEW t, Good(t, k), NEW sn, NEW n \in Names, NEW cell, NewCell(t, sn, n, cell), Distinct(t.db),
           NEW r, r.db[n] = cell, \A m \in Names : m # n => r.db[m] = t.db[m]
    PROVE  Distinct(r.db)
<1>1. ASSUME NEW m \in Names, r.db[m].val = 0 PROVE r.db[m] = None
  BY <1>1 DEF Distinct, NewCell
<1>2. ASSUME NEW m \in Names, NEW j \in Names, r.db[m].val = r.db[j].val, m # j PROVE r.db[m].val = 0
  <2>1. CASE m = n
    BY <1>2, <2>1 DEF NewCell
  <2>2. CASE j = n
    BY <1>2, <2>2 DEF NewCell
  <2>3. CASE m # n /\ j # n
    BY <1>2, <2>3 DEF Distinct
  <2> QED BY <2>1, <2>2, <2>3
<1> QED BY <1>1, <1>2 DEF Distinct

\* A key is written or deleted, and its watchers are told.
LEMMA PutCalm ==
    ASSUME NEW k, NEW t, Good(t, k), NEW n \in Names, NEW cell, Live(k, cell), NEW r, r = Put(t, n, cell),
           NEW sn, Calm(t, sn), NewCell(t, sn, n, cell), cell = None => t.db[n] # None
    PROVE  /\ Good(r, k) /\ r.replica = t.replica /\ r.db[n] = cell
           /\ \A m \in Names : m # n => r.db[m] = t.db[m]
           /\ Calm(r, sn) /\ Tells(t, r, n) /\ Warranted(t, r, sn)
<1>1. /\ Good(r, k) /\ r.replica = t.replica /\ r.db[n] = cell
      /\ \A m \in Names : m # n => r.db[m] = t.db[m]
      /\ \A d \in Clients : r.cl[d] = t.cl[d] \/ Reached(t, n, cell, d, r.cl[d])
      /\ cell = None \/ (\A d \in Clients : n \notin t.cl[d].stale) =>
           \A d \in Clients : n \in t.cl[d].watched => Reached(t, n, cell, d, r.cl[d])
  BY PutFields
<1>2. /\ \A d \in Clients : t.cl[d].stale \subseteq t.cl[d].watched /\ t.cl[d].watched \subseteq Names
      /\ cell.expired = FALSE
  BY DEF Good, ClientSound, ServerTo, Client, Live
<1>3. Logical(r, n) = cell /\ \A m \in Names : m # n => Logical(r, m) = Logical(t, m)
  BY <1>1, <1>2 DEF Logical, Expired
\* A client that is not reached is as it was.
<1>4. ASSUME NEW d \in Clients
      PROVE  r.cl[d] = t.cl[d] \/ Reached(t, n, cell, d, r.cl[d])
  BY <1>1
<1>5. Tells(t, r, n)
  <2>1. ASSUME NEW d \in Clients
        PROVE  /\ r.cl[d].watched \subseteq t.cl[d].watched
               /\ t.cl[d].cas => r.cl[d].cas
               /\ ~t.cl[d].cas /\ r.cl[d].cas => n \in t.cl[d].watched
    BY <1>4 DEF Reached
  <2> QED BY <2>1 DEF Tells
<1>6. ASSUME NEW d \in Clients, ~t.cl[d].cas, r.cl[d].cas
      PROVE  n \in t.cl[d].watched /\ cell # sn[d][n]
  <2>1. n \in t.cl[d].watched /\ n \notin t.cl[d].stale
    BY <1>4, <1>6 DEF Reached
  <2>2. Recalls(t, sn, d, n)
    BY <1>6, <2>1, CalmHas DEF Clean
  <2>3. CASE cell = None
    BY <2>1, <2>2, <2>3 DEF Recalls
  <2>4. CASE cell # None
    BY <2>1, <2>4 DEF NewCell
  <2> QED BY <2>1, <2>3, <2>4
<1>7. Warranted(t, r, sn)
  BY <1>3, <1>6 DEF Warranted
<1>8. Distinct(r.db)
  BY <1>1, DistinctPut DEF Calm
\* Who still has the flag on n watches a key that is there.
<1>9. Unflagged(t)
  BY DEF Calm
<1>10. ASSUME NEW m \in Names, r.db[m] = None, NEW d \in Clients PROVE m \notin r.cl[d].stale
  <2>1. CASE m # n
    <3>1. m \notin t.cl[d].stale
      BY <1>1, <1>9, <1>10, <2>1 DEF Unflagged
    <3> QED BY <1>4, <2>1, <3>1 DEF Reached
  <2>2. CASE m = n
    <3>1. cell = None
      BY <1>1, <1>10, <2>2
    <3>2. CASE n \in t.cl[d].stale
      <4>1. Reached(t, n, cell, d, r.cl[d])
        BY <1>1, <1>2, <3>1, <3>2
      <4> QED BY <2>2, <3>2, <4>1 DEF Reached
    <3>3. CASE n \notin t.cl[d].stale
      BY <1>4, <2>2, <3>3 DEF Reached
    <3> QED BY <3>2, <3>3
  <2> QED BY <2>1, <2>2
<1>11. ASSUME NEW d \in Clients, NEW m \in Names, Clean(r, d, m) PROVE Recalls(r, sn, d, m)
  <2>1. Clean(t, d, m) /\ (r.cl[d] = t.cl[d] \/ (Reached(t, n, cell, d, r.cl[d]) /\ n \in t.cl[d].stale))
    BY <1>4, <1>11 DEF Reached, Clean
  <2>2. Recalls(t, sn, d, m)
    BY <2>1, CalmHas
  <2>3. m # n => (m \in r.cl[d].stale <=> m \in t.cl[d].stale)
    BY <2>1 DEF Reached
  <2>4. n \in r.cl[d].stale => n \in t.cl[d].stale
    BY <2>1 DEF Reached
  <2>5. CASE m \in r.cl[d].stale
    BY <2>2, <2>3, <2>4, <2>5 DEF Recalls
  <2>6. CASE m \notin r.cl[d].stale /\ sn[d][m] = None
    <3>1. CASE m # n
      BY <1>1, <2>2, <2>3, <2>6, <3>1 DEF Recalls
    <3>2. CASE m = n /\ n \in t.cl[d].stale
      <4>1. Reached(t, n, cell, d, r.cl[d])
        BY <2>1, <2>6, <3>2
      <4>2. cell = None
        BY <3>2, <4>1 DEF Reached
      <4> QED BY <1>1, <2>6, <3>2, <4>2 DEF Recalls
    <3>3. CASE m = n /\ n \notin t.cl[d].stale
      <4>1. t.db[n] = None
        BY <2>2, <2>6, <3>3 DEF Recalls
      <4>2. \A e \in Clients : n \notin t.cl[e].stale
        BY <1>9, <4>1 DEF Unflagged
      <4>3. Reached(t, n, cell, d, r.cl[d])
        BY <1>1, <2>1, <3>3, <4>2 DEF Clean
      <4> QED BY <1>11, <3>3, <4>3 DEF Reached, Clean
    <3> QED BY <3>1, <3>2, <3>3
  <2>7. CASE m \notin r.cl[d].stale /\ sn[d][m] # None
    <3>1. m \notin t.cl[d].stale
      BY <2>2, <2>7 DEF Recalls
    <3>2. t.db[m] # None /\ \A j \in Names : j # m => Logical(t, j) # sn[d][m]
      BY <2>2, <2>7, <3>1 DEF Recalls
    <3>3. cell # sn[d][m]
      BY <2>7 DEF NewCell
    <3>4. \A j \in Names : j # m => Logical(r, j) # sn[d][m]
      BY <1>3, <3>2, <3>3
    <3>5. r.db[m] # None
      <4>1. CASE m # n
        BY <1>1, <3>2, <4>1
      <4>2. CASE m = n /\ cell = None
        <5>1. \A e \in Clients : n \notin t.cl[e].stale \/ cell = None
          BY <4>2
        <5>2. Reached(t, n, cell, d, r.cl[d])
          BY <1>1, <2>1, <4>2 DEF Clean
        <5> QED BY <1>11, <3>1, <4>2, <5>2 DEF Reached, Clean
      <4>3. CASE m = n /\ cell # None
        BY <1>1, <4>3
      <4> QED BY <4>1, <4>2, <4>3
    <3> QED BY <2>7, <3>4, <3>5 DEF Recalls
  <2> QED BY <2>5, <2>6, <2>7
<1>12. Calm(r, sn)
  BY <1>8, <1>10, <1>11 DEF Calm, Unflagged
<1> QED BY <1>1, <1>5, <1>7, <1>12

\* A value with a number that is yet to come is new, at a key that is n's.
LEMMA NewNumber ==
    ASSUME NEW k \in Nat, NEW t, Good(t, k), NEW sn \in [Clients -> [Names -> CellTo(k)]], Distinct(t.db),
           NEW n \in Names, NEW cell, cell.val # 0,
           \A m \in Names : m # n => t.db[m].val # cell.val,
           cell.val = k + 1 \/ cell.ttl = k + 1
    PROVE  NewCell(t, sn, n, cell)
<1>1. ASSUME NEW d \in Clients, NEW m \in Names PROVE sn[d][m] # cell
  <2>1. sn[d][m] \in CellTo(k)
    OBVIOUS
  <2>2. sn[d][m].val <= k /\ sn[d][m].ttl <= k /\ sn[d][m].val \in Int /\ sn[d][m].ttl \in Int
    BY <2>1 DEF CellTo, UpTo
  <2>3. sn[d][m].val # k + 1 /\ sn[d][m].ttl # k + 1
    BY <2>2
  <2> QED BY <2>3
<1> QED BY <1>1 DEF NewCell

LEMMA NewNone == ASSUME NEW t, NEW sn, NEW n PROVE NewCell(t, sn, n, None)
BY DEF NewCell, None

\* A command on the key n that makes r of t tells no client in vain.
Tactful(t, r, n, sn) ==
  /\ r.replica = t.replica /\ Calm(r, sn) /\ Tells(t, r, n) /\ Warranted(t, r, sn)

LEMMA TactfulSame ==
    ASSUME NEW t, NEW n, NEW sn, Calm(t, sn) PROVE Tactful(t, t, n, sn)
BY DEF Tactful, Tells, Warranted

\* expireIfNeeded: the key is deleted, or nothing happens.
LEMMA ExpireIfNeededCalm ==
    ASSUME NEW k \in Nat, NEW t, Good(t, k), NEW n \in Names, NEW sn, Calm(t, sn),
           NEW r, r = ExpireIfNeeded(t, n)
    PROVE  /\ Good(r, k) /\ Tactful(t, r, n, sn)
           /\ r = t \/ r.db[n] = None
<1>1. CASE ~(Expired(t, n) /\ ~t.replica)
  <2>1. r = t
    BY <1>1 DEF ExpireIfNeeded
  <2> QED BY <2>1, TactfulSame
<1>2. CASE Expired(t, n) /\ ~t.replica
  <2> DEFINE cell == None
  <2>1. r = Put(t, n, cell)
    BY <1>2 DEF ExpireIfNeeded
  <2>2. Live(k, cell) /\ cell = None /\ NewCell(t, sn, n, cell)
    BY Cells, NewNone
  <2>3. t.db[n] # None
    BY <1>2, FreshNone DEF Expired
  <2> HIDE DEF cell
  <2>4. /\ Good(r, k) /\ r.replica = t.replica /\ r.db[n] = cell
        /\ Calm(r, sn) /\ Tells(t, r, n) /\ Warranted(t, r, sn)
    BY <2>1, <2>2, <2>3, PutCalm
  <2> QED BY <2>2, <2>4 DEF Tactful
<1> QED BY <1>1, <1>2

LEMMA SetKeyCalm ==
    ASSUME NEW k \in Nat, NEW t, Good(t, k), NEW n \in Names,
           NEW sn \in [Clients -> [Names -> CellTo(k)]], Calm(t, sn), NEW r, r = SetKey(t, n, k + 1)
    PROVE  Good(r, k + 1) /\ Tactful(t, r, n, sn)
<1> DEFINE u == ExpireIfNeeded(t, n)
           cell == [None EXCEPT !.val = k + 1]
           j == k + 1
<1>1. Good(u, k) /\ Tactful(t, u, n, sn)
  BY ExpireIfNeededCalm
<1>2. j \in Nat /\ k + 1 \in UpTo(j) /\ r = Put(u, n, cell)
  BY DEF SetKey, UpTo
<1>3. Live(j, cell) /\ cell.val = k + 1 /\ cell # None
  <2>1. Live(j, cell)
    BY <1>2, Cells
  <2>2. cell.val = k + 1 /\ None.val = 0
    BY DEF None
  <2> HIDE DEF cell
  <2>3. cell # None
    BY <2>2
  <2> QED BY <2>1, <2>2, <2>3
<1> HIDE DEF u, cell
<1>4. Good(u, j)
  BY <1>1, GoodOn
<1>5. NewCell(u, sn, n, cell)
  <2>1. \A m \in Names : u.db[m].val # k + 1
    <3>1. \A m \in Names : u.db[m] \in CellTo(k)
      BY <1>1 DEF Good, ServerTo
    <3>2. ASSUME NEW m \in Names PROVE u.db[m].val # k + 1
      <4>1. u.db[m].val <= k /\ u.db[m].val \in Int
        BY <3>1 DEF CellTo, UpTo
      <4> QED BY <4>1
    <3> QED BY <3>2
  <2>2. Distinct(u.db)
    BY <1>1 DEF Tactful, Calm
  <2> QED BY <1>1, <1>3, <2>1, <2>2, NewNumber
<1>6. Calm(u, sn) /\ u.replica = t.replica /\ Tells(t, u, n)
  BY <1>1 DEF Tactful
<1> HIDE DEF j
<1>7. /\ Good(r, j) /\ r.replica = u.replica /\ r.db[n] = cell
      /\ Calm(r, sn) /\ Tells(u, r, n) /\ Warranted(u, r, sn)
  BY <1>2, <1>3, <1>4, <1>5, <1>6, PutCalm
<1>8. Tells(t, r, n)
  BY <1>6, <1>7 DEF Tells
<1>9. Logical(r, n) = cell
  BY <1>3, <1>7 DEF Logical, Expired, Live
<1>10. ASSUME NEW d \in Clients, ~t.cl[d].cas, r.cl[d].cas
       PROVE  \E m \in t.cl[d].watched : Logical(r, m) # sn[d][m]
  <2>1. CASE u.cl[d].cas
    <3>1. n \in t.cl[d].watched
      BY <1>6, <1>10, <2>1 DEF Tells
    <3>2. sn[d][n] # cell
      BY <1>3, <1>5 DEF NewCell
    <3> QED BY <1>9, <3>1, <3>2
  <2>2. CASE ~u.cl[d].cas
    BY <1>6, <1>7, <1>10, <2>2 DEF Tells, Warranted
  <2> QED BY <2>1, <2>2
<1> QED BY <1>6, <1>7, <1>8, <1>10 DEF Tactful, Warranted, j

LEMMA ExpireCalm ==
    ASSUME NEW k \in Nat, NEW t, Good(t, k), NEW n \in Names,
           NEW sn \in [Clients -> [Names -> CellTo(k)]], Calm(t, sn), NEW r, r = Expire(t, n, k + 1)
    PROVE  Good(r, k + 1) /\ Tactful(t, r, n, sn)
<1> DEFINE u == ExpireIfNeeded(t, n)
           cell == [t.db[n] EXCEPT !.ttl = k + 1, !.expired = FALSE]
           j == k + 1
<1>1. Good(u, k) /\ Tactful(t, u, n, sn) /\ (u = t \/ u.db[n] = None)
  BY ExpireIfNeededCalm
<1>2. CASE u.db[n] = None
  <2>1. r = u
    BY <1>2 DEF Expire
  <2> QED BY <1>1, <2>1, GoodOn
<1>3. CASE u.db[n] # None
  <2>1. u = t
    BY <1>1, <1>3
  <2>2. r = Put(t, n, cell)
    BY <1>3, <2>1 DEF Expire
  <2>3. Good(t, j) /\ j \in Nat /\ k + 1 \in UpTo(j)
    BY GoodOn DEF UpTo
  <2>4. t.db[n] \in CellTo(j)
    BY <2>3 DEF Good, ServerTo
  <2>5. Live(j, cell)
    BY <2>3, <2>4, Cells
  <2>6. cell.ttl = k + 1 /\ cell.val = t.db[n].val
    BY <2>4 DEF CellTo
  <2>7. Distinct(t.db) /\ t.db[n] # None
    BY <1>3, <2>1 DEF Calm
  <2> HIDE DEF cell
  <2>8. cell.val # 0 /\ \A m \in Names : m # n => t.db[m].val # cell.val
    BY <2>6, <2>7 DEF Distinct
  <2>9. NewCell(t, sn, n, cell)
    BY <2>6, <2>7, <2>8, NewNumber
  <2>10. cell = None => t.db[n] # None
    BY <2>7
  <2> HIDE DEF j
  <2>11. /\ Good(r, j) /\ r.replica = t.replica
         /\ Calm(r, sn) /\ Tells(t, r, n) /\ Warranted(t, r, sn)
    BY <2>2, <2>3, <2>5, <2>9, <2>10, PutCalm
  <2> QED BY <2>11 DEF Tactful, j
<1> QED BY <1>2, <1>3

LEMMA DelCalm ==
    ASSUME NEW k \in Nat, NEW t, Good(t, k), NEW n \in Names, NEW sn, Calm(t, sn), NEW r, r = Del(t, n)
    PROVE  Good(r, k) /\ Tactful(t, r, n, sn)
<1> DEFINE u == ExpireIfNeeded(t, n)
           cell == None
<1>1. Good(u, k) /\ Tactful(t, u, n, sn) /\ (u = t \/ u.db[n] = None)
  BY ExpireIfNeededCalm
<1>2. CASE u.db[n] = None
  <2>1. r = u
    BY <1>2 DEF Del
  <2> QED BY <1>1, <2>1
<1>3. CASE u.db[n] # None
  <2>1. r = Put(t, n, cell) /\ t.db[n] # None
    BY <1>1, <1>3 DEF Del
  <2>2. Live(k, cell) /\ NewCell(t, sn, n, cell)
    BY Cells, NewNone
  <2> HIDE DEF cell
  <2>3. /\ Good(r, k) /\ r.replica = t.replica
        /\ Calm(r, sn) /\ Tells(t, r, n) /\ Warranted(t, r, sn)
    BY <2>1, <2>2, PutCalm
  <2> QED BY <2>3 DEF Tactful
<1> QED BY <1>2, <1>3

\* When the verdict on a watcher is that it is told.
LEMMA DirtyVerdict ==
    ASSUME NEW old, NEW new, NEW stale \in BOOLEAN, Verdict(old, new, stale) = "dirty",
           stale => old # None, new.expired \in BOOLEAN
    PROVE  old = None \/ stale => new # None /\ ~new.expired
<1>1. CASE stale
  <2>1. CASE new = None
    BY <1>1, <2>1 DEF Verdict
  <2>2. CASE new # None
    BY <1>1, <2>2 DEF Verdict
  <2> QED BY <2>1, <2>2
<1>2. CASE ~stale /\ old = None
  <2>1. CASE new = None
    BY <1>2, <2>1 DEF Verdict
  <2>2. CASE new # None
    BY <1>2, <2>2 DEF Verdict
  <2> QED BY <2>1, <2>2
<1> QED BY <1>1, <1>2

\* What a key becomes is nothing, or what another key was.
Replaces(db, ds, to) ==
  /\ \A n \in Names : n[1] \notin ds => to[n] = db[n]
  /\ \A n \in Names : n[1] \in ds => to[n] = None \/ \E m \in Names : m # n /\ to[n] = db[m]

LEMMA TouchAllCalm ==
    ASSUME NEW k \in Nat, NEW t, Good(t, k), NEW ds, NEW to \in [Names -> CellTo(k)],
           Replaces(t.db, ds, to), Distinct(to), NEW sn, Calm(t, sn),
           NEW r, r = Becoming(t, ds, to)
    PROVE  Good(r, k) /\ r.replica = t.replica /\ Calm(r, sn) /\ Warranted(t, r, sn)
<1>1. /\ Good(r, k) /\ r.replica = t.replica /\ r.db = to
      /\ \A d \in Clients : Judged(t, ds, to, d, r.cl[d])
  BY TouchAllFields
<1>2. /\ \A d \in Clients : t.cl[d].stale \subseteq t.cl[d].watched /\ t.cl[d].watched \subseteq Names
      /\ \A n \in Names : to[n].expired \in BOOLEAN /\ Logical(r, n) = IF to[n].expired THEN None ELSE to[n]
  BY <1>1 DEF Good, ClientSound, ServerTo, Client, CellTo, Logical, Expired
<1>3. Unflagged(t)
  BY DEF Calm
<1>4. ASSUME NEW d \in Clients, NEW n \in t.cl[d].watched
      PROVE  n \in t.cl[d].stale => t.db[n] # None
  BY <1>2, <1>3 DEF Unflagged
\* What d becomes, and the verdict on one of its watches.
<1>5. ASSUME NEW d \in Clients, NEW n \in Names
      PROVE  LET v == Verdict(t.db[n], to[n], n \in t.cl[d].stale)
                 x == r.cl[d]
             IN /\ x.watched = t.cl[d].watched /\ (t.cl[d].cas => x.cas)
                /\ n[1] \notin ds => (n \in x.stale <=> n \in t.cl[d].stale)
                /\ n[1] \in ds /\ n \in t.cl[d].watched
                     => /\ v = "dirty" => x.cas
                        /\ n \in x.stale <=> (n \in t.cl[d].stale /\ v # "fresh") \/ v = "stale"
                /\ n \notin t.cl[d].watched => n \notin x.stale
  BY <1>1, <1>2 DEF Judged, Judges
<1>6. ASSUME NEW n \in Names, to[n] = None, NEW d \in Clients PROVE n \notin r.cl[d].stale
  <2>1. CASE n[1] \notin ds
    <3>1. t.db[n] = None
      BY <1>6, <2>1 DEF Replaces
    <3> QED BY <1>3, <1>5, <2>1, <3>1 DEF Unflagged
  <2>2. CASE n \notin t.cl[d].watched
    BY <1>5, <2>2
  <2>3. CASE n[1] \in ds /\ n \in t.cl[d].watched
    <3> DEFINE st == n \in t.cl[d].stale
               v == Verdict(t.db[n], to[n], st)
    <3>1. /\ v = "fresh" <=> (st /\ to[n] = None /\ t.db[n] # None)
          /\ v = "stale" => to[n] # None
      <4>1. st \in BOOLEAN
        OBVIOUS
      <4> HIDE DEF st
      <4> QED BY <1>2, <4>1, Verdicts
    <3>2. st => t.db[n] # None
      BY <1>4, <2>3
    <3>3. n \in r.cl[d].stale <=> (st /\ v # "fresh") \/ v = "stale"
      BY <1>5, <2>3
    <3> HIDE DEF st, v
    <3> QED BY <1>6, <3>1, <3>2, <3>3
  <2> QED BY <2>1, <2>2, <2>3
\* A value that is moved has been nowhere else.
<1>7. ASSUME NEW d \in Clients, NEW n \in Names, NEW a, a # None, t.db[n] # None,
             \A m \in Names : m # n => Logical(t, m) # a
      PROVE  /\ n[1] \in ds => Logical(r, n) # a
             /\ n[1] \notin ds => to[n] # None /\ \A m \in Names : m # n => Logical(r, m) # a
  <2>1. ASSUME NEW m \in Names, NEW j \in Names, j # n, to[m] = t.db[j] PROVE Logical(r, m) # a
    <3>1. Logical(t, j) # a
      BY <1>7, <2>1
    <3>2. Logical(r, m) = Logical(t, j)
      BY <1>2, <2>1 DEF Logical, Expired
    <3> QED BY <3>1, <3>2
  <2>2. ASSUME NEW m \in Names, to[m] = None PROVE Logical(r, m) # a
    BY <1>2, <1>7, <2>2
  <2>3. ASSUME n[1] \in ds PROVE Logical(r, n) # a
    BY <2>1, <2>2, <2>3 DEF Replaces
  <2>4. ASSUME n[1] \notin ds, NEW m \in Names, m # n PROVE Logical(r, m) # a
    <3>1. to[n] = t.db[n]
      BY <2>4 DEF Replaces
    <3>2. CASE to[m] = None
      BY <2>2, <3>2
    <3>3. CASE \E j \in Names : to[m] = t.db[j]
      <4>1. PICK j \in Names : to[m] = t.db[j]
        BY <3>3
      <4>2. CASE j # n
        BY <2>1, <4>1, <4>2
      <4>3. CASE j = n
        <5>1. to[m].val = to[n].val
          BY <3>1, <4>1, <4>3
        <5>2. to[m] = None
          BY <2>4, <5>1 DEF Distinct
        <5> QED BY <2>2, <5>2
      <4> QED BY <4>2, <4>3
    <3> QED BY <3>2, <3>3 DEF Replaces
  <2>5. ASSUME n[1] \notin ds PROVE to[n] # None
    BY <1>7, <2>5 DEF Replaces
  <2> QED BY <2>3, <2>4, <2>5
<1>8. ASSUME NEW d \in Clients, NEW n \in Names, Clean(r, d, n) PROVE Recalls(r, sn, d, n)
  <2> DEFINE st == n \in t.cl[d].stale
             v == Verdict(t.db[n], to[n], st)
             now == n \in r.cl[d].stale
             a == sn[d][n]
  <2>1. Clean(t, d, n) /\ n \in t.cl[d].watched
    BY <1>5, <1>8 DEF Clean
  <2>2. IF st THEN a = None
        ELSE IF a = None THEN t.db[n] = None
        ELSE t.db[n] # None /\ \A m \in Names : m # n => Logical(t, m) # a
    BY <2>1, CalmHas DEF Recalls
  <2>3. SUFFICES IF now THEN a = None
                 ELSE IF a = None THEN to[n] = None
                 ELSE to[n] # None /\ \A m \in Names : m # n => Logical(r, m) # a
    BY <1>1 DEF Recalls
  <2>4. CASE n[1] \notin ds
    <3>1. to[n] = t.db[n] /\ (now <=> st)
      BY <1>5, <2>4 DEF Replaces
    <3> HIDE DEF st, now, a
    <3>2. CASE st
      BY <2>2, <3>1, <3>2
    <3>3. CASE ~st /\ a = None
      BY <2>2, <3>1, <3>3
    <3>4. CASE ~st /\ a # None
      BY <1>7, <2>2, <2>4, <3>1, <3>4
    <3> QED BY <3>2, <3>3, <3>4
  <2>5. CASE n[1] \in ds
    <3>1. v # "dirty" /\ (now <=> (st /\ v # "fresh") \/ v = "stale")
      BY <1>5, <1>8, <2>1, <2>5 DEF Clean
    <3>2. /\ v = "fresh" <=> (st /\ to[n] = None /\ t.db[n] # None)
          /\ v = "stale" <=> (~st /\ to[n] # None /\ t.db[n] = None /\ to[n].expired)
          /\ v # "dirty" => \/ to[n] = None /\ (st \/ t.db[n] = None)
                            \/ to[n].expired /\ (st \/ t.db[n] = None)
      <4>1. st \in BOOLEAN
        OBVIOUS
      <4> HIDE DEF st
      <4> QED BY <1>2, <4>1, Verdicts
    <3>3. (st => t.db[n] # None) /\ (a # None /\ ~st => t.db[n] # None)
      BY <1>4, <2>1, <2>2
    <3> HIDE DEF st, now, a, v
    <3>4. a = None
      BY <2>2, <3>1, <3>2, <3>3
    <3>5. now \/ to[n] = None
      BY <3>1, <3>2, <3>3
    <3> QED BY <3>4, <3>5
  <2> QED BY <2>4, <2>5
<1>9. Calm(r, sn)
  BY <1>1, <1>6, <1>8 DEF Calm, Unflagged
<1>10. ASSUME NEW d \in Clients, ~t.cl[d].cas, r.cl[d].cas
       PROVE  \E n \in t.cl[d].watched : Logical(r, n) # sn[d][n]
  <2>1. PICK n \in Names : Judges(t, ds, to, d, n, "dirty")
    BY <1>1, <1>10 DEF Judged
  <2> DEFINE st == n \in t.cl[d].stale
             a == sn[d][n]
  <2>2. n \in t.cl[d].watched /\ n[1] \in ds /\ Verdict(t.db[n], to[n], st) = "dirty"
    BY <2>1 DEF Judges
  <2>3. st => t.db[n] # None
    BY <1>4, <2>2
  <2>4. IF st THEN a = None
        ELSE IF a = None THEN t.db[n] = None
        ELSE t.db[n] # None /\ \A m \in Names : m # n => Logical(t, m) # a
    BY <1>10, <2>2, CalmHas DEF Recalls, Clean
  <2>5. t.db[n] = None \/ st => to[n] # None /\ ~to[n].expired
    <3>1. st \in BOOLEAN
      OBVIOUS
    <3> HIDE DEF st
    <3> QED BY <1>2, <2>2, <2>3, <3>1, DirtyVerdict
  <2>6. Logical(r, n) # a
    <3> HIDE DEF st, a
    <3>1. CASE st \/ a = None
      BY <1>2, <2>4, <2>5, <3>1
    <3>2. CASE ~st /\ a # None
      BY <1>7, <2>2, <2>4, <3>2
    <3> QED BY <3>1, <3>2
  <2> QED BY <2>2, <2>6
<1> QED BY <1>1, <1>9, <1>10 DEF Warranted

LEMMA FlushCalm ==
    ASSUME NEW k \in Nat, NEW t, Good(t, k), NEW e \in Dbs, NEW sn, Calm(t, sn), NEW r, r = Flush(t, e)
    PROVE  Good(r, k) /\ r.replica = t.replica /\ Calm(r, sn) /\ Warranted(t, r, sn)
<1> DEFINE to == [n \in Names |-> IF n[1] = e THEN None ELSE t.db[n]]
           ds == {e}
<1>1. t.db \in [Names -> CellTo(k)] /\ None \in CellTo(k) /\ None.val = 0
  BY Cells DEF Good, ServerTo, None
<1>2. to \in [Names -> CellTo(k)] /\ Replaces(t.db, ds, to)
  BY <1>1 DEF Replaces
<1>3. \A n \in Names : to[n] = None \/ to[n] = t.db[n]
  OBVIOUS
<1>4. r = Becoming(t, ds, to)
  BY DEF Flush, Becoming
<1> HIDE DEF to, ds
<1>5. Distinct(to)
  <2>1. Distinct(t.db)
    BY DEF Calm
  <2>2. ASSUME NEW n \in Names, to[n].val = 0 PROVE to[n] = None
    BY <1>3, <2>1, <2>2 DEF Distinct
  <2>3. ASSUME NEW m \in Names, NEW n \in Names, to[m].val = to[n].val, m # n PROVE to[m].val = 0
    BY <1>1, <1>3, <2>1, <2>3 DEF Distinct
  <2> QED BY <2>2, <2>3 DEF Distinct
<1> QED BY <1>2, <1>4, <1>5, TouchAllCalm

\* Of two databases, each is the other of one.
LEMMA TwoDbs ==
    ASSUME Cardinality(Dbs) = 2, NEW a \in Dbs
    PROVE  /\ \E d \in Dbs : d # a
           /\ \A b \in Dbs, d \in Dbs : d # a /\ d # b => a = b
<1>1. \E d \in Dbs : d # a
  <2>1. SUFFICES ASSUME \A d \in Dbs : d = a PROVE FALSE
    OBVIOUS
  <2>2. Dbs = {a}
    BY <2>1
  <2> QED BY <2>2, FS_Singleton
<1>2. ASSUME NEW b \in Dbs, NEW d \in Dbs, d # a, d # b, a # b PROVE FALSE
  <2>1. IsFiniteSet({a}) /\ Cardinality({a}) = 1
    BY FS_Singleton
  <2>2. IsFiniteSet({a} \cup {b}) /\ Cardinality({a} \cup {b}) = 2
    BY <1>2, <2>1, FS_AddElement
  <2> DEFINE S == {a} \cup {b}
  <2>3. d \notin S /\ S \cup {d} \subseteq Dbs /\ IsFiniteSet(Dbs)
    BY <1>2, TransactionConstants
  <2> HIDE DEF S
  <2>4. IsFiniteSet(S) /\ Cardinality(S) = 2
    BY <2>2 DEF S
  <2>5. Cardinality(S \cup {d}) = 3
    BY <2>3, <2>4, FS_AddElement
  <2>6. Cardinality(S \cup {d}) <= Cardinality(Dbs)
    BY <2>3, FS_Subset
  <2> QED BY <2>5, <2>6
<1> QED BY <1>1, <1>2

LEMMA SwapCalm ==
    ASSUME NEW k \in Nat, NEW t, Good(t, k), Cardinality(Dbs) = 2, NEW sn, Calm(t, sn), NEW r, r = Swap(t)
    PROVE  Good(r, k) /\ r.replica = t.replica /\ Calm(r, sn) /\ Warranted(t, r, sn)
<1> DEFINE other(a) == CHOOSE d \in Dbs : d # a
           at(n) == <<other(n[1]), n[2]>>
           to == [n \in Names |-> t.db[at(n)]]
           ds == Dbs
<1>1. t.db \in [Names -> CellTo(k)] /\ Distinct(t.db)
  BY DEF Good, ServerTo, Calm
<1>2. ASSUME NEW a \in Dbs PROVE other(a) \in Dbs /\ other(a) # a
  BY TwoDbs
<1>3. ASSUME NEW a \in Dbs, NEW b \in Dbs, other(a) = other(b) PROVE a = b
  <2> DEFINE d == other(a)
  <2>1. d \in Dbs /\ d # a /\ d # b
    BY <1>2, <1>3
  <2> HIDE DEF d
  <2> QED BY <2>1, TwoDbs
<1>4. \A n \in Names : n[1] \in Dbs /\ n[2] \in Keys /\ n = <<n[1], n[2]>>
  BY DEF Names
<1>5. r = Becoming(t, ds, to)
  BY DEF Swap, Becoming
<1> HIDE DEF other
<1>6. ASSUME NEW n \in Names PROVE at(n) \in Names /\ at(n) # n
  <2>1. other(n[1]) \in Dbs /\ other(n[1]) # n[1]
    BY <1>2, <1>4
  <2> QED BY <1>4, <2>1 DEF Names
<1>7. ASSUME NEW m \in Names, NEW n \in Names, at(m) = at(n) PROVE m = n
  <2>1. other(m[1]) = other(n[1]) /\ m[2] = n[2]
    BY <1>7
  <2>2. m[1] = n[1]
    BY <1>3, <1>4, <2>1
  <2> QED BY <1>4, <2>1, <2>2
<1> HIDE DEF at
<1>8. \A n \in Names : to[n] = t.db[at(n)]
  OBVIOUS
<1>9. to \in [Names -> CellTo(k)]
  BY <1>1, <1>6
<1> HIDE DEF to
<1>10. Replaces(t.db, ds, to)
  BY <1>4, <1>6, <1>8 DEF Replaces
<1>11. Distinct(to)
  <2>1. ASSUME NEW n \in Names, to[n].val = 0 PROVE to[n] = None
    BY <1>1, <1>6, <1>8, <2>1 DEF Distinct
  <2>2. ASSUME NEW m \in Names, NEW n \in Names, to[m].val = to[n].val, m # n PROVE to[m].val = 0
    <3>1. at(m) \in Names /\ at(n) \in Names /\ at(m) # at(n)
      BY <1>6, <1>7, <2>2
    <3> QED BY <1>1, <1>8, <2>2, <3>1 DEF Distinct
  <2> QED BY <2>1, <2>2 DEF Distinct
<1> QED BY <1>5, <1>9, <1>10, <1>11, TouchAllCalm

\* A client that watches no more.
LEMMA LeaveCalm ==
    ASSUME NEW t, NEW r, NEW c \in Clients, NEW sn, Calm(t, sn), r.db = t.db,
           r.cl[c].watched = {}, r.cl[c].stale = {},
           \A d \in Clients : d # c => r.cl[d] = t.cl[d]
    PROVE  Calm(r, sn)
<1>1. ASSUME NEW d \in Clients, NEW n \in Names, Clean(r, d, n) PROVE Recalls(r, sn, d, n)
  <2>1. r.cl[d] = t.cl[d]
    BY <1>1 DEF Clean
  <2>2. Recalls(t, sn, d, n)
    BY <1>1, <2>1, CalmHas DEF Clean
  <2>3. \A m \in Names : Logical(r, m) = Logical(t, m)
    BY DEF Logical, Expired
  <2> QED BY <2>1, <2>2, <2>3 DEF Recalls
<1>2. Unflagged(r)
  BY DEF Calm, Unflagged
<1> QED BY <1>1, <1>2 DEF Calm

\* unwatchAllKeys and UNWATCH, and the end of a transaction.
LEMMA UnwatchCalm ==
    ASSUME NEW k, NEW t, Good(t, k), NEW c \in Clients, NEW sn, Calm(t, sn)
    PROVE  /\ Calm(UnwatchAllKeys(t, c), sn) /\ Calm(DiscardTransaction(t, c), sn)
           /\ Calm(UnwatchCommand(t, c), sn) /\ Warranted(t, UnwatchCommand(t, c), sn)
           /\ Good(UnwatchCommand(t, c), k) /\ UnwatchCommand(t, c).replica = t.replica
<1> DEFINE u == UnwatchAllKeys(t, c)
           y == [u.cl[c] EXCEPT !.cas = FALSE]
           r == UnwatchCommand(t, c)
           x == DiscardTransaction(t, c)
<1>1. /\ Good(u, k) /\ u.db = t.db /\ u.replica = t.replica
      /\ u.cl = [t.cl EXCEPT ![c] = Unwatched(@)]
  BY UnwatchFields
<1>2. x.db = t.db /\ x.cl = [t.cl EXCEPT ![c] = Idle]
  BY DiscardFields
<1>3. t.cl \in [Clients -> Client] /\ t.cl[c] \in Client
  BY DEF Good, ServerTo
<1>4. u.cl[c].watched = {} /\ u.cl[c].stale = {}
      /\ \A d \in Clients : d # c => u.cl[d] = t.cl[d]
  BY <1>1, <1>3 DEF Unwatched, Client
<1>5. x.cl[c].watched = {} /\ x.cl[c].stale = {}
      /\ \A d \in Clients : d # c => x.cl[d] = t.cl[d]
  BY <1>2, <1>3 DEF Idle
<1>6. u.cl[c] \in Client /\ ClientSound(u.cl[c], u.replica)
  BY <1>1 DEF Good, ServerTo
<1>7. r = [u EXCEPT !.cl[c] = y]
  BY DEF UnwatchCommand
<1> HIDE DEF u, x, r
<1>8. /\ y.watched = u.cl[c].watched /\ y.stale = u.cl[c].stale /\ ~y.cas
      /\ ClientSound(y, u.replica)
  BY <1>6 DEF ClientSound, Client
<1> HIDE DEF y
<1>0. Good(u, k) /\ u.db = t.db /\ u.replica = t.replica /\ x.db = t.db
  BY <1>1, <1>2
<1>9. Good(r, k) /\ r.cl = [u.cl EXCEPT ![c] = y] /\ r.db = u.db /\ r.replica = u.replica
  <2>1. /\ Good([u EXCEPT !.cl[c] = y], k)
        /\ [u EXCEPT !.cl[c] = y].cl = [u.cl EXCEPT ![c] = y]
        /\ [u EXCEPT !.cl[c] = y].db = u.db /\ [u EXCEPT !.cl[c] = y].replica = u.replica
    BY <1>0, <1>8, ClientChanges
  <2> QED BY <1>7, <2>1
<1>10. u.cl \in [Clients -> Client]
  BY <1>1 DEF Good, ServerTo
<1>11. /\ r.cl[c].watched = {} /\ r.cl[c].stale = {} /\ ~r.cl[c].cas
       /\ \A d \in Clients : d # c => r.cl[d] = t.cl[d]
  BY <1>4, <1>8, <1>9, <1>10
<1>12. Warranted(t, r, sn)
  BY <1>11 DEF Warranted
<1>13. Calm(u, sn)
  BY <1>0, <1>4, LeaveCalm
<1>14. Calm(x, sn)
  BY <1>0, <1>5, LeaveCalm
<1>15. Calm(r, sn)
  <2>1. r.db = t.db
    BY <1>0, <1>9
  <2> QED BY <1>11, <2>1, LeaveCalm
<1> QED BY <1>0, <1>9, <1>12, <1>13, <1>14, <1>15 DEF u, x, r

\* Every command.
LEMMA CallCalm ==
    ASSUME NEW k \in Nat, NEW t, Good(t, k), NEW c \in Clients, NEW cmd \in Commands,
           NEW sn \in [Clients -> [Names -> CellTo(k)]], Calm(t, sn),
           NEW r, r = Call(t, c, cmd, k + 1)
    PROVE  r.replica = t.replica /\ Calm(r, sn) /\ Warranted(t, r, sn)
<1>1. \/ cmd.op \in {"get", "set", "expire", "del"} /\ cmd.on \in Names
      \/ cmd.op = "swap" /\ Cardinality(Dbs) = 2
      \/ cmd.op = "flush" /\ cmd.on \in Dbs
      \/ cmd.op = "unwatch"
  <2>1. cmd \in [op : {"get", "set", "expire", "del"}, on : Names]
          \/ (Cardinality(Dbs) = 2 /\ cmd = [op |-> "swap"])
          \/ cmd \in [op : {"flush"}, on : Dbs] \/ cmd = [op |-> "unwatch"]
    BY DEF Commands
  <2> QED BY <2>1
<1>2. CASE cmd.op = "get" /\ cmd.on \in Names
  <2>1. r = ExpireIfNeeded(t, cmd.on)
    BY <1>2 DEF Call
  <2> QED BY <1>2, <2>1, ExpireIfNeededCalm DEF Tactful
<1>3. CASE cmd.op = "set" /\ cmd.on \in Names
  <2>1. r = SetKey(t, cmd.on, k + 1)
    BY <1>3 DEF Call
  <2> QED BY <1>3, <2>1, SetKeyCalm DEF Tactful
<1>4. CASE cmd.op = "expire" /\ cmd.on \in Names
  <2>1. r = Expire(t, cmd.on, k + 1)
    BY <1>4 DEF Call
  <2> QED BY <1>4, <2>1, ExpireCalm DEF Tactful
<1>5. CASE cmd.op = "del" /\ cmd.on \in Names
  <2>1. r = Del(t, cmd.on)
    BY <1>5 DEF Call
  <2> QED BY <1>5, <2>1, DelCalm DEF Tactful
<1>6. CASE cmd.op = "swap" /\ Cardinality(Dbs) = 2
  <2>1. r = Swap(t)
    BY <1>6 DEF Call
  <2> QED BY <1>6, <2>1, SwapCalm
<1>7. CASE cmd.op = "flush" /\ cmd.on \in Dbs
  <2>1. r = Flush(t, cmd.on)
    BY <1>7 DEF Call
  <2> QED BY <1>7, <2>1, FlushCalm
<1>8. CASE cmd.op = "unwatch"
  <2>1. r = UnwatchCommand(t, c)
    BY <1>8 DEF Call
  <2> QED BY <2>1, UnwatchCalm
<1> QED BY <1>1, <1>2, <1>3, <1>4, <1>5, <1>6, <1>7, <1>8

\* All the commands of a queue.
LEMMA RunQueueCalm ==
    ASSUME NEW k \in Nat, NEW t, Good(t, k), NEW c \in Clients, NEW q \in Seq(Commands),
           NEW sn \in [Clients -> [Names -> CellTo(k)]], Calm(t, sn)
    PROVE  Calm(RunQueue(t, c, q, k + 1).t, sn)
<1> DEFINE N == Len(q)
           base == [t |-> t, v |-> k + 1]
<1>1. N \in Nat /\ \A i \in 1 .. N : q[i] \in Commands
  OBVIOUS
<1>2. PICK f : Iterates("run", t, c, base, q, f) /\ RunQueue(t, c, q, k + 1) = f[N]
  BY RunFold
<1> DEFINE Well(i) == \E j \in Nat : /\ f[i].v = j + 1 /\ j >= k
                                     /\ Good(f[i].t, j) /\ Calm(f[i].t, sn)
<1>3. Well(0)
  <2>1. f[0] = base
    BY <1>2 DEF Iterates
  <2>2. f[0].v = k + 1 /\ f[0].t = t
    BY <2>1
  <2> QED BY <2>2
<1>4. ASSUME NEW i \in 1 .. N, Well(i - 1) PROVE Well(i)
  <2>1. PICK j \in Nat : /\ f[i - 1].v = j + 1 /\ j >= k
                         /\ Good(f[i - 1].t, j) /\ Calm(f[i - 1].t, sn)
    BY <1>4
  <2> DEFINE a == f[i - 1].t
             cmd == q[i]
             r == Call(a, c, cmd, j + 1)
             w == IF Writes(cmd) THEN 1 ELSE 0
             mk == Names
  <2>2. f[i] = [t |-> r, v |-> j + 1 + w]
    <3>1. f[i] = Round("run", t, c, f[i - 1], q[i])
      BY <1>2 DEF Iterates
    <3> QED BY <2>1, <3>1 DEF Round, RunNext
  <2>3. cmd \in Commands /\ w \in {0, 1}
    BY <1>1
  <2>4. Good(a, j) /\ Calm(a, sn)
    BY <2>1
  <2>5. sn \in [Clients -> [Names -> CellTo(j)]]
    <3>1. CellTo(k) \subseteq CellTo(j)
      BY <2>1, CellsGrow
    <3> QED BY <3>1
  <2>6. Sound(a, sn, mk)
    BY DEF Sound
  <2> HIDE DEF r, a, cmd, mk
  <2>7. Good(r, j + w)
    <3> DEFINE v == j + 1
               jj == j + w
    <3>1. r = Call(a, c, cmd, v) /\ v = j + 1 /\ jj = j + (IF Writes(cmd) THEN 1 ELSE 0)
      BY DEF r
    <3> HIDE DEF w, v, jj
    <3>2. Upheld(a, r, jj, cmd, sn, mk)
      BY <2>3, <2>4, <2>6, <3>1, CallSound
    <3> QED BY <3>2 DEF jj, Upheld
  <2>8. Calm(r, sn)
    <3>1. r = Call(a, c, cmd, j + 1)
      BY DEF r
    <3> QED BY <2>3, <2>4, <2>5, <3>1, CallCalm
  <2>9. f[i].t = r /\ f[i].v = j + 1 + w
    BY <2>2
  <2> HIDE DEF w
  <2>10. j + w \in Nat /\ f[i].v = (j + w) + 1 /\ j + w >= k
    BY <2>1, <2>3, <2>9
  <2> QED BY <2>7, <2>8, <2>9, <2>10
<1> HIDE DEF N, Well
<1>5. Well(N)
  <2> DEFINE Bad == {i \in 0 .. N : ~Well(i)}
  <2>1. CASE Bad = {}
    BY <1>1, <2>1 DEF N
  <2>2. CASE Bad # {}
    <3>1. Bad \in SUBSET Nat
      OBVIOUS
    <3>2. PICK p \in Bad : \A j \in Bad : p <= j
      BY <2>2, <3>1, LeastElement
    <3>3. p \in 1 .. N
      BY <1>1, <1>3, <3>2
    <3>4. Well(p - 1)
      <4>1. p - 1 \in 0 .. N /\ ~(p <= p - 1)
        BY <1>1, <3>3
      <4> QED BY <3>2, <4>1
    <3> QED BY <1>4, <3>2, <3>3, <3>4
  <2> QED BY <2>1, <2>2
<1> QED BY <1>2, <1>5 DEF Well

\* A step that leaves the databases and the watchers alone.
LEMMA SameCalm ==
    ASSUME NEW t, NEW r, NEW sn, Calm(t, sn), r.db = t.db,
           \A d \in Clients : r.cl[d].watched = t.cl[d].watched /\ r.cl[d].stale = t.cl[d].stale
                              /\ r.cl[d].cas = t.cl[d].cas
    PROVE  Calm(r, sn) /\ Warranted(t, r, sn)
<1>1. ASSUME NEW d \in Clients, NEW n \in Names, Clean(r, d, n) PROVE Recalls(r, sn, d, n)
  <2>1. Recalls(t, sn, d, n)
    BY <1>1, CalmHas DEF Clean
  <2>2. \A m \in Names : Logical(r, m) = Logical(t, m)
    BY DEF Logical, Expired
  <2> QED BY <2>1, <2>2 DEF Recalls
<1>2. Unflagged(r) /\ Distinct(r.db)
  BY DEF Calm, Unflagged
<1> QED BY <1>1, <1>2 DEF Calm, Warranted

(***************************************************************************)
(* The invariant, and what a step may not do.                              *)
(***************************************************************************)
CalmInv == IInv /\ Calm(s, seen)

\* No client is told of a change in vain by this step.
NoAlarm ==
  \A c \in Clients :
    /\ ~s.cl[c].cas /\ s'.cl[c].cas
    /\ \A d \in Clients : s.cl[d].multi = s'.cl[d].multi
    => \E n \in s.cl[c].watched : Logical(s', n) # seen[c][n]

LEMMA WarrantedAlarm == ASSUME Warranted(s, s', seen) PROVE NoAlarm
BY DEF Warranted, NoAlarm

LEMMA CalmNow ==
    ASSUME CalmInv
    PROVE  /\ writes \in Nat /\ Good(s, writes) /\ Calm(s, seen)
           /\ seen \in [Clients -> [Names -> CellTo(writes)]]
BY Now DEF CalmInv, IInv

\* What is not watched any more was not to be recalled.
LEMMA KeptCalm ==
    ASSUME Calm(s', seen), seen' = Kept PROVE Calm(s', seen')
<1> DEFINE t == s'
           sn == seen
           sn1 == seen'
<1>1. \A d \in Clients, n \in Names : Clean(t, d, n) => sn1[d][n] = sn[d][n]
  BY DEF Kept, Clean
<1>2. Calm(t, sn)
  OBVIOUS
<1> HIDE DEF t, sn, sn1
<1>3. Calm(t, sn1)
  BY <1>1, <1>2 DEF Calm, Recalls
<1> QED BY <1>3 DEF t, sn1

LEMMA CallCalmStep ==
    ASSUME CalmInv, NEW c \in Clients, NEW cmd \in Commands,
           s' = Call(s, c, cmd, writes + 1), seen' = Kept
    PROVE  Calm(s', seen') /\ NoAlarm
<1> DEFINE k == writes
           t == s
           r == s'
           sn == seen
<1>1. /\ k \in Nat /\ Good(t, k) /\ Calm(t, sn)
      /\ sn \in [Clients -> [Names -> CellTo(k)]] /\ r = Call(t, c, cmd, k + 1)
  BY CalmNow
<1> HIDE DEF k, t, r, sn
<1>2. Calm(r, sn) /\ Warranted(t, r, sn)
  BY <1>1, CallCalm
<1>3. Calm(s', seen) /\ Warranted(s, s', seen)
  BY <1>2 DEF t, r, sn
<1> QED BY <1>3, KeptCalm, WarrantedAlarm

\* A client c that becomes y, and watches what it did.
LEMMA ClientCalmStep ==
    ASSUME CalmInv, NEW c \in Clients, NEW y,
           y.watched = s.cl[c].watched, y.stale = s.cl[c].stale, y.cas = s.cl[c].cas,
           s' = [s EXCEPT !.cl[c] = y], seen' = Kept
    PROVE  Calm(s', seen') /\ NoAlarm
<1> DEFINE t == s
           r == s'
           sn == seen
<1>1. Good(t, writes) /\ Calm(t, sn)
  BY CalmNow
<1>2. t \in ServerTo(writes) /\ t.cl \in [Clients -> Client]
  BY <1>1 DEF Good, ServerTo
<1>3. r = [t EXCEPT !.cl[c] = y]
      /\ y.watched = t.cl[c].watched /\ y.stale = t.cl[c].stale /\ y.cas = t.cl[c].cas
  OBVIOUS
<1> HIDE DEF t, r, sn
<1>4. r.db = t.db /\ r.cl = [t.cl EXCEPT ![c] = y]
  BY <1>2, <1>3 DEF ServerTo
<1>5. \A d \in Clients : r.cl[d].watched = t.cl[d].watched /\ r.cl[d].stale = t.cl[d].stale
                         /\ r.cl[d].cas = t.cl[d].cas
  BY <1>2, <1>3, <1>4
<1>6. r.db = t.db
  BY <1>4
<1>7. Calm(r, sn) /\ Warranted(t, r, sn)
  BY <1>1, <1>5, <1>6, SameCalm
<1>8. Calm(s', seen) /\ Warranted(s, s', seen)
  BY <1>7 DEF t, r, sn
<1> QED BY <1>8, KeptCalm, WarrantedAlarm

\* The steps, one by one.
LEMMA QueueCalm ==
    ASSUME CalmInv, NEW c \in Clients, NEW cmd \in Commands, Queue(c, cmd)
    PROVE  Calm(s', seen') /\ NoAlarm
<1>1. seen' = Kept
  BY DEF Queue
<1>2. CASE s.cl[c].cas \/ s.cl[c].err
  <2>1. s' = s
    BY <1>2 DEF Queue
  <2>2. Calm(s', seen)
    BY <2>1, CalmNow
  <2> QED BY <1>1, <2>1, <2>2, KeptCalm DEF NoAlarm
<1>3. CASE ~(s.cl[c].cas \/ s.cl[c].err)
  <2> DEFINE y == [s.cl[c] EXCEPT !.queue = Append(@, cmd)]
  <2>1. s' = [s EXCEPT !.cl[c] = y]
    BY <1>3 DEF Queue
  <2>2. y.watched = s.cl[c].watched /\ y.stale = s.cl[c].stale /\ y.cas = s.cl[c].cas
    BY ClientNow DEF CalmInv, Client
  <2> HIDE DEF y
  <2> QED BY <1>1, <2>1, <2>2, ClientCalmStep
<1> QED BY <1>2, <1>3

LEMMA MultiCalm ==
    ASSUME CalmInv, NEW c \in Clients, Multi(c) PROVE Calm(s', seen') /\ NoAlarm
<1> DEFINE y == [s.cl[c] EXCEPT !.multi = TRUE]
<1>1. s' = [s EXCEPT !.cl[c] = y] /\ seen' = Kept
  BY DEF Multi
<1>2. y.watched = s.cl[c].watched /\ y.stale = s.cl[c].stale /\ y.cas = s.cl[c].cas
  BY ClientNow DEF CalmInv, Client
<1> HIDE DEF y
<1> QED BY <1>1, <1>2, ClientCalmStep

LEMMA RejectCalm ==
    ASSUME CalmInv, NEW c \in Clients, Reject(c) PROVE Calm(s', seen') /\ NoAlarm
<1> DEFINE y == [s.cl[c] EXCEPT !.err = TRUE]
<1>1. s' = [s EXCEPT !.cl[c] = y] /\ seen' = Kept
  BY DEF Reject
<1>2. y.watched = s.cl[c].watched /\ y.stale = s.cl[c].stale /\ y.cas = s.cl[c].cas
  BY ClientNow DEF CalmInv, Client
<1> HIDE DEF y
<1> QED BY <1>1, <1>2, ClientCalmStep

LEMMA DiscardCalm ==
    ASSUME CalmInv, NEW c \in Clients, Discard(c) PROVE Calm(s', seen') /\ NoAlarm
<1>1. s' = DiscardTransaction(s, c) /\ seen' = Kept
  BY DEF Discard
<1>2. Good(s, writes) /\ Calm(s, seen) /\ s.cl \in [Clients -> Client]
  BY CalmNow, ClientNow DEF CalmInv
<1>3. DiscardTransaction(s, c).cl = [s.cl EXCEPT ![c] = Idle]
  BY <1>2, DiscardFields
<1>4. \A d \in Clients : s'.cl[d] = s.cl[d] \/ ~s'.cl[d].cas
  BY <1>1, <1>2, <1>3 DEF Idle
<1>5. Calm(DiscardTransaction(s, c), seen)
  <2> DEFINE t == s
             sn == seen
  <2>1. Good(t, writes) /\ Calm(t, sn)
    BY <1>2
  <2> HIDE DEF t, sn
  <2>2. Calm(DiscardTransaction(t, c), sn)
    BY <2>1, UnwatchCalm
  <2> QED BY <2>2 DEF t, sn
<1>6. Calm(s', seen)
  BY <1>1, <1>5
<1> QED BY <1>1, <1>4, <1>6, KeptCalm DEF NoAlarm

\* Nothing is said of the step of an EXEC, but that it leaves things calm.
LEMMA ExecCalm ==
    ASSUME CalmInv, NEW c \in Clients, Exec(c) PROVE Calm(s', seen') /\ NoAlarm
<1> DEFINE q == s.cl[c].queue
           u == UnwatchAllKeys(s, c)
           k == writes
           sn == seen
           done == RunQueue(u, c, q, k + 1)
           run == WouldRun(s, c)
           t == IF run THEN done.t ELSE s
           r == s'
<1>1. k \in Nat /\ Good(s, k) /\ Calm(s, sn) /\ sn \in [Clients -> [Names -> CellTo(k)]]
      /\ Sound(s, seen, masked)
  BY CalmNow, Now DEF CalmInv
<1>2. r = DiscardTransaction(t, c) /\ seen' = Kept /\ s.cl[c].multi
  BY DEF Exec
<1>3. q \in Seq(Commands) /\ (s.replica => \A i \in 1 .. Len(q) : q[i].op \in {"get", "unwatch"})
  BY ClientNow DEF CalmInv, Client, ClientSound
<1>4. u = UnwatchAllKeys(s, c)
  OBVIOUS
<1> HIDE DEF q, u, k, r, sn
<1>5. Good(u, k) /\ u.replica = s.replica /\ Sound(u, seen, masked)
  BY <1>1, <1>4, UnwatchSound
<1>6. Calm(u, sn)
  <2>1. Calm(UnwatchAllKeys(s, c), sn)
    BY <1>1, UnwatchCalm
  <2> QED BY <1>4, <2>1
<1>7. Calm(done.t, sn)
  BY <1>1, <1>3, <1>5, <1>6, RunQueueCalm
<1>8. done.v - 1 \in Nat /\ Good(done.t, done.v - 1)
  BY <1>1, <1>3, <1>5, RunQueueSound
<1> DEFINE j == IF run THEN done.v - 1 ELSE k
<1>9. Good(t, j) /\ Calm(t, sn)
  <2> HIDE DEF done, run
  <2> QED BY <1>1, <1>7, <1>8
<1> HIDE DEF done, run, t, j
<1>10. Calm(DiscardTransaction(t, c), sn)
  BY <1>9, UnwatchCalm
<1>11. Calm(r, sn)
  BY <1>2, <1>10
<1>12. ~r.cl[c].multi
  <2>1. DiscardTransaction(t, c).cl = [t.cl EXCEPT ![c] = Idle]
    BY <1>9, DiscardFields
  <2>2. t.cl \in [Clients -> Client]
    BY <1>9 DEF Good, ServerTo
  <2> QED BY <1>2, <2>1, <2>2 DEF Idle
<1>13. NoAlarm
  BY <1>2, <1>12 DEF NoAlarm, r
<1> QED BY <1>2, <1>11, <1>13, KeptCalm DEF r, sn

LEMMA ActiveExpireCalm ==
    ASSUME CalmInv, NEW n \in Names, ActiveExpire(n) PROVE Calm(s', seen') /\ NoAlarm
<1> DEFINE k == writes
           t == s
           r == s'
           sn == seen
<1>1. k \in Nat /\ Good(t, k) /\ Calm(t, sn) /\ r = ExpireIfNeeded(t, n)
  BY CalmNow DEF ActiveExpire
<1> HIDE DEF k, t, r, sn
<1>2. Calm(r, sn) /\ Warranted(t, r, sn)
  BY <1>1, ExpireIfNeededCalm DEF Tactful
<1>3. Calm(s', seen) /\ Warranted(s, s', seen) /\ seen' = Kept
  BY <1>2 DEF t, r, sn, ActiveExpire
<1> QED BY <1>3, KeptCalm, WarrantedAlarm

\* A key that expires is nothing to a reader, and is there.
LEMMA TimePassesCalm ==
    ASSUME CalmInv, NEW n \in Names, TimePasses(n) PROVE Calm(s', seen') /\ NoAlarm
<1> DEFINE k == writes
           t == s
           r == s'
           sn == seen
           cell == [t.db[n] EXCEPT !.expired = TRUE]
           db2 == [t.db EXCEPT ![n] = cell]
<1>1. k \in Nat /\ Good(t, k) /\ Calm(t, sn) /\ sn \in [Clients -> [Names -> CellTo(k)]]
  BY CalmNow
<1>2. r = [t EXCEPT !.db = db2] /\ seen' = Kept /\ t.db[n].ttl # 0
  BY DEF TimePasses
<1> HIDE DEF t, r, k, sn
<1>3. t \in ServerTo(k) /\ t.db \in [Names -> CellTo(k)] /\ t.db[n] \in CellTo(k)
  BY <1>1 DEF Good, ServerTo
<1>4. cell.expired = TRUE /\ cell.val = t.db[n].val /\ cell # None /\ t.db[n] # None
  BY <1>2, <1>3, FreshNone DEF CellTo, None
<1> HIDE DEF cell
<1>5. db2[n] = cell /\ \A m \in Names : m # n => db2[m] = t.db[m]
  BY <1>3
<1> HIDE DEF db2
<1>6. r.cl = t.cl /\ r.db = db2
  BY <1>2, <1>3 DEF ServerTo
<1>7. \A m \in Names : /\ r.db[m].val = t.db[m].val
                       /\ r.db[m] = None <=> t.db[m] = None
                       /\ Logical(r, m) = Logical(t, m) \/ Logical(r, m) = None
  BY <1>4, <1>5, <1>6 DEF Logical, Expired
<1>8. ASSUME NEW d \in Clients, NEW m \in Names, Clean(r, d, m) PROVE Recalls(r, sn, d, m)
  <2>1. Recalls(t, sn, d, m)
    BY <1>1, <1>6, <1>8, CalmHas DEF Clean
  <2> QED BY <1>6, <1>7, <2>1 DEF Recalls
<1>9. Unflagged(r)
  BY <1>1, <1>6, <1>7 DEF Calm, Unflagged
<1>10. Distinct(r.db)
  BY <1>1, <1>7 DEF Calm, Distinct
<1>11. Calm(r, sn)
  BY <1>8, <1>9, <1>10 DEF Calm
<1>12. NoAlarm
  BY <1>6 DEF NoAlarm, t, r
<1> QED BY <1>2, <1>11, <1>12, KeptCalm DEF r, sn

\* The new watcher recalls what is there: no other key has that.
LEMMA WatchCalm ==
    ASSUME CalmInv, NEW c \in Clients, NEW n \in Names, Watch(c, n) PROVE Calm(s', seen') /\ NoAlarm
<1> DEFINE k == writes
           t == s
           r == s'
           sn == seen
           sn1 == seen'
           new == Logical(s, n)
<1>1. k \in Nat /\ Good(t, k) /\ Calm(t, sn) /\ sn \in [Clients -> [Names -> CellTo(k)]]
  BY CalmNow
<1>2. /\ r = WatchForKey(t, c, n) /\ n \notin t.cl[c].watched
      /\ sn1 = [sn EXCEPT ![c][n] = new] /\ new = Logical(t, n)
  BY DEF Watch
<1> HIDE DEF t, r, k, sn, sn1, new
<1>3. /\ r.db = t.db
      /\ \A d \in Clients : d # c => r.cl[d] = t.cl[d]
      /\ r.cl[c].watched = t.cl[c].watched \cup {n} /\ r.cl[c].cas = t.cl[c].cas
      /\ r.cl[c].stale = t.cl[c].stale \cup (IF Expired(t, n) THEN {n} ELSE {})
  BY <1>1, <1>2, WatchFields
<1>4. sn1[c][n] = new /\ \A d \in Clients, m \in Names : d # c \/ m # n => sn1[d][m] = sn[d][m]
  BY <1>1, <1>2
<1>5. \A m \in Names : Logical(r, m) = Logical(t, m)
  BY <1>3 DEF Logical, Expired
<1>6. Expired(t, n) => t.db[n] # None
  BY FreshNone DEF Expired
<1>7. n \notin t.cl[c].stale
  BY <1>1, <1>2 DEF Good, ClientSound
<1>8. ASSUME NEW d \in Clients, NEW m \in Names, Clean(r, d, m), d # c \/ m # n PROVE Recalls(r, sn1, d, m)
  <2>1. Clean(t, d, m) /\ (m \in r.cl[d].stale <=> m \in t.cl[d].stale)
    BY <1>3, <1>8 DEF Clean
  <2>2. Recalls(t, sn, d, m)
    BY <1>1, <2>1, CalmHas
  <2> QED BY <1>3, <1>4, <1>5, <1>8, <2>1, <2>2 DEF Recalls
<1>9. Recalls(r, sn1, c, n)
  <2>1. n \in r.cl[c].stale <=> Expired(t, n)
    BY <1>3, <1>7
  <2>2. CASE Expired(t, n)
    BY <1>2, <1>4, <2>1, <2>2 DEF Recalls, Logical
  <2>3. CASE ~Expired(t, n)
    <3>1. new = t.db[n]
      BY <1>2, <2>3 DEF Logical
    <3>2. ASSUME new # None, NEW m \in Names, m # n PROVE Logical(r, m) # new
      <4>1. Distinct(t.db)
        BY <1>1 DEF Calm
      <4>2. t.db[n].val # 0
        BY <3>1, <3>2, <4>1 DEF Distinct
      <4>3. t.db[m] # t.db[n]
        BY <3>2, <4>1, <4>2 DEF Distinct
      <4> QED BY <1>5, <3>1, <3>2, <4>3 DEF Logical
    <3> QED BY <1>3, <1>4, <2>1, <2>3, <3>1, <3>2 DEF Recalls
  <2> QED BY <2>2, <2>3
<1>10. Unflagged(r)
  <2>1. Unflagged(t)
    BY <1>1 DEF Calm
  <2>2. ASSUME NEW m \in Names, r.db[m] = None, NEW d \in Clients PROVE m \notin r.cl[d].stale
    <3>1. m \notin t.cl[d].stale
      BY <1>3, <2>1, <2>2 DEF Unflagged
    <3> QED BY <1>3, <1>6, <2>2, <3>1
  <2> QED BY <2>2 DEF Unflagged
<1>11. Calm(r, sn1)
  BY <1>1, <1>3, <1>8, <1>9, <1>10 DEF Calm
<1>12. NoAlarm
  BY <1>3 DEF NoAlarm, t, r
<1> QED BY <1>11, <1>12 DEF r, sn1

LEMMA InitCalm == Init => CalmInv
<1> SUFFICES ASSUME Init PROVE CalmInv
  OBVIOUS
<1>1. PICK replica \in BOOLEAN, file \in Files :
        s = [db |-> file, watched_keys |-> [n \in Names |-> <<>>], watching_clients |-> 0,
             cl |-> [c \in Clients |-> Idle], replica |-> replica]
  BY DEF Init
<1>2. s.db = file /\ \A c \in Clients : s.cl[c].watched = {} /\ s.cl[c].stale = {}
  BY <1>1 DEF Idle
<1>3. Distinct(file)
  <2>1. file \in [Names -> [val : UpTo(0), ttl : UpTo(0), expired : {FALSE}]]
    BY TransactionConstants DEF Names
  <2>2. \A m, n \in Names : /\ file[n].val = 0 => file[n].ttl = 0
                            /\ file[m].val = file[n].val => m = n \/ file[m].val = 0
    BY DistinctFiles DEF Names
  <2>3. ASSUME NEW n \in Names, file[n].val = 0 PROVE file[n] = None
    <3>1. file[n] \in [val : UpTo(0), ttl : UpTo(0), expired : {FALSE}] /\ file[n].ttl = 0
      BY <2>1, <2>2, <2>3
    <3> QED BY <2>3, <3>1 DEF None
  <2> QED BY <2>2, <2>3 DEF Distinct
<1>4. Calm(s, seen)
  BY <1>2, <1>3 DEF Calm, Unflagged, Clean
<1> QED BY <1>4, InitInv DEF CalmInv

\* What every step leaves calm, and that it tells nobody in vain.
LEMMA NextCalm == CalmInv /\ [Next]_vars => CalmInv' /\ (NoAlarm \/ UNCHANGED vars)
<1> SUFFICES ASSUME CalmInv, [Next]_vars PROVE CalmInv' /\ (NoAlarm \/ UNCHANGED vars)
  OBVIOUS
<1>1. IInv'
  BY NextInv DEF CalmInv
<1> DEFINE Done == Calm(s', seen') /\ NoAlarm
<1>2. ASSUME NEW c \in Clients, Multi(c) \/ Exec(c) \/ Discard(c) \/ Reject(c) PROVE Done
  BY <1>2, MultiCalm, ExecCalm, DiscardCalm, RejectCalm
<1>3. ASSUME NEW c \in Clients, NEW n \in Names, Watch(c, n) PROVE Done
  BY <1>3, WatchCalm
<1>4. ASSUME NEW c \in Clients, NEW cmd \in Commands, Run(c, cmd) PROVE Done
  BY <1>4, CallCalmStep DEF Run
<1>5. ASSUME NEW c \in Clients, NEW cmd \in Commands, Queue(c, cmd) PROVE Done
  BY <1>5, QueueCalm
<1>6. ASSUME NEW cmd \in Commands, MasterRun(cmd) PROVE Done
  <2>1. PICK c \in Clients : s' = Call(s, c, cmd, writes + 1)
    BY <1>6 DEF MasterRun
  <2> QED BY <1>6, <2>1, CallCalmStep DEF MasterRun
<1>7. ASSUME NEW n \in Names, TimePasses(n) \/ ActiveExpire(n) PROVE Done
  BY <1>7, TimePassesCalm, ActiveExpireCalm
<1>8. CASE UNCHANGED vars
  <2>1. Calm(s', seen')
    BY <1>8, CalmNow DEF vars
  <2> QED BY <1>1, <1>8, <2>1 DEF CalmInv
<1>9. CASE Next
  <2>1. Done
    <3> HIDE DEF Done
    <3> QED BY <1>2, <1>3, <1>4, <1>5, <1>6, <1>7, <1>9 DEF Next
  <2> QED BY <1>1, <2>1 DEF CalmInv
<1> QED BY <1>8, <1>9

\* Only a change that a reader could see makes an EXEC fail: whom a command, an
\* expiry, a flush or a swap tells of one would find a key that is not as it was
\* when the watch began (touchWatchedKey and touchAllWatchedKeysInDb, multi.c:402).
THEOREM NoFalseAlarms == Spec => NoFalseAlarm
<1>1. CalmInv /\ [Next]_vars
        => [\A c \in Clients :
              /\ ~s.cl[c].cas /\ s'.cl[c].cas
              /\ \A d \in Clients : s.cl[d].multi = s'.cl[d].multi
              => \E n \in s.cl[c].watched : Logical(s', n) # seen[c][n]]_vars
  BY NextCalm DEF NoAlarm
<1> QED BY <1>1, InitCalm, NextCalm, PTL DEF Spec, NoFalseAlarm

(***************************************************************************)
(* The dictionary. First what its recursive functions compute.             *)
(***************************************************************************)
\* What holds at first and is kept by every round holds after each.
LEMMA Climb ==
    ASSUME NEW N \in Nat, NEW J, 0 \in J, \A i \in 1 .. N : i - 1 \in J => i \in J
    PROVE  \A i \in 0 .. N : i \in J
<1> DEFINE S == {i \in 0 .. N : i \notin J}
<1>1. SUFFICES ASSUME S # {} PROVE FALSE
  OBVIOUS
<1>2. S \in SUBSET Nat
  OBVIOUS
<1>3. PICK p \in S : \A q \in S : p <= q
  BY <1>1, <1>2, LeastElement
<1>4. p \in 1 .. N /\ p - 1 \in 0 .. N /\ p - 1 \notin S
  BY <1>3
<1> QED BY <1>3, <1>4

\* f starts at base and takes the steps up to n.
Walks(f, n, S, base, step) ==
  /\ f \in [0 .. n -> S]
  /\ f[0] = base
  /\ \A i \in 1 .. n : f[i] = step[i][f[i - 1]]

\* A function that is defined from its value before exists.
LEMMA WalkExists ==
    ASSUME NEW N \in Nat, NEW S, NEW base \in S, NEW step \in [1 .. N -> [S -> S]]
    PROVE  \E f : Walks(f, N, S, base, step)
<1> DEFINE J == {n \in 0 .. N : \E f : Walks(f, n, S, base, step)}
<1>1. 0 \in J
  <2> DEFINE f == [i \in 0 .. 0 |-> base]
  <2>1. f \in [0 .. 0 -> S] /\ f[0] = base
    OBVIOUS
  <2> HIDE DEF f
  <2>2. Walks(f, 0, S, base, step)
    BY <2>1 DEF Walks
  <2> QED BY <2>2
<1>2. ASSUME NEW n \in 1 .. N, n - 1 \in J PROVE n \in J
  <2>1. PICK g : Walks(g, n - 1, S, base, step)
    BY <1>2
  <2> DEFINE f == [i \in 0 .. n |-> IF i = n THEN step[n][g[n - 1]] ELSE g[i]]
  <2>2. g \in [0 .. n - 1 -> S] /\ g[0] = base /\ \A i \in 1 .. n - 1 : g[i] = step[i][g[i - 1]]
    BY <2>1 DEF Walks
  <2>3. step[n][g[n - 1]] \in S
    <3>1. g[n - 1] \in S
      BY <2>2
    <3> QED BY <3>1
  <2>4. f \in [0 .. n -> S]
    <3>1. \A i \in 0 .. n : i # n => i \in 0 .. n - 1
      OBVIOUS
    <3> QED BY <2>2, <2>3, <3>1
  <2>5. f[0] = base
    BY <2>2
  <2>6. ASSUME NEW i \in 1 .. n PROVE f[i] = step[i][f[i - 1]]
    <3>1. i - 1 \in 0 .. n /\ i - 1 # n /\ i \in 0 .. n
      OBVIOUS
    <3>2. f[i - 1] = g[i - 1]
      BY <3>1
    <3>3. CASE i = n
      BY <3>1, <3>2, <3>3
    <3>4. CASE i # n
      <4>1. i \in 1 .. n - 1
        BY <3>4
      <4>2. f[i] = g[i]
        BY <3>1, <3>4
      <4> QED BY <2>2, <3>2, <4>1, <4>2
    <3> QED BY <3>3, <3>4
  <2> HIDE DEF f
  <2>7. Walks(f, n, S, base, step)
    BY <2>4, <2>5, <2>6 DEF Walks
  <2> QED BY <2>7
<1> HIDE DEF J
<1>3. \A n \in 0 .. N : n \in J
  BY <1>1, <1>2, Climb
<1>4. N \in J
  BY <1>3
<1> QED BY <1>4 DEF J

(***************************************************************************)
(* Powers of two, and division by them.                                    *)
(***************************************************************************)
LEMMA Pow2Is ==
  /\ Pow2 \in [0 .. CursorBits -> Nat]
  /\ Pow2[0] = 1
  /\ \A e \in 1 .. CursorBits : Pow2[e] = 2 * Pow2[e - 1]
<1> DEFINE N == CursorBits
           step == [i \in 1 .. N |-> [x \in Nat |-> 2 * x]]
<1>1. N \in Nat
  BY DictConstants
<1> HIDE DEF N
<1>2. PICK f : Walks(f, N, Nat, 1, step)
  <2>1. step \in [1 .. N -> [Nat -> Nat]] /\ 1 \in Nat
    OBVIOUS
  <2> HIDE DEF step
  <2> QED BY <1>1, <2>1, WalkExists
<1>3. f \in [0 .. N -> Nat] /\ f[0] = 1 /\ \A e \in 1 .. N : f[e] = 2 * f[e - 1]
  <2>1. f \in [0 .. N -> Nat] /\ f[0] = 1 /\ \A e \in 1 .. N : f[e] = step[e][f[e - 1]]
    BY <1>2 DEF Walks
  <2>2. ASSUME NEW e \in 1 .. N PROVE step[e][f[e - 1]] = 2 * f[e - 1]
    <3>1. f[e - 1] \in Nat
      BY <1>1, <2>1
    <3> QED BY <3>1
  <2> HIDE DEF step
  <2> QED BY <2>1, <2>2
<1> DEFINE Doubles(g) == g = [e \in 0 .. N |-> IF e = 0 THEN 1 ELSE 2 * g[e - 1]]
<1>4. Doubles(f)
  <2>1. \A e \in 0 .. N : f[e] = IF e = 0 THEN 1 ELSE 2 * f[e - 1]
    BY <1>1, <1>3
  <2> QED BY <1>3, <2>1
<1>5. Pow2 = CHOOSE g : Doubles(g)
  BY DEF Pow2, N
<1> HIDE DEF Doubles
<1>6. Doubles(Pow2)
  BY <1>4, <1>5
<1> DEFINE J == {e \in 0 .. N : Pow2[e] = f[e]}
<1>7. Pow2 = [e \in 0 .. N |-> IF e = 0 THEN 1 ELSE 2 * Pow2[e - 1]]
  BY <1>6 DEF Doubles
<1>8. DOMAIN Pow2 = 0 .. N /\ Pow2[0] = 1 /\ \A e \in 1 .. N : Pow2[e] = 2 * Pow2[e - 1]
  <2> DEFINE rhs == [e \in 0 .. N |-> IF e = 0 THEN 1 ELSE 2 * Pow2[e - 1]]
  <2>1. DOMAIN rhs = 0 .. N /\ rhs[0] = 1 /\ \A e \in 1 .. N : rhs[e] = 2 * Pow2[e - 1]
    BY <1>1
  <2> HIDE DEF rhs
  <2>2. Pow2 = rhs
    BY <1>7 DEF rhs
  <2> QED BY <2>1, <2>2
<1>9. \A e \in 0 .. N : e \in J
  <2>1. 0 \in J
    BY <1>1, <1>3, <1>8
  <2>2. ASSUME NEW e \in 1 .. N, e - 1 \in J PROVE e \in J
    BY <1>1, <1>3, <1>8, <2>2
  <2> HIDE DEF J
  <2> QED BY <1>1, <2>1, <2>2, Climb
<1>10. Pow2 \in [0 .. N -> Nat]
  <2>1. \A e \in 0 .. N : Pow2[e] \in Nat
    BY <1>3, <1>9
  <2>2. Pow2 = [e \in 0 .. N |-> Pow2[e]]
    BY <1>7
  <2> QED BY <2>1, <2>2
<1> QED BY <1>8, <1>10 DEF N

\* Pow2 is the powers of two.
LEMMA Powers ==
  /\ CursorBits \in Nat \ {0}
  /\ \A e \in 0 .. CursorBits : Pow2[e] \in Nat \ {0}
  /\ Pow2[0] = 1 /\ Pow2[CursorBits] \in Nat \ {0}
  /\ \A e \in 1 .. CursorBits : Pow2[e] = 2 * Pow2[e - 1]
<1>1. CursorBits \in Nat \ {0}
  BY DictConstants
<1> DEFINE J == {e \in 0 .. CursorBits : Pow2[e] \in Nat \ {0}}
<1>2. 0 \in J /\ \A e \in 1 .. CursorBits : e - 1 \in J => e \in J
  BY <1>1, Pow2Is
<1> HIDE DEF J
<1>3. \A e \in 0 .. CursorBits : e \in J
  BY <1>1, <1>2, Climb
<1> QED BY <1>1, <1>3, Pow2Is DEF J

\* 1 << (a + b) is (1 << a) << b.
LEMMA PowersMultiply ==
    ASSUME NEW a \in Nat, NEW b \in Nat, a + b <= CursorBits
    PROVE  Pow2[a + b] = Pow2[a] * Pow2[b]
<1> DEFINE J == {i \in 0 .. b : Pow2[a + i] = Pow2[a] * Pow2[i]}
<1>1. 0 \in J
  <2>1. a \in 0 .. CursorBits /\ a + 0 = a
    BY Powers
  <2> QED BY <2>1, Powers
<1>2. ASSUME NEW i \in 1 .. b, i - 1 \in J PROVE i \in J
  <2>1. a + i \in 1 .. CursorBits /\ i \in 1 .. CursorBits /\ a + i - 1 = a + (i - 1) /\ a \in 0 .. CursorBits
        /\ i - 1 \in 0 .. CursorBits
    BY Powers
  <2>2. Pow2[a + i] = 2 * Pow2[a + (i - 1)] /\ Pow2[i] = 2 * Pow2[i - 1] /\ Pow2[a + (i - 1)] = Pow2[a] * Pow2[i - 1]
    BY <1>2, <2>1, Powers
  <2> DEFINE x == Pow2[a]  y == Pow2[i - 1]
  <2>3. x \in Nat /\ y \in Nat
    BY <2>1, Powers
  <2> HIDE DEF x, y
  <2>4. 2 * (x * y) = x * (2 * y)
    BY <2>3
  <2> QED BY <2>2, <2>4 DEF x, y
<1> HIDE DEF J
<1>3. b \in J
  BY <1>1, <1>2, Climb
<1> QED BY <1>3 DEF J

\* The smaller of two powers divides the greater.
LEMMA PowersDivide ==
    ASSUME NEW a \in 0 .. CursorBits, NEW b \in a .. CursorBits
    PROVE  /\ Pow2[b] = Pow2[a] * Pow2[b - a]
           /\ Pow2[a] \in Nat \ {0} /\ Pow2[b - a] \in Nat \ {0} /\ Pow2[b] \in Nat \ {0}
           /\ Pow2[a] <= Pow2[b]
<1>1. a \in Nat /\ b - a \in Nat /\ a + (b - a) = b /\ b \in 0 .. CursorBits /\ b - a \in 0 .. CursorBits
  BY Powers
<1>2. Pow2[b] = Pow2[a] * Pow2[b - a]
  BY <1>1, PowersMultiply
<1>3. Pow2[a] \in Nat \ {0} /\ Pow2[b - a] \in Nat \ {0} /\ Pow2[b] \in Nat \ {0}
  BY <1>1, Powers
<1> DEFINE x == Pow2[a]  y == Pow2[b - a]
<1>4. x <= x * y
  <2>1. x \in Nat \ {0} /\ y \in Nat \ {0}
    BY <1>3
  <2> HIDE DEF x, y
  <2> QED BY <2>1
<1> QED BY <1>2, <1>3, <1>4

LEMMA Division ==
    ASSUME NEW x \in Nat, NEW B \in Nat \ {0}
    PROVE  x = B * (x \div B) + (x % B) /\ x \div B \in Nat /\ x % B \in 0 .. B - 1
OBVIOUS

LEMMA DivisionIs ==
    ASSUME NEW x \in Nat, NEW B \in Nat \ {0}, NEW q \in Nat, NEW r \in 0 .. B - 1, x = B * q + r
    PROVE  x \div B = q /\ x % B = r
OBVIOUS

Over(x, n) == x \div n
Rest(x, n) == x % n
Times(x, y) == x * y

LEMMA Parts ==
    ASSUME NEW x \in Nat, NEW B \in Nat \ {0}
    PROVE  x = B * Over(x, B) + Rest(x, B) /\ Over(x, B) \in Nat /\ Rest(x, B) \in 0 .. B - 1
BY DEF Over, Rest

\* Dividing by A and then by B is dividing by their product.
LEMMA DivisionTwice ==
    ASSUME NEW x \in Nat, NEW A \in Nat \ {0}, NEW B \in Nat \ {0}, NEW M \in Nat \ {0}, M = Times(A, B)
    PROVE  /\ Over(x, M) = Over(Over(x, A), B)
           /\ Rest(Rest(x, M), A) = Rest(x, A)
           /\ Over(Rest(x, M), A) = Rest(Over(x, A), B)
<1> DEFINE q == x \div A  r == x % A  p == q \div B  t == q % B
<1>1. x = A * q + r /\ q \in Nat /\ r \in 0 .. A - 1
  BY Division
<1>2. q = B * p + t /\ p \in Nat /\ t \in 0 .. B - 1
  BY <1>1, Division
<1> HIDE DEF q, r, p, t
<1>3. A * B \in Nat \ {0}
  OBVIOUS
<1>4. x = (A * B) * p + (A * t + r)
  <2>1. A * (B * p + t) = (A * B) * p + A * t
    BY <1>2
  <2> QED BY <1>1, <1>2, <2>1
<1>5. A * t + r \in 0 .. (A * B) - 1
  <2>1. A * t \in Nat /\ A * t <= A * (B - 1)
    BY <1>2
  <2>2. A * (B - 1) = A * B - A
    OBVIOUS
  <2> QED BY <1>1, <1>3, <2>1, <2>2
<1> DEFINE AB == A * B
           y == A * t + r
<1>6. AB \in Nat \ {0} /\ y \in 0 .. AB - 1 /\ x = AB * p + y /\ y \in Nat
  BY <1>3, <1>4, <1>5
<1>7. x \div AB = p /\ x % AB = y
  <2> HIDE DEF AB, y
  <2> QED BY <1>2, <1>6, DivisionIs
<1>8. y % A = r /\ y \div A = t
  <2>1. y = A * t + r /\ t \in Nat /\ y \in Nat /\ A \in Nat \ {0} /\ r \in 0 .. A - 1
    BY <1>1, <1>2, <1>6
  <2> HIDE DEF y
  <2> QED BY ONLY <2>1, DivisionIs
<1>9. M = AB
  BY DEF Times
<1> HIDE DEF AB
<1> QED BY <1>7, <1>8, <1>9 DEF q, r, p, t, Over, Rest

(***************************************************************************)
(* The reversed bits.                                                      *)
(***************************************************************************)
LEMMA RevBitsIs ==
    ASSUME NEW v \in Nat
    PROVE  /\ RevBits(v) \in [0 .. CursorBits -> Nat]
           /\ RevBits(v)[0] = 0
           /\ \A n \in 1 .. CursorBits :
                RevBits(v)[n] = 2 * RevBits(v)[n - 1] + ((v \div Pow2[n - 1]) % 2)
<1> DEFINE N == CursorBits
           bit(n) == (v \div Pow2[n - 1]) % 2
           step == [i \in 1 .. N |-> [x \in Nat |-> 2 * x + bit(i)]]
<1>1. N \in Nat /\ \A i \in 1 .. N : bit(i) \in Nat
  <2>1. ASSUME NEW i \in 1 .. N PROVE bit(i) \in Nat
    <3>1. Pow2[i - 1] \in Nat \ {0}
      BY Powers
    <3> DEFINE p == Pow2[i - 1]
    <3>2. v \div p \in Nat
      <4> HIDE DEF p
      <4> QED BY <3>1, Division DEF p
    <3> QED BY <3>2
  <2> QED BY <2>1, Powers
<1> HIDE DEF N, bit
<1>2. PICK f : Walks(f, N, Nat, 0, step)
  <2>1. step \in [1 .. N -> [Nat -> Nat]] /\ 0 \in Nat
    BY <1>1
  <2> HIDE DEF step
  <2> QED BY <1>1, <2>1, WalkExists
<1>3. f \in [0 .. N -> Nat] /\ f[0] = 0 /\ \A e \in 1 .. N : f[e] = 2 * f[e - 1] + bit(e)
  <2>1. f \in [0 .. N -> Nat] /\ f[0] = 0 /\ \A e \in 1 .. N : f[e] = step[e][f[e - 1]]
    BY <1>2 DEF Walks
  <2>2. ASSUME NEW e \in 1 .. N PROVE step[e][f[e - 1]] = 2 * f[e - 1] + bit(e)
    <3>1. f[e - 1] \in Nat
      BY <1>1, <2>1
    <3> QED BY <3>1
  <2> HIDE DEF step
  <2> QED BY <2>1, <2>2
<1> DEFINE r == RevBits(v)
           Doubles(g) == g = [n \in 0 .. N |-> IF n = 0 THEN 0 ELSE 2 * g[n - 1] + bit(n)]
<1>4. Doubles(f)
  <2>1. \A e \in 0 .. N : f[e] = IF e = 0 THEN 0 ELSE 2 * f[e - 1] + bit(e)
    BY <1>1, <1>3
  <2> QED BY <1>3, <2>1
<1>5. r = CHOOSE g : Doubles(g)
  BY DEF RevBits, N, bit
<1> HIDE DEF Doubles, r
<1>6. Doubles(r)
  BY <1>4, <1>5
<1> DEFINE J == {e \in 0 .. N : r[e] = f[e]}
<1>8. DOMAIN r = 0 .. N /\ r[0] = 0 /\ (\A e \in 1 .. N : r[e] = 2 * r[e - 1] + bit(e)) /\ r = [e \in 0 .. N |-> r[e]]
  <2> DEFINE rhs == [e \in 0 .. N |-> IF e = 0 THEN 0 ELSE 2 * r[e - 1] + bit(e)]
  <2>1. DOMAIN rhs = 0 .. N /\ rhs[0] = 0 /\ \A e \in 1 .. N : rhs[e] = 2 * r[e - 1] + bit(e)
    BY <1>1
  <2>2. r = rhs /\ rhs = [e \in 0 .. N |-> rhs[e]]
    BY <1>6 DEF Doubles
  <2> HIDE DEF rhs
  <2> QED BY <2>1, <2>2
<1>9. \A e \in 0 .. N : e \in J
  <2>1. 0 \in J
    BY <1>1, <1>3, <1>8
  <2>2. ASSUME NEW e \in 1 .. N, e - 1 \in J PROVE e \in J
    <3>1. r[e - 1] = f[e - 1] /\ e \in 0 .. N
      BY <1>1, <2>2
    <3>2. r[e] = 2 * r[e - 1] + bit(e) /\ f[e] = 2 * f[e - 1] + bit(e)
      BY <1>3, <1>8
    <3> QED BY <3>1, <3>2
  <2> HIDE DEF J
  <2> QED BY <1>1, <2>1, <2>2, Climb
<1>10. r \in [0 .. N -> Nat]
  <2>1. \A e \in 0 .. N : r[e] \in Nat
    BY <1>3, <1>9
  <2> QED BY <1>8, <2>1
<1> QED BY <1>8, <1>10 DEF N, r, bit

\* Bit i of v, and the n low bits reversed.
Bit(v, i) == (v \div Pow2[i]) % 2

LEMMA BitIs ==
    ASSUME NEW v \in Nat, NEW i \in 0 .. CursorBits
    PROVE  Bit(v, i) \in {0, 1} /\ v \div Pow2[i] \in Nat /\ v % Pow2[i] \in Nat
<1> DEFINE p == Pow2[i]
<1>1. p \in Nat \ {0}
  BY Powers
<1>2. v \div p \in Nat /\ v % p \in Nat
  <2> HIDE DEF p
  <2> QED BY ONLY <1>1, v \in Nat
<1>3. (v \div p) % 2 \in {0, 1}
  <2> DEFINE q == v \div p
  <2>1. q \in Nat
    BY <1>2
  <2> HIDE DEF q
  <2>2. q % 2 \in {0, 1}
    BY ONLY <2>1
  <2> QED BY <2>2 DEF q
<1> QED BY <1>2, <1>3 DEF Bit

\* The reversal of one bit more.
LEMMA RevBitsStep ==
    ASSUME NEW v \in Nat, NEW n \in 1 .. CursorBits
    PROVE  /\ RevBits(v)[n] \in Nat /\ RevBits(v)[n - 1] \in Nat
           /\ RevBits(v)[n] = 2 * RevBits(v)[n - 1] + Bit(v, n - 1)
           /\ RevBits(v)[n] \div 2 = RevBits(v)[n - 1]
           /\ RevBits(v)[n] % 2 = Bit(v, n - 1)
<1> DEFINE a == RevBits(v)[n - 1]  b == Bit(v, n - 1)  c == RevBits(v)[n]
<1>1. CursorBits \in Nat /\ n - 1 \in 0 .. CursorBits /\ n \in 0 .. CursorBits
  BY Powers
<1>2. a \in Nat /\ b \in {0, 1} /\ c = 2 * a + b
  BY <1>1, RevBitsIs, BitIs DEF Bit
<1> HIDE DEF a, b, c
<1>3. c \in Nat /\ c \div 2 = a /\ c % 2 = b
  BY <1>2
<1> QED BY <1>2, <1>3 DEF a, b, c

\* They are below 1 << n.
LEMMA RevBitsBound ==
    ASSUME NEW v \in Nat, NEW n \in 0 .. CursorBits
    PROVE  RevBits(v)[n] \in 0 .. Pow2[n] - 1
<1> DEFINE J == {i \in 0 .. CursorBits : RevBits(v)[i] \in 0 .. Pow2[i] - 1}
<1>1. 0 \in J
  <2>1. RevBits(v)[0] = 0 /\ Pow2[0] = 1 /\ 0 \in 0 .. CursorBits
    BY Powers, RevBitsIs
  <2> QED BY <2>1
<1>2. ASSUME NEW i \in 1 .. CursorBits, i - 1 \in J PROVE i \in J
  <2>1. /\ RevBits(v)[i - 1] \in 0 .. Pow2[i - 1] - 1
        /\ RevBits(v)[i] = 2 * RevBits(v)[i - 1] + Bit(v, i - 1)
        /\ Bit(v, i - 1) \in {0, 1} /\ Pow2[i] = 2 * Pow2[i - 1] /\ Pow2[i - 1] \in Nat
    <3>1. CursorBits \in Nat /\ i - 1 \in 0 .. CursorBits
      BY Powers
    <3> QED BY <1>2, <3>1, RevBitsStep, BitIs, Powers
  <2> DEFINE x == RevBits(v)[i - 1]  y == RevBits(v)[i]  b == Bit(v, i - 1)  p == Pow2[i - 1]
  <2>2. y \in 0 .. 2 * p - 1
    <3>1. x \in 0 .. p - 1 /\ y = 2 * x + b /\ b \in {0, 1} /\ p \in Nat
      BY <2>1
    <3> HIDE DEF x, y, b, p
    <3> QED BY <3>1
  <2> QED BY <2>1, <2>2
<1> HIDE DEF J
<1>3. \A i \in 0 .. CursorBits : i \in J
  BY <1>1, <1>2, Climb, Powers
<1> QED BY <1>3 DEF J

Cursor == 0 .. Pow2[CursorBits] - 1

LEMMA RevType ==
    ASSUME NEW v \in Cursor
    PROVE  v \in Nat /\ rev[v] \in Cursor /\ rev[v] \in Nat /\ rev[v] = RevBits(v)[CursorBits]
<1>1. v \in Nat /\ v \in 0 .. Pow2[CursorBits] - 1 /\ Pow2[CursorBits] \in Nat
  BY Powers DEF Cursor
<1>2. rev[v] = RevBits(v)[CursorBits]
  BY <1>1 DEF rev
<1>3. RevBits(v)[CursorBits] \in Cursor
  BY <1>1, RevBitsBound, Powers DEF Cursor
<1> QED BY <1>1, <1>2, <1>3 DEF Cursor

LEMMA Halving ==
    ASSUME NEW x \in Nat, NEW A \in Nat \ {0}
    PROVE  x \div (A * 2) = (x \div A) \div 2 /\ x % (A * 2) = A * ((x \div A) % 2) + (x % A)
<1> DEFINE q == x \div A  r == x % A  p == q \div 2  t == q % 2  D == A * 2  y == A * t + r
<1>1. x = A * q + r /\ q \in Nat /\ r \in 0 .. A - 1
  BY Division
<1>2. q = 2 * p + t /\ p \in Nat /\ t \in {0, 1}
  <2> HIDE DEF q
  <2> QED BY <1>1
<1> HIDE DEF q, r, p, t
<1>3. D \in Nat \ {0} /\ y \in 0 .. D - 1
  <2>1. A * 0 = 0 /\ A * 1 = A
    OBVIOUS
  <2>2. CASE t = 0
    BY <1>1, <2>1, <2>2
  <2>3. CASE t = 1
    BY <1>1, <2>1, <2>3
  <2> QED BY <1>2, <2>2, <2>3
<1>4. x = D * p + y
  <2>1. A * (2 * p + t) = (A * 2) * p + A * t
    BY <1>2
  <2> QED BY <1>1, <1>2, <2>1
<1>5. x \div D = p /\ x % D = y
  <2> HIDE DEF D, y
  <2> QED BY ONLY <1>2, <1>3, <1>4, DivisionIs, x \in Nat
<1> QED BY <1>5 DEF q, r, p, t

\* The high bits of the reverse are the low bits reversed.
LEMMA RevTop ==
    ASSUME NEW v \in Nat, NEW i \in 0 .. CursorBits
    PROVE  RevBits(v)[CursorBits] \div Pow2[i] = RevBits(v)[CursorBits - i]
<1> DEFINE C == CursorBits
           R == RevBits(v)[C]
           J == {j \in 0 .. C : R \div Pow2[j] = RevBits(v)[C - j]}
<1>0. C \in Nat /\ R \in Nat
  BY Powers, RevBitsIs
<1>1. 0 \in J
  <2>1. Pow2[0] = 1 /\ C - 0 = C /\ 0 \in 0 .. C
    BY <1>0, Powers
  <2> HIDE DEF R
  <2>2. R \div 1 = R
    BY <1>0
  <2> QED BY <2>1, <2>2 DEF R
<1>2. ASSUME NEW j \in 1 .. C, j - 1 \in J PROVE j \in J
  <2>1. R \div Pow2[j - 1] = RevBits(v)[C - (j - 1)]
    BY <1>2
  <2>2. Pow2[j] = Pow2[j - 1] * 2 /\ Pow2[j - 1] \in Nat \ {0}
    <3>1. j - 1 \in 0 .. C /\ j \in 1 .. C
      BY <1>0
    <3> QED BY <3>1, Powers
  <2> DEFINE p == Pow2[j - 1]
  <2>3. R \div (p * 2) = (R \div p) \div 2
    <3>1. p \in Nat \ {0}
      BY <2>2
    <3> HIDE DEF p, R
    <3> QED BY <1>0, <3>1, Halving
  <2>4. C - (j - 1) \in 1 .. C /\ C - (j - 1) - 1 = C - j
    BY <1>0
  <2>5. RevBits(v)[C - (j - 1)] \div 2 = RevBits(v)[C - j]
    BY <2>4, RevBitsStep
  <2> QED BY <2>1, <2>2, <2>3, <2>5
<1> HIDE DEF J
<1>3. \A j \in 0 .. C : j \in J
  BY <1>0, <1>1, <1>2, Climb
<1> QED BY <1>3 DEF J

\* A number below 1 << (i + 1): bit i and what is below it.
LEMMA LowBits ==
    ASSUME NEW v \in Nat, NEW i \in 1 .. CursorBits
    PROVE  v % Pow2[i] = Pow2[i - 1] * Bit(v, i - 1) + (v % Pow2[i - 1])
<1>1. Pow2[i] = Pow2[i - 1] * 2 /\ Pow2[i - 1] \in Nat \ {0}
  <2>1. i - 1 \in 0 .. CursorBits
    BY Powers
  <2> QED BY <2>1, Powers
<1> DEFINE p == Pow2[i - 1]
<1>2. p \in Nat \ {0} /\ Pow2[i] = p * 2
  BY <1>1
<1>3. v % (p * 2) = p * ((v \div p) % 2) + (v % p)
  <2> HIDE DEF p
  <2> QED BY <1>2, Halving
<1> QED BY <1>2, <1>3 DEF Bit

LEMMA SameLow ==
    ASSUME NEW p \in Nat \ {0}, NEW b \in {0, 1}, NEW c \in {0, 1}, NEW x \in 0 .. p - 1, NEW y \in 0 .. p - 1
    PROVE  p * b + x = p * c + y <=> b = c /\ x = y
<1>1. p * 0 = 0 /\ p * 1 = p
  OBVIOUS
<1>2. CASE b = 0 /\ c = 0
  BY <1>1, <1>2
<1>3. CASE b = 0 /\ c = 1
  BY <1>1, <1>3
<1>4. CASE b = 1 /\ c = 0
  BY <1>1, <1>4
<1>5. CASE b = 1 /\ c = 1
  BY <1>1, <1>5
<1> QED BY <1>2, <1>3, <1>4, <1>5

LEMMA LowRange ==
    ASSUME NEW v \in Nat, NEW i \in 0 .. CursorBits
    PROVE  v % Pow2[i] \in 0 .. Pow2[i] - 1 /\ Pow2[i] \in Nat \ {0}
<1> DEFINE p == Pow2[i]
<1>1. p \in Nat \ {0}
  BY Powers
<1>2. v % p \in 0 .. p - 1
  <2> HIDE DEF p
  <2> QED BY <1>1
<1> QED BY <1>1, <1>2

\* Numbers agree on their e low bits when these are the same in reverse.
LEMMA RevLow ==
    ASSUME NEW x \in Nat, NEW y \in Nat, NEW e \in 0 .. CursorBits
    PROVE  RevBits(x)[e] = RevBits(y)[e] <=> x % Pow2[e] = y % Pow2[e]
<1> DEFINE J == {i \in 0 .. CursorBits : RevBits(x)[i] = RevBits(y)[i] <=> x % Pow2[i] = y % Pow2[i]}
<1>1. 0 \in J
  <2>1. Pow2[0] = 1 /\ 0 \in 0 .. CursorBits
    BY Powers
  <2>3. RevBits(x)[0] = 0 /\ RevBits(y)[0] = 0
    BY ONLY RevBitsIs, x \in Nat, y \in Nat
  <2>2. x % 1 = 0 /\ y % 1 = 0
    OBVIOUS
  <2> QED BY <2>1, <2>2, <2>3
<1>2. ASSUME NEW i \in 1 .. CursorBits, i - 1 \in J PROVE i \in J
  <2>1. i - 1 \in 0 .. CursorBits /\ i \in 0 .. CursorBits /\ CursorBits \in Nat
    BY Powers
  <2>2. RevBits(x)[i - 1] = RevBits(y)[i - 1] <=> x % Pow2[i - 1] = y % Pow2[i - 1]
    BY <1>2
  <2> DEFINE b == Bit(x, i - 1)  c == Bit(y, i - 1)
             l == x % Pow2[i - 1]  m == y % Pow2[i - 1]
             p == Pow2[i - 1]
             r == RevBits(x)[i - 1]  q == RevBits(y)[i - 1]
  <2>3. b \in {0, 1} /\ c \in {0, 1} /\ p \in Nat \ {0} /\ l \in 0 .. p - 1 /\ m \in 0 .. p - 1
    BY <2>1, BitIs, LowRange
  <2>4. x % Pow2[i] = p * b + l /\ y % Pow2[i] = p * c + m
    BY LowBits
  <2>5. RevBits(x)[i] = 2 * r + b /\ RevBits(y)[i] = 2 * q + c /\ r \in Nat /\ q \in Nat
    BY RevBitsStep
  <2>6. r = q <=> l = m
    BY <2>2
  <2> HIDE DEF b, c, l, m, p, r, q
  <2>7. p * b + l = p * c + m <=> b = c /\ l = m
    BY <2>3, SameLow
  <2>8. 2 * r + b = 2 * q + c <=> b = c /\ r = q
    BY <2>3, <2>5
  <2> QED BY <2>1, <2>4, <2>5, <2>6, <2>7, <2>8
<1> HIDE DEF J
<1>3. \A i \in 0 .. CursorBits : i \in J
  BY <1>1, <1>2, Climb, Powers
<1> QED BY <1>3 DEF J

\* Cursors of the same bucket are the same in their high reversed bits.
LEMMA SameBucket ==
    ASSUME NEW x \in Cursor, NEW y \in Cursor, NEW e \in 0 .. CursorBits
    PROVE  x % Pow2[e] = y % Pow2[e] <=>
             rev[x] \div Pow2[CursorBits - e] = rev[y] \div Pow2[CursorBits - e]
<1> DEFINE i == CursorBits - e
<1>1. i \in 0 .. CursorBits /\ CursorBits - i = e
  BY Powers
<1>2. x \in Nat /\ y \in Nat /\ rev[x] = RevBits(x)[CursorBits] /\ rev[y] = RevBits(y)[CursorBits]
  BY RevType
<1> HIDE DEF i
<1>3. rev[x] \div Pow2[i] = RevBits(x)[e] /\ rev[y] \div Pow2[i] = RevBits(y)[e]
  BY <1>1, <1>2, RevTop
<1>4. RevBits(x)[e] = RevBits(y)[e] <=> x % Pow2[e] = y % Pow2[e]
  BY <1>2, RevLow
<1> QED BY <1>3, <1>4 DEF i

\* The bits of the reverse.
LEMMA RevBit ==
    ASSUME NEW v \in Cursor, NEW i \in 0 .. CursorBits - 1
    PROVE  Bit(rev[v], i) = Bit(v, CursorBits - 1 - i)
<1> DEFINE n == CursorBits - i
<1>1. i \in 0 .. CursorBits /\ n \in 1 .. CursorBits /\ n - 1 = CursorBits - 1 - i
  BY Powers
<1>2. v \in Nat /\ rev[v] = RevBits(v)[CursorBits]
  BY RevType
<1>3. rev[v] \div Pow2[i] = RevBits(v)[n]
  BY <1>1, <1>2, RevTop
<1>4. RevBits(v)[n] % 2 = Bit(v, n - 1)
  <2> HIDE DEF n
  <2> QED BY <1>1, <1>2, RevBitsStep
<1> QED BY <1>1, <1>3, <1>4 DEF Bit

\* Numbers with the same bits are the same.
LEMMA SameBits ==
    ASSUME NEW x \in Nat, NEW y \in Nat, NEW e \in 0 .. CursorBits,
           \A i \in 0 .. CursorBits - 1 : i < e => Bit(x, i) = Bit(y, i)
    PROVE  x % Pow2[e] = y % Pow2[e]
<1> DEFINE J == {i \in 0 .. e : x % Pow2[i] = y % Pow2[i]}
<1>0. CursorBits \in Nat /\ e \in Nat
  BY Powers
<1>1. 0 \in J
  <2>1. Pow2[0] = 1
    BY Powers
  <2>2. x % 1 = 0 /\ y % 1 = 0
    OBVIOUS
  <2> QED BY <1>0, <2>1, <2>2
<1>2. ASSUME NEW i \in 1 .. e, i - 1 \in J PROVE i \in J
  <2>1. i \in 1 .. CursorBits /\ i - 1 \in 0 .. CursorBits - 1 /\ i - 1 < e
    BY <1>0
  <2>2. Bit(x, i - 1) = Bit(y, i - 1) /\ x % Pow2[i - 1] = y % Pow2[i - 1]
    BY <1>2, <2>1
  <2>3. x % Pow2[i] = y % Pow2[i]
    BY <2>1, <2>2, LowBits
  <2> QED BY <2>3
<1> HIDE DEF J
<1>3. \A i \in 0 .. e : i \in J
  BY <1>0, <1>1, <1>2, Climb
<1>4. e \in J
  BY <1>0, <1>3
<1> QED BY <1>4 DEF J

LEMMA SmallRest == ASSUME NEW n \in Nat \ {0}, NEW x \in 0 .. n - 1 PROVE x % n = x /\ x \div n = 0
OBVIOUS

LEMMA CursorRest ==
    ASSUME NEW x \in Cursor
    PROVE  x % Pow2[CursorBits] = x
<1>1. Pow2[CursorBits] \in Nat \ {0} /\ x \in 0 .. Pow2[CursorBits] - 1
  BY Powers DEF Cursor
<1> QED BY <1>1, SmallRest

\* Reversing twice changes nothing.
LEMMA RevRev ==
    ASSUME NEW v \in Cursor
    PROVE  rev[rev[v]] = v
<1> DEFINE r == rev[v]
           q == rev[r]
<1>1. r \in Cursor /\ r \in Nat /\ v \in Nat /\ q \in Cursor /\ q \in Nat
  BY RevType
<1> HIDE DEF q
<1>2. ASSUME NEW i \in 0 .. CursorBits - 1 PROVE Bit(q, i) = Bit(v, i)
  <2> DEFINE j == CursorBits - 1 - i
  <2>1. j \in 0 .. CursorBits - 1 /\ CursorBits - 1 - j = i
    BY Powers
  <2>2. Bit(q, i) = Bit(r, j)
    BY <1>1, RevBit DEF q
  <2>3. Bit(r, j) = Bit(v, CursorBits - 1 - j)
    <3> HIDE DEF j
    <3> QED BY <2>1, RevBit
  <2> QED BY <2>1, <2>2, <2>3
<1>3. CursorBits \in 0 .. CursorBits
  BY Powers
<1>4. q % Pow2[CursorBits] = v % Pow2[CursorBits]
  BY <1>1, <1>2, <1>3, SameBits
<1> QED BY <1>1, <1>4, CursorRest DEF q, r

\* Only 0 is 0 in reverse.
LEMMA RevZero ==
    ASSUME NEW v \in Cursor
    PROVE  0 \in Cursor /\ rev[0] = 0 /\ (rev[v] = 0 <=> v = 0)
<1>1. 0 \in Cursor /\ Pow2[CursorBits] \in Nat \ {0}
  BY Powers DEF Cursor
<1>2. rev[0] = 0
  <2> DEFINE J == {i \in 0 .. CursorBits : RevBits(0)[i] = 0}
  <2>1. 0 \in J
    BY RevBitsIs, Powers
  <2>2. ASSUME NEW i \in 1 .. CursorBits, i - 1 \in J PROVE i \in J
    <3>1. RevBits(0)[i] = 2 * RevBits(0)[i - 1] + Bit(0, i - 1) /\ RevBits(0)[i - 1] = 0
      BY <2>2, RevBitsStep
    <3> DEFINE p == Pow2[i - 1]
    <3>2. p \in Nat \ {0}
      BY Powers
    <3>3. 0 \div p = 0 /\ 0 % 2 = 0
      <4> HIDE DEF p
      <4> QED BY <3>2
    <3>4. Bit(0, i - 1) = 0
      BY <3>3 DEF Bit
    <3> QED BY <3>1, <3>4
  <2> HIDE DEF J
  <2>3. CursorBits \in J
    <3>1. \A i \in 0 .. CursorBits : i \in J
      BY <2>1, <2>2, Climb, Powers
    <3> QED BY <3>1, Powers
  <2> QED BY <1>1, <2>3, RevType DEF J
<1>3. rev[v] = 0 => v = 0
  BY <1>2, RevRev
<1> QED BY <1>1, <1>2, <1>3

(***************************************************************************)
(* What the cursor does.                                                   *)
(***************************************************************************)
\* The bits that a table of 1 << e buckets does not use are set.
LEMMA MaskedCursor ==
    ASSUME NEW e \in 0 .. CursorBits, NEW low \in 0 .. Pow2[e] - 1, NEW w, w = low + (Pow2[CursorBits] - Pow2[e])
    PROVE  /\ w \in Cursor /\ w % Pow2[e] = low
           /\ \A j \in e .. CursorBits - 1 : Bit(w, j) = 1
<1> DEFINE C == CursorBits  N == Pow2[C]  P == Pow2[e]
<1>1. C \in Nat /\ N \in Nat \ {0} /\ P \in Nat \ {0} /\ P <= N /\ low \in 0 .. P - 1 /\ e \in 0 .. C /\ C \in e .. C
  BY Powers, PowersDivide
<1>2. w \in Nat /\ w = low + (N - P) /\ w \in 0 .. N - 1
  BY <1>1
<1>3. ASSUME NEW j \in e .. C
      PROVE  \E m \in Nat \ {0} : /\ j < C => \E h \in Nat \ {0} : m = 2 * h
                                  /\ w \div Pow2[j] = m - 1
                                  /\ j = e => w % Pow2[j] = low
  <2>1. j \in 0 .. C /\ C - j \in 0 .. C /\ C \in j .. C
    BY <1>1
  <2> DEFINE p == Pow2[j]  m == Pow2[C - j]
  <2>2. N = p * m /\ p \in Nat \ {0} /\ m \in Nat \ {0} /\ P <= p
    <3>1. N = p * m /\ p \in Nat \ {0} /\ m \in Nat \ {0}
      BY <2>1, PowersDivide
    <3>2. P <= p
      BY <2>1, PowersDivide
    <3> QED BY <3>1, <3>2
  <2>3. j < C => m = 2 * Pow2[C - j - 1] /\ Pow2[C - j - 1] \in Nat \ {0}
    <3>1. j < C => C - j \in 1 .. C /\ C - j - 1 \in 0 .. C
      BY <1>1
    <3> QED BY <3>1, Powers
  <2> DEFINE x == low + (p - P)
  <2>4. x \in 0 .. p - 1
    BY <1>1, <2>2
  <2>5. w = p * (m - 1) + x
    <3>1. p * (m - 1) = p * m - p
      BY <2>2
    <3> QED BY <1>1, <1>2, <2>2, <3>1
  <2>6. m - 1 \in Nat
    BY <2>2
  <2>7. w \div p = m - 1 /\ w % p = x
    <3> DEFINE k == m - 1
    <3>1. w \in Nat /\ p \in Nat \ {0} /\ k \in Nat /\ x \in 0 .. p - 1 /\ w = p * k + x
      BY <1>2, <2>2, <2>4, <2>5, <2>6
    <3>2. w \div p = k /\ w % p = x
      <4> HIDE DEF p, k, x
      <4> QED BY ONLY <3>1, DivisionIs
    <3> QED BY <3>2
  <2>8. j = e => x = low
    BY <1>1
  <2> QED BY <2>2, <2>3, <2>7, <2>8
<1>4. w % Pow2[e] = low
  <2>1. e \in e .. C
    BY <1>1
  <2> QED BY <1>3, <2>1
<1>5. ASSUME NEW j \in e .. C - 1 PROVE Bit(w, j) = 1
  <2>1. j \in e .. C /\ j < C
    BY <1>1
  <2>2. PICK m \in Nat \ {0}, h \in Nat \ {0} : m = 2 * h /\ w \div Pow2[j] = m - 1
    BY <1>3, <2>1
  <2>3. (m - 1) % 2 = 1
    BY <2>2
  <2> QED BY <2>2, <2>3 DEF Bit
<1> QED BY <1>2, <1>4, <1>5 DEF Cursor

\* They are the low bits of its reverse.
LEMMA MaskReversed ==
    ASSUME NEW e \in 0 .. CursorBits, NEW w \in Cursor, \A j \in e .. CursorBits - 1 : Bit(w, j) = 1
    PROVE  rev[w] % Pow2[CursorBits - e] = Pow2[CursorBits - e] - 1
<1> DEFINE D == CursorBits - e
           r == rev[w]
           J == {i \in 0 .. D : r % Pow2[i] = Pow2[i] - 1}
<1>0. CursorBits \in Nat /\ D \in 0 .. CursorBits /\ r \in Nat
  BY Powers, RevType
<1>1. 0 \in J
  <2>1. Pow2[0] = 1
    BY Powers
  <2>2. r % 1 = 0
    <3> HIDE DEF r
    <3> QED BY <1>0
  <2> QED BY <1>0, <2>1, <2>2
<1>2. ASSUME NEW i \in 1 .. D, i - 1 \in J PROVE i \in J
  <2>1. i \in 1 .. CursorBits /\ i - 1 \in 0 .. CursorBits - 1 /\ CursorBits - 1 - (i - 1) \in e .. CursorBits - 1
    BY <1>0
  <2>2. Bit(r, i - 1) = 1
    BY <2>1, RevBit
  <2>3. r % Pow2[i] = Pow2[i - 1] * 1 + (r % Pow2[i - 1])
    <3> HIDE DEF r
    <3> QED BY <1>0, <2>1, <2>2, LowBits
  <2>4. r % Pow2[i - 1] = Pow2[i - 1] - 1
    BY <1>2
  <2>5. Pow2[i] = 2 * Pow2[i - 1] /\ Pow2[i - 1] \in Nat
    <3>1. i - 1 \in 0 .. CursorBits
      BY <1>0, <2>1
    <3> QED BY <2>1, <3>1, Powers
  <2>6. r % Pow2[i] = Pow2[i] - 1
    BY <2>3, <2>4, <2>5
  <2> QED BY <2>6
<1> HIDE DEF J
<1>3. \A i \in 0 .. D : i \in J
  BY <1>0, <1>1, <1>2, Climb
<1>4. D \in J
  BY <1>0, <1>3
<1> QED BY <1>4 DEF J

\* The block of positions that a bucket of a table of 1 << e buckets holds.
Block(x, e) == x \div Pow2[CursorBits - e]

\* A block is where its positions are.
LEMMA BlockIs ==
    ASSUME NEW x \in Cursor, NEW e \in 0 .. CursorBits
    PROVE  /\ Block(x, e) \in 0 .. Pow2[e] - 1
           /\ Pow2[CursorBits - e] * Block(x, e) <= x
           /\ x < Pow2[CursorBits - e] * (Block(x, e) + 1)
<1> DEFINE B == Pow2[CursorBits - e]  P == Pow2[e]  N == Pow2[CursorBits]  q == x \div B
<1>1. N = P * B /\ P \in Nat \ {0} /\ B \in Nat \ {0} /\ N \in Nat \ {0}
  <2>1. CursorBits \in e .. CursorBits
    BY Powers
  <2> QED BY <2>1, PowersDivide
<1>2. x \in 0 .. N - 1 /\ x \in Nat
  BY <1>1 DEF Cursor
<1>3. x = B * q + (x % B) /\ q \in Nat /\ x % B \in 0 .. B - 1
  <2> HIDE DEF B, N, P
  <2> QED BY <1>1, <1>2, Division
<1> DEFINE r == x % B
<1>4. x = B * q + r /\ q \in Nat /\ r \in 0 .. B - 1
  BY <1>3
<1> HIDE DEF r, q, B, N, P
<1>5. B * (q + 1) = B * q + B
  BY <1>1, <1>4
<1>6. B * q <= x /\ x < B * (q + 1)
  BY <1>1, <1>4, <1>5
<1>7. q < P
  <2> SUFFICES ASSUME ~(q < P) PROVE FALSE
    OBVIOUS
  <2>1. q = P + (q - P) /\ q - P \in Nat
    BY <1>1, <1>4
  <2>2. B * q = B * P + B * (q - P) /\ B * (q - P) \in Nat /\ B * P = P * B
    BY <1>1, <2>1
  <2>3. N <= x
    BY <1>1, <1>6, <2>2, <1>2
  <2> QED BY <1>1, <1>2, <2>3
<1> QED BY <1>1, <1>4, <1>6, <1>7 DEF Block, q, B, P

\* The next cursor begins the next block.
LEMMA NextCursorIs ==
    ASSUME NEW v \in Cursor, NEW e \in 0 .. CursorBits
    PROVE  /\ NextCursor(v, Pow2[e]) \in Cursor
           /\ Block(rev[v], e) + 1 < Pow2[e] =>
                /\ rev[NextCursor(v, Pow2[e])] = Pow2[CursorBits - e] * (Block(rev[v], e) + 1)
                /\ NextCursor(v, Pow2[e]) # 0
           /\ Block(rev[v], e) + 1 = Pow2[e] => NextCursor(v, Pow2[e]) = 0
<1> DEFINE C == CursorBits  N == Pow2[C]  P == Pow2[e]  B == Pow2[C - e]
           low == v % P
           w == low + (N - P)
           q == Block(rev[v], e)
           x == rev[w] + 1
           y == x % N
           next == NextCursor(v, P)
<1>1. C \in Nat /\ N = P * B /\ P \in Nat \ {0} /\ B \in Nat \ {0} /\ N \in Nat \ {0} /\ C - e \in 0 .. C
  <2>1. CursorBits \in e .. CursorBits /\ C - e \in 0 .. C /\ C \in Nat
    BY Powers
  <2>2. N = P * B /\ P \in Nat \ {0} /\ B \in Nat \ {0} /\ N \in Nat \ {0}
    BY ONLY e \in 0 .. CursorBits, <2>1, PowersDivide
  <2> QED BY ONLY <2>1, <2>2
<1>2. low \in 0 .. P - 1 /\ v \in Nat /\ rev[v] \in Cursor
  BY LowRange, RevType
<1>3. w \in Cursor /\ w % P = low /\ \A j \in e .. C - 1 : Bit(w, j) = 1
  <2> HIDE DEF low
  <2> QED BY <1>2, MaskedCursor
<1>4. rev[w] % B = B - 1 /\ rev[w] \in Nat
  <2> HIDE DEF w
  <2> QED BY <1>3, MaskReversed, RevType
<1>5. rev[w] \div B = q
  <2>1. w % P = v % P
    BY <1>3
  <2> HIDE DEF w
  <2>2. rev[w] \div Pow2[CursorBits - e] = rev[v] \div Pow2[CursorBits - e]
    BY <1>3, <2>1, SameBucket
  <2> QED BY <2>2 DEF Block
<1>6. q \in 0 .. P - 1
  BY <1>2, BlockIs
<1>7. x = B * (q + 1)
  <2> DEFINE rw == rev[w]
  <2>1. rw \in Nat /\ rw % B = B - 1 /\ rw \div B = q
    BY <1>4, <1>5
  <2> HIDE DEF rw, B, q
  <2>2. rw = B * (rw \div B) + (rw % B)
    BY ONLY <1>1, <2>1, Division
  <2>3. B * (q + 1) = B * q + B
    BY <1>1, <1>6
  <2>4. rw + 1 = B * (q + 1)
    BY <1>1, <1>6, <2>1, <2>2, <2>3
  <2> QED BY <2>4 DEF rw
<1>8. next = rev[y]
  BY DEF NextCursor
<1> HIDE DEF x, q, next, w, low
<1>9. CASE q + 1 < P
  <2>1. x \in 0 .. N - 1 /\ x # 0
    <3> HIDE DEF N, P, B
    <3>1. P = (q + 1) + (P - q - 1) /\ P - q - 1 \in Nat \ {0}
      BY <1>1, <1>6, <1>9
    <3>2. B * P = B * (q + 1) + B * (P - q - 1) /\ B * (P - q - 1) \in Nat \ {0} /\ B * (q + 1) \in Nat \ {0} /\ P * B = B * P
      BY <1>1, <1>6, <3>1
    <3> QED BY <1>1, <1>7, <3>2
  <2>2. y = x
    <3> HIDE DEF N
    <3> QED BY ONLY <1>1, <2>1, SmallRest
  <2>3. x \in Cursor
    BY <2>1 DEF Cursor
  <2>4. next \in Cursor /\ rev[next] = x
    BY <1>8, <2>2, <2>3, RevType, RevRev
  <2>5. next # 0
    BY <2>1, <2>4, RevZero
  <2>6. q + 1 # P
    BY <1>1, <1>6, <1>9
  <2>7. next \in Cursor /\ rev[next] = B * (q + 1) /\ next # 0
    BY <1>7, <2>4, <2>5
  <2> QED BY ONLY <1>9, <2>6, <2>7 DEF next, q
<1>10. CASE q + 1 = P
  <2>1. x = N
    BY <1>1, <1>7, <1>10
  <2>2. y = 0
    <3> HIDE DEF N
    <3>1. N % N = 0
      BY <1>1
    <3> QED BY <2>1, <3>1
  <2>3. next = 0 /\ 0 \in Cursor
    <3>1. 0 \in Cursor
      BY <1>1 DEF Cursor
    <3> QED BY <1>8, <2>2, <3>1, RevZero
  <2>4. ~(q + 1 < P)
    BY <1>1, <1>6, <1>10
  <2>5. next \in Cursor
    BY <2>3
  <2> QED BY ONLY <1>10, <2>3, <2>4, <2>5 DEF next, q
<1>11. q + 1 < P \/ q + 1 = P
  BY <1>1, <1>6
<1> QED BY <1>9, <1>10, <1>11

\* A later position is in the same block, or in a later one.
LEMMA LaterBlock ==
    ASSUME NEW x \in Cursor, NEW y \in Cursor, x <= y, NEW e \in 0 .. CursorBits
    PROVE  /\ Block(x, e) <= Block(y, e)
           /\ (Block(x, e) + 1 < Pow2[e] => y < Pow2[CursorBits - e] * (Block(x, e) + 1))
                => Block(y, e) = Block(x, e)
<1> DEFINE p == Block(x, e)  q == Block(y, e)  B == Pow2[CursorBits - e]  P == Pow2[e]
<1>1. p \in 0 .. P - 1 /\ q \in 0 .. P - 1 /\ B * p <= x /\ B * q <= y /\ y < B * (q + 1) /\ P \in Nat
      /\ B \in Nat \ {0} /\ x \in Nat /\ y \in Nat
  <2>1. CursorBits - e \in 0 .. CursorBits
    BY Powers
  <2>2. x \in Nat /\ y \in Nat
    BY Powers DEF Cursor
  <2> QED BY <2>1, <2>2, BlockIs, Powers
<1> HIDE DEF p, q, B, P
<1>2. p <= q
  <2> SUFFICES ASSUME q < p PROVE FALSE
    BY <1>1
  <2>1. p = (q + 1) + (p - q - 1) /\ p - q - 1 \in Nat
    BY <1>1
  <2>2. B * p = B * (q + 1) + B * (p - q - 1) /\ B * (p - q - 1) \in Nat /\ B * (q + 1) \in Nat
    BY <1>1, <2>1
  <2> QED BY <1>1, <2>2
<1>3. ASSUME p + 1 < P => y < B * (p + 1) PROVE q = p
  <2>1. CASE p + 1 < P
    <3> SUFFICES ASSUME p < q PROVE FALSE
      BY <1>1, <1>2
    <3>1. q = (p + 1) + (q - p - 1) /\ q - p - 1 \in Nat
      BY <1>1
    <3>2. B * q = B * (p + 1) + B * (q - p - 1) /\ B * (q - p - 1) \in Nat /\ B * (p + 1) \in Nat
      BY <1>1, <3>1
    <3> QED BY <1>1, <1>3, <2>1, <3>2
  <2>2. CASE ~(p + 1 < P)
    BY <1>1, <1>2, <2>2
  <2> QED BY <2>1, <2>2
<1> QED BY <1>2, <1>3 DEF p, q, B, P

\* A block of the smaller table is some of the larger one.
LEMMA BlocksNest ==
    ASSUME NEW x \in Cursor, NEW a \in 0 .. CursorBits, NEW b \in a .. CursorBits
    PROVE  /\ Block(x, b) \in Nat /\ Block(x, a) \in Nat
           /\ Pow2[b - a] \in Nat \ {0} /\ Pow2[CursorBits - b] \in Nat \ {0}
           /\ Pow2[CursorBits - a] = Pow2[CursorBits - b] * Pow2[b - a]
           /\ Block(x, a) = Block(x, b) \div Pow2[b - a]
           /\ Block(x, b) = Pow2[b - a] * Block(x, a) + (Block(x, b) % Pow2[b - a])
           /\ Block(x, b) % Pow2[b - a] \in 0 .. Pow2[b - a] - 1
<1> DEFINE M == Pow2[b - a]  B == Pow2[CursorBits - b]  D == Pow2[CursorBits - a]  y == Block(x, b)
<1>1. CursorBits - b \in 0 .. CursorBits /\ CursorBits - a \in CursorBits - b .. CursorBits
      /\ (CursorBits - a) - (CursorBits - b) = b - a /\ b \in 0 .. CursorBits
  BY Powers
<1>2. D = B * M /\ B \in Nat \ {0} /\ M \in Nat \ {0} /\ D \in Nat \ {0}
  BY <1>1, PowersDivide
<1>3. y \in Nat /\ Block(x, a) \in Nat /\ x \in Nat
  BY <1>1, BlockIs, RevType
<1>4. Block(x, a) = y \div M
  <2>1. y = Over(x, B) /\ Block(x, a) = Over(x, D)
    BY DEF Block, Over
  <2>2. D = Times(B, M)
    BY <1>2 DEF Times
  <2> HIDE DEF B, D, M, y
  <2>3. Over(x, D) = Over(Over(x, B), M)
    BY <1>2, <1>3, <2>2, DivisionTwice
  <2> QED BY <2>1, <2>3 DEF Over
<1>5. y = M * (y \div M) + (y % M) /\ y % M \in 0 .. M - 1
  <2> HIDE DEF y, M
  <2> QED BY <1>2, <1>3, Division
<1> QED BY <1>2, <1>3, <1>4, <1>5

\* The bits that only the larger mask covers are zero where a block of the
\* smaller table begins.
LEMMA LowerBits ==
    ASSUME NEW c \in Cursor, NEW a \in 0 .. CursorBits, NEW b \in a .. CursorBits
    PROVE  (c % Pow2[b]) \div Pow2[a] = 0 <=> Block(rev[c], b) % Pow2[b - a] = 0
<1> DEFINE S == Pow2[b]  T == Pow2[a]  M == Pow2[b - a]  x == c % T  y == c % S  D == Pow2[CursorBits - a]
<1>1. S = T * M /\ T \in Nat \ {0} /\ M \in Nat \ {0} /\ S \in Nat \ {0} /\ T <= S
      /\ b \in 0 .. CursorBits /\ CursorBits - a \in 0 .. CursorBits /\ CursorBits \in Nat
      /\ CursorBits \in a .. CursorBits
  <2>1. CursorBits - a \in 0 .. CursorBits /\ b \in 0 .. CursorBits /\ CursorBits \in Nat /\ CursorBits \in a .. CursorBits
    BY Powers
  <2> QED BY <2>1, PowersDivide
<1>2. x \in 0 .. T - 1 /\ y \in 0 .. S - 1 /\ c \in Nat /\ x \in Cursor /\ x \in Nat /\ rev[c] \in Cursor /\ rev[x] \in Cursor
      /\ x % S = x /\ x % T = x
  <2>1. x \in 0 .. T - 1 /\ y \in 0 .. S - 1 /\ c \in Nat /\ rev[c] \in Cursor
    BY <1>1, LowRange, RevType
  <2> HIDE DEF x
  <2>2. x \in Cursor
    <3>1. T <= Pow2[CursorBits] /\ Pow2[CursorBits] \in Nat
      BY <1>1, PowersDivide
    <3> QED BY <1>1, <2>1, <3>1 DEF Cursor
  <2>3. x % S = x /\ x % T = x
    <3> HIDE DEF S, T
    <3>1. x \in 0 .. S - 1
      BY <1>1, <2>1
    <3> QED BY <1>1, <2>1, <3>1, SmallRest
  <2> QED BY <2>1, <2>2, <2>3, RevType
<1>3. y \div T = 0 <=> y = x
  <2>1. y % T = x
    <3>1. S = Times(T, M)
      BY <1>1 DEF Times
    <3>2. Rest(Rest(c, S), T) = Rest(c, T)
      <4>1. c \in Nat /\ T \in Nat \ {0} /\ M \in Nat \ {0} /\ S \in Nat \ {0}
        BY <1>1, <1>2
      <4> HIDE DEF S, T, M
      <4> QED BY ONLY <3>1, <4>1, DivisionTwice
    <3> QED BY <3>2 DEF Rest
  <2> DEFINE h == y \div T
  <2>2. y = T * h + x /\ h \in Nat
    <3>1. h = Over(y, T) /\ x = Rest(y, T) /\ y \in Nat
      BY <1>2, <2>1 DEF Over, Rest
    <3> HIDE DEF y, x, T, h
    <3>2. y = T * Over(y, T) + Rest(y, T) /\ Over(y, T) \in Nat
      BY ONLY <1>1, <3>1, Parts
    <3> QED BY <3>1, <3>2
  <2> HIDE DEF y, x, h, T
  <2>3. h = 0 => y = x
    BY <1>1, <1>2, <2>2
  <2>4. h # 0 => y # x
    <3>1. h # 0 => T * h \in Nat \ {0}
      BY <1>1, <2>2
    <3> QED BY <1>2, <2>2, <3>1
  <2> QED BY <2>3, <2>4 DEF h
<1>4. y = x <=> Block(rev[c], b) = Block(rev[x], b)
  <2>1. y = x <=> c % S = x % S
    BY <1>2
  <2> HIDE DEF x
  <2> QED BY <1>1, <1>2, <2>1, SameBucket DEF Block
<1>5. Block(rev[c], a) = Block(rev[x], a)
  <2>1. c % T = x % T
    BY <1>2
  <2> HIDE DEF x
  <2> QED BY <1>2, <2>1, SameBucket DEF Block
<1>6. rev[x] % D = 0
  <2>1. ASSUME NEW i \in 0 .. CursorBits - 1, i < CursorBits - a PROVE Bit(rev[x], i) = 0
    <3> DEFINE j == CursorBits - 1 - i
    <3>1. j \in a .. CursorBits
      BY <1>1, <2>1
    <3>2. T <= Pow2[j] /\ Pow2[j] \in Nat \ {0}
      BY <3>1, PowersDivide
    <3>3. x \div Pow2[j] = 0
      <4> DEFINE p == Pow2[j]
      <4>1. p \in Nat \ {0} /\ x \in 0 .. p - 1
        BY <1>1, <1>2, <3>2
      <4>2. x \div p = 0
        <5> HIDE DEF p, x
        <5> QED BY <4>1, SmallRest
      <4> QED BY <4>2
    <3>4. Bit(x, j) = 0
      BY <3>3 DEF Bit
    <3> HIDE DEF x
    <3> QED BY <1>2, <3>4, RevBit
  <2>2. ASSUME NEW i \in 0 .. CursorBits PROVE Bit(0, i) = 0
    <3> DEFINE p == Pow2[i]
    <3>1. p \in Nat \ {0}
      BY Powers
    <3>2. 0 \div p = 0
      <4> HIDE DEF p
      <4> QED BY <3>1
    <3> QED BY <3>2 DEF Bit
  <2> DEFINE z == rev[x]
  <2>3. z \in Nat /\ 0 \in Nat /\ \A i \in 0 .. CursorBits - 1 : i < CursorBits - a => Bit(z, i) = Bit(0, i)
    <3>1. z \in Nat
      BY <1>2, RevType
    <3>2. \A i \in 0 .. CursorBits - 1 : i \in 0 .. CursorBits
      BY <1>1
    <3> HIDE DEF z
    <3> QED BY <2>1, <2>2, <3>1, <3>2 DEF z
  <2> HIDE DEF z
  <2>4. z % D = 0 % D
    BY <1>1, <2>3, SameBits
  <2>5. 0 % D = 0
    <3>1. D \in Nat \ {0}
      BY <1>1, Powers
    <3> HIDE DEF D
    <3> QED BY <3>1
  <2> QED BY <2>4, <2>5 DEF z
<1>7. Block(rev[x], b) = M * Block(rev[x], a)
  <2> DEFINE z == rev[x]  B == Pow2[CursorBits - b]  q == Block(z, a)
  <2>1. D = B * M /\ B \in Nat \ {0} /\ M \in Nat \ {0} /\ q \in Nat /\ z \in Nat /\ D \in Nat \ {0}
    BY <1>1, <1>2, BlocksNest, RevType, Powers
  <2>2. z = D * q + (z % D)
    <3>1. q = Over(z, D) /\ z % D = Rest(z, D)
      BY DEF Block, Over, Rest
    <3> HIDE DEF z, D, q
    <3>2. z = D * Over(z, D) + Rest(z, D)
      BY ONLY <2>1, Parts
    <3> QED BY <3>1, <3>2
  <2>3. z = B * (M * q) + 0 /\ 0 \in 0 .. B - 1 /\ M * q \in Nat
    <3> HIDE DEF z, D, q, B, M
    <3>1. z % D = 0
      BY <1>6 DEF z
    <3> QED BY <2>1, <2>2, <3>1
  <2> DEFINE w == M * q
  <2>4. z \div B = w
    <3>1. z = B * w + 0 /\ 0 \in 0 .. B - 1 /\ w \in Nat
      BY <2>3
    <3> HIDE DEF z, B, w
    <3>2. z \in Nat
      BY <2>1, <3>1
    <3> QED BY ONLY <2>1, <3>1, <3>2, DivisionIs
  <2> QED BY <2>4 DEF Block
<1> DEFINE u == Block(rev[c], b)  q == Block(rev[c], a)
<1>8. u = M * q + (u % M) /\ u \in Nat /\ q \in Nat /\ u % M \in 0 .. M - 1
  <2>1. rev[c] \in Cursor
    BY <1>2
  <2> QED BY ONLY <2>1, BlocksNest, a \in 0 .. CursorBits, b \in a .. CursorBits
<1>9. u = M * q <=> u % M = 0
  <2> DEFINE o == u % M  w == M * q
  <2>1. u = w + o /\ w \in Nat /\ o \in Nat
    <3>1. w \in Nat
      BY <1>1, <1>8
    <3> QED BY <1>8, <3>1
  <2> HIDE DEF u, o, w
  <2>2. u = w <=> o = 0
    BY <2>1
  <2> QED BY <2>2 DEF o, w
<1>10. y \div T = 0 <=> u = M * q
  BY <1>3, <1>4, <1>5, <1>7
<1> QED BY <1>9, <1>10

\* Min is the least element.
LEMMA LeastIs ==
    ASSUME NEW S \in SUBSET Int, NEW m \in S, \A x \in S : m <= x
    PROVE  Min(S) = m
<1>1. m <= m /\ \A x \in S : x \in Int
  OBVIOUS
<1>2. \A x \in S : (\A y \in S : x <= y) => x = m
  BY <1>1
<1>3. Min(S) = CHOOSE x \in S : \A y \in S : x <= y
  BY DEF Min
<1> QED BY <1>2, <1>3

\* The cursors that a walk through the larger table goes through.
LEMMA CursorsAre ==
    ASSUME NEW v \in Cursor, NEW e \in 0 .. CursorBits
    PROVE  /\ Cursors(v, Pow2[e]) \in [0 .. Pow2[e] -> Cursor]
           /\ Cursors(v, Pow2[e])[0] = v
           /\ \A n \in 1 .. Pow2[e] : Cursors(v, Pow2[e])[n] = NextCursor(Cursors(v, Pow2[e])[n - 1], Pow2[e])
<1> DEFINE N == Pow2[e]
           after(x) == NextCursor(x, N)
           step == [i \in 1 .. N |-> [x \in Cursor |-> after(x)]]
           c == Cursors(v, N)
           Goes(g) == g = [n \in 0 .. N |-> IF n = 0 THEN v ELSE after(g[n - 1])]
<1>1. N \in Nat /\ \A x \in Cursor : after(x) \in Cursor
  BY Powers, NextCursorIs
<1>2. c = CHOOSE g : Goes(g)
  BY DEF Cursors
<1> HIDE DEF N, after, c
<1>3. PICK f : Walks(f, N, Cursor, v, step)
  <2>1. step \in [1 .. N -> [Cursor -> Cursor]]
    BY <1>1
  <2> HIDE DEF step
  <2> QED BY <1>1, <2>1, WalkExists
<1>4. f \in [0 .. N -> Cursor] /\ f[0] = v /\ \A i \in 1 .. N : f[i] = after(f[i - 1])
  <2>1. f \in [0 .. N -> Cursor] /\ f[0] = v /\ \A i \in 1 .. N : f[i] = step[i][f[i - 1]]
    BY <1>3 DEF Walks
  <2>2. ASSUME NEW i \in 1 .. N PROVE step[i][f[i - 1]] = after(f[i - 1])
    <3>1. f[i - 1] \in Cursor
      BY <1>1, <2>1
    <3> QED BY <3>1
  <2> HIDE DEF step
  <2> QED BY <2>1, <2>2
<1>5. Goes(f)
  <2>1. \A i \in 0 .. N : f[i] = IF i = 0 THEN v ELSE after(f[i - 1])
    BY <1>1, <1>4
  <2> QED BY <1>4, <2>1
<1> HIDE DEF Goes
<1>6. Goes(c)
  BY <1>2, <1>5
<1>7. DOMAIN c = 0 .. N /\ c[0] = v /\ (\A i \in 1 .. N : c[i] = after(c[i - 1])) /\ c = [i \in 0 .. N |-> c[i]]
  <2> DEFINE rhs == [i \in 0 .. N |-> IF i = 0 THEN v ELSE after(c[i - 1])]
  <2>1. DOMAIN rhs = 0 .. N /\ rhs[0] = v /\ \A i \in 1 .. N : rhs[i] = after(c[i - 1])
    BY <1>1
  <2>2. c = rhs /\ rhs = [i \in 0 .. N |-> rhs[i]]
    BY <1>6 DEF Goes
  <2> HIDE DEF rhs
  <2> QED BY <2>1, <2>2
<1> DEFINE J == {i \in 0 .. N : c[i] \in Cursor}
<1>8. \A i \in 0 .. N : i \in J
  <2>1. 0 \in J
    BY <1>1, <1>7
  <2>2. ASSUME NEW i \in 1 .. N, i - 1 \in J PROVE i \in J
    <3>1. c[i - 1] \in Cursor /\ i \in 0 .. N
      BY <1>1, <2>2
    <3> QED BY <1>1, <1>7, <3>1
  <2> HIDE DEF J
  <2> QED BY <1>1, <2>1, <2>2, Climb
<1>9. c \in [0 .. N -> Cursor]
  BY <1>7, <1>8
<1> QED BY <1>7, <1>9 DEF N, after, c

\* Where a block begins is in it.
LEMMA BlockStart ==
    ASSUME NEW e \in 0 .. CursorBits, NEW q \in Nat
    PROVE  Block(Pow2[CursorBits - e] * q, e) = q
<1> DEFINE B == Pow2[CursorBits - e]  x == B * q
<1>1. B \in Nat \ {0}
  <2>1. CursorBits - e \in 0 .. CursorBits
    BY Powers
  <2> QED BY <2>1, Powers
<1>2. x \div B = q
  <2>1. x = B * q + 0 /\ 0 \in 0 .. B - 1 /\ x \in Nat
    BY <1>1
  <2> HIDE DEF x, B
  <2> QED BY <1>1, <2>1, DivisionIs
<1> QED BY <1>2 DEF Block

\* How many cursors of the larger table are left in the block of the smaller one.
Left(v, a, b) == Pow2[b - a] - (Block(rev[v], b) % Pow2[b - a])

LEMMA LeftIs ==
    ASSUME NEW v \in Cursor, NEW a \in 0 .. CursorBits, NEW b \in a .. CursorBits
    PROVE  /\ Left(v, a, b) \in 1 .. Pow2[b]
           /\ Block(rev[v], b) + Left(v, a, b) = Pow2[b - a] * (Block(rev[v], a) + 1)
           /\ Block(rev[v], a) + 1 < Pow2[a] => Block(rev[v], b) + Left(v, a, b) < Pow2[b]
           /\ Block(rev[v], a) + 1 = Pow2[a] => Block(rev[v], b) + Left(v, a, b) = Pow2[b]
           /\ Block(rev[v], a) + 1 <= Pow2[a]
           /\ Block(rev[v], b) \in Nat /\ Block(rev[v], a) \in Nat
<1> DEFINE M == Pow2[b - a]  p == Block(rev[v], b)  q == Block(rev[v], a)  o == p % M  S == Pow2[b]  T == Pow2[a]
<1>1. rev[v] \in Cursor
  BY RevType
<1>2. p \in Nat /\ M \in Nat \ {0} /\ p = M * q + o /\ o \in 0 .. M - 1
  BY <1>1, BlocksNest
<1>3. S = T * M /\ T \in Nat \ {0} /\ S \in Nat \ {0} /\ M <= S
  <2>1. S = T * M /\ T \in Nat \ {0} /\ S \in Nat \ {0}
    BY PowersDivide
  <2>2. b - a \in 0 .. CursorBits /\ b \in b - a .. CursorBits
    BY Powers
  <2>3. M <= S
    BY <2>2, PowersDivide
  <2> QED BY <2>1, <2>3
<1>4. q \in 0 .. T - 1
  BY <1>1, BlockIs
<1>5. Left(v, a, b) = M - o
  BY DEF Left
<1> HIDE DEF M, p, q, o, S, T
<1> DEFINE l == M - o
<1>6. l \in 1 .. S
  BY <1>2, <1>3
<1>7. p + l = M * (q + 1)
  <2> DEFINE w == M * q
  <2>1. M * (q + 1) = w + M /\ w \in Nat
    BY <1>2, <1>4
  <2>2. p = w + o /\ o \in Int /\ M \in Int
    BY <1>2
  <2> HIDE DEF w
  <2> QED BY <2>1, <2>2
<1>8. q + 1 < T => M * (q + 1) < S
  <2> SUFFICES ASSUME q + 1 < T PROVE M * (q + 1) < S
    OBVIOUS
  <2>1. T = (q + 1) + (T - q - 1) /\ T - q - 1 \in Nat \ {0}
    BY <1>3, <1>4
  <2>2. M * T = M * (q + 1) + M * (T - q - 1) /\ M * (T - q - 1) \in Nat \ {0} /\ M * (q + 1) \in Nat /\ M * T = T * M
    BY <1>2, <1>3, <1>4, <2>1
  <2> QED BY <1>3, <2>2
<1>9. q + 1 = T => M * (q + 1) = S
  BY <1>2, <1>3
<1> QED BY <1>2, <1>3, <1>4, <1>5, <1>6, <1>7, <1>8, <1>9 DEF M, p, q, o, S, T

\* The walk stays in its block of the smaller table until it has left it.
LEMMA WalkIs ==
    ASSUME NEW v \in Cursor, NEW a \in 0 .. CursorBits, NEW b \in a .. CursorBits
    PROVE  LET c == Cursors(v, Pow2[b])
               l == Left(v, a, b)
               q == Block(rev[v], a)
           IN /\ \A n \in 0 .. l - 1 : c[n] \in Cursor /\ Block(rev[c[n]], b) = Block(rev[v], b) + n
              /\ c[l] \in Cursor
              /\ q + 1 < Pow2[a] => rev[c[l]] = Pow2[CursorBits - a] * (q + 1) /\ c[l] # 0
              /\ q + 1 = Pow2[a] => c[l] = 0
              /\ Min({n \in 1 .. Pow2[b] : (c[n] % Pow2[b]) \div Pow2[a] = 0}) = l
<1> DEFINE S == Pow2[b]  T == Pow2[a]  c == Cursors(v, S)  l == Left(v, a, b)
           p == Block(rev[v], b)  q == Block(rev[v], a)
           M == Pow2[b - a]  B == Pow2[CursorBits - b]  D == Pow2[CursorBits - a]
           J == {n \in 0 .. l - 1 : Block(rev[c[n]], b) = p + n}
<1>1. /\ l \in 1 .. S /\ p + l = M * (q + 1) /\ (q + 1 < T => p + l < S) /\ (q + 1 = T => p + l = S)
      /\ q + 1 <= T /\ p \in Nat /\ q \in Nat
  BY LeftIs
<1>2. S \in Nat \ {0} /\ T \in Nat \ {0} /\ b \in 0 .. CursorBits /\ CursorBits \in Nat
  BY Powers
<1>3. c \in [0 .. S -> Cursor] /\ c[0] = v /\ \A n \in 1 .. S : c[n] = NextCursor(c[n - 1], S)
  BY <1>2, CursorsAre
<1>4. D = B * M /\ B \in Nat \ {0} /\ M \in Nat \ {0} /\ rev[v] \in Cursor
  BY BlocksNest, RevType
<1>5. p + l <= S
  BY <1>1, <1>2
<1> HIDE DEF S, T, c, l, p, q, M, B, D
\* From one cursor to the next.
<1>6. ASSUME NEW n \in 1 .. l, Block(rev[c[n - 1]], b) = p + (n - 1)
      PROVE  /\ c[n] \in Cursor
             /\ p + n < S => rev[c[n]] = B * (p + n) /\ c[n] # 0 /\ Block(rev[c[n]], b) = p + n
             /\ p + n = S => c[n] = 0
  <2> DEFINE x == c[n - 1]
  <2>1. x \in Cursor /\ n \in 1 .. S /\ c[n] = NextCursor(x, S) /\ Block(rev[x], b) + 1 = p + n /\ p + n \in Nat
    <3>1. n \in 1 .. S /\ n - 1 \in 0 .. S
      BY <1>1, <1>2
    <3> QED BY <1>1, <1>3, <1>6, <3>1
  <2> HIDE DEF x
  <2>2. /\ NextCursor(x, S) \in Cursor
        /\ Block(rev[x], b) + 1 < S => rev[NextCursor(x, S)] = B * (Block(rev[x], b) + 1) /\ NextCursor(x, S) # 0
        /\ Block(rev[x], b) + 1 = S => NextCursor(x, S) = 0
    BY <1>2, <2>1, NextCursorIs DEF S, B
  <2>3. Block(B * (p + n), b) = p + n
    BY <1>2, <2>1, BlockStart DEF B
  <2> QED BY <2>1, <2>2, <2>3
<1>7. \A n \in 0 .. l - 1 : n \in J
  <2>1. 0 \in J
    BY <1>1, <1>3 DEF p
  <2>2. ASSUME NEW n \in 1 .. l - 1, n - 1 \in J PROVE n \in J
    <3>1. n \in 1 .. l /\ Block(rev[c[n - 1]], b) = p + (n - 1) /\ p + n < S
      BY <1>1, <1>2, <1>5, <2>2
    <3> QED BY <1>6, <3>1
  <2>3. l - 1 \in Nat
    BY <1>1
  <2> HIDE DEF J
  <2> QED BY <2>1, <2>2, <2>3, Climb
<1>8. ASSUME NEW n \in 0 .. l - 1 PROVE c[n] \in Cursor /\ Block(rev[c[n]], b) = p + n
  <2>1. n \in 0 .. S
    BY <1>1, <1>2
  <2> QED BY <1>3, <1>7, <2>1
<1>9. /\ c[l] \in Cursor
      /\ p + l < S => rev[c[l]] = B * (p + l) /\ c[l] # 0 /\ Block(rev[c[l]], b) = p + l
      /\ p + l = S => c[l] = 0
  <2>1. l \in 1 .. l /\ l - 1 \in 0 .. l - 1
    BY <1>1
  <2>2. Block(rev[c[l - 1]], b) = p + (l - 1)
    BY <1>8, <2>1
  <2> QED BY <1>6, <2>1, <2>2
<1>10. q + 1 < T => rev[c[l]] = D * (q + 1) /\ c[l] # 0
  <2>1. B * (M * (q + 1)) = D * (q + 1)
    BY <1>1, <1>4
  <2> QED BY <1>1, <1>9, <2>1
<1>11. q + 1 = T => c[l] = 0
  BY <1>1, <1>9
\* Where the block of the smaller table ends.
<1> DEFINE G == {n \in 1 .. S : (c[n] % S) \div T = 0}
           o == p % M
<1>12. p = M * q + o /\ o \in 0 .. M - 1 /\ l = M - o
  <2>1. p = M * q + o /\ o \in 0 .. M - 1
    BY <1>4, BlocksNest DEF p, M, q
  <2>2. l = M - o
    BY DEF l, Left, M, p
  <2> QED BY <2>1, <2>2
<1> HIDE DEF o
<1>13. ASSUME NEW n \in 1 .. l - 1 PROVE n \notin G
  <2>1. n \in 0 .. l - 1 /\ o + n \in 1 .. M - 1 /\ o + n \in Nat
    BY <1>1, <1>4, <1>12
  <2>2. c[n] \in Cursor /\ Block(rev[c[n]], b) = p + n
    BY <1>8, <2>1
  <2>3. (p + n) % M = o + n
    <3> DEFINE x == p + n  y == o + n
    <3>1. x = M * q + y /\ x \in Nat /\ y \in 0 .. M - 1
      <4> DEFINE w == M * q
      <4>1. p = w + o /\ w \in Nat /\ o \in Nat
        BY <1>1, <1>4, <1>12
      <4> HIDE DEF w
      <4> QED BY <2>1, <4>1 DEF w
    <3> HIDE DEF x, y
    <3>2. x % M = y
      BY ONLY <1>1, <1>4, <3>1, DivisionIs
    <3> QED BY <3>2 DEF x, y
  <2>4. Block(rev[c[n]], b) % M # 0
    BY <2>1, <2>2, <2>3
  <2> DEFINE x == c[n]
  <2>5. x \in Cursor /\ Block(rev[x], b) % M # 0
    BY <2>2, <2>4
  <2> HIDE DEF x
  <2>6. (x % S) \div T # 0
    BY <2>5, LowerBits DEF S, T, M
  <2> QED BY <2>6 DEF x
<1>14. l \in G
  <2> DEFINE x == c[l]
  <2>1. CASE p + l = S
    <3>1. x = 0
      BY <1>9, <2>1
    <3>2. 0 % S = 0 /\ 0 \div T = 0
      BY <1>2
    <3> QED BY <1>1, <3>1, <3>2
  <2>2. CASE p + l < S
    <3>1. x \in Cursor /\ Block(rev[x], b) = M * (q + 1)
      BY <1>1, <1>9, <2>2
    <3>2. (M * (q + 1)) % M = 0
      <4> DEFINE z == M * (q + 1)  t == q + 1
      <4>1. z = M * t + 0 /\ z \in Nat /\ t \in Nat /\ 0 \in 0 .. M - 1
        BY <1>1, <1>4
      <4> HIDE DEF z, t
      <4>2. z % M = 0
        BY ONLY <1>4, <4>1, DivisionIs
      <4> QED BY <4>2 DEF z
    <3> HIDE DEF x
    <3>3. Block(rev[x], b) % M = 0
      BY <3>1, <3>2
    <3>4. (x % S) \div T = 0
      BY <3>1, <3>3, LowerBits DEF S, T, M
    <3> QED BY <1>1, <3>4 DEF x
  <2> QED BY <1>1, <1>2, <1>5, <2>1, <2>2
<1>15. Min(G) = l
  <2>1. G \in SUBSET Int /\ \A n \in G : n \in 1 .. S
    BY <1>2
  <2> HIDE DEF G
  <2>2. \A n \in G : l <= n
    <3> SUFFICES ASSUME NEW n \in G, ~(l <= n) PROVE FALSE
      OBVIOUS
    <3>1. n \in 1 .. l - 1
      BY <1>1, <1>2, <2>1
    <3> QED BY <1>13, <3>1
  <2> QED BY <1>14, <2>1, <2>2, LeastIs
<1>16. Min({n \in 1 .. S : (c[n] % S) \div T = 0}) = l
  BY <1>15
<1> HIDE DEF G
<1> QED BY <1>8, <1>9, <1>10, <1>11, <1>16 DEF S, T, c, l, p, q, D

(***************************************************************************)
(* Tables.                                                                 *)
(***************************************************************************)
Sizes == {0} \cup {Pow2[e] : e \in 0 .. CursorBits}
AllTables == UNION {[0 .. n - 1 -> SUBSET DictKeys] : n \in Sizes}
Width(f) == Cardinality(DOMAIN f)
KeysOf(f) == UNION {f[i] : i \in DOMAIN f}
BucketOf(f, k) == Hash[k] % Width(f)

\* Every key of a table is in the bucket of its hash.
Placed(f) == \A i \in DOMAIN f : \A k \in f[i] : Hash[k] % Width(f) = i

LEMMA SizesAre ==
  /\ Sizes \subseteq Nat /\ 0 \in Sizes
  /\ \A n \in Sizes : n # 0 => \E e \in 0 .. CursorBits : n = Pow2[e]
BY Powers DEF Sizes

\* What a table is.
LEMMA TableIs ==
    ASSUME NEW f \in AllTables
    PROVE  /\ Width(f) \in Sizes /\ Width(f) \in Nat
           /\ f \in [0 .. Width(f) - 1 -> SUBSET DictKeys]
           /\ KeysOf(f) \subseteq DictKeys /\ IsFiniteSet(KeysOf(f))
           /\ Cardinality(KeysOf(f)) \in Nat /\ Cardinality(KeysOf(f)) <= Cardinality(DictKeys)
           /\ Cardinality(DictKeys) \in Nat
<1>1. PICK n \in Sizes : f \in [0 .. n - 1 -> SUBSET DictKeys]
  BY DEF AllTables
<1>2. n \in Nat /\ DOMAIN f = 0 .. n - 1
  BY <1>1, SizesAre
<1>3. Width(f) = n
  <2>1. 0 \in Int /\ n - 1 \in Int
    BY <1>2
  <2>2. Cardinality(0 .. n - 1) = IF 0 > n - 1 THEN 0 ELSE (n - 1) - 0 + 1
    BY <2>1, FS_Interval
  <2>3. Cardinality(0 .. n - 1) = n
    BY <1>2, <2>2
  <2> QED BY <1>2, <2>3 DEF Width
<1>4. KeysOf(f) \subseteq DictKeys
  BY <1>1 DEF KeysOf
<1>5. IsFiniteSet(DictKeys)
  BY DictKeysFit
<1>6. IsFiniteSet(KeysOf(f)) /\ Cardinality(KeysOf(f)) <= Cardinality(DictKeys)
  BY <1>4, <1>5, FS_Subset
<1> QED BY <1>1, <1>2, <1>3, <1>4, <1>5, <1>6, FS_CardinalityType

LEMMA HashIs == ASSUME NEW k \in DictKeys PROVE Hash[k] \in Nat
BY DictConstants

\* The bucket of a key.
LEMMA BucketIs ==
    ASSUME NEW f \in AllTables, NEW k \in DictKeys
    PROVE  /\ Width(f) # 0 => BucketOf(f, k) \in 0 .. Width(f) - 1 /\ BucketOf(f, k) \in DOMAIN f
           /\ Placed(f) => /\ k \in KeysOf(f) <=> Width(f) # 0 /\ k \in f[BucketOf(f, k)]
                           /\ \A i \in DOMAIN f : k \in f[i] <=> k \in KeysOf(f) /\ i = BucketOf(f, k)
<1> DEFINE n == Width(f)  h == Hash[k]
<1>1. n \in Nat /\ f \in [0 .. n - 1 -> SUBSET DictKeys] /\ h \in Nat
  BY TableIs, HashIs
<1> HIDE DEF n, h
<1>2. n # 0 => h % n \in 0 .. n - 1
  BY <1>1
<1>3. DOMAIN f = 0 .. n - 1
  BY <1>1
<1>4. n # 0 => BucketOf(f, k) \in 0 .. n - 1
  BY <1>2 DEF BucketOf, n, h
<1>5. ASSUME Placed(f), NEW i \in DOMAIN f, k \in f[i] PROVE i = BucketOf(f, k) /\ n # 0
  <2>1. i = BucketOf(f, k)
    BY <1>5 DEF Placed, BucketOf
  <2>2. n # 0
    BY <1>1, <1>3
  <2> QED BY <2>1, <2>2
<1>6. ASSUME Placed(f) PROVE k \in KeysOf(f) <=> n # 0 /\ k \in f[BucketOf(f, k)]
  <2>1. ASSUME k \in KeysOf(f) PROVE n # 0 /\ k \in f[BucketOf(f, k)]
    <3>1. PICK i \in DOMAIN f : k \in f[i]
      BY <2>1 DEF KeysOf
    <3> QED BY <1>5, <1>6, <3>1
  <2>2. ASSUME n # 0, k \in f[BucketOf(f, k)] PROVE k \in KeysOf(f)
    BY <1>3, <1>4, <2>2 DEF KeysOf
  <2> QED BY <2>1, <2>2
<1>7. ASSUME Placed(f), NEW i \in DOMAIN f PROVE k \in f[i] <=> k \in KeysOf(f) /\ i = BucketOf(f, k)
  BY <1>5, <1>6, <1>7 DEF KeysOf
<1> QED BY <1>3, <1>4, <1>6, <1>7 DEF n

\* The tables without a key.
LEMMA EmptyTables ==
  /\ Unallocated \in AllTables /\ Width(Unallocated) = 0 /\ KeysOf(Unallocated) = {} /\ Placed(Unallocated)
  /\ \A e \in 0 .. CursorBits :
       /\ NewTable(Pow2[e]) \in AllTables /\ Width(NewTable(Pow2[e])) = Pow2[e]
       /\ KeysOf(NewTable(Pow2[e])) = {} /\ Placed(NewTable(Pow2[e]))
       /\ \A i \in 0 .. Pow2[e] - 1 : NewTable(Pow2[e])[i] = {}
<1>1. Unallocated \in [0 .. 0 - 1 -> SUBSET DictKeys] /\ DOMAIN Unallocated = {}
  BY DEF Unallocated
<1>2. Unallocated \in AllTables
  BY <1>1, SizesAre DEF AllTables
<1>3. Width(Unallocated) = 0 /\ KeysOf(Unallocated) = {} /\ Placed(Unallocated)
  BY <1>1, FS_EmptySet DEF Width, KeysOf, Placed
<1>4. ASSUME NEW e \in 0 .. CursorBits
      PROVE  /\ NewTable(Pow2[e]) \in AllTables /\ Width(NewTable(Pow2[e])) = Pow2[e]
             /\ KeysOf(NewTable(Pow2[e])) = {} /\ Placed(NewTable(Pow2[e]))
             /\ \A i \in 0 .. Pow2[e] - 1 : NewTable(Pow2[e])[i] = {}
  <2> DEFINE n == Pow2[e]  f == NewTable(n)
  <2>1. n \in Sizes /\ n \in Nat \ {0}
    BY Powers DEF Sizes
  <2> HIDE DEF n
  <2>2. f \in [0 .. n - 1 -> SUBSET DictKeys] /\ DOMAIN f = 0 .. n - 1 /\ \A i \in 0 .. n - 1 : f[i] = {}
    BY DEF NewTable
  <2> HIDE DEF f
  <2>3. f \in AllTables
    BY <2>1, <2>2 DEF AllTables
  <2>4. Width(f) = n
    <3>1. DOMAIN f = 0 .. Width(f) - 1 /\ Width(f) \in Nat
      BY <2>3, TableIs
    <3>2. 0 .. Width(f) - 1 = 0 .. n - 1
      BY <2>2, <3>1
    <3> DEFINE w == Width(f)
    <3> HIDE DEF w
    <3>3. w \in Nat /\ 0 .. w - 1 = 0 .. n - 1
      BY <3>1, <3>2 DEF w
    <3>4. \A i \in Int : i \in 0 .. w - 1 <=> i \in 0 .. n - 1
      BY <3>3
    <3>5. n - 1 \in 0 .. w - 1 /\ w \notin 0 .. n - 1
      BY <2>1, <3>3, <3>4
    <3>6. w = n
      BY <2>1, <3>3, <3>5
    <3> QED BY <3>6 DEF w
  <2>5. KeysOf(f) = {} /\ Placed(f)
    BY <2>2 DEF KeysOf, Placed
  <2> QED BY <2>2, <2>3, <2>4, <2>5 DEF n, f
<1> QED BY <1>2, <1>3, <1>4

\* A table whose buckets are others.
LEMMA TableLike ==
    ASSUME NEW f \in AllTables, NEW g, DOMAIN g = DOMAIN f, g = [i \in DOMAIN f |-> g[i]],
           \A i \in DOMAIN f : g[i] \subseteq DictKeys
    PROVE  g \in AllTables /\ Width(g) = Width(f)
<1>1. PICK n \in Sizes : f \in [0 .. n - 1 -> SUBSET DictKeys]
  BY DEF AllTables
<1>2. g \in [0 .. n - 1 -> SUBSET DictKeys]
  BY <1>1
<1> QED BY <1>2 DEF AllTables, Width

\* A key is put in its bucket.
LEMMA TableAdd ==
    ASSUME NEW f \in AllTables, Placed(f), NEW k \in DictKeys, Width(f) # 0
    PROVE  LET g == [f EXCEPT ![BucketOf(f, k)] = @ \cup {k}]
           IN g \in AllTables /\ Placed(g) /\ Width(g) = Width(f) /\ KeysOf(g) = KeysOf(f) \cup {k}
<1> DEFINE b == BucketOf(f, k)
           g == [f EXCEPT ![b] = @ \cup {k}]
<1>1. b \in DOMAIN f
  BY BucketIs
<1>2. b = Hash[k] % Width(f)
  BY DEF BucketOf
<1> HIDE DEF b
<1>3. DOMAIN g = DOMAIN f /\ g = [i \in DOMAIN f |-> g[i]]
      /\ \A i \in DOMAIN f : g[i] = IF i = b THEN f[b] \cup {k} ELSE f[i]
  BY <1>1
<1>4. \A i \in DOMAIN f : f[i] \subseteq DictKeys
  BY TableIs
<1> HIDE DEF g
<1>5. g \in AllTables /\ Width(g) = Width(f)
  BY <1>3, <1>4, TableLike
<1>6. Placed(g)
  BY <1>2, <1>3, <1>5 DEF Placed
<1>7. KeysOf(g) = KeysOf(f) \cup {k}
  BY <1>1, <1>3 DEF KeysOf
<1> QED BY <1>5, <1>6, <1>7 DEF g, b

\* A key is taken out of its bucket.
LEMMA TableDrop ==
    ASSUME NEW f \in AllTables, Placed(f), NEW k \in DictKeys, Width(f) # 0
    PROVE  LET g == [f EXCEPT ![BucketOf(f, k)] = @ \ {k}]
           IN /\ g \in AllTables /\ Placed(g) /\ Width(g) = Width(f) /\ KeysOf(g) = KeysOf(f) \ {k}
              /\ \A i \in DOMAIN f : g[i] = f[i] \ {k}
<1> DEFINE b == BucketOf(f, k)
           g == [f EXCEPT ![b] = @ \ {k}]
<1>1. b \in DOMAIN f
  BY BucketIs
<1>2. \A i \in DOMAIN f : k \in f[i] => i = b
  BY BucketIs
<1> HIDE DEF b
<1>3. DOMAIN g = DOMAIN f /\ g = [i \in DOMAIN f |-> g[i]]
      /\ \A i \in DOMAIN f : g[i] = IF i = b THEN f[b] \ {k} ELSE f[i]
  BY <1>1
<1>4. \A i \in DOMAIN f : f[i] \subseteq DictKeys
  BY TableIs
<1> HIDE DEF g
<1>5. g \in AllTables /\ Width(g) = Width(f)
  BY <1>3, <1>4, TableLike
<1>6. \A i \in DOMAIN f : g[i] = f[i] \ {k}
  BY <1>2, <1>3
<1>7. Placed(g)
  BY <1>3, <1>5, <1>6 DEF Placed
<1>8. KeysOf(g) = KeysOf(f) \ {k}
  BY <1>3, <1>6 DEF KeysOf
<1> QED BY <1>5, <1>6, <1>7, <1>8 DEF g, b

(***************************************************************************)
(* A dictionary is sound.                                                  *)
(***************************************************************************)
DictRecords == [table : [{0, 1} -> AllTables], used : [{0, 1} -> Nat], rehashidx : Int]

\* The two tables f and g, their counters, and how far a rehash is.
TwoTables(f, g, m, n, at) ==
  /\ f \in AllTables /\ g \in AllTables /\ Placed(f) /\ Placed(g)
  /\ KeysOf(f) \cap KeysOf(g) = {}
  /\ m = Cardinality(KeysOf(f)) /\ n = Cardinality(KeysOf(g))
  /\ at \in Int /\ -1 <= at /\ at <= Width(f)
  /\ (at # -1 <=> Width(g) # 0) /\ (at # -1 => Width(f) # 0)
  /\ \A i \in DOMAIN f : i < at => f[i] = {}

DictSound(dd) ==
  /\ dd \in DictRecords
  /\ TwoTables(dd.table[0], dd.table[1], dd.used[0], dd.used[1], dd.rehashidx)

\* What is stored in a dictionary, by its tables.
LEMMA StoredIs ==
    ASSUME NEW dd
    PROVE  /\ StoredIn(dd, 0) = KeysOf(dd.table[0]) /\ StoredIn(dd, 1) = KeysOf(dd.table[1])
           /\ Size(dd, 0) = Width(dd.table[0]) /\ Size(dd, 1) = Width(dd.table[1])
           /\ Contents(dd) = KeysOf(dd.table[0]) \cup KeysOf(dd.table[1])
BY DEF StoredIn, Size, KeysOf, Width, Contents

\* What a dictionary that is sound has.
LEMMA SoundHas ==
    ASSUME NEW dd, DictSound(dd)
    PROVE  /\ dd.table[0] \in AllTables /\ dd.table[1] \in AllTables
           /\ Placed(dd.table[0]) /\ Placed(dd.table[1])
           /\ KeysOf(dd.table[0]) \cap KeysOf(dd.table[1]) = {}
           /\ dd.used[0] = Cardinality(KeysOf(dd.table[0])) /\ dd.used[1] = Cardinality(KeysOf(dd.table[1]))
           /\ dd.used[0] \in Nat /\ dd.used[1] \in Nat
           /\ dd.used[0] <= Cardinality(DictKeys) /\ Cardinality(DictKeys) \in Nat
           /\ dd.used[0] = 0 <=> KeysOf(dd.table[0]) = {}
           /\ dd.used[1] = 0 <=> KeysOf(dd.table[1]) = {}
           /\ Size(dd, 0) \in Sizes /\ Size(dd, 1) \in Sizes /\ Size(dd, 0) \in Nat /\ Size(dd, 1) \in Nat
           /\ DOMAIN dd.table[0] = 0 .. Size(dd, 0) - 1 /\ DOMAIN dd.table[1] = 0 .. Size(dd, 1) - 1
           /\ dd.rehashidx \in Int /\ -1 <= dd.rehashidx /\ dd.rehashidx <= Size(dd, 0)
           /\ dictIsRehashing(dd) <=> Size(dd, 1) # 0
           /\ dictIsRehashing(dd) => Size(dd, 0) # 0
           /\ \A i \in DOMAIN dd.table[0] : i < dd.rehashidx => dd.table[0][i] = {}
           /\ Contents(dd) \subseteq DictKeys
<1> DEFINE f == dd.table[0]  g == dd.table[1]
<1>1. TwoTables(f, g, dd.used[0], dd.used[1], dd.rehashidx)
  BY DEF DictSound
<1>2. Size(dd, 0) = Width(f) /\ Size(dd, 1) = Width(g) /\ Contents(dd) = KeysOf(f) \cup KeysOf(g)
  BY StoredIs
<1> HIDE DEF f, g
<1>3. f \in AllTables /\ g \in AllTables
  BY <1>1 DEF TwoTables
<1>4. /\ Width(f) \in Sizes /\ Width(f) \in Nat /\ DOMAIN f = 0 .. Width(f) - 1
      /\ KeysOf(f) \subseteq DictKeys /\ IsFiniteSet(KeysOf(f))
      /\ Cardinality(KeysOf(f)) \in Nat /\ Cardinality(KeysOf(f)) <= Cardinality(DictKeys)
      /\ Cardinality(DictKeys) \in Nat
  BY <1>3, TableIs
<1>5. /\ Width(g) \in Sizes /\ Width(g) \in Nat /\ DOMAIN g = 0 .. Width(g) - 1
      /\ KeysOf(g) \subseteq DictKeys /\ IsFiniteSet(KeysOf(g)) /\ Cardinality(KeysOf(g)) \in Nat
  BY <1>3, TableIs
<1>6. (Cardinality(KeysOf(f)) = 0 <=> KeysOf(f) = {}) /\ (Cardinality(KeysOf(g)) = 0 <=> KeysOf(g) = {})
  BY <1>4, <1>5, FS_EmptySet
<1> QED BY <1>1, <1>2, <1>4, <1>5, <1>6 DEF TwoTables, f, g, dictIsRehashing

\* A record made of two such tables.
DictOf(f, g, m, n, at) ==
  [table |-> [t \in {0, 1} |-> IF t = 0 THEN f ELSE g], used |-> [t \in {0, 1} |-> IF t = 0 THEN m ELSE n],
   rehashidx |-> at]

\* Two tables that fit make a dictionary that is sound.
LEMMA DictOfSound ==
    ASSUME NEW f, NEW g, NEW m, NEW n, NEW at, TwoTables(f, g, m, n, at)
    PROVE  DictSound(DictOf(f, g, m, n, at)) /\ Contents(DictOf(f, g, m, n, at)) = KeysOf(f) \cup KeysOf(g)
<1> DEFINE u == DictOf(f, g, m, n, at)
<1>1. f \in AllTables /\ g \in AllTables /\ at \in Int /\ m = Cardinality(KeysOf(f)) /\ n = Cardinality(KeysOf(g))
  BY DEF TwoTables
<1>2. m \in Nat /\ n \in Nat
  BY <1>1, TableIs
<1>3. u \in DictRecords
  BY <1>1, <1>2 DEF DictOf, DictRecords
<1>4. u.table[0] = f /\ u.table[1] = g /\ u.used[0] = m /\ u.used[1] = n /\ u.rehashidx = at
  BY DEF DictOf
<1> HIDE DEF u
<1>5. Contents(u) = KeysOf(f) \cup KeysOf(g)
  BY <1>4, StoredIs
<1> QED BY <1>3, <1>4, <1>5 DEF DictSound, u

\* A record is made of its parts.
LEMMA DictParts ==
    ASSUME NEW dd \in DictRecords
    PROVE  dd = DictOf(dd.table[0], dd.table[1], dd.used[0], dd.used[1], dd.rehashidx)
<1>1. dd = [table |-> dd.table, used |-> dd.used, rehashidx |-> dd.rehashidx]
      /\ dd.table \in [{0, 1} -> AllTables] /\ dd.used \in [{0, 1} -> Nat]
  BY DEF DictRecords
<1>2. dd.table = [t \in {0, 1} |-> IF t = 0 THEN dd.table[0] ELSE dd.table[1]]
  BY <1>1
<1>3. dd.used = [t \in {0, 1} |-> IF t = 0 THEN dd.used[0] ELSE dd.used[1]]
  BY <1>1
<1> QED BY <1>1, <1>2, <1>3 DEF DictOf

(***************************************************************************)
(* Resizing.                                                               *)
(***************************************************************************)
LEMMA NextSizeIs ==
    ASSUME NEW size \in Nat, size <= Pow2[CursorBits]
    PROVE  \E e \in 0 .. CursorBits : dictNextSize(size) = Pow2[e] /\ Pow2[e] >= size
<1> DEFINE G == {e \in DICT_HT_INITIAL_EXP .. CursorBits : Pow2[e] >= size}
<1>1. CursorBits \in Nat /\ DICT_HT_INITIAL_EXP \in 0 .. CursorBits
  BY DictConstants
<1>2. CursorBits \in G /\ G \subseteq Nat /\ G \subseteq 0 .. CursorBits
  BY <1>1, Powers
<1> HIDE DEF G
<1>3. PICK m \in G : \A x \in G : m <= x
  BY <1>2, LeastElement
<1>4. Min(G) = m
  <2>1. G \in SUBSET Int
    BY <1>2
  <2> QED BY <1>3, <2>1, LeastIs
<1>5. dictNextSize(size) = Pow2[m]
  BY <1>4 DEF dictNextSize, G
<1>6. Pow2[m] >= size
  BY DEF G
<1> QED BY <1>2, <1>5, <1>6

\* A resize replaces an empty table, or a table to rehash to is allocated.
Replaced(dd, u) ==
  /\ ~dictIsRehashing(dd) /\ dd.used[0] = 0
  /\ \E e \in 0 .. CursorBits : u = DictOf(NewTable(Pow2[e]), dd.table[1], dd.used[0], dd.used[1], dd.rehashidx)

Started(dd, u) ==
  /\ ~dictIsRehashing(dd) /\ dd.used[0] # 0
  /\ \E e \in 0 .. CursorBits : u = DictOf(dd.table[0], NewTable(Pow2[e]), dd.used[0], 0, 0)

Resized(dd, u) == u = dd \/ Replaced(dd, u) \/ Started(dd, u)

\* A resize does one of three things (_dictResize).
LEMMA ResizeIs ==
    ASSUME NEW dd, DictSound(dd), ~dictIsRehashing(dd), NEW size \in Nat, size <= Pow2[CursorBits]
    PROVE  /\ Resized(dd, dictResize(dd, size))
           /\ Size(dd, 0) = 0 => Size(dictResize(dd, size), 0) # 0
<1> DEFINE n == dictNextSize(size)  u == dictResize(dd, size)
<1>1. PICK e \in 0 .. CursorBits : n = Pow2[e]
  BY NextSizeIs
<1>2. n \in Nat \ {0} /\ Width(NewTable(n)) = n
  BY <1>1, Powers, EmptyTables
<1>3. dd \in DictRecords /\ dd.used[0] \in Nat /\ Size(dd, 0) \in Nat
      /\ dd = [table |-> dd.table, used |-> dd.used, rehashidx |-> dd.rehashidx]
      /\ dd.table \in [{0, 1} -> AllTables] /\ dd.used \in [{0, 1} -> Nat]
  BY SoundHas DEF DictSound, DictRecords
<1>4. u = IF n = Size(dd, 0) THEN dd
          ELSE IF dd.used[0] = 0
            THEN [dd EXCEPT !.table[0] = NewTable(n)]
            ELSE [dd EXCEPT !.table[1] = NewTable(n), !.used[1] = 0, !.rehashidx = 0]
  BY DEF dictResize
<1> HIDE DEF n, u
<1>5. CASE n = Size(dd, 0)
  BY <1>2, <1>4, <1>5 DEF Resized, u, n
<1>6. CASE n # Size(dd, 0) /\ dd.used[0] = 0
  <2>1. u = [dd EXCEPT !.table[0] = NewTable(n)]
    BY <1>4, <1>6
  <2>2. u = DictOf(NewTable(n), dd.table[1], dd.used[0], dd.used[1], dd.rehashidx)
    BY <1>3, <2>1 DEF DictOf
  <2>3. Size(u, 0) = n
    BY <1>2, <2>2, StoredIs DEF DictOf
  <2> QED BY <1>1, <1>2, <1>6, <2>2, <2>3 DEF Resized, Replaced, u
<1>7. CASE n # Size(dd, 0) /\ dd.used[0] # 0
  <2>1. u = [dd EXCEPT !.table[1] = NewTable(n), !.used[1] = 0, !.rehashidx = 0]
    BY <1>4, <1>7
  <2>2. u = DictOf(dd.table[0], NewTable(n), dd.used[0], 0, 0)
    <3> DEFINE h == NewTable(n)
    <3>1. u = [table |-> [dd.table EXCEPT ![1] = h], used |-> [dd.used EXCEPT ![1] = 0], rehashidx |-> 0]
      <4> HIDE DEF h
      <4>1. u = [dd EXCEPT !.table[1] = h, !.used[1] = 0, !.rehashidx = 0]
        BY <2>1 DEF h
      <4> QED BY <1>3, <4>1
    <3> HIDE DEF h
    <3>2. [dd.table EXCEPT ![1] = h] = [t \in {0, 1} |-> IF t = 0 THEN dd.table[0] ELSE h]
      BY <1>3
    <3>3. [dd.used EXCEPT ![1] = 0] = [t \in {0, 1} |-> IF t = 0 THEN dd.used[0] ELSE 0]
      BY <1>3
    <3> QED BY <3>1, <3>2, <3>3 DEF DictOf, h
  <2>3. Size(dd, 0) # 0
    <3>1. KeysOf(dd.table[0]) # {} /\ DOMAIN dd.table[0] = 0 .. Size(dd, 0) - 1
      BY <1>7, SoundHas
    <3>2. DOMAIN dd.table[0] # {}
      BY <3>1 DEF KeysOf
    <3> QED BY <3>1, <3>2
  <2> QED BY <1>1, <1>7, <2>2, <2>3 DEF Resized, Started, u
<1> QED BY <1>5, <1>6, <1>7 DEF u

\* Whichever it is, no key is lost.
LEMMA ResizedSound ==
    ASSUME NEW dd, DictSound(dd), NEW u, Resized(dd, u)
    PROVE  DictSound(u) /\ Contents(u) = Contents(dd)
<1> DEFINE f == dd.table[0]  g == dd.table[1]
<1>1. /\ f \in AllTables /\ g \in AllTables /\ Placed(f) /\ Placed(g) /\ Width(f) \in Nat /\ Width(g) \in Nat
      /\ dd.used[0] = Cardinality(KeysOf(f)) /\ dd.used[1] = Cardinality(KeysOf(g))
      /\ (dd.used[0] = 0 <=> KeysOf(f) = {}) /\ (dd.used[1] = 0 <=> KeysOf(g) = {})
      /\ dd.rehashidx \in Int /\ (dictIsRehashing(dd) <=> Width(g) # 0) /\ Contents(dd) = KeysOf(f) \cup KeysOf(g)
      /\ DOMAIN f = 0 .. Width(f) - 1 /\ DOMAIN g = 0 .. Width(g) - 1
  BY SoundHas, StoredIs
<1>2. Cardinality({}) = 0
  BY FS_EmptySet
<1>3. CASE u = dd
  BY <1>3
<1>4. CASE Replaced(dd, u)
  <2>1. PICK e \in 0 .. CursorBits : u = DictOf(NewTable(Pow2[e]), g, dd.used[0], dd.used[1], dd.rehashidx)
    BY <1>4 DEF Replaced
  <2> DEFINE h == NewTable(Pow2[e])
  <2>2. h \in AllTables /\ Width(h) = Pow2[e] /\ KeysOf(h) = {} /\ Placed(h) /\ Pow2[e] \in Nat \ {0}
    BY EmptyTables, Powers
  <2>3. dd.used[0] = 0 /\ dd.rehashidx = -1 /\ KeysOf(f) = {} /\ Width(g) = 0 /\ \A i \in DOMAIN h : i \in 0 .. Width(h) - 1
    <3>1. dd.used[0] = 0 /\ dd.rehashidx = -1 /\ KeysOf(f) = {} /\ Width(g) = 0
      BY <1>1, <1>4 DEF Replaced, dictIsRehashing
    <3>2. DOMAIN h = 0 .. Width(h) - 1
      BY <2>2, TableIs
    <3> QED BY <3>1, <3>2
  <2> HIDE DEF h, f, g
  <2>4. TwoTables(h, g, dd.used[0], dd.used[1], dd.rehashidx)
    BY <1>1, <1>2, <2>2, <2>3 DEF TwoTables
  <2>5. u = DictOf(h, g, dd.used[0], dd.used[1], dd.rehashidx) /\ KeysOf(h) \cup KeysOf(g) = KeysOf(f) \cup KeysOf(g)
    BY <2>1, <2>2, <2>3 DEF h
  <2> QED BY <1>1, <2>4, <2>5, DictOfSound
<1>5. CASE Started(dd, u)
  <2>1. PICK e \in 0 .. CursorBits : u = DictOf(f, NewTable(Pow2[e]), dd.used[0], 0, 0)
    BY <1>5 DEF Started
  <2> DEFINE h == NewTable(Pow2[e])
  <2>2. h \in AllTables /\ Width(h) = Pow2[e] /\ KeysOf(h) = {} /\ Placed(h) /\ Pow2[e] \in Nat \ {0}
    BY EmptyTables, Powers
  <2>3. KeysOf(f) # {} /\ Width(g) = 0
    BY <1>1, <1>5 DEF Started
  <2>4. Width(f) # 0 /\ KeysOf(g) = {} /\ \A i \in DOMAIN f : i >= 0
    <3>1. DOMAIN f # {}
      BY <2>3 DEF KeysOf
    <3>2. DOMAIN g = {}
      BY <1>1, <2>3
    <3> HIDE DEF f, g
    <3>3. KeysOf(g) = {}
      BY <3>2 DEF KeysOf
    <3> QED BY <1>1, <3>1, <3>3
  <2> HIDE DEF h, f, g
  <2>5. TwoTables(f, h, dd.used[0], 0, 0)
    <3>1. \A i \in DOMAIN f : ~(i < 0)
      BY <1>1
    <3> QED BY <1>1, <1>2, <2>2, <2>4, <3>1 DEF TwoTables
  <2>6. u = DictOf(f, h, dd.used[0], 0, 0) /\ KeysOf(f) \cup KeysOf(h) = KeysOf(f) \cup KeysOf(g)
    BY <2>1, <2>2, <2>4 DEF h
  <2> QED BY <1>1, <2>5, <2>6, DictOfSound
<1> QED BY <1>3, <1>4, <1>5 DEF Resized

\* What the operations do about the size of the tables.
LEMMA ExpandIs ==
    ASSUME NEW dd, DictSound(dd)
    PROVE  /\ Resized(dd, dictExpandIfNeeded(dd))
           /\ Size(dictExpandIfNeeded(dd), 0) # 0
<1>1. /\ Size(dd, 0) \in Nat /\ dd.used[0] \in Nat /\ dd.used[0] <= Cardinality(DictKeys)
      /\ Cardinality(DictKeys) \in Nat /\ Cardinality(DictKeys) < Pow2[CursorBits]
      /\ Pow2[CursorBits] \in Nat /\ (dictIsRehashing(dd) => Size(dd, 0) # 0)
  BY SoundHas, DictKeysFit, Powers
<1>2. Pow2[DICT_HT_INITIAL_EXP] \in Nat \ {0} /\ Pow2[DICT_HT_INITIAL_EXP] <= Pow2[CursorBits]
  <2>1. DICT_HT_INITIAL_EXP \in 0 .. CursorBits /\ CursorBits \in DICT_HT_INITIAL_EXP .. CursorBits
    BY DictConstants
  <2> QED BY <2>1, PowersDivide
<1>3. Resized(dd, dd)
  BY DEF Resized
<1>4. ASSUME NEW size \in Nat, size <= Pow2[CursorBits]
      PROVE  /\ Resized(dd, dictExpand(dd, size))
             /\ Size(dd, 0) # 0 => Size(dictExpand(dd, size), 0) # 0
  <2>1. CASE dictIsRehashing(dd) \/ dd.used[0] > size \/ Size(dd, 0) >= size
    BY <1>3, <2>1 DEF dictExpand
  <2>2. CASE ~(dictIsRehashing(dd) \/ dd.used[0] > size \/ Size(dd, 0) >= size)
    <3>1. dictExpand(dd, size) = dictResize(dd, size)
      BY <2>2 DEF dictExpand
    <3>2. Resized(dd, dictResize(dd, size))
      BY <1>4, <2>2, ResizeIs
    <3>3. Size(dd, 0) # 0 => Size(dictResize(dd, size), 0) # 0
      <4> DEFINE u == dictResize(dd, size)
      <4>1. CASE u = dd
        BY <4>1
      <4>2. CASE Replaced(dd, u)
        <5>1. PICK e \in 0 .. CursorBits : u = DictOf(NewTable(Pow2[e]), dd.table[1], dd.used[0], dd.used[1], dd.rehashidx)
          BY <4>2 DEF Replaced
        <5>2. u.table[0] = NewTable(Pow2[e])
          BY <5>1 DEF DictOf
        <5> HIDE DEF u
        <5>3. Size(u, 0) = Pow2[e] /\ Pow2[e] # 0
          BY <5>2, StoredIs, EmptyTables, Powers
        <5> QED BY <5>3 DEF u
      <4>3. CASE Started(dd, u)
        <5>1. u.table[0] = dd.table[0]
          BY <4>3 DEF Started, DictOf
        <5> HIDE DEF u
        <5>2. Size(u, 0) = Size(dd, 0)
          BY <5>1, StoredIs
        <5> QED BY <5>2 DEF u
      <4> QED BY <3>2, <4>1, <4>2, <4>3 DEF Resized
    <3> QED BY <3>1, <3>2, <3>3
  <2> QED BY <2>1, <2>2
<1>5. CASE dictIsRehashing(dd)
  <2>1. dictExpandIfNeeded(dd) = dd
    BY <1>5 DEF dictExpandIfNeeded
  <2> QED BY <1>1, <1>3, <1>5, <2>1
<1>6. CASE ~dictIsRehashing(dd) /\ Size(dd, 0) = 0
  <2> DEFINE n == Pow2[DICT_HT_INITIAL_EXP]
  <2>1. dictExpandIfNeeded(dd) = dictExpand(dd, n)
    BY <1>6 DEF dictExpandIfNeeded
  <2>2. dd.used[0] = 0
    <3>1. DOMAIN dd.table[0] = 0 .. Size(dd, 0) - 1
      BY SoundHas
    <3>2. dd.used[0] = 0 <=> KeysOf(dd.table[0]) = {}
      BY SoundHas
    <3>3. DOMAIN dd.table[0] = {}
      BY <1>6, <3>1
    <3> QED BY <3>2, <3>3 DEF KeysOf
  <2> HIDE DEF n
  <2>3. dictExpand(dd, n) = dictResize(dd, n)
    BY <1>2, <1>6, <2>2 DEF dictExpand, n
  <2>4. Resized(dd, dictResize(dd, n)) /\ Size(dictResize(dd, n), 0) # 0
    BY <1>2, <1>6, ResizeIs DEF n
  <2> QED BY <2>1, <2>3, <2>4
<1>7. CASE ~dictIsRehashing(dd) /\ Size(dd, 0) # 0
  <2>1. dictExpandIfNeeded(dd) = IF MustExpand(dd) THEN dictExpand(dd, dd.used[0] + 1) ELSE dd
    BY <1>7 DEF dictExpandIfNeeded
  <2>2. dd.used[0] + 1 \in Nat /\ dd.used[0] + 1 <= Pow2[CursorBits]
    BY <1>1
  <2>3. CASE MustExpand(dd)
    BY <1>4, <1>7, <2>1, <2>2, <2>3
  <2>4. CASE ~MustExpand(dd)
    BY <1>3, <1>7, <2>1, <2>4
  <2> QED BY <2>3, <2>4
<1> QED BY <1>5, <1>6, <1>7

\* The same of a table that may shrink.
LEMMA ShrinkIs ==
    ASSUME NEW dd, DictSound(dd)
    PROVE  Resized(dd, dictShrinkIfNeeded(dd))
<1>1. dd.used[0] \in Nat /\ dd.used[0] <= Pow2[CursorBits]
  BY SoundHas, DictKeysFit, Powers
<1>2. Resized(dd, dd)
  BY DEF Resized
<1>3. CASE MayShrink(dd) /\ MustShrink(dd)
  <2>1. ~dictIsRehashing(dd) /\ dictShrinkIfNeeded(dd) = dictShrink(dd, dd.used[0])
    BY <1>3 DEF dictShrinkIfNeeded, MayShrink
  <2>2. CASE dd.used[0] > dd.used[0] \/ Size(dd, 0) <= dd.used[0]
    BY <1>2, <2>1, <2>2 DEF dictShrink
  <2>3. CASE ~(dd.used[0] > dd.used[0] \/ Size(dd, 0) <= dd.used[0])
    <3>1. dictShrink(dd, dd.used[0]) = dictResize(dd, dd.used[0])
      BY <2>1, <2>3 DEF dictShrink
    <3> QED BY <1>1, <2>1, <3>1, ResizeIs
  <2> QED BY <2>2, <2>3
<1>4. CASE ~(MayShrink(dd) /\ MustShrink(dd))
  BY <1>2, <1>4 DEF dictShrinkIfNeeded
<1> QED BY <1>3, <1>4

(***************************************************************************)
(* The rehash.                                                             *)
(***************************************************************************)
\* The tables after bucket i has moved.
Without(f, i) == [f EXCEPT ![i] = {}]
Moved(dd, i) ==
  [j \in DOMAIN dd.table[1] |-> dd.table[1][j] \cup {k \in dd.table[0][i] : NewSlot(dd, i, k) = j}]

\* A key of bucket i goes to the bucket of its hash, although a shrinking
\* table masks the number of the old bucket.
LEMMA NewSlotIs ==
    ASSUME NEW dd, DictSound(dd), dictIsRehashing(dd), NEW i \in DOMAIN dd.table[0], NEW k \in dd.table[0][i]
    PROVE  k \in DictKeys /\ NewSlot(dd, i, k) = BucketOf(dd.table[1], k)
<1> DEFINE f == dd.table[0]  g == dd.table[1]  m == Width(f)  n == Width(g)  h == Hash[k]
<1>1. /\ f \in AllTables /\ g \in AllTables /\ Placed(f) /\ m \in Sizes /\ n \in Sizes /\ m # 0 /\ n # 0
      /\ Size(dd, 0) = m /\ Size(dd, 1) = n
  BY SoundHas, StoredIs
<1>2. k \in DictKeys /\ h \in Nat
  <2>1. f[i] \subseteq DictKeys
    BY <1>1, TableIs
  <2> QED BY <2>1, HashIs
<1>3. h % m = i
  BY <1>1 DEF Placed
<1>4. PICK a \in 0 .. CursorBits, b \in 0 .. CursorBits : m = Pow2[a] /\ n = Pow2[b]
  BY <1>1, SizesAre
<1>5. NewSlot(dd, i, k) = IF n > m THEN h % n ELSE i % n
  BY <1>1 DEF NewSlot
<1>6. BucketOf(g, k) = h % n
  BY DEF BucketOf
<1> HIDE DEF f, g, h, m, n
<1>7. CASE n > m
  BY <1>2, <1>5, <1>6, <1>7 DEF g
<1>8. CASE ~(n > m)
  <2>1. b <= a
    <3> SUFFICES ASSUME ~(b <= a) PROVE FALSE
      OBVIOUS
    <3>1. b \in a .. CursorBits /\ a \in a .. CursorBits /\ CursorBits \in Nat /\ a + 1 \in 0 .. CursorBits
          /\ a + 1 \in 1 .. CursorBits /\ b \in a + 1 .. CursorBits
      BY Powers
    <3>2. Pow2[a + 1] <= Pow2[b] /\ Pow2[a + 1] \in Nat /\ Pow2[b] \in Nat
      BY <3>1, PowersDivide
    <3>3. Pow2[a + 1] = 2 * Pow2[a] /\ Pow2[a] \in Nat \ {0}
      <4>1. a + 1 - 1 = a
        OBVIOUS
      <4> QED BY <3>1, <4>1, Powers
    <3> QED BY <1>4, <1>8, <3>2, <3>3
  <2>2. m = n * Pow2[a - b] /\ n \in Nat \ {0} /\ Pow2[a - b] \in Nat \ {0} /\ m \in Nat \ {0}
    <3>1. a \in b .. CursorBits
      BY <2>1, Powers
    <3> QED BY <1>4, <3>1, PowersDivide
  <2> DEFINE M == Pow2[a - b]
  <2>3. m = Times(n, M)
    BY <2>2 DEF Times
  <2>4. Rest(Rest(h, m), n) = Rest(h, n)
    <3>1. M \in Nat \ {0}
      BY <2>2
    <3> HIDE DEF M
    <3> QED BY ONLY <1>2, <2>2, <2>3, <3>1, DivisionTwice
  <2>5. i % n = h % n
    BY <1>3, <2>4 DEF Rest
  <2> QED BY <1>2, <1>5, <1>6, <1>8, <2>5 DEF g
<1> QED BY <1>7, <1>8

\* Both tables after a bucket has moved.
LEMMA MovedTables ==
    ASSUME NEW dd, DictSound(dd), dictIsRehashing(dd), NEW i \in DOMAIN dd.table[0]
    PROVE  /\ Without(dd.table[0], i) \in AllTables /\ Placed(Without(dd.table[0], i))
           /\ Width(Without(dd.table[0], i)) = Width(dd.table[0])
           /\ DOMAIN Without(dd.table[0], i) = DOMAIN dd.table[0]
           /\ \A j \in DOMAIN dd.table[0] : Without(dd.table[0], i)[j] = IF j = i THEN {} ELSE dd.table[0][j]
           /\ KeysOf(Without(dd.table[0], i)) = KeysOf(dd.table[0]) \ dd.table[0][i]
           /\ Moved(dd, i) \in AllTables /\ Placed(Moved(dd, i)) /\ Width(Moved(dd, i)) = Width(dd.table[1])
           /\ KeysOf(Moved(dd, i)) = KeysOf(dd.table[1]) \cup dd.table[0][i]
           /\ dd.table[0][i] \subseteq KeysOf(dd.table[0])
<1> DEFINE f == dd.table[0]  g == dd.table[1]  x == Without(f, i)  y == Moved(dd, i)
<1>1. f \in AllTables /\ g \in AllTables /\ Placed(f) /\ Placed(g) /\ Width(g) # 0
  BY SoundHas, StoredIs
<1>2. (\A j \in DOMAIN f : f[j] \subseteq DictKeys) /\ \A j \in DOMAIN g : g[j] \subseteq DictKeys
  BY <1>1, TableIs
<1>3. \A k \in f[i] : k \in DictKeys /\ NewSlot(dd, i, k) = BucketOf(g, k) /\ BucketOf(g, k) \in DOMAIN g
  BY <1>1, NewSlotIs, BucketIs
<1>4. DOMAIN x = DOMAIN f /\ x = [j \in DOMAIN f |-> x[j]] /\ \A j \in DOMAIN f : x[j] = IF j = i THEN {} ELSE f[j]
  BY DEF Without
<1>5. DOMAIN y = DOMAIN g /\ y = [j \in DOMAIN g |-> y[j]]
      /\ \A j \in DOMAIN g : y[j] = g[j] \cup {k \in f[i] : BucketOf(g, k) = j}
  <2>1. y = [j \in DOMAIN g |-> g[j] \cup {k \in f[i] : NewSlot(dd, i, k) = j}]
    BY DEF Moved
  <2>2. \A j \in DOMAIN g : {k \in f[i] : NewSlot(dd, i, k) = j} = {k \in f[i] : BucketOf(g, k) = j}
    BY <1>3
  <2> HIDE DEF y, f, g
  <2> QED BY <2>1, <2>2
<1> HIDE DEF f, g, x, y
<1>6. x \in AllTables /\ Width(x) = Width(f)
  <2>1. \A j \in DOMAIN f : x[j] \subseteq DictKeys
    BY <1>2, <1>4
  <2> QED BY <1>1, <1>4, <2>1, TableLike
<1>7. Placed(x)
  BY <1>1, <1>4, <1>6 DEF Placed
<1>8. y \in AllTables /\ Width(y) = Width(g)
  <2>1. \A j \in DOMAIN g : y[j] \subseteq DictKeys
    BY <1>2, <1>3, <1>5
  <2> QED BY <1>1, <1>5, <2>1, TableLike
<1>9. Placed(y)
  <2> SUFFICES ASSUME NEW j \in DOMAIN g, NEW k \in y[j] PROVE Hash[k] % Width(g) = j
    BY <1>5, <1>8 DEF Placed
  <2>1. CASE k \in g[j]
    BY <1>1, <2>1 DEF Placed
  <2>2. CASE k \in f[i] /\ BucketOf(g, k) = j
    BY <2>2 DEF BucketOf
  <2> QED BY <1>5, <2>1, <2>2
<1>10. KeysOf(x) = KeysOf(f) \ f[i]
  <2>1. ASSUME NEW j \in DOMAIN f, NEW k \in f[j], k \in f[i] PROVE j = i
    BY <1>1, <2>1, f = f DEF Placed, f
  <2> QED BY <1>4, <2>1 DEF KeysOf, f
<1>11. KeysOf(y) = KeysOf(g) \cup f[i]
  <2>1. ASSUME NEW k \in KeysOf(y) PROVE k \in KeysOf(g) \cup f[i]
    BY <1>5 DEF KeysOf
  <2>2. ASSUME NEW k \in KeysOf(g) PROVE k \in KeysOf(y)
    BY <1>5 DEF KeysOf
  <2>3. ASSUME NEW k \in f[i] PROVE k \in KeysOf(y)
    <3>1. k \in y[BucketOf(g, k)] /\ BucketOf(g, k) \in DOMAIN y
      BY <1>3, <1>5
    <3> QED BY <3>1 DEF KeysOf
  <2> QED BY <2>1, <2>2, <2>3
<1>12. f[i] \subseteq KeysOf(f)
  BY DEF KeysOf, f
<1> QED BY <1>4, <1>6, <1>7, <1>8, <1>9, <1>10, <1>11, <1>12 DEF f, g, x, y

\* A bucket moves, and the rehash is at a bucket below which all are empty.
LEMMA MoveSound ==
    ASSUME NEW dd, DictSound(dd), dictIsRehashing(dd), NEW i \in DOMAIN dd.table[0],
           NEW at \in Int, at # -1, -1 <= at, at <= Size(dd, 0),
           \A j \in DOMAIN dd.table[0] : j < at => j = i \/ dd.table[0][j] = {}
    PROVE  LET u == [rehashEntriesInBucketAtIndex(dd, i) EXCEPT !.rehashidx = at] IN
           /\ DictSound(u) /\ Contents(u) = Contents(dd)
           /\ dictIsRehashing(u) /\ Size(u, 0) = Size(dd, 0)
<1> DEFINE f == dd.table[0]  g == dd.table[1]  x == Without(f, i)  y == Moved(dd, i)
           m == dd.used[0] - Cardinality(f[i])  n == dd.used[1] + Cardinality(f[i])
           u == [rehashEntriesInBucketAtIndex(dd, i) EXCEPT !.rehashidx = at]
<1>1. /\ f \in AllTables /\ g \in AllTables /\ KeysOf(f) \cap KeysOf(g) = {}
      /\ dd.used[0] = Cardinality(KeysOf(f)) /\ dd.used[1] = Cardinality(KeysOf(g))
      /\ Size(dd, 0) = Width(f) /\ Width(g) # 0 /\ Width(f) # 0 /\ Contents(dd) = KeysOf(f) \cup KeysOf(g)
  BY SoundHas, StoredIs
<1>2. /\ x \in AllTables /\ Placed(x) /\ Width(x) = Width(f) /\ DOMAIN x = DOMAIN f
      /\ \A j \in DOMAIN f : x[j] = IF j = i THEN {} ELSE f[j]
      /\ KeysOf(x) = KeysOf(f) \ f[i]
      /\ y \in AllTables /\ Placed(y) /\ Width(y) = Width(g)
      /\ KeysOf(y) = KeysOf(g) \cup f[i]
      /\ f[i] \subseteq KeysOf(f)
  BY MovedTables
<1>3. u = DictOf(x, y, m, n, at)
  <2>1. rehashEntriesInBucketAtIndex(dd, i) = DictOf(x, y, m, n, dd.rehashidx)
    BY DEF rehashEntriesInBucketAtIndex, Without, Moved, DictOf
  <2> QED BY <2>1 DEF DictOf
<1> HIDE DEF x, y, u, f, g
<1>4. /\ Cardinality(KeysOf(x)) = m /\ Cardinality(KeysOf(y)) = n
      /\ KeysOf(x) \cap KeysOf(y) = {} /\ KeysOf(x) \cup KeysOf(y) = KeysOf(f) \cup KeysOf(g)
  <2>1. /\ IsFiniteSet(KeysOf(f)) /\ IsFiniteSet(KeysOf(g)) /\ IsFiniteSet(f[i])
    BY <1>1, <1>2, TableIs, FS_Subset
  <2>2. Cardinality(f[i]) \in Nat /\ Cardinality(KeysOf(f)) \in Nat /\ Cardinality(KeysOf(g)) \in Nat
    BY <2>1, FS_CardinalityType
  <2>3. Cardinality(KeysOf(x)) = Cardinality(KeysOf(f)) - Cardinality(f[i])
    <3>1. KeysOf(f) \cap f[i] = f[i]
      BY <1>2
    <3>2. Cardinality(KeysOf(f) \ f[i]) = Cardinality(KeysOf(f)) - Cardinality(KeysOf(f) \cap f[i])
      BY <2>1, FS_Difference
    <3> QED BY <1>2, <3>1, <3>2
  <2>4. Cardinality(KeysOf(y)) = Cardinality(KeysOf(g)) + Cardinality(f[i])
    <3>1. KeysOf(g) \cap f[i] = {}
      BY <1>1, <1>2
    <3>2. Cardinality(KeysOf(g) \cup f[i]) = Cardinality(KeysOf(g)) + Cardinality(f[i]) - Cardinality(KeysOf(g) \cap f[i])
      BY <2>1, FS_Union
    <3>3. Cardinality(KeysOf(g) \cap f[i]) = 0
      BY <3>1, FS_EmptySet
    <3> DEFINE p == Cardinality(KeysOf(g))  q == Cardinality(f[i])
    <3>4. p \in Nat /\ q \in Nat /\ Cardinality(KeysOf(y)) = p + q - 0
      BY <1>2, <2>2, <3>2, <3>3
    <3> HIDE DEF p, q
    <3>5. Cardinality(KeysOf(y)) = p + q
      BY <3>4
    <3> QED BY <3>5 DEF p, q
  <2>5. KeysOf(x) \cap KeysOf(y) = {} /\ KeysOf(x) \cup KeysOf(y) = KeysOf(f) \cup KeysOf(g)
    BY <1>1, <1>2
  <2> QED BY <1>1, <2>3, <2>4, <2>5
<1>5. TwoTables(x, y, m, n, at)
  <2>1. \A j \in DOMAIN x : j < at => x[j] = {}
    <3>1. \A j \in DOMAIN f : j < at => j = i \/ f[j] = {}
      BY DEF f
    <3> QED BY <1>2, <3>1
  <2> HIDE DEF m, n
  <2> QED BY <1>1, <1>2, <1>4, <2>1 DEF TwoTables
<1>6. DictSound(u) /\ Contents(u) = Contents(dd)
  <2> HIDE DEF m, n
  <2> QED BY <1>1, <1>3, <1>4, <1>5, DictOfSound
<1>7. dictIsRehashing(u) /\ Size(u, 0) = Size(dd, 0)
  <2>1. u.rehashidx = at /\ u.table[0] = x
    BY <1>3 DEF DictOf
  <2> QED BY <1>1, <1>2, <2>1, StoredIs DEF dictIsRehashing
<1> QED BY <1>6, <1>7 DEF u

\* What a step of the rehash keeps.
Stepped(dd, u) ==
  /\ DictSound(u) /\ Contents(u) = Contents(dd)
  /\ dictIsRehashing(u) => dictIsRehashing(dd) /\ Size(u, 0) = Size(dd, 0)

\* The end of a rehash (dictCheckRehashingCompleted).
LEMMA CompletedSound ==
    ASSUME NEW dd, DictSound(dd), dictIsRehashing(dd)
    PROVE  Stepped(dd, dictCheckRehashingCompleted(dd))
<1> DEFINE f == dd.table[0]  g == dd.table[1]  u == dictCheckRehashingCompleted(dd)
<1>1. /\ g \in AllTables /\ Placed(g) /\ dd.used[1] = Cardinality(KeysOf(g)) /\ (dd.used[0] = 0 <=> KeysOf(f) = {})
      /\ Contents(dd) = KeysOf(f) \cup KeysOf(g) /\ Width(g) \in Nat /\ Width(g) # 0
      /\ DOMAIN g = 0 .. Width(g) - 1
  BY SoundHas, StoredIs
<1>2. CASE dd.used[0] # 0
  <2>1. u = dd
    BY <1>2 DEF dictCheckRehashingCompleted
  <2> QED BY <2>1 DEF Stepped
<1>3. CASE dd.used[0] = 0
  <2>1. u = DictOf(g, Unallocated, dd.used[1], 0, -1)
    BY <1>3 DEF dictCheckRehashingCompleted, DictOf
  <2>2. Unallocated \in AllTables /\ Width(Unallocated) = 0 /\ KeysOf(Unallocated) = {} /\ Placed(Unallocated)
    BY EmptyTables
  <2>3. Cardinality({}) = 0
    BY FS_EmptySet
  <2> HIDE DEF f, g, u
  <2>4. \A j \in DOMAIN g : ~(j < -1)
    BY <1>1
  <2>5. TwoTables(g, Unallocated, dd.used[1], 0, -1)
    BY <1>1, <2>2, <2>3, <2>4 DEF TwoTables
  <2>6. DictSound(u) /\ Contents(u) = Contents(dd)
    BY <1>1, <1>3, <2>1, <2>2, <2>5, DictOfSound
  <2>7. ~dictIsRehashing(u)
    BY <2>1 DEF dictIsRehashing, DictOf
  <2> QED BY <2>6, <2>7 DEF Stepped, u
<1> QED BY <1>2, <1>3


\* The next bucket that is filled.
LEMMA NextFilled ==
    ASSUME NEW dd, DictSound(dd), dictIsRehashing(dd), dd.used[0] # 0
    PROVE  LET next == Min({i \in DOMAIN dd.table[0] : i >= dd.rehashidx /\ dd.table[0][i] # {}}) IN
           /\ next \in DOMAIN dd.table[0] /\ next \in Int
           /\ next >= dd.rehashidx /\ next < Size(dd, 0)
           /\ \A j \in DOMAIN dd.table[0] : j < next => dd.table[0][j] = {}
<1> DEFINE f == dd.table[0]  at == dd.rehashidx  n == Size(dd, 0)
           G == {i \in DOMAIN f : i >= at /\ f[i] # {}}
<1>1. /\ DOMAIN f = 0 .. n - 1 /\ n \in Nat /\ at \in Int /\ KeysOf(f) # {}
      /\ \A i \in DOMAIN f : i < at => f[i] = {}
  BY SoundHas
<1> HIDE DEF f, at, n
<1>2. \E i \in DOMAIN f : f[i] # {}
  BY <1>1 DEF KeysOf
<1>3. G # {} /\ G \subseteq Nat /\ G \in SUBSET Int
  BY <1>1, <1>2
<1> HIDE DEF G
<1>4. PICK m \in G : \A x \in G : m <= x
  BY <1>3, LeastElement
<1>5. Min(G) = m
  BY <1>3, <1>4, LeastIs
<1>6. m \in DOMAIN f /\ m >= at
  BY <1>4 DEF G
<1>7. ASSUME NEW j \in DOMAIN f, j < m PROVE f[j] = {}
  <2>1. j \notin G
    BY <1>1, <1>4, <1>6, <1>7
  <2>2. CASE j < at
    BY <1>1, <2>2
  <2>3. CASE j >= at
    BY <2>1, <2>3 DEF G
  <2> QED BY <1>1, <2>2, <2>3
<1>8. Min(G) = m /\ m \in DOMAIN f /\ m \in Int /\ m >= at /\ m < n
  BY <1>1, <1>5, <1>6
<1> QED BY <1>7, <1>8 DEF f, at, n, G

\* Buckets that are empty are passed.
LEMMA SkipSound ==
    ASSUME NEW dd, DictSound(dd), dictIsRehashing(dd), NEW at \in Int, 0 <= at, at <= Size(dd, 0),
           \A j \in DOMAIN dd.table[0] : j < at => dd.table[0][j] = {}
    PROVE  Stepped(dd, [dd EXCEPT !.rehashidx = at])
<1> DEFINE f == dd.table[0]  g == dd.table[1]  u == [dd EXCEPT !.rehashidx = at]
<1>1. dd \in DictRecords /\ TwoTables(f, g, dd.used[0], dd.used[1], dd.rehashidx)
  BY DEF DictSound
<1>2. dd = DictOf(f, g, dd.used[0], dd.used[1], dd.rehashidx)
  BY <1>1, DictParts
<1> HIDE DEF f, g
<1>3. u = DictOf(f, g, dd.used[0], dd.used[1], at)
  BY <1>2 DEF DictOf
<1> HIDE DEF u
<1>4. Size(dd, 0) = Width(f) /\ Contents(dd) = KeysOf(f) \cup KeysOf(g) /\ dd.rehashidx # -1
  BY StoredIs DEF f, g, dictIsRehashing
<1>5. TwoTables(f, g, dd.used[0], dd.used[1], at)
  <2>1. \A j \in DOMAIN f : j < at => f[j] = {}
    BY DEF f
  <2> QED BY <1>1, <1>4, <2>1 DEF TwoTables
<1>6. DictSound(u) /\ Contents(u) = Contents(dd)
  BY <1>3, <1>4, <1>5, DictOfSound
<1>7. Size(u, 0) = Size(dd, 0)
  BY <1>3, <1>4, StoredIs DEF DictOf
<1> QED BY <1>6, <1>7 DEF Stepped, u

\* A bucket moves, then the rehash may be complete.
LEMMA SteppedTwice ==
    ASSUME NEW a, NEW b, NEW c, dictIsRehashing(a), Size(b, 0) = Size(a, 0), Contents(b) = Contents(a),
           Stepped(b, c)
    PROVE  Stepped(a, c)
BY DEF Stepped

\* One step of dictRehash.
LEMMA RehashOneSound ==
    ASSUME NEW dd, DictSound(dd)
    PROVE  Stepped(dd, dictRehashOne(dd))
<1> DEFINE next == Min({i \in DOMAIN dd.table[0] : i >= dd.rehashidx /\ dd.table[0][i] # {}})
<1>0. EmptyVisits \in Nat \ {0}
  BY DictConstants
<1>1. CASE ~dictIsRehashing(dd) \/ RehashHeld(dd)
  BY <1>1 DEF dictRehashOne, Stepped
<1>2. CASE dictIsRehashing(dd) /\ ~RehashHeld(dd) /\ dd.used[0] = 0
  <2>1. dictRehashOne(dd) = dictCheckRehashingCompleted(dd)
    BY <1>2 DEF dictRehashOne
  <2> QED BY <1>2, <2>1, CompletedSound
<1>3. CASE dictIsRehashing(dd) /\ ~RehashHeld(dd) /\ dd.used[0] # 0
  <2>1. dictRehashOne(dd) =
          IF next - dd.rehashidx >= EmptyVisits THEN [dd EXCEPT !.rehashidx = @ + EmptyVisits]
          ELSE dictCheckRehashingCompleted([rehashEntriesInBucketAtIndex(dd, next) EXCEPT !.rehashidx = next + 1])
    BY <1>3 DEF dictRehashOne
  <2>2. /\ next \in DOMAIN dd.table[0] /\ next \in Int /\ next >= dd.rehashidx /\ next < Size(dd, 0)
        /\ \A j \in DOMAIN dd.table[0] : j < next => dd.table[0][j] = {}
    BY <1>3, NextFilled
  <2>3. dd.rehashidx \in Int /\ 0 <= dd.rehashidx /\ Size(dd, 0) \in Nat /\ DOMAIN dd.table[0] = 0 .. Size(dd, 0) - 1
    BY <1>3, SoundHas DEF dictIsRehashing
  <2> HIDE DEF next
  <2>4. CASE next - dd.rehashidx >= EmptyVisits
    <3> DEFINE at == dd.rehashidx + EmptyVisits
    <3>1. at \in Int /\ 0 <= at /\ at <= next /\ at <= Size(dd, 0)
      BY <1>0, <2>2, <2>3, <2>4
    <3>2. dictRehashOne(dd) = [dd EXCEPT !.rehashidx = at]
      BY <2>1, <2>4
    <3> HIDE DEF at
    <3>3. \A j \in DOMAIN dd.table[0] : j < at => dd.table[0][j] = {}
      BY <2>2, <2>3, <3>1
    <3> QED BY <1>3, <3>1, <3>2, <3>3, SkipSound
  <2>5. CASE ~(next - dd.rehashidx >= EmptyVisits)
    <3> DEFINE at == next + 1  u == [rehashEntriesInBucketAtIndex(dd, next) EXCEPT !.rehashidx = at]
    <3>1. at \in Int /\ at # -1 /\ -1 <= at /\ at <= Size(dd, 0)
      BY <2>2, <2>3
    <3>2. \A j \in DOMAIN dd.table[0] : j < at => j = next \/ dd.table[0][j] = {}
      BY <2>2, <2>3
    <3>3. dictRehashOne(dd) = dictCheckRehashingCompleted(u)
      BY <2>1, <2>5
    <3> HIDE DEF at
    <3>4. DictSound(u) /\ Contents(u) = Contents(dd) /\ dictIsRehashing(u) /\ Size(u, 0) = Size(dd, 0)
      BY <1>3, <2>2, <3>1, <3>2, MoveSound
    <3> HIDE DEF u
    <3>5. Stepped(u, dictCheckRehashingCompleted(u))
      BY <3>4, CompletedSound
    <3> QED BY <1>3, <3>3, <3>4, <3>5, SteppedTwice
  <2> QED BY <2>4, <2>5
<1> QED BY <1>1, <1>2, <1>3

\* A step that moves the bucket an operation visits.
LEMMA BucketRehashSound ==
    ASSUME NEW dd, DictSound(dd), dictIsRehashing(dd), NEW i \in DOMAIN dd.table[0]
    PROVE  Stepped(dd, dictBucketRehash(dd, i))
<1>1. CASE RehashHeld(dd)
  BY <1>1 DEF dictBucketRehash, Stepped
<1>2. CASE ~RehashHeld(dd)
  <2> DEFINE u == rehashEntriesInBucketAtIndex(dd, i)  at == dd.rehashidx
  <2>1. u = [u EXCEPT !.rehashidx = at]
    BY DEF rehashEntriesInBucketAtIndex
  <2>2. at \in Int /\ at # -1 /\ -1 <= at /\ at <= Size(dd, 0)
        /\ \A j \in DOMAIN dd.table[0] : j < at => dd.table[0][j] = {}
    BY SoundHas DEF dictIsRehashing
  <2> HIDE DEF at
  <2>3. LET v == [rehashEntriesInBucketAtIndex(dd, i) EXCEPT !.rehashidx = at] IN
        DictSound(v) /\ Contents(v) = Contents(dd) /\ dictIsRehashing(v) /\ Size(v, 0) = Size(dd, 0)
    BY <2>2, MoveSound
  <2>4. DictSound(u) /\ Contents(u) = Contents(dd) /\ dictIsRehashing(u) /\ Size(u, 0) = Size(dd, 0)
    BY <2>1, <2>3
  <2>5. dictBucketRehash(dd, i) = dictCheckRehashingCompleted(u)
    BY <1>2 DEF dictBucketRehash
  <2> HIDE DEF u
  <2>6. Stepped(u, dictCheckRehashingCompleted(u))
    BY <2>4, CompletedSound
  <2> QED BY <2>4, <2>5, <2>6, SteppedTwice
<1> QED BY <1>1, <1>2

\* The bucket of a key in table 0.
LEMMA SlotIs ==
    ASSUME NEW dd, DictSound(dd), NEW k \in DictKeys
    PROVE  /\ Slot(dd, 0, k) \in Nat /\ Slot(dd, 1, k) \in Nat
           /\ Size(dd, 0) # 0 => Slot(dd, 0, k) = BucketOf(dd.table[0], k) /\ Slot(dd, 0, k) \in DOMAIN dd.table[0]
           /\ Size(dd, 1) # 0 => Slot(dd, 1, k) = BucketOf(dd.table[1], k) /\ Slot(dd, 1, k) \in DOMAIN dd.table[1]
<1>1. dd.table[0] \in AllTables /\ dd.table[1] \in AllTables
      /\ Size(dd, 0) = Width(dd.table[0]) /\ Size(dd, 1) = Width(dd.table[1])
      /\ DOMAIN dd.table[0] = 0 .. Size(dd, 0) - 1 /\ DOMAIN dd.table[1] = 0 .. Size(dd, 1) - 1
  BY SoundHas, StoredIs
<1>2. Size(dd, 0) # 0 => BucketOf(dd.table[0], k) \in DOMAIN dd.table[0]
  BY <1>1, BucketIs
<1>3. Size(dd, 1) # 0 => BucketOf(dd.table[1], k) \in DOMAIN dd.table[1]
  BY <1>1, BucketIs
<1>4. Size(dd, 0) # 0 => Slot(dd, 0, k) = BucketOf(dd.table[0], k)
  BY <1>1 DEF Slot, BucketOf
<1>5. Size(dd, 1) # 0 => Slot(dd, 1, k) = BucketOf(dd.table[1], k)
  BY <1>1 DEF Slot, BucketOf
<1>6. Size(dd, 0) = 0 => Slot(dd, 0, k) = 0
  BY DEF Slot
<1>7. Size(dd, 1) = 0 => Slot(dd, 1, k) = 0
  BY DEF Slot
<1> QED BY <1>1, <1>2, <1>3, <1>4, <1>5, <1>6, <1>7

\* The step that an operation takes, which a safe iterator holds.
LEMMA StepIfNeededSound ==
    ASSUME NEW dd, DictSound(dd), NEW k \in DictKeys
    PROVE  /\ Stepped(dd, dictRehashStepIfNeeded(dd, Slot(dd, 0, k)))
           /\ pauserehash # 0 => dictRehashStepIfNeeded(dd, Slot(dd, 0, k)) = dd
<1> DEFINE idx == Slot(dd, 0, k)
<1>1. CASE ~dictIsRehashing(dd) \/ pauserehash # 0
  BY <1>1 DEF dictRehashStepIfNeeded, Stepped
<1>2. CASE dictIsRehashing(dd) /\ ~(pauserehash # 0)
  <2>1. dictRehashStepIfNeeded(dd, idx) \in {dictBucketRehash(dd, idx), dictRehashOne(dd)}
    BY <1>2 DEF dictRehashStepIfNeeded
  <2>2. idx \in DOMAIN dd.table[0]
    BY <1>2, SlotIs, SoundHas
  <2> HIDE DEF idx
  <2>3. Stepped(dd, dictBucketRehash(dd, idx)) /\ Stepped(dd, dictRehashOne(dd))
    BY <1>2, <2>2, BucketRehashSound, RehashOneSound
  <2>4. Stepped(dd, dictRehashStepIfNeeded(dd, idx))
    BY <2>1, <2>3
  <2> QED BY <1>2, <2>4 DEF idx
<1> QED BY <1>1, <1>2

\* What several steps of the rehash keep.
LEMMA RehashSound ==
    ASSUME NEW dd, DictSound(dd), NEW N \in Nat
    PROVE  DictSound(dictRehash(dd, N)) /\ Contents(dictRehash(dd, N)) = Contents(dd)
<1> DEFINE S == {u \in DictRecords : DictSound(u) /\ Contents(u) = Contents(dd)}
           after(x) == dictRehashOne(x)
           step == [i \in 1 .. N |-> [x \in S |-> after(x)]]
           Goes(g) == g = [n \in 0 .. N |-> IF n = 0 THEN dd ELSE after(g[n - 1])]
           c == CHOOSE g : Goes(g)
<1>1. dd \in S /\ \A x \in S : after(x) \in S
  <2>1. dd \in S
    BY DEF DictSound
  <2>2. ASSUME NEW x \in S PROVE after(x) \in S
    <3>1. Stepped(x, after(x)) /\ Contents(x) = Contents(dd)
      BY RehashOneSound
    <3>2. DictSound(after(x)) /\ Contents(after(x)) = Contents(dd)
      BY <3>1 DEF Stepped
    <3> HIDE DEF after
    <3> QED BY <3>2 DEF DictSound
  <2> QED BY <2>1, <2>2
<1>2. dictRehash(dd, N) = c[N]
  BY DEF dictRehash
<1> HIDE DEF after, c, S
<1>3. PICK f : Walks(f, N, S, dd, step)
  <2>1. step \in [1 .. N -> [S -> S]]
    BY <1>1
  <2> HIDE DEF step
  <2> QED BY <1>1, <2>1, WalkExists
<1>4. f \in [0 .. N -> S] /\ f[0] = dd /\ \A i \in 1 .. N : f[i] = after(f[i - 1])
  <2>1. f \in [0 .. N -> S] /\ f[0] = dd /\ \A i \in 1 .. N : f[i] = step[i][f[i - 1]]
    BY <1>3 DEF Walks
  <2>2. ASSUME NEW i \in 1 .. N PROVE step[i][f[i - 1]] = after(f[i - 1])
    <3>1. f[i - 1] \in S
      BY <2>1
    <3> QED BY <3>1
  <2> HIDE DEF step
  <2> QED BY <2>1, <2>2
<1>5. Goes(f)
  <2>1. \A i \in 0 .. N : f[i] = IF i = 0 THEN dd ELSE after(f[i - 1])
    BY <1>4
  <2> QED BY <1>4, <2>1
<1> HIDE DEF Goes
<1>6. Goes(c)
  BY <1>5 DEF c
<1>7. c[0] = dd /\ \A i \in 1 .. N : c[i] = after(c[i - 1])
  <2> DEFINE rhs == [i \in 0 .. N |-> IF i = 0 THEN dd ELSE after(c[i - 1])]
  <2>1. rhs[0] = dd /\ \A i \in 1 .. N : rhs[i] = after(c[i - 1])
    OBVIOUS
  <2>2. c = rhs
    BY <1>6 DEF Goes
  <2> HIDE DEF rhs
  <2> QED BY <2>1, <2>2
<1> DEFINE J == {i \in 0 .. N : c[i] \in S}
<1>8. \A i \in 0 .. N : i \in J
  <2>1. 0 \in J
    BY <1>1, <1>7
  <2>2. ASSUME NEW i \in 1 .. N, i - 1 \in J PROVE i \in J
    BY <1>1, <1>7, <2>2
  <2> HIDE DEF J
  <2> QED BY <2>1, <2>2, Climb
<1>9. c[N] \in S
  BY <1>8
<1> QED BY <1>2, <1>9 DEF S

(***************************************************************************)
(* The lookup.                                                             *)
(***************************************************************************)
\* The bucket computed before the step of rehash still serves.
Serves(u, idx, k) == idx \in Nat /\ (u.rehashidx <= 0 \/ idx = Slot(u, 0, k))

\* A lookup finds the keys that are stored, and no other.
LEMMA FindsIs ==
    ASSUME NEW u, DictSound(u), NEW k \in DictKeys, NEW idx, Serves(u, idx, k)
    PROVE  /\ Finds(u, idx, k) <=> k \in Contents(u)
           /\ \A t \in {0, 1} : k \in StoredIn(u, t) => t \in Tables(u, idx)
<1> DEFINE f == u.table[0]  g == u.table[1]  at == u.rehashidx
<1>1. /\ f \in AllTables /\ g \in AllTables /\ Placed(f) /\ Placed(g) /\ Contents(u) = KeysOf(f) \cup KeysOf(g)
      /\ Size(u, 0) = Width(f) /\ Size(u, 1) = Width(g) /\ (dictIsRehashing(u) <=> Width(g) # 0)
      /\ DOMAIN f = 0 .. Width(f) - 1 /\ DOMAIN g = 0 .. Width(g) - 1 /\ Width(f) \in Nat /\ Width(g) \in Nat
      /\ at \in Int /\ StoredIn(u, 0) = KeysOf(f) /\ StoredIn(u, 1) = KeysOf(g)
      /\ \A i \in DOMAIN f : i < at => f[i] = {}
  BY SoundHas, StoredIs
<1>2. /\ Width(f) # 0 => Slot(u, 0, k) = BucketOf(f, k) /\ Slot(u, 0, k) \in DOMAIN f
      /\ Width(g) # 0 => Slot(u, 1, k) = BucketOf(g, k) /\ Slot(u, 1, k) \in DOMAIN g
  BY <1>1, SlotIs
<1>3. k \in KeysOf(f) <=> Width(f) # 0 /\ k \in f[BucketOf(f, k)]
  BY <1>1, BucketIs
<1>4. k \in KeysOf(g) <=> Width(g) # 0 /\ k \in g[BucketOf(g, k)]
  BY <1>1, BucketIs
<1>5. 0 \in Tables(u, idx) <=> idx >= at
  BY DEF Tables
<1>6. 1 \in Tables(u, idx) <=> Width(g) # 0
  BY <1>1 DEF Tables
<1> DEFINE InTable(t) == Slot(u, t, k) \in DOMAIN u.table[t] /\ k \in u.table[t][Slot(u, t, k)]
<1>7. Finds(u, idx, k) <=> \E t \in Tables(u, idx) : InTable(t)
  BY DEF Finds
<1>8. Tables(u, idx) \subseteq {0, 1}
  BY DEF Tables
<1> HIDE DEF f, g, at
<1>9. InTable(0) <=> k \in KeysOf(f)
  <2>1. InTable(0) <=> Slot(u, 0, k) \in DOMAIN f /\ k \in f[Slot(u, 0, k)]
    BY DEF f
  <2> HIDE DEF InTable
  <2>2. CASE Width(f) = 0
    <3>1. DOMAIN f = {}
      BY <1>1, <2>2
    <3> QED BY <1>3, <2>1, <2>2, <3>1
  <2>3. CASE Width(f) # 0
    BY <1>2, <1>3, <2>1, <2>3
  <2> QED BY <2>2, <2>3
<1>10. InTable(1) <=> k \in KeysOf(g)
  <2>1. InTable(1) <=> Slot(u, 1, k) \in DOMAIN g /\ k \in g[Slot(u, 1, k)]
    BY DEF g
  <2> HIDE DEF InTable
  <2>2. CASE Width(g) = 0
    <3>1. DOMAIN g = {}
      BY <1>1, <2>2
    <3> QED BY <1>4, <2>1, <2>2, <3>1
  <2>3. CASE Width(g) # 0
    BY <1>2, <1>4, <2>1, <2>3
  <2> QED BY <2>2, <2>3
<1> HIDE DEF InTable
\* Table 0 is skipped only where its bucket is empty.
<1>11. k \in KeysOf(f) => 0 \in Tables(u, idx)
  <2> SUFFICES ASSUME k \in KeysOf(f), ~(idx >= at) PROVE FALSE
    BY <1>5
  <2>1. idx \in Nat /\ (at <= 0 \/ idx = Slot(u, 0, k))
    BY DEF Serves, at
  <2>2. idx < at /\ at > 0 /\ idx = Slot(u, 0, k)
    BY <1>1, <2>1
  <2>3. f[idx] = {} /\ k \in f[idx]
    BY <1>1, <1>2, <1>3, <2>2
  <2> QED BY <2>3
<1>12. k \in KeysOf(g) => 1 \in Tables(u, idx)
  BY <1>4, <1>6
<1>13. Finds(u, idx, k) <=> k \in Contents(u)
  BY <1>1, <1>7, <1>8, <1>9, <1>10, <1>11, <1>12
<1>14. \A t \in {0, 1} : k \in StoredIn(u, t) => t \in Tables(u, idx)
  BY <1>1, <1>11, <1>12
<1> QED BY <1>13, <1>14

\* After a step the bucket computed before it still serves.
LEMMA SteppedServes ==
    ASSUME NEW dd, DictSound(dd), NEW k \in DictKeys, NEW u, Stepped(dd, u)
    PROVE  Serves(u, Slot(dd, 0, k), k)
<1>1. Slot(dd, 0, k) \in Nat
  BY SlotIs
<1>2. CASE dictIsRehashing(u)
  <2>1. Size(u, 0) = Size(dd, 0)
    BY <1>2 DEF Stepped
  <2>2. Slot(u, 0, k) = Slot(dd, 0, k)
    BY <2>1 DEF Slot
  <2> QED BY <1>1, <2>2 DEF Serves
<1>3. CASE ~dictIsRehashing(u)
  <2>1. u.rehashidx = -1
    BY <1>3 DEF dictIsRehashing
  <2>2. u.rehashidx <= 0
    BY <2>1
  <2> QED BY <1>1, <2>2 DEF Serves
<1> QED BY <1>2, <1>3

\* A lookup finds the keys that are stored.
LEMMA LookupIs ==
    ASSUME NEW dd, DictSound(dd), NEW k \in DictKeys
    PROVE  LET u == dictRehashStepIfNeeded(dd, Slot(dd, 0, k)) IN
           /\ DictSound(u) /\ Contents(u) = Contents(dd)
           /\ Finds(u, Slot(dd, 0, k), k) <=> k \in Contents(dd)
<1> DEFINE u == dictRehashStepIfNeeded(dd, Slot(dd, 0, k))
<1>1. Stepped(dd, u)
  BY StepIfNeededSound
<1> HIDE DEF u
<1>2. DictSound(u) /\ Contents(u) = Contents(dd)
  BY <1>1 DEF Stepped
<1>3. Serves(u, Slot(dd, 0, k), k)
  BY <1>1, SteppedServes
<1>4. Finds(u, Slot(dd, 0, k), k) <=> k \in Contents(u)
  BY <1>2, <1>3, FindsIs
<1> QED BY <1>2, <1>4 DEF u

(***************************************************************************)
(* Insertions and deletions.                                               *)
(***************************************************************************)
\* Nothing but k leaves its bucket.
Keeps(dd, u, k) ==
  /\ DOMAIN u.table[0] = DOMAIN dd.table[0] /\ DOMAIN u.table[1] = DOMAIN dd.table[1]
  /\ \A i \in DOMAIN dd.table[0] : dd.table[0][i] \ {k} \subseteq u.table[0][i]
  /\ \A i \in DOMAIN dd.table[1] : dd.table[1][i] \ {k} \subseteq u.table[1][i]
  /\ u.rehashidx = dd.rehashidx

With(f, k) == [f EXCEPT ![BucketOf(f, k)] = @ \cup {k}]
Less(f, k) == [f EXCEPT ![BucketOf(f, k)] = @ \ {k}]

\* A table with one key more, and with one less.
LEMMA WithIs ==
    ASSUME NEW f \in AllTables, Placed(f), NEW k \in DictKeys, Width(f) # 0, k \notin KeysOf(f)
    PROVE  /\ With(f, k) \in AllTables /\ Placed(With(f, k)) /\ Width(With(f, k)) = Width(f)
           /\ KeysOf(With(f, k)) = KeysOf(f) \cup {k}
           /\ Cardinality(KeysOf(With(f, k))) = Cardinality(KeysOf(f)) + 1
           /\ DOMAIN With(f, k) = DOMAIN f
           /\ \A i \in DOMAIN f : f[i] \subseteq With(f, k)[i] /\ (i # BucketOf(f, k) => With(f, k)[i] = f[i])
<1>1. /\ With(f, k) \in AllTables /\ Placed(With(f, k)) /\ Width(With(f, k)) = Width(f)
      /\ KeysOf(With(f, k)) = KeysOf(f) \cup {k}
  BY TableAdd DEF With
<1>2. IsFiniteSet(KeysOf(f))
  BY TableIs
<1>3. Cardinality(KeysOf(f) \cup {k}) = Cardinality(KeysOf(f)) + 1
  BY <1>2, FS_AddElement
<1>4. DOMAIN With(f, k) = DOMAIN f
  BY DEF With
<1>5. \A i \in DOMAIN f : f[i] \subseteq With(f, k)[i] /\ (i # BucketOf(f, k) => With(f, k)[i] = f[i])
  BY DEF With
<1> QED BY <1>1, <1>3, <1>4, <1>5

LEMMA LessIs ==
    ASSUME NEW f \in AllTables, Placed(f), NEW k \in DictKeys, Width(f) # 0, k \in KeysOf(f)
    PROVE  /\ Less(f, k) \in AllTables /\ Placed(Less(f, k)) /\ Width(Less(f, k)) = Width(f)
           /\ KeysOf(Less(f, k)) = KeysOf(f) \ {k}
           /\ Cardinality(KeysOf(Less(f, k))) = Cardinality(KeysOf(f)) - 1
           /\ DOMAIN Less(f, k) = DOMAIN f
           /\ \A i \in DOMAIN f : Less(f, k)[i] = f[i] \ {k}
<1>1. /\ Less(f, k) \in AllTables /\ Placed(Less(f, k)) /\ Width(Less(f, k)) = Width(f)
      /\ KeysOf(Less(f, k)) = KeysOf(f) \ {k} /\ \A i \in DOMAIN f : Less(f, k)[i] = f[i] \ {k}
  BY TableDrop DEF Less
<1>2. IsFiniteSet(KeysOf(f))
  BY TableIs
<1>3. Cardinality(KeysOf(f) \ {k}) = Cardinality(KeysOf(f)) - 1
  BY <1>2, FS_RemoveElement
<1>4. DOMAIN Less(f, k) = DOMAIN f
  BY DEF Less
<1> QED BY <1>1, <1>3, <1>4

Both(x, y) == [t \in {0, 1} |-> IF t = 0 THEN x ELSE y]

\* A pair of tables or counters.
LEMMA BothIs ==
    ASSUME NEW x, NEW y, NEW z
    PROVE  /\ Both(x, y)[0] = x /\ Both(x, y)[1] = y
           /\ [Both(x, y) EXCEPT ![0] = z] = Both(z, y) /\ [Both(x, y) EXCEPT ![1] = z] = Both(x, z)
<1>1. \A t \in {0, 1} : [Both(x, y) EXCEPT ![1] = z][t] = Both(x, z)[t]
  BY DEF Both
<1>2. DOMAIN [Both(x, y) EXCEPT ![1] = z] = {0, 1} /\ DOMAIN Both(x, z) = {0, 1}
  BY DEF Both
<1>3. [Both(x, y) EXCEPT ![1] = z] = [t \in {0, 1} |-> [Both(x, y) EXCEPT ![1] = z][t]]
  BY DEF Both
<1>4. Both(x, z) = [t \in {0, 1} |-> Both(x, z)[t]]
  BY DEF Both
<1>5. [Both(x, y) EXCEPT ![1] = z] = Both(x, z)
  BY <1>1, <1>3, <1>4
<1>6. Both(x, y)[0] = x /\ Both(x, y)[1] = y
  BY DEF Both
<1>7. [Both(x, y) EXCEPT ![0] = z] = Both(z, y)
  BY DEF Both
<1> QED BY <1>5, <1>6, <1>7

\* The two updates, as records.
LEMMA PutIs ==
    ASSUME NEW dd, DictSound(dd), NEW k \in DictKeys
    PROVE  /\ Size(dd, 0) # 0 => Link(dd, 0, k) =
                DictOf(With(dd.table[0], k), dd.table[1], dd.used[0] + 1, dd.used[1], dd.rehashidx)
           /\ Size(dd, 1) # 0 => Link(dd, 1, k) =
                DictOf(dd.table[0], With(dd.table[1], k), dd.used[0], dd.used[1] + 1, dd.rehashidx)
           /\ Size(dd, 0) # 0 => Unlink(dd, 0, k) =
                DictOf(Less(dd.table[0], k), dd.table[1], dd.used[0] - 1, dd.used[1], dd.rehashidx)
           /\ Size(dd, 1) # 0 => Unlink(dd, 1, k) =
                DictOf(dd.table[0], Less(dd.table[1], k), dd.used[0], dd.used[1] - 1, dd.rehashidx)
<1> DEFINE f == dd.table[0]  g == dd.table[1]  a == Slot(dd, 0, k)  b == Slot(dd, 1, k)
<1>1. dd = DictOf(f, g, dd.used[0], dd.used[1], dd.rehashidx)
  BY DictParts DEF DictSound
<1>2. (Size(dd, 0) # 0 => a = BucketOf(f, k)) /\ (Size(dd, 1) # 0 => b = BucketOf(g, k))
  BY SlotIs
<1> DEFINE m == dd.used[0]  n == dd.used[1]  at == dd.rehashidx
<1> HIDE DEF f, g, a, b, m, n, at
<1> DEFINE T == Both(f, g)  U == Both(m, n)
<1>3. dd.table = T /\ dd.used = U
  BY <1>1 DEF DictOf, Both, m, n
<1> HIDE DEF T, U
<1>4. Link(dd, 0, k) = DictOf([f EXCEPT ![a] = @ \cup {k}], g, m + 1, n, at)
  <2> DEFINE h == [f EXCEPT ![a] = @ \cup {k}]
  <2> HIDE DEF h
  <2>0. T[0] = f /\ T[1] = g /\ [T EXCEPT ![0] = h] = Both(h, g)
    BY BothIs DEF T
  <2>1. [T EXCEPT ![0][a] = @ \cup {k}] = Both(h, g)
    BY <2>0 DEF h
  <2>2. [U EXCEPT ![0] = @ + 1] = Both(m + 1, n)
    BY BothIs DEF U
  <2>3. Link(dd, 0, k) = [table |-> [T EXCEPT ![0][a] = @ \cup {k}], used |-> [U EXCEPT ![0] = @ + 1], rehashidx |-> at]
    BY <1>3 DEF Link, a, at
  <2>4. Link(dd, 0, k) = [table |-> Both(h, g), used |-> Both(m + 1, n), rehashidx |-> at]
    BY <2>1, <2>2, <2>3
  <2> QED BY <2>4 DEF DictOf, Both, h
<1>5. Link(dd, 1, k) = DictOf(f, [g EXCEPT ![b] = @ \cup {k}], m, n + 1, at)
  <2> DEFINE h == [g EXCEPT ![b] = @ \cup {k}]
  <2> HIDE DEF h
  <2>0. T[0] = f /\ T[1] = g /\ [T EXCEPT ![1] = h] = Both(f, h)
    BY BothIs DEF T
  <2>1. [T EXCEPT ![1][b] = @ \cup {k}] = Both(f, h)
    BY <2>0 DEF h
  <2>2. [U EXCEPT ![1] = @ + 1] = Both(m, n + 1)
    BY BothIs DEF U
  <2>3. Link(dd, 1, k) = [table |-> [T EXCEPT ![1][b] = @ \cup {k}], used |-> [U EXCEPT ![1] = @ + 1], rehashidx |-> at]
    BY <1>3 DEF Link, b, at
  <2>4. Link(dd, 1, k) = [table |-> Both(f, h), used |-> Both(m, n + 1), rehashidx |-> at]
    BY <2>1, <2>2, <2>3
  <2> QED BY <2>4 DEF DictOf, Both, h
<1>6. Unlink(dd, 0, k) = DictOf([f EXCEPT ![a] = @ \ {k}], g, m - 1, n, at)
  <2> DEFINE h == [f EXCEPT ![a] = @ \ {k}]
  <2> HIDE DEF h
  <2>0. T[0] = f /\ T[1] = g /\ [T EXCEPT ![0] = h] = Both(h, g)
    BY BothIs DEF T
  <2>1. [T EXCEPT ![0][a] = @ \ {k}] = Both(h, g)
    BY <2>0 DEF h
  <2>2. [U EXCEPT ![0] = @ - 1] = Both(m - 1, n)
    BY BothIs DEF U
  <2>3. Unlink(dd, 0, k) = [table |-> [T EXCEPT ![0][a] = @ \ {k}], used |-> [U EXCEPT ![0] = @ - 1], rehashidx |-> at]
    BY <1>3 DEF Unlink, a, at
  <2>4. Unlink(dd, 0, k) = [table |-> Both(h, g), used |-> Both(m - 1, n), rehashidx |-> at]
    BY <2>1, <2>2, <2>3
  <2> QED BY <2>4 DEF DictOf, Both, h
<1>7. Unlink(dd, 1, k) = DictOf(f, [g EXCEPT ![b] = @ \ {k}], m, n - 1, at)
  <2> DEFINE h == [g EXCEPT ![b] = @ \ {k}]
  <2> HIDE DEF h
  <2>0. T[0] = f /\ T[1] = g /\ [T EXCEPT ![1] = h] = Both(f, h)
    BY BothIs DEF T
  <2>1. [T EXCEPT ![1][b] = @ \ {k}] = Both(f, h)
    BY <2>0 DEF h
  <2>2. [U EXCEPT ![1] = @ - 1] = Both(m, n - 1)
    BY BothIs DEF U
  <2>3. Unlink(dd, 1, k) = [table |-> [T EXCEPT ![1][b] = @ \ {k}], used |-> [U EXCEPT ![1] = @ - 1], rehashidx |-> at]
    BY <1>3 DEF Unlink, b, at
  <2>4. Unlink(dd, 1, k) = [table |-> Both(f, h), used |-> Both(m, n - 1), rehashidx |-> at]
    BY <2>1, <2>2, <2>3
  <2> QED BY <2>4 DEF DictOf, Both, h
<1> QED BY <1>2, <1>4, <1>5, <1>6, <1>7 DEF With, Less, f, g, m, n, at

\* The key is linked, or unlinked, and no other moves.
LEMMA LinkSound ==
    ASSUME NEW dd, DictSound(dd), NEW k \in DictKeys, k \notin Contents(dd), Size(dd, 0) # 0,
           NEW u, u = Link(dd, IF dictIsRehashing(dd) THEN 1 ELSE 0, k)
    PROVE  DictSound(u) /\ Contents(u) = Contents(dd) \cup {k} /\ Keeps(dd, u, k)
<1> DEFINE f == dd.table[0]  g == dd.table[1]  m == dd.used[0]  n == dd.used[1]  at == dd.rehashidx
<1>1. /\ TwoTables(f, g, m, n, at) /\ Contents(dd) = KeysOf(f) \cup KeysOf(g)
      /\ Size(dd, 0) = Width(f) /\ Size(dd, 1) = Width(g) /\ (dictIsRehashing(dd) <=> at # -1)
  BY StoredIs DEF DictSound, dictIsRehashing
<1>2. CASE dictIsRehashing(dd)
  <2> DEFINE h == With(g, k)
  <2>1. Size(dd, 1) # 0
    BY <1>2, SoundHas
  <2>2. u = DictOf(f, h, m, n + 1, at)
    BY <1>2, <2>1, PutIs
  <2> HIDE DEF f, g, m, n, at
  <2>3. /\ h \in AllTables /\ Placed(h) /\ Width(h) = Width(g) /\ KeysOf(h) = KeysOf(g) \cup {k}
        /\ Cardinality(KeysOf(h)) = Cardinality(KeysOf(g)) + 1 /\ DOMAIN h = DOMAIN g
        /\ \A i \in DOMAIN g : g[i] \subseteq h[i]
    BY <1>1, <2>1, WithIs DEF TwoTables
  <2> HIDE DEF h
  <2>4. TwoTables(f, h, m, n + 1, at)
    BY <1>1, <2>3 DEF TwoTables
  <2>5. DictSound(u) /\ Contents(u) = Contents(dd) \cup {k}
    BY <1>1, <2>2, <2>3, <2>4, DictOfSound
  <2>6. u.table[0] = f /\ u.table[1] = h /\ u.rehashidx = at
    BY <2>2 DEF DictOf
  <2>7. Keeps(dd, u, k)
    BY <2>3, <2>6 DEF Keeps, f, g, at
  <2> QED BY <2>5, <2>7
<1>3. CASE ~dictIsRehashing(dd)
  <2> DEFINE h == With(f, k)
  <2>2. u = DictOf(h, g, m + 1, n, at)
    BY <1>3, PutIs
  <2> HIDE DEF f, g, m, n, at
  <2>3. /\ h \in AllTables /\ Placed(h) /\ Width(h) = Width(f) /\ KeysOf(h) = KeysOf(f) \cup {k}
        /\ Cardinality(KeysOf(h)) = Cardinality(KeysOf(f)) + 1 /\ DOMAIN h = DOMAIN f
        /\ \A i \in DOMAIN f : f[i] \subseteq h[i]
    BY <1>1, WithIs DEF TwoTables
  <2> HIDE DEF h
  <2>4. TwoTables(h, g, m + 1, n, at)
    <3>1. at = -1 /\ DOMAIN f = 0 .. Width(f) - 1
      BY <1>1, <1>3, TableIs DEF TwoTables
    <3>2. \A i \in DOMAIN h : ~(i < at)
      BY <2>3, <3>1
    <3> QED BY <1>1, <2>3, <3>2 DEF TwoTables
  <2>5. DictSound(u) /\ Contents(u) = Contents(dd) \cup {k}
    BY <1>1, <2>2, <2>3, <2>4, DictOfSound
  <2>6. u.table[0] = h /\ u.table[1] = g /\ u.rehashidx = at
    BY <2>2 DEF DictOf
  <2>7. Keeps(dd, u, k)
    BY <2>3, <2>6 DEF Keeps, f, g, at
  <2> QED BY <2>5, <2>7
<1> QED BY <1>2, <1>3

LEMMA UnlinkSound ==
    ASSUME NEW dd, DictSound(dd), NEW k \in DictKeys, NEW t \in {0, 1}, k \in StoredIn(dd, t),
           NEW u, u = Unlink(dd, t, k)
    PROVE  DictSound(u) /\ Contents(u) = Contents(dd) \ {k} /\ Keeps(dd, u, k)
<1> DEFINE f == dd.table[0]  g == dd.table[1]  m == dd.used[0]  n == dd.used[1]  at == dd.rehashidx
<1>1. /\ TwoTables(f, g, m, n, at) /\ Contents(dd) = KeysOf(f) \cup KeysOf(g)
      /\ Size(dd, 0) = Width(f) /\ Size(dd, 1) = Width(g)
      /\ StoredIn(dd, 0) = KeysOf(f) /\ StoredIn(dd, 1) = KeysOf(g)
      /\ m \in Nat /\ n \in Nat
  BY StoredIs, SoundHas DEF DictSound
<1>2. CASE t = 1
  <2> DEFINE h == Less(g, k)
  <2>1. Width(g) # 0 /\ k \in KeysOf(g)
    BY <1>1, <1>2, BucketIs DEF TwoTables
  <2>2. u = DictOf(f, h, m, n - 1, at)
    BY <1>1, <1>2, <2>1, PutIs
  <2> HIDE DEF f, g, m, n, at
  <2>3. /\ h \in AllTables /\ Placed(h) /\ Width(h) = Width(g) /\ KeysOf(h) = KeysOf(g) \ {k}
        /\ Cardinality(KeysOf(h)) = Cardinality(KeysOf(g)) - 1 /\ DOMAIN h = DOMAIN g
        /\ \A i \in DOMAIN g : h[i] = g[i] \ {k}
    BY <1>1, <2>1, LessIs DEF TwoTables
  <2> HIDE DEF h
  <2>4. TwoTables(f, h, m, n - 1, at)
    BY <1>1, <2>3 DEF TwoTables
  <2>5. DictSound(u) /\ Contents(u) = Contents(dd) \ {k}
    <3>1. k \notin KeysOf(f)
      BY <1>1, <2>1 DEF TwoTables
    <3> QED BY <1>1, <2>2, <2>3, <2>4, <3>1, DictOfSound
  <2>6. u.table[0] = f /\ u.table[1] = h /\ u.rehashidx = at
    BY <2>2 DEF DictOf
  <2>7. Keeps(dd, u, k)
    BY <2>3, <2>6 DEF Keeps, f, g, at
  <2> QED BY <2>5, <2>7
<1>3. CASE t = 0
  <2> DEFINE h == Less(f, k)
  <2>1. Width(f) # 0 /\ k \in KeysOf(f)
    BY <1>1, <1>3, BucketIs DEF TwoTables
  <2>2. u = DictOf(h, g, m - 1, n, at)
    BY <1>1, <1>3, <2>1, PutIs
  <2> HIDE DEF f, g, m, n, at
  <2>3. /\ h \in AllTables /\ Placed(h) /\ Width(h) = Width(f) /\ KeysOf(h) = KeysOf(f) \ {k}
        /\ Cardinality(KeysOf(h)) = Cardinality(KeysOf(f)) - 1 /\ DOMAIN h = DOMAIN f
        /\ \A i \in DOMAIN f : h[i] = f[i] \ {k}
    BY <1>1, <2>1, LessIs DEF TwoTables
  <2> HIDE DEF h
  <2>4. TwoTables(h, g, m - 1, n, at)
    BY <1>1, <2>3 DEF TwoTables
  <2>5. DictSound(u) /\ Contents(u) = Contents(dd) \ {k}
    <3>1. k \notin KeysOf(g)
      BY <1>1, <2>1 DEF TwoTables
    <3> QED BY <1>1, <2>2, <2>3, <2>4, <3>1, DictOfSound
  <2>6. u.table[0] = h /\ u.table[1] = g /\ u.rehashidx = at
    BY <2>2 DEF DictOf
  <2>7. Keeps(dd, u, k)
    BY <2>3, <2>6 DEF Keeps, f, g, at
  <2> QED BY <2>5, <2>7
<1> QED BY <1>2, <1>3

\* What happens to the bucket number of a key when a rehash starts.
LEMMA ResizedServes ==
    ASSUME NEW dd, DictSound(dd), NEW k \in DictKeys, NEW idx, Serves(dd, idx, k), NEW u, Resized(dd, u)
    PROVE  Serves(u, idx, k)
<1>1. idx \in Nat
  BY DEF Serves
<1>2. CASE u = dd
  BY <1>2
<1>3. CASE Replaced(dd, u)
  <2>1. u.rehashidx = -1
    BY <1>3 DEF Replaced, DictOf, dictIsRehashing
  <2>2. u.rehashidx <= 0
    BY <2>1
  <2> QED BY <1>1, <2>2 DEF Serves
<1>4. CASE Started(dd, u)
  <2>1. u.rehashidx = 0
    BY <1>4 DEF Started, DictOf
  <2>2. u.rehashidx <= 0
    BY <2>1
  <2> QED BY <1>1, <2>2 DEF Serves
<1> QED BY <1>2, <1>3, <1>4 DEF Resized

\* The dictionary after an insertion, before the key is linked.
LEMMA InsertIs ==
    ASSUME NEW dd, DictSound(dd), NEW k \in DictKeys, NEW v,
           v = dictExpandIfNeeded(dictRehashStepIfNeeded(dd, Slot(dd, 0, k)))
    PROVE  /\ DictSound(v) /\ Contents(v) = Contents(dd) /\ Size(v, 0) # 0
           /\ Finds(v, Slot(dd, 0, k), k) <=> k \in Contents(dd)
           /\ pauserehash # 0 => Resized(dd, v)
<1> DEFINE u == dictRehashStepIfNeeded(dd, Slot(dd, 0, k))
<1>1. Stepped(dd, u) /\ (pauserehash # 0 => u = dd)
  BY StepIfNeededSound
<1>2. v = dictExpandIfNeeded(u)
  OBVIOUS
<1> HIDE DEF u
<1>3. DictSound(u) /\ Contents(u) = Contents(dd)
  BY <1>1 DEF Stepped
<1>4. Resized(u, v) /\ Size(v, 0) # 0
  BY <1>2, <1>3, ExpandIs
<1>5. DictSound(v) /\ Contents(v) = Contents(dd)
  BY <1>3, <1>4, ResizedSound
<1>6. Serves(u, Slot(dd, 0, k), k)
  BY <1>1, SteppedServes
<1>7. Serves(v, Slot(dd, 0, k), k)
  BY <1>3, <1>4, <1>6, ResizedServes
<1>8. Finds(v, Slot(dd, 0, k), k) <=> k \in Contents(v)
  BY <1>5, <1>7, FindsIs
<1> QED BY <1>1, <1>4, <1>5, <1>8

\* The dictionary after a deletion.
LEMMA DeleteIs ==
    ASSUME NEW dd, DictSound(dd), NEW k \in Contents(dd), NEW u, u = dictRehashStepIfNeeded(dd, Slot(dd, 0, k)),
           NEW v, v = Unlink(u, Min({t \in Tables(u, Slot(dd, 0, k)) : k \in StoredIn(u, t)}), k)
    PROVE  /\ DictSound(v) /\ Contents(v) = Contents(dd) \ {k} /\ Keeps(u, v, k)
           /\ Resized(v, dictShrinkIfNeeded(v)) /\ DictSound(dictShrinkIfNeeded(v))
           /\ Contents(dictShrinkIfNeeded(v)) = Contents(dd) \ {k}
           /\ pauserehash # 0 => u = dd
<1> DEFINE idx == Slot(dd, 0, k)  G == {t \in Tables(u, idx) : k \in StoredIn(u, t)}
<1>0. k \in DictKeys
  BY SoundHas
<1>1. Stepped(dd, u) /\ (pauserehash # 0 => u = dd)
  BY <1>0, StepIfNeededSound
<1>2. DictSound(u) /\ Contents(u) = Contents(dd) /\ Serves(u, idx, k)
  BY <1>0, <1>1, SteppedServes DEF Stepped
<1>3. v = Unlink(u, Min(G), k)
  OBVIOUS
<1> HIDE DEF idx
<1>4. \A t \in {0, 1} : k \in StoredIn(u, t) => t \in Tables(u, idx)
  BY <1>0, <1>2, FindsIs
<1>5. G \subseteq {0, 1} /\ G # {} /\ \A t \in G : k \in StoredIn(u, t)
  BY <1>2, <1>4 DEF Tables, Contents
<1> HIDE DEF G
<1>6. Min(G) \in G
  <2>1. G \in SUBSET Nat /\ G \in SUBSET Int
    BY <1>5
  <2>2. PICK m \in G : \A x \in G : m <= x
    BY <1>5, <2>1, LeastElement
  <2>3. Min(G) = m
    BY <2>1, <2>2, LeastIs
  <2> QED BY <2>3
<1>7. DictSound(v) /\ Contents(v) = Contents(dd) \ {k} /\ Keeps(u, v, k)
  <2> DEFINE t == Min(G)
  <2>1. t \in {0, 1} /\ k \in StoredIn(u, t) /\ v = Unlink(u, t, k)
    BY <1>3, <1>5, <1>6
  <2> HIDE DEF t
  <2>2. DictSound(u) /\ Contents(u) = Contents(dd)
    BY <1>2
  <2>3. DictSound(v) /\ Contents(v) = Contents(u) \ {k} /\ Keeps(u, v, k)
    BY ONLY <1>0, <2>1, <2>2, UnlinkSound
  <2> QED BY <2>2, <2>3
<1>8. Resized(v, dictShrinkIfNeeded(v))
  BY <1>7, ShrinkIs
<1>9. DictSound(dictShrinkIfNeeded(v)) /\ Contents(dictShrinkIfNeeded(v)) = Contents(dd) \ {k}
  BY <1>7, <1>8, ResizedSound
<1> QED BY <1>1, <1>7, <1>8, <1>9

(***************************************************************************)
(* The calls of SCAN.                                                      *)
(***************************************************************************)
\* Where a key is in the order of the cursors.
KeyPos(k) == rev[Hash[k] % Pow2[CursorBits]]

\* A larger table has a larger exponent.
LEMMA PowersOrder ==
    ASSUME NEW a \in 0 .. CursorBits, NEW b \in 0 .. CursorBits, Pow2[a] <= Pow2[b]
    PROVE  b \in a .. CursorBits
<1> SUFFICES ASSUME ~(a <= b) PROVE FALSE
  BY Powers
<1>1. b + 1 \in 1 .. CursorBits /\ b + 1 \in 0 .. CursorBits /\ a \in b + 1 .. CursorBits
  BY Powers
<1>2. Pow2[b + 1] <= Pow2[a] /\ Pow2[b + 1] \in Nat /\ Pow2[a] \in Nat
  BY <1>1, PowersDivide
<1>3. Pow2[b + 1] = 2 * Pow2[b] /\ Pow2[b] \in Nat \ {0}
  <2>1. b + 1 - 1 = b
    OBVIOUS
  <2> QED BY <1>1, <2>1, Powers
<1> QED BY <1>2, <1>3

\* A key is in the bucket of a cursor if their positions are in one block.
LEMMA KeyBlock ==
    ASSUME NEW k \in DictKeys, NEW e \in 0 .. CursorBits
    PROVE  /\ KeyPos(k) \in Cursor
           /\ \A v \in Cursor : Hash[k] % Pow2[e] = v % Pow2[e] <=> Block(KeyPos(k), e) = Block(rev[v], e)
<1> DEFINE h == Hash[k]  N == Pow2[CursorBits]  P == Pow2[e]  M == Pow2[CursorBits - e]  y == h % N
<1>1. h \in Nat
  BY HashIs
<1>2. N = P * M /\ P \in Nat \ {0} /\ M \in Nat \ {0} /\ N \in Nat \ {0}
  <2>1. CursorBits \in 0 .. CursorBits /\ CursorBits \in e .. CursorBits /\ CursorBits - e \in 0 .. CursorBits
    BY Powers
  <2> QED BY <2>1, Powers, PowersDivide
<1>3. y \in Cursor /\ KeyPos(k) = rev[y]
  <2>1. KeyPos(k) = rev[y]
    BY DEF KeyPos
  <2>2. Cursor = 0 .. N - 1
    BY DEF Cursor
  <2> HIDE DEF h, N
  <2>3. h % N \in 0 .. N - 1
    BY <1>1, <1>2
  <2> QED BY <2>1, <2>2, <2>3
<1> HIDE DEF h, N, P, M
<1>4. Rest(Rest(h, N), P) = Rest(h, P)
  <2>1. N = Times(P, M)
    BY <1>2 DEF Times
  <2> QED BY ONLY <1>1, <1>2, <2>1, DivisionTwice
<1>5. h % P = y % P
  BY <1>4 DEF Rest
<1> HIDE DEF y
<1>6. ASSUME NEW v \in Cursor PROVE y % P = v % P <=> Block(rev[y], e) = Block(rev[v], e)
  BY <1>3, SameBucket DEF P, Block
<1>7. KeyPos(k) \in Cursor
  BY <1>3, RevType
<1> QED BY <1>3, <1>5, <1>6, <1>7 DEF h, P

\* The bucket of a cursor holds the keys of its block.
LEMMA KeyBucket ==
    ASSUME NEW f \in AllTables, Placed(f), NEW e \in 0 .. CursorBits, Width(f) = Pow2[e], NEW v \in Cursor
    PROVE  /\ v % Pow2[e] \in DOMAIN f /\ f[v % Pow2[e]] \subseteq KeysOf(f)
           /\ \A k \in KeysOf(f) : Block(KeyPos(k), e) = Block(rev[v], e) => k \in f[v % Pow2[e]]
<1> DEFINE P == Pow2[e]  b == v % P
<1>1. P \in Nat \ {0} /\ v \in Nat /\ DOMAIN f = 0 .. P - 1
  BY Powers, RevType, TableIs
<1>2. b \in DOMAIN f
  <2> HIDE DEF P
  <2> QED BY <1>1
<1> HIDE DEF P, b
<1>3. ASSUME NEW k \in KeysOf(f), Block(KeyPos(k), e) = Block(rev[v], e) PROVE k \in f[b]
  <2>1. k \in DictKeys
    BY TableIs
  <2>2. Hash[k] % P = b
    BY <1>3, <2>1, KeyBlock DEF P, b
  <2>3. BucketOf(f, k) = b
    BY <2>2 DEF BucketOf, P
  <2> QED BY <1>2, <2>1, <2>3, BucketIs
<1>4. f[b] \subseteq KeysOf(f)
  BY <1>2 DEF KeysOf
<1> QED BY <1>2, <1>3, <1>4 DEF P, b

\* What a call that returned these keys and this cursor has to have done.
Scanned(contents, v, keys, cursor) ==
  /\ cursor \in Cursor /\ keys \subseteq contents
  /\ cursor # 0 => rev[cursor] > rev[v]
  /\ \A k \in contents : KeyPos(k) >= rev[v] /\ (cursor = 0 \/ KeyPos(k) < rev[cursor]) => k \in keys

\* A call on one table.
LEMMA ScanOneIs ==
    ASSUME NEW f \in AllTables, Placed(f), NEW e \in 0 .. CursorBits, Width(f) = Pow2[e], NEW v \in Cursor
    PROVE  Scanned(KeysOf(f), v, f[v % Pow2[e]], NextCursor(v, Pow2[e]))
<1> DEFINE P == Pow2[e]  B == Pow2[CursorBits - e]  x == rev[v]  q == Block(x, e)  w == NextCursor(v, P)
<1>1. x \in Cursor /\ x \in Nat
  BY RevType
<1>2. /\ w \in Cursor
      /\ q + 1 < P => rev[w] = B * (q + 1) /\ w # 0
      /\ q + 1 = P => w = 0
  BY NextCursorIs
<1>3. q \in 0 .. P - 1 /\ x < B * (q + 1) /\ P \in Nat \ {0}
  BY <1>1, BlockIs, Powers
<1> HIDE DEF P, B, x, q, w
<1>4. q + 1 < P \/ q + 1 = P
  BY <1>3
<1>5. w # 0 => rev[w] > x
  BY <1>1, <1>2, <1>3, <1>4
<1>6. ASSUME NEW k \in KeysOf(f), KeyPos(k) >= x, w = 0 \/ KeyPos(k) < rev[w] PROVE k \in f[v % P]
  <2> DEFINE y == KeyPos(k)
  <2>1. y \in Cursor /\ y \in Nat
    <3>1. k \in DictKeys
      BY TableIs
    <3> QED BY <3>1, KeyBlock, RevType
  <2>2. x <= y /\ (q + 1 < P => y < B * (q + 1))
    <3> HIDE DEF y
    <3>1. x <= y
      BY <1>1, <1>6, <2>1 DEF y
    <3> QED BY <1>2, <1>6, <3>1 DEF y
  <2> HIDE DEF y
  <2>3. Block(y, e) = q
    BY <1>1, <2>1, <2>2, LaterBlock DEF P, B, q
  <2> QED BY <2>3, KeyBucket DEF P, y, q, x
<1>7. f[v % P] \subseteq KeysOf(f)
  BY KeyBucket DEF P
<1> QED BY <1>2, <1>5, <1>6, <1>7 DEF Scanned, P, x, w

\* A call during a rehash.
LEMMA ScanTwoIs ==
    ASSUME NEW f \in AllTables, Placed(f), NEW a \in 0 .. CursorBits, Width(f) = Pow2[a],
           NEW g \in AllTables, Placed(g), NEW b \in a .. CursorBits, Width(g) = Pow2[b],
           NEW v \in Cursor, NEW c, c = Cursors(v, Pow2[b]), NEW l, l = Left(v, a, b),
           NEW keys, keys = f[v % Pow2[a]] \cup Expansions(g, c, Pow2[b], l)
    PROVE  Scanned(KeysOf(f) \cup KeysOf(g), v, keys, c[l])
<1> DEFINE S == Pow2[b]  T == Pow2[a]  x == rev[v]  p == Block(x, b)  q == Block(x, a)
           M == Pow2[b - a]  D == Pow2[CursorBits - a]
<1>1. x \in Cursor /\ x \in Nat /\ b \in 0 .. CursorBits
  BY RevType, Powers
<1>2. l \in 1 .. S /\ p + l = M * (q + 1) /\ q + 1 <= T /\ p \in Nat /\ q \in Nat
  BY LeftIs
<1>3. /\ \A n \in 0 .. l - 1 : c[n] \in Cursor /\ Block(rev[c[n]], b) = p + n
      /\ c[l] \in Cursor
      /\ q + 1 < T => rev[c[l]] = D * (q + 1) /\ c[l] # 0
      /\ q + 1 = T => c[l] = 0
  BY WalkIs
<1>4. q \in 0 .. T - 1 /\ x < D * (q + 1) /\ T \in Nat \ {0} /\ S \in Nat \ {0}
  BY <1>1, BlockIs, Powers
<1> HIDE DEF S, T, x, p, q, M, D
<1>5. q + 1 < T \/ q + 1 = T
  BY <1>2, <1>4
<1>6. c[l] # 0 => rev[c[l]] > x
  BY <1>1, <1>3, <1>4, <1>5
\* The keys that the call has to return are in the block of the cursor.
<1>7. ASSUME NEW k \in DictKeys, KeyPos(k) >= x, c[l] = 0 \/ KeyPos(k) < rev[c[l]]
      PROVE  Block(KeyPos(k), a) = q /\ KeyPos(k) \in Cursor /\ p <= Block(KeyPos(k), b)
  <2> DEFINE y == KeyPos(k)
  <2>1. y \in Cursor /\ y \in Nat
    BY KeyBlock, RevType
  <2>2. x <= y /\ (q + 1 < T => y < D * (q + 1))
    <3> HIDE DEF y
    <3>1. x <= y
      BY <1>1, <1>7, <2>1 DEF y
    <3> QED BY <1>3, <1>7, <3>1 DEF y
  <2> HIDE DEF y
  <2>3. Block(y, a) = q
    BY <1>1, <2>1, <2>2, LaterBlock DEF T, D, q
  <2>4. p <= Block(y, b)
    BY <1>1, <2>1, <2>2, LaterBlock DEF p
  <2> QED BY <2>1, <2>3, <2>4 DEF y
<1>8. ASSUME NEW k \in KeysOf(f), KeyPos(k) >= x, c[l] = 0 \/ KeyPos(k) < rev[c[l]] PROVE k \in f[v % T]
  <2>1. k \in DictKeys
    BY TableIs
  <2>2. Block(KeyPos(k), a) = q
    BY <1>7, <1>8, <2>1
  <2> QED BY <2>2, KeyBucket DEF T, q, x
<1>9. ASSUME NEW k \in KeysOf(g), KeyPos(k) >= x, c[l] = 0 \/ KeyPos(k) < rev[c[l]]
      PROVE  \E n \in 0 .. l - 1 : k \in g[c[n] % S]
  <2> DEFINE y == KeyPos(k)  z == Block(y, b)  n == z - p
  <2>1. k \in DictKeys
    BY TableIs
  <2>2. Block(y, a) = q /\ y \in Cursor /\ p <= z
    BY <1>7, <1>9, <2>1
  <2>3. z \in Nat /\ z < M * (q + 1)
    <3> HIDE DEF y
    <3>1. /\ z \in Nat /\ M \in Nat \ {0} /\ Block(y, a) \in Nat
          /\ z = M * Block(y, a) + (z % M) /\ z % M \in 0 .. M - 1
      BY <2>2, BlocksNest DEF M
    <3> DEFINE r == z % M  w == M * q
    <3>2. z = w + r /\ r \in 0 .. M - 1 /\ w \in Nat /\ M * (q + 1) = w + M
      BY <1>2, <2>2, <3>1
    <3> HIDE DEF r, w, z
    <3> QED BY <3>1, <3>2
  <2> HIDE DEF y, z
  <2>4. n \in 0 .. l - 1 /\ p + n = z
    BY <1>2, <2>2, <2>3
  <2>5. c[n] \in Cursor /\ Block(rev[c[n]], b) = z
    BY <1>3, <2>4
  <2> DEFINE w == c[n]
  <2> HIDE DEF n
  <2>6. w \in Cursor /\ Block(KeyPos(k), b) = Block(rev[w], b)
    BY <2>5 DEF z, y
  <2> HIDE DEF w
  <2>7. k \in g[w % S]
    BY <1>1, <2>6, KeyBucket DEF S
  <2> QED BY <2>4, <2>7 DEF w
<1>10. keys \subseteq KeysOf(f) \cup KeysOf(g)
  <2>1. f[v % T] \subseteq KeysOf(f)
    BY KeyBucket DEF T
  <2>2. ASSUME NEW n \in 0 .. l - 1 PROVE g[c[n] % S] \subseteq KeysOf(g)
    <3> DEFINE w == c[n]
    <3>1. w \in Cursor
      BY <1>3
    <3> HIDE DEF w
    <3>2. g[w % S] \subseteq KeysOf(g)
      BY <1>1, <3>1, KeyBucket DEF S
    <3> QED BY <3>2 DEF w
  <2> QED BY <2>1, <2>2 DEF S, T, Expansions
<1>11. \A k \in KeysOf(f) \cup KeysOf(g) : KeyPos(k) >= x /\ (c[l] = 0 \/ KeyPos(k) < rev[c[l]]) => k \in keys
  BY <1>8, <1>9 DEF S, T, Expansions
<1> QED BY <1>3, <1>6, <1>10, <1>11 DEF Scanned, x

\* A call of SCAN on a dictionary that is sound.
LEMMA ScanIs ==
    ASSUME NEW dd, DictSound(dd), NEW v \in Cursor, NEW r, r = dictScan(dd, v)
    PROVE  Scanned(Contents(dd), v, r.keys, r.cursor)
<1> DEFINE f == dd.table[0]  g == dd.table[1]
<1>1. /\ f \in AllTables /\ g \in AllTables /\ Placed(f) /\ Placed(g)
      /\ Contents(dd) = KeysOf(f) \cup KeysOf(g) /\ Size(dd, 0) = Width(f) /\ Size(dd, 1) = Width(g)
      /\ Width(f) \in Sizes /\ Width(g) \in Sizes /\ Width(f) \in Nat /\ Width(g) \in Nat
      /\ DOMAIN f = 0 .. Width(f) - 1 /\ DOMAIN g = 0 .. Width(g) - 1
      /\ (dictIsRehashing(dd) <=> Width(g) # 0) /\ (dictIsRehashing(dd) => Width(f) # 0)
      /\ dd.used[0] \in Nat /\ dd.used[1] \in Nat
      /\ (dd.used[0] = 0 <=> KeysOf(f) = {}) /\ (dd.used[1] = 0 <=> KeysOf(g) = {})
  <2>1. /\ f \in AllTables /\ g \in AllTables /\ Placed(f) /\ Placed(g)
        /\ Size(dd, 0) \in Sizes /\ Size(dd, 1) \in Sizes /\ Size(dd, 0) \in Nat /\ Size(dd, 1) \in Nat
    BY ONLY DictSound(dd), SoundHas
  <2>2. /\ DOMAIN f = 0 .. Size(dd, 0) - 1 /\ DOMAIN g = 0 .. Size(dd, 1) - 1
        /\ (dictIsRehashing(dd) <=> Size(dd, 1) # 0) /\ (dictIsRehashing(dd) => Size(dd, 0) # 0)
    BY ONLY DictSound(dd), SoundHas
  <2>3. /\ dd.used[0] \in Nat /\ dd.used[1] \in Nat
        /\ (dd.used[0] = 0 <=> KeysOf(f) = {}) /\ (dd.used[1] = 0 <=> KeysOf(g) = {})
    BY ONLY DictSound(dd), SoundHas
  <2>4. Contents(dd) = KeysOf(f) \cup KeysOf(g) /\ Size(dd, 0) = Width(f) /\ Size(dd, 1) = Width(g)
    BY ONLY StoredIs
  <2> QED BY ONLY <2>1, <2>2, <2>3, <2>4
<1>2. CASE dictSize(dd) = 0
  <2>1. Contents(dd) = {}
    BY <1>1, <1>2 DEF dictSize
  <2>2. r.cursor = 0 /\ r.keys = {}
    BY <1>2 DEF dictScan
  <2>3. 0 \in Cursor
    BY RevZero
  <2> QED BY <2>1, <2>2, <2>3 DEF Scanned
<1>3. CASE dictSize(dd) # 0 /\ ~dictIsRehashing(dd)
  <2>1. r.cursor = NextCursor(v, Size(dd, 0)) /\ r.keys = f[v % Size(dd, 0)]
    BY <1>3 DEF dictScan, ScanOne
  <2> HIDE DEF f, g
  <2>2. KeysOf(g) = {} /\ Width(f) # 0
    <3>1. DOMAIN g = {}
      BY <1>1, <1>3
    <3>2. KeysOf(g) = {}
      BY <3>1 DEF KeysOf
    <3>3. KeysOf(f) # {}
      BY <1>1, <1>3, <3>2 DEF dictSize
    <3>4. DOMAIN f # {}
      BY <3>3 DEF KeysOf
    <3> QED BY <1>1, <3>2, <3>4
  <2>3. PICK e \in 0 .. CursorBits : Width(f) = Pow2[e]
    BY <1>1, <2>2, SizesAre
  <2>4. Scanned(KeysOf(f), v, f[v % Pow2[e]], NextCursor(v, Pow2[e]))
    BY <1>1, <2>3, ScanOneIs
  <2>5. Contents(dd) = KeysOf(f)
    BY <1>1, <2>2
  <2> QED BY <1>1, <2>1, <2>3, <2>4, <2>5
<1>4. CASE dictSize(dd) # 0 /\ dictIsRehashing(dd)
  <2>1. r = ScanTwo(dd, v)
    BY <1>4 DEF dictScan
  <2>2. PICK a \in 0 .. CursorBits, b \in 0 .. CursorBits : Width(f) = Pow2[a] /\ Width(g) = Pow2[b]
    BY <1>1, <1>4, SizesAre
  <2>3. Pow2[a] \in Nat /\ Pow2[b] \in Nat
    BY Powers
  <2>4. CASE ~(Pow2[a] > Pow2[b])
    <3>1. b \in a .. CursorBits
      BY <2>3, <2>4, PowersOrder
    <3> DEFINE z == Pow2[a]  w == Pow2[b]  c == Cursors(v, w)  l == Left(v, a, b)
               keys == f[v % z] \cup Expansions(g, c, w, l)
    <3>2. WalkEnd(c, z, w) = l
      BY <3>1, WalkIs DEF WalkEnd
    <3>3. Size(dd, 0) = z /\ Size(dd, 1) = w
      BY <1>1, <2>2
    <3>4. ~(z > w)
      BY <2>4
    <3> HIDE DEF z, w
    <3>5. r.cursor = c[WalkEnd(c, z, w)] /\ r.keys = f[v % z] \cup Expansions(g, c, w, WalkEnd(c, z, w))
      BY <2>1, <3>3, <3>4 DEF ScanTwo
    <3>6. r.cursor = c[l] /\ r.keys = keys
      BY <3>2, <3>5
    <3>7. c = Cursors(v, Pow2[b]) /\ l = Left(v, a, b) /\ keys = f[v % Pow2[a]] \cup Expansions(g, c, Pow2[b], l)
      BY DEF z, w
    <3> HIDE DEF c, l, keys, f, g
    <3>8. Scanned(KeysOf(f) \cup KeysOf(g), v, keys, c[l])
      BY ONLY <1>1, <2>2, <3>1, <3>7, v \in Cursor, ScanTwoIs
    <3>9. KeysOf(f) \cup KeysOf(g) = Contents(dd)
      BY <1>1
    <3> QED BY <3>6, <3>8, <3>9
  <2>5. CASE Pow2[a] > Pow2[b]
    <3>1. a \in b .. CursorBits
      BY <2>3, <2>5, PowersOrder
    <3> DEFINE z == Pow2[b]  w == Pow2[a]  c == Cursors(v, w)  l == Left(v, b, a)
               keys == g[v % z] \cup Expansions(f, c, w, l)
    <3>2. WalkEnd(c, z, w) = l
      BY <3>1, WalkIs DEF WalkEnd
    <3>3. Size(dd, 1) = z /\ Size(dd, 0) = w
      BY <1>1, <2>2
    <3>4. w > z
      BY <2>5
    <3> HIDE DEF z, w
    <3>5. r.cursor = c[WalkEnd(c, z, w)] /\ r.keys = g[v % z] \cup Expansions(f, c, w, WalkEnd(c, z, w))
      BY <2>1, <3>3, <3>4 DEF ScanTwo
    <3>6. r.cursor = c[l] /\ r.keys = keys
      BY <3>2, <3>5
    <3>7. c = Cursors(v, Pow2[a]) /\ l = Left(v, b, a) /\ keys = g[v % Pow2[b]] \cup Expansions(f, c, Pow2[a], l)
      BY DEF z, w
    <3> HIDE DEF c, l, keys, f, g
    <3>8. Scanned(KeysOf(g) \cup KeysOf(f), v, keys, c[l])
      BY ONLY <1>1, <2>2, <3>1, <3>7, v \in Cursor, ScanTwoIs
    <3>9. KeysOf(g) \cup KeysOf(f) = Contents(dd)
      BY <1>1
    <3> QED BY <3>6, <3>8, <3>9
  <2> QED BY <2>4, <2>5
<1> QED BY <1>2, <1>3, <1>4

(***************************************************************************)
(* The safe iterator.                                                      *)
(***************************************************************************)
\* A key that the iterator is still to return, and one that it has passed.
Ahead(dd, t, i, chain, k) ==
  \/ k \in chain
  \/ \E j \in DOMAIN dd.table[t] : j > i /\ k \in dd.table[t][j]
  \/ t = 0 /\ k \in KeysOf(dd.table[1])
Behind(dd, t, i, chain, k) ==
  /\ k \notin chain
  /\ \/ t = 1 /\ k \in KeysOf(dd.table[0])
     \/ \E j \in DOMAIN dd.table[t] : j <= i /\ k \in dd.table[t][j]

\* An iterator in bucket i of table t.
IterSound(dd, t, i, chain, due, done) ==
  /\ t \in {0, 1} /\ i \in Int
  /\ t = 1 => dictIsRehashing(dd)
  /\ \A k \in chain : i \in DOMAIN dd.table[t] /\ k \in dd.table[t][i]
  /\ \A k \in due : Ahead(dd, t, i, chain, k)
  /\ \A k \in done : Behind(dd, t, i, chain, k)

\* The keys of an iterator are stored.
LEMMA IterHolds ==
    ASSUME NEW dd, DictSound(dd), NEW t, NEW i, NEW chain, NEW due, NEW done, IterSound(dd, t, i, chain, due, done)
    PROVE  chain \subseteq Contents(dd) /\ due \subseteq Contents(dd) /\ done \subseteq Contents(dd)
<1>1. t \in {0, 1} /\ Contents(dd) = KeysOf(dd.table[0]) \cup KeysOf(dd.table[1])
  BY StoredIs DEF IterSound
<1>2. \A j \in DOMAIN dd.table[t] : dd.table[t][j] \subseteq Contents(dd)
  BY <1>1 DEF KeysOf
<1>3. chain \subseteq Contents(dd)
  BY <1>2 DEF IterSound
<1>4. due \subseteq Contents(dd)
  BY <1>1, <1>2, <1>3 DEF IterSound, Ahead
<1>5. done \subseteq Contents(dd)
  BY <1>1, <1>2 DEF IterSound, Behind
<1> QED BY <1>3, <1>4, <1>5

\* A resize while the iterator is open.
LEMMA IterResized ==
    ASSUME NEW dd, DictSound(dd), NEW t, NEW i, NEW chain, NEW due, NEW done, IterSound(dd, t, i, chain, due, done),
           NEW u, Resized(dd, u)
    PROVE  IterSound(u, t, i, chain, due, done)
<1>1. CASE u = dd
  BY <1>1
<1>2. CASE Replaced(dd, u)
  <2>1. ~dictIsRehashing(dd) /\ dd.used[0] = 0
    BY <1>2 DEF Replaced
  <2>2. Contents(dd) = {}
    <3>1. KeysOf(dd.table[0]) = {} /\ DOMAIN dd.table[1] = {}
      <4>1. dd.used[0] = 0 <=> KeysOf(dd.table[0]) = {}
        BY ONLY DictSound(dd), SoundHas
      <4>2. DOMAIN dd.table[1] = 0 .. Size(dd, 1) - 1 /\ (dictIsRehashing(dd) <=> Size(dd, 1) # 0)
        BY ONLY DictSound(dd), SoundHas
      <4> QED BY ONLY <2>1, <4>1, <4>2
    <3>2. KeysOf(dd.table[1]) = {}
      BY <3>1 DEF KeysOf
    <3> QED BY <3>1, <3>2, StoredIs
  <2>3. chain = {} /\ due = {} /\ done = {}
    BY <2>2, IterHolds
  <2>4. t \in {0, 1} /\ i \in Int /\ t # 1
    BY <2>1 DEF IterSound
  <2> QED BY <2>3, <2>4 DEF IterSound
<1>3. CASE Started(dd, u)
  <2>1. ~dictIsRehashing(dd) /\ u.table[0] = dd.table[0]
    BY <1>3 DEF Started, DictOf
  <2>2. t = 0 /\ i \in Int
    BY <2>1 DEF IterSound
  <2>3. KeysOf(dd.table[1]) = {}
    <3>1. DOMAIN dd.table[1] = {}
      BY <2>1, SoundHas
    <3> QED BY <3>1 DEF KeysOf
  <2>4. \A k : Ahead(dd, t, i, chain, k) => Ahead(u, t, i, chain, k)
    BY <2>1, <2>2, <2>3 DEF Ahead
  <2>5. \A k : Behind(dd, t, i, chain, k) => Behind(u, t, i, chain, k)
    BY <2>1, <2>2, <2>3 DEF Behind
  <2> QED BY <2>1, <2>2, <2>4, <2>5 DEF IterSound
<1> QED BY <1>1, <1>2, <1>3 DEF Resized

\* An insertion, or the deletion of a key that the iterator does not point to.
LEMMA IterKept ==
    ASSUME NEW dd, DictSound(dd), NEW t, NEW i, NEW chain, NEW due, NEW done, IterSound(dd, t, i, chain, due, done),
           NEW u, NEW k, Keeps(dd, u, k), k \notin chain
    PROVE  IterSound(u, t, i, chain, due \ {k}, done \ {k})
<1>1. t \in {0, 1} /\ i \in Int /\ (t = 1 => dictIsRehashing(dd))
  BY DEF IterSound
<1>2. dictIsRehashing(u) <=> dictIsRehashing(dd)
  BY DEF Keeps, dictIsRehashing
<1>3. DOMAIN u.table[t] = DOMAIN dd.table[t] /\ \A j \in DOMAIN dd.table[t] : dd.table[t][j] \ {k} \subseteq u.table[t][j]
  BY <1>1 DEF Keeps
<1>4. KeysOf(dd.table[0]) \ {k} \subseteq KeysOf(u.table[0]) /\ KeysOf(dd.table[1]) \ {k} \subseteq KeysOf(u.table[1])
  BY DEF Keeps, KeysOf
<1>5. \A x : x # k /\ Ahead(dd, t, i, chain, x) => Ahead(u, t, i, chain, x)
  BY <1>3, <1>4 DEF Ahead
<1>6. \A x : x # k /\ Behind(dd, t, i, chain, x) => Behind(u, t, i, chain, x)
  BY <1>3, <1>4 DEF Behind
<1>7. \A x \in chain : i \in DOMAIN u.table[t] /\ x \in u.table[t][i]
  BY <1>3 DEF IterSound
<1> QED BY <1>1, <1>2, <1>5, <1>6, <1>7 DEF IterSound

\* A key has one place.
LEMMA OnePlace ==
    ASSUME NEW dd, DictSound(dd), NEW k, NEW t \in {0, 1}, NEW i \in DOMAIN dd.table[t], k \in dd.table[t][i]
    PROVE  /\ \A j \in DOMAIN dd.table[t] : k \in dd.table[t][j] => j = i
           /\ k \notin KeysOf(dd.table[1 - t])
           /\ i \in Nat /\ k \in KeysOf(dd.table[t]) /\ k \in Contents(dd)
<1>1. /\ Placed(dd.table[0]) /\ Placed(dd.table[1]) /\ KeysOf(dd.table[0]) \cap KeysOf(dd.table[1]) = {}
      /\ DOMAIN dd.table[0] = 0 .. Size(dd, 0) - 1 /\ DOMAIN dd.table[1] = 0 .. Size(dd, 1) - 1
      /\ Size(dd, 0) \in Nat /\ Size(dd, 1) \in Nat /\ Contents(dd) = KeysOf(dd.table[0]) \cup KeysOf(dd.table[1])
  BY SoundHas, StoredIs
<1>2. \A j \in DOMAIN dd.table[t] : k \in dd.table[t][j] => j = i
  BY <1>1 DEF Placed
<1>3. k \in KeysOf(dd.table[t])
  BY DEF KeysOf
<1>4. k \notin KeysOf(dd.table[1 - t])
  <2>1. CASE t = 0
    BY <1>1, <1>3, <2>1
  <2>2. CASE t = 1
    BY <1>1, <1>3, <2>2
  <2> QED BY <2>1, <2>2
<1>5. i \in Nat /\ k \in Contents(dd)
  BY <1>1, <1>3
<1> QED BY <1>2, <1>3, <1>4, <1>5

\* No key is ahead and behind.
LEMMA NotBoth ==
    ASSUME NEW dd, DictSound(dd), NEW t \in {0, 1}, NEW i \in Int, NEW chain, NEW k, Ahead(dd, t, i, chain, k)
    PROVE  ~Behind(dd, t, i, chain, k)
<1> SUFFICES ASSUME Behind(dd, t, i, chain, k), k \notin chain PROVE FALSE
  BY DEF Behind
<1>1. CASE \E j \in DOMAIN dd.table[t] : j > i /\ k \in dd.table[t][j]
  <2>1. PICK j \in DOMAIN dd.table[t] : j > i /\ k \in dd.table[t][j]
    BY <1>1
  <2>2. \A x \in DOMAIN dd.table[t] : k \in dd.table[t][x] => x = j
    BY <2>1, OnePlace
  <2>3. k \notin KeysOf(dd.table[1 - t]) /\ j \in Nat
    BY <2>1, OnePlace
  <2>4. ~(t = 1 /\ k \in KeysOf(dd.table[0]))
    BY <2>3
  <2> QED BY <2>1, <2>2, <2>3, <2>4 DEF Behind
<1>2. CASE t = 0 /\ k \in KeysOf(dd.table[1])
  <2>1. KeysOf(dd.table[0]) \cap KeysOf(dd.table[1]) = {}
    BY SoundHas
  <2>2. k \notin KeysOf(dd.table[0])
    BY <1>2, <2>1
  <2> QED BY <1>2, <2>2 DEF Behind, KeysOf
<1> QED BY <1>1, <1>2 DEF Ahead

\* The user is given a key of the chain.
LEMMA IterTake ==
    ASSUME NEW dd, DictSound(dd), NEW t, NEW i, NEW chain, NEW due, NEW done, IterSound(dd, t, i, chain, due, done),
           NEW k \in chain
    PROVE  IterSound(dd, t, i, chain \ {k}, due \ {k}, done \cup {k}) /\ k \notin done
<1>1. t \in {0, 1} /\ i \in Int /\ (t = 1 => dictIsRehashing(dd)) /\ i \in DOMAIN dd.table[t] /\ k \in dd.table[t][i]
  BY DEF IterSound
<1>2. \A x : x # k /\ Ahead(dd, t, i, chain, x) => Ahead(dd, t, i, chain \ {k}, x)
  BY DEF Ahead
<1>3. \A x : Behind(dd, t, i, chain, x) => Behind(dd, t, i, chain \ {k}, x) /\ x # k
  BY DEF Behind
<1>4. Behind(dd, t, i, chain \ {k}, k)
  BY <1>1 DEF Behind
<1> QED BY <1>1, <1>2, <1>3, <1>4 DEF IterSound

\* Where dictNext goes on, and whom it still owes.
IterDue == IF iter.on THEN iter.owed ELSE Contents(dict)
IterDone == IF iter.on THEN iter.returned ELSE {}
IterOpen ==
  /\ iter.on \in BOOLEAN
  /\ iter.on => IterSound(dict, iter.table, iter.index, iter.chain, iter.owed, iter.returned)
  /\ ~iter.on => iter = NoIter

After == IF ~iter.on /\ dictIsRehashing(dict) THEN dict.rehashidx - 1 ELSE iter.index

\* The place it goes on from has all that is due ahead of it.
LEMMA AfterIs ==
    ASSUME DictSound(dict), IterOpen
    PROVE  /\ iter.table \in {0, 1} /\ After \in Int
           /\ iter.table = 1 => dictIsRehashing(dict)
           /\ \A k \in IterDue : Ahead(dict, iter.table, After, iter.chain, k)
           /\ \A k \in IterDone : Behind(dict, iter.table, After, iter.chain, k)
           /\ iter.chain # {} => IterSound(dict, iter.table, iter.index, iter.chain, IterDue, IterDone)
<1>1. CASE iter.on
  <2>1. After = iter.index /\ IterDue = iter.owed /\ IterDone = iter.returned
    BY <1>1 DEF After, IterDue, IterDone
  <2> QED BY <1>1, <2>1 DEF IterOpen, IterSound
<1>2. CASE ~iter.on
  <2>1. /\ iter.table = 0 /\ iter.chain = {} /\ iter.index = -1 /\ IterDone = {} /\ IterDue = Contents(dict)
        /\ After = IF dictIsRehashing(dict) THEN dict.rehashidx - 1 ELSE -1
    BY <1>2 DEF IterOpen, NoIter, IterDue, IterDone, After
  <2>2. /\ dict.rehashidx \in Int /\ DOMAIN dict.table[0] = 0 .. Size(dict, 0) - 1 /\ Size(dict, 0) \in Nat
        /\ \A j \in DOMAIN dict.table[0] : j < dict.rehashidx => dict.table[0][j] = {}
        /\ Contents(dict) = KeysOf(dict.table[0]) \cup KeysOf(dict.table[1])
    BY SoundHas, StoredIs
  <2>3. After \in Int
    BY <2>1, <2>2
  <2>4. ASSUME NEW k \in KeysOf(dict.table[0]) PROVE \E j \in DOMAIN dict.table[0] : j > After /\ k \in dict.table[0][j]
    <3>1. PICK j \in DOMAIN dict.table[0] : k \in dict.table[0][j]
      BY DEF KeysOf
    <3>2. ~(j < dict.rehashidx) /\ j \in Nat
      BY <2>2, <3>1
    <3>3. j > After
      BY <2>1, <2>2, <3>2
    <3> QED BY <3>1, <3>3
  <2>5. \A k \in IterDue : Ahead(dict, iter.table, After, iter.chain, k)
    BY <2>1, <2>2, <2>4 DEF Ahead
  <2> QED BY <2>1, <2>3, <2>5
<1> QED BY <1>1, <1>2 DEF IterOpen

\* The least of a set of filled buckets.
LEMMA LeastFilled ==
    ASSUME DictSound(dict), NEW t \in {0, 1}, NEW a, NEW G, G = Filled(t, a), G # {}
    PROVE  /\ Min(G) \in DOMAIN dict.table[t] /\ Min(G) \in Int /\ Min(G) > a /\ dict.table[t][Min(G)] # {}
           /\ \A k : \A j \in DOMAIN dict.table[t] : j > a /\ k \in dict.table[t][j] =>
                k \in dict.table[t][Min(G)] \/ j > Min(G)
<1>1. G \in SUBSET Nat /\ G \in SUBSET Int
  <2>1. DOMAIN dict.table[t] \subseteq Nat
    BY SoundHas
  <2> QED BY <2>1 DEF Filled
<1>2. PICK m \in G : \A x \in G : m <= x
  BY <1>1, LeastElement
<1>3. Min(G) = m
  BY <1>1, <1>2, LeastIs
<1>4. m \in DOMAIN dict.table[t] /\ m > a /\ dict.table[t][m] # {}
  BY DEF Filled
<1>5. ASSUME NEW k, NEW j \in DOMAIN dict.table[t], j > a, k \in dict.table[t][j]
      PROVE  k \in dict.table[t][m] \/ j > m
  <2>1. j \in G
    BY <1>5 DEF Filled
  <2>2. m <= j /\ m \in Int /\ j \in Int
    BY <1>1, <1>2, <2>1
  <2> QED BY <1>5, <2>2
<1> QED BY <1>1, <1>3, <1>4, <1>5

\* The next place too, and without a next entry none is due.
LEMMA NextEntryIs ==
    ASSUME DictSound(dict), IterOpen, NEW e, e = dictNextEntry
    PROVE  /\ e.chain # {} => IterSound(dict, e.table, e.index, e.chain, IterDue, IterDone)
           /\ e.chain = {} => IterDue = {}
<1> DEFINE T == iter.table  a == After  due == IterDue  done == IterDone
           here == Filled(T, a)
           there == IF dictIsRehashing(dict) /\ T = 0 THEN Filled(1, -1) ELSE {}
<1>1. /\ T \in {0, 1} /\ a \in Int /\ (T = 1 => dictIsRehashing(dict))
      /\ \A k \in due : Ahead(dict, T, a, iter.chain, k)
      /\ \A k \in done : Behind(dict, T, a, iter.chain, k)
  BY AfterIs
<1>2. e = IF iter.chain # {} THEN [table |-> T, index |-> iter.index, chain |-> iter.chain]
          ELSE IF here # {} THEN [table |-> T, index |-> Min(here), chain |-> dict.table[T][Min(here)]]
          ELSE IF there # {} THEN [table |-> 1, index |-> Min(there), chain |-> dict.table[1][Min(there)]]
          ELSE [table |-> 1, index |-> Size(dict, 1), chain |-> {}]
  BY DEF dictNextEntry, After
<1>3. there # {} => dictIsRehashing(dict) /\ T = 0 /\ there = Filled(1, -1)
  OBVIOUS
<1>4. dictIsRehashing(dict) /\ T = 0 => there = Filled(1, -1)
  OBVIOUS
<1>5. here = Filled(T, a)
  OBVIOUS
<1> HIDE DEF a, due, done, here, there
<1>6. CASE iter.chain # {}
  <2>1. e.table = T /\ e.index = iter.index /\ e.chain = iter.chain
    BY <1>2, <1>6
  <2>2. IterSound(dict, T, iter.index, iter.chain, due, done)
    BY <1>6, AfterIs DEF due, done
  <2> QED BY <1>6, <2>1, <2>2 DEF due, done
<1>7. CASE iter.chain = {} /\ here # {}
  <2> DEFINE m == Min(here)  c == dict.table[T][m]
  <2>1. e.table = T /\ e.index = m /\ e.chain = c
    BY <1>2, <1>7
  <2>2. /\ m \in DOMAIN dict.table[T] /\ m \in Int /\ m > a /\ c # {}
        /\ \A k : \A j \in DOMAIN dict.table[T] : j > a /\ k \in dict.table[T][j] => k \in c \/ j > m
    BY <1>1, <1>5, <1>7, LeastFilled
  <2> HIDE DEF m
  <2>3. \A k \in due : Ahead(dict, T, m, c, k)
    BY <1>1, <1>7, <2>2 DEF Ahead
  <2>4. ASSUME NEW k \in done PROVE Behind(dict, T, m, c, k)
    <3>1. Behind(dict, T, a, {}, k)
      BY <1>1, <1>7
    <3>2. k \notin c
      <4> SUFFICES ASSUME k \in c PROVE FALSE
        OBVIOUS
      <4>1. Ahead(dict, T, a, {}, k)
        BY <2>2 DEF Ahead
      <4> QED BY <1>1, <3>1, <4>1, NotBoth
    <3>3. \A j \in DOMAIN dict.table[T] : j <= a => j <= m
      <4>1. DOMAIN dict.table[T] \subseteq Nat
        BY <1>1, SoundHas
      <4> QED BY <1>1, <2>2, <4>1
    <3> QED BY <3>1, <3>2, <3>3 DEF Behind
  <2>5. IterSound(dict, T, m, c, due, done)
    BY <1>1, <2>2, <2>3, <2>4 DEF IterSound
  <2> QED BY <2>1, <2>2, <2>5 DEF due, done
<1>8. CASE iter.chain = {} /\ here = {} /\ there # {}
  <2> DEFINE m == Min(there)  c == dict.table[1][m]
  <2>1. e.table = 1 /\ e.index = m /\ e.chain = c /\ T = 0 /\ dictIsRehashing(dict)
    BY <1>2, <1>3, <1>8
  <2>2. /\ m \in DOMAIN dict.table[1] /\ m \in Int /\ m > -1 /\ c # {}
        /\ \A k : \A j \in DOMAIN dict.table[1] : j > -1 /\ k \in dict.table[1][j] => k \in c \/ j > m
    BY <1>3, <1>8, LeastFilled
  <2> HIDE DEF m
  <2>3. DOMAIN dict.table[0] \subseteq Nat /\ DOMAIN dict.table[1] \subseteq Nat
        /\ KeysOf(dict.table[0]) \cap KeysOf(dict.table[1]) = {}
    <3>1. /\ DOMAIN dict.table[0] = 0 .. Size(dict, 0) - 1 /\ DOMAIN dict.table[1] = 0 .. Size(dict, 1) - 1
          /\ KeysOf(dict.table[0]) \cap KeysOf(dict.table[1]) = {}
      BY ONLY DictSound(dict), SoundHas
    <3> QED BY ONLY <3>1
  <2>4. ASSUME NEW k \in due PROVE Ahead(dict, 1, m, c, k)
    <3>1. Ahead(dict, 0, a, {}, k)
      BY <1>1, <1>8, <2>1
    <3>2. \A j \in DOMAIN dict.table[0] : ~(j > a /\ k \in dict.table[0][j])
      BY <1>5, <1>8, <2>1 DEF Filled
    <3>3. k \in KeysOf(dict.table[1])
      BY <3>1, <3>2 DEF Ahead
    <3>4. PICK j \in DOMAIN dict.table[1] : k \in dict.table[1][j]
      BY <3>3 DEF KeysOf
    <3>5. j > -1
      BY <2>3
    <3> QED BY <2>2, <3>4, <3>5 DEF Ahead
  <2>5. ASSUME NEW k \in done PROVE Behind(dict, 1, m, c, k)
    <3>1. k \in KeysOf(dict.table[0])
      BY <1>1, <1>8, <2>1 DEF Behind, KeysOf
    <3>2. k \notin c
      BY <2>2, <2>3, <3>1 DEF KeysOf
    <3> QED BY <3>1, <3>2 DEF Behind
  <2>6. IterSound(dict, 1, m, c, due, done)
    BY <2>1, <2>2, <2>4, <2>5 DEF IterSound
  <2> QED BY <2>1, <2>2, <2>6 DEF due, done
<1>9. CASE iter.chain = {} /\ here = {} /\ there = {}
  <2>1. e.chain = {}
    BY <1>2, <1>9
  <2>2. ASSUME NEW k \in due PROVE FALSE
    <3>1. Ahead(dict, T, a, {}, k)
      BY <1>1, <1>9
    <3>2. \A j \in DOMAIN dict.table[T] : ~(j > a /\ k \in dict.table[T][j])
      BY <1>5, <1>9 DEF Filled
    <3>3. T = 0 /\ k \in KeysOf(dict.table[1])
      BY <3>1, <3>2 DEF Ahead
    <3>4. PICK j \in DOMAIN dict.table[1] : k \in dict.table[1][j]
      BY <3>3 DEF KeysOf
    <3>5. DOMAIN dict.table[1] = 0 .. Size(dict, 1) - 1 /\ Size(dict, 1) \in Nat /\ (dictIsRehashing(dict) <=> Size(dict, 1) # 0)
      BY SoundHas
    <3>6. j > -1 /\ dictIsRehashing(dict)
      BY <3>4, <3>5
    <3>7. j \in Filled(1, -1)
      BY <3>4, <3>6 DEF Filled
    <3> QED BY <1>4, <1>9, <3>3, <3>6, <3>7
  <2> QED BY <2>1, <2>2 DEF due
<1> QED BY <1>6, <1>7, <1>8, <1>9

(***************************************************************************)
(* The inductive invariant.                                                *)
(***************************************************************************)
\* The keys that a SCAN still owes are ahead of its cursor.
ScanTracks(contents, on, cursor, due) ==
  /\ on \in BOOLEAN /\ cursor \in Cursor /\ due \subseteq contents
  /\ on <=> cursor # 0
  /\ ~on => due = {}
  /\ \A k \in due : KeyPos(k) >= rev[cursor]

IterType == [on : BOOLEAN, table : {0, 1}, index : Int, chain : SUBSET DictKeys,
             owed : SUBSET DictKeys, returned : SUBSET DictKeys]
ScanType == [on : BOOLEAN, cursor : Cursor, owed : SUBSET DictKeys]

DictIInv ==
  /\ DictSound(dict)
  /\ policy \in {"ENABLE", "AVOID", "FORBID"}
  /\ pauserehash = IF iter.on THEN 1 ELSE 0
  /\ iter \in IterType /\ IterOpen
  /\ scan \in ScanType /\ ScanTracks(Contents(dict), scan.on, scan.cursor, scan.owed)

DictNext == Operations \/ ScanCall \/ Iterate

\* What a step that changes the tables alone has to keep.
LEMMA TablesMove ==
    ASSUME DictIInv, DictSound(dict'), Contents(dict) \subseteq Contents(dict'),
           iter.on => IterSound(dict', iter.table, iter.index, iter.chain, iter.owed, iter.returned),
           UNCHANGED <<pauserehash, policy, scan, iter>>
    PROVE  DictIInv'
<1>1. DictSound(dict)'
  OBVIOUS
<1>2. IterOpen'
  BY DEF IterOpen, DictIInv
<1>3. ScanTracks(Contents(dict'), scan.on, scan.cursor, scan.owed)
  BY DEF ScanTracks, DictIInv
<1>4. ScanTracks(Contents(dict), scan.on, scan.cursor, scan.owed)'
  BY <1>3
<1> QED BY <1>1, <1>2, <1>4 DEF DictIInv

\* The invariant holds at first.
LEMMA InitDict == DictInit => DictIInv
<1> SUFFICES ASSUME DictInit PROVE DictIInv
  OBVIOUS
<1> DEFINE U == Unallocated
<1>1. dict = DictOf(U, U, 0, 0, -1)
  BY DEF DictInit, DictOf
<1>2. U \in AllTables /\ Width(U) = 0 /\ KeysOf(U) = {} /\ Placed(U)
  BY EmptyTables
<1>3. Cardinality({}) = 0
  BY FS_EmptySet
<1>4. DOMAIN U = {}
  BY DEF Unallocated
<1> HIDE DEF U
<1>5. TwoTables(U, U, 0, 0, -1)
  BY <1>2, <1>3, <1>4 DEF TwoTables
<1>6. DictSound(dict)
  BY <1>1, <1>5, DictOfSound
<1>7. policy \in {"ENABLE", "AVOID", "FORBID"} /\ iter = NoIter /\ scan = NoScan /\ pauserehash = 0
  BY DEF DictInit
<1>8. iter \in IterType /\ IterOpen /\ pauserehash = IF iter.on THEN 1 ELSE 0
  BY <1>7 DEF IterType, IterOpen, NoIter
<1>9. scan \in ScanType /\ ScanTracks(Contents(dict), scan.on, scan.cursor, scan.owed)
  <2>1. scan.on = FALSE /\ scan.cursor = 0 /\ scan.owed = {}
    BY <1>7 DEF NoScan
  <2>2. 0 \in Cursor
    BY Powers DEF Cursor
  <2>3. scan \in ScanType
    BY <1>7, <2>2 DEF ScanType, NoScan
  <2>4. ScanTracks(Contents(dict), FALSE, 0, {})
    BY <2>2 DEF ScanTracks
  <2> QED BY <2>1, <2>3, <2>4
<1> QED BY <1>6, <1>7, <1>8, <1>9 DEF DictIInv

\* What the invariant says of the parts of the state.
LEMMA DictHas ==
    ASSUME DictIInv
    PROVE  /\ DictSound(dict) /\ iter \in IterType /\ IterOpen /\ scan \in ScanType
           /\ (iter.on => pauserehash # 0) /\ iter.on \in BOOLEAN
           /\ ScanTracks(Contents(dict), scan.on, scan.cursor, scan.owed)
           /\ iter.on => /\ IterSound(dict, iter.table, iter.index, iter.chain, iter.owed, iter.returned)
                         /\ iter.chain \subseteq Contents(dict) /\ iter.owed \subseteq Contents(dict)
                         /\ iter.returned \subseteq Contents(dict)
           /\ scan.owed \subseteq Contents(dict)
<1>1. DictSound(dict) /\ iter \in IterType /\ IterOpen /\ scan \in ScanType
      /\ ScanTracks(Contents(dict), scan.on, scan.cursor, scan.owed) /\ pauserehash = IF iter.on THEN 1 ELSE 0
  BY DEF DictIInv
<1>2. iter.on \in BOOLEAN /\ (iter.on => pauserehash # 0)
  BY <1>1 DEF IterType
<1>3. iter.on => IterSound(dict, iter.table, iter.index, iter.chain, iter.owed, iter.returned)
  BY <1>1 DEF IterOpen
<1>4. iter.on => iter.chain \subseteq Contents(dict) /\ iter.owed \subseteq Contents(dict)
                 /\ iter.returned \subseteq Contents(dict)
  BY <1>1, <1>3, IterHolds
<1>5. scan.owed \subseteq Contents(dict)
  BY <1>1 DEF ScanTracks
<1> QED BY <1>1, <1>2, <1>3, <1>4, <1>5

\* An insertion adds the key, and leaves where the iterator is.
LEMMA InsertMoves ==
    ASSUME DictIInv, NEW k \in DictKeys, Insert(k)
    PROVE  /\ DictIInv'
           /\ k \in Contents(dict) => Contents(dict') = Contents(dict)
           /\ k \notin Contents(dict) => Contents(dict') = Contents(dict) \cup {k}
<1> DEFINE v == dictExpandIfNeeded(dictRehashStepIfNeeded(dict, Slot(dict, 0, k)))
<1>1. /\ dict' = IF Finds(v, Slot(dict, 0, k), k) THEN v ELSE Link(v, IF dictIsRehashing(v) THEN 1 ELSE 0, k)
      /\ UNCHANGED <<pauserehash, policy, scan, iter>>
  BY DEF Insert
<1>2. v = dictExpandIfNeeded(dictRehashStepIfNeeded(dict, Slot(dict, 0, k)))
  OBVIOUS
<1> HIDE DEF v
<1>3. DictSound(dict) /\ (iter.on => pauserehash # 0)
  BY DictHas
<1>4. /\ DictSound(v) /\ Contents(v) = Contents(dict) /\ Size(v, 0) # 0
      /\ Finds(v, Slot(dict, 0, k), k) <=> k \in Contents(dict)
      /\ pauserehash # 0 => Resized(dict, v)
  BY <1>2, <1>3, InsertIs
<1>5. iter.on => IterSound(v, iter.table, iter.index, iter.chain, iter.owed, iter.returned)
  BY <1>3, <1>4, DictHas, IterResized
<1>6. CASE k \in Contents(dict)
  <2>1. dict' = v
    BY <1>1, <1>4, <1>6
  <2> QED BY <1>1, <1>4, <1>5, <1>6, <2>1, TablesMove
<1>7. CASE k \notin Contents(dict)
  <2>1. dict' = Link(v, IF dictIsRehashing(v) THEN 1 ELSE 0, k)
    BY <1>1, <1>4, <1>7
  <2>2. DictSound(dict') /\ Contents(dict') = Contents(v) \cup {k} /\ Keeps(v, dict', k)
    BY <1>4, <1>7, <2>1, LinkSound
  <2>3. ASSUME iter.on PROVE IterSound(dict', iter.table, iter.index, iter.chain, iter.owed, iter.returned)
    <3>1. k \notin iter.chain /\ iter.owed \ {k} = iter.owed /\ iter.returned \ {k} = iter.returned
      BY <1>7, <2>3, DictHas
    <3>2. IterSound(v, iter.table, iter.index, iter.chain, iter.owed, iter.returned)
      BY <1>5, <2>3
    <3>3. IterSound(dict', iter.table, iter.index, iter.chain, iter.owed \ {k}, iter.returned \ {k})
      BY <1>4, <2>2, <3>1, <3>2, IterKept
    <3> QED BY <3>1, <3>3
  <2> QED BY <1>1, <1>4, <1>7, <2>2, <2>3, TablesMove
<1> QED BY <1>6, <1>7

\* A deletion takes the key out of all that is owed.
LEMMA DeleteMoves ==
    ASSUME DictIInv, NEW k \in DictKeys, Delete(k)
    PROVE  /\ DictIInv'
           /\ k \notin Contents(dict) => Contents(dict') = Contents(dict) /\ UNCHANGED scan
           /\ k \in Contents(dict) => /\ Contents(dict') = Contents(dict) \ {k}
                                      /\ scan'.on = scan.on /\ scan'.cursor = scan.cursor
                                      /\ scan'.owed = scan.owed \ {k}
<1> DEFINE idx == Slot(dict, 0, k)
           u == dictRehashStepIfNeeded(dict, idx)
           v == Unlink(u, Min({t \in Tables(u, idx) : k \in StoredIn(u, t)}), k)
<1>1. k \notin iter.chain /\ UNCHANGED <<pauserehash, policy>>
  BY DEF Delete
<1>2. DictSound(dict) /\ (iter.on => pauserehash # 0) /\ iter \in IterType /\ scan \in ScanType
      /\ IterOpen /\ ScanTracks(Contents(dict), scan.on, scan.cursor, scan.owed)
  BY DictHas
<1>3. Finds(u, idx, k) <=> k \in Contents(dict)
  BY <1>2, LookupIs
<1>4. CASE k \notin Contents(dict)
  <2>1. dict' = u /\ UNCHANGED <<scan, iter>>
    BY <1>3, <1>4 DEF Delete
  <2>2. Stepped(dict, u) /\ (pauserehash # 0 => u = dict)
    BY <1>2, StepIfNeededSound
  <2> HIDE DEF u
  <2>3. DictSound(dict') /\ Contents(dict') = Contents(dict)
    BY <2>1, <2>2 DEF Stepped
  <2>4. iter.on => IterSound(dict', iter.table, iter.index, iter.chain, iter.owed, iter.returned)
    BY <1>2, <2>1, <2>2, DictHas
  <2>5. DictIInv'
    BY <1>1, <2>1, <2>3, <2>4, TablesMove
  <2> QED BY <1>4, <2>1, <2>3, <2>5
<1>5. CASE k \in Contents(dict)
  <2>1. /\ dict' = dictShrinkIfNeeded(v)
        /\ scan' = [scan EXCEPT !.owed = @ \ {k}]
        /\ iter' = [iter EXCEPT !.owed = @ \ {k}, !.returned = @ \ {k}]
    BY <1>3, <1>5 DEF Delete
  <2>2. u = dictRehashStepIfNeeded(dict, Slot(dict, 0, k))
        /\ v = Unlink(u, Min({t \in Tables(u, Slot(dict, 0, k)) : k \in StoredIn(u, t)}), k)
    OBVIOUS
  <2> HIDE DEF u, v
  <2>3. /\ DictSound(v) /\ Keeps(u, v, k)
        /\ Resized(v, dict') /\ DictSound(dict') /\ Contents(dict') = Contents(dict) \ {k}
        /\ pauserehash # 0 => u = dict
    BY <1>2, <1>5, <2>1, <2>2, DeleteIs
  <2>4. /\ iter' \in IterType /\ iter'.on = iter.on /\ iter'.table = iter.table /\ iter'.index = iter.index
        /\ iter'.chain = iter.chain /\ iter'.owed = iter.owed \ {k} /\ iter'.returned = iter.returned \ {k}
        /\ iter = NoIter => iter' = NoIter
    <3>1. iter' \in IterType /\ iter'.on = iter.on
      BY <1>2, <2>1 DEF IterType
    <3>2. /\ iter'.table = iter.table /\ iter'.index = iter.index /\ iter'.chain = iter.chain
          /\ iter'.owed = iter.owed \ {k} /\ iter'.returned = iter.returned \ {k}
      BY <1>2, <2>1 DEF IterType
    <3>3. ASSUME iter = NoIter PROVE iter' = NoIter
      <4>1. iter.owed \ {k} = iter.owed /\ iter.returned \ {k} = iter.returned
        BY <3>3 DEF NoIter
      <4>2. iter' = [iter EXCEPT !.owed = iter.owed, !.returned = iter.returned]
        BY <2>1, <4>1
      <4>3. [iter EXCEPT !.owed = iter.owed, !.returned = iter.returned] = iter
        BY <1>2 DEF IterType
      <4> QED BY <3>3, <4>2, <4>3
    <3> QED BY <3>1, <3>2, <3>3
  <2>5. scan' \in ScanType /\ scan'.on = scan.on /\ scan'.cursor = scan.cursor /\ scan'.owed = scan.owed \ {k}
    BY <1>2, <2>1 DEF ScanType
  <2>6. ASSUME iter.on
        PROVE  IterSound(dict', iter.table, iter.index, iter.chain, iter.owed \ {k}, iter.returned \ {k})
    <3>1. Keeps(dict, v, k)
      BY <1>2, <2>3, <2>6
    <3>2. IterSound(dict, iter.table, iter.index, iter.chain, iter.owed, iter.returned)
      BY <2>6, DictHas
    <3>3. IterSound(v, iter.table, iter.index, iter.chain, iter.owed \ {k}, iter.returned \ {k})
      BY <1>1, <1>2, <3>1, <3>2, IterKept
    <3> QED BY <2>3, <3>3, IterResized
  <2>7. IterOpen'
    <3>1. iter'.on => IterSound(dict', iter'.table, iter'.index, iter'.chain, iter'.owed, iter'.returned)
      BY <2>4, <2>6
    <3>2. ~iter'.on => iter' = NoIter
      BY <1>2, <2>4 DEF IterOpen
    <3>3. iter'.on \in BOOLEAN
      BY <2>4 DEF IterType
    <3> QED BY <3>1, <3>2, <3>3 DEF IterOpen
  <2>8. ScanTracks(Contents(dict'), scan'.on, scan'.cursor, scan'.owed)
    BY <1>2, <2>3, <2>5 DEF ScanTracks
  <2>9. DictIInv'
    BY <1>1, <2>3, <2>4, <2>5, <2>7, <2>8 DEF DictIInv
  <2> QED BY <1>5, <2>3, <2>5, <2>9
<1> QED BY <1>4, <1>5

\* A lookup moves keys, and keeps them.
LEMMA FindMoves ==
    ASSUME DictIInv, NEW k \in DictKeys, Find(k)
    PROVE  DictIInv' /\ Contents(dict') = Contents(dict)
<1>1. dict' = dictRehashStepIfNeeded(dict, Slot(dict, 0, k)) /\ UNCHANGED <<pauserehash, policy, scan, iter>>
  BY DEF Find
<1>2. DictSound(dict) /\ (iter.on => pauserehash # 0)
  BY DictHas
<1>3. Stepped(dict, dict') /\ (pauserehash # 0 => dict' = dict)
  BY <1>1, <1>2, StepIfNeededSound
<1>4. DictSound(dict') /\ Contents(dict') = Contents(dict)
  BY <1>3 DEF Stepped
<1>5. iter.on => IterSound(dict', iter.table, iter.index, iter.chain, iter.owed, iter.returned)
  BY <1>2, <1>3, DictHas
<1> QED BY <1>1, <1>4, <1>5, TablesMove

\* So do the resizes and rehashes of the cron.
LEMMA CronMoves ==
    ASSUME DictIInv, Cron
    PROVE  DictIInv' /\ Contents(dict') = Contents(dict)
<1> DEFINE v == IF MayShrink(dict) /\ ~MustShrink(dict) THEN dictExpandIfNeeded(dict) ELSE dictShrinkIfNeeded(dict)
<1>1. /\ dict' = IF pauserehash = 0 THEN dictRehash(v, 2 * Size(dict, 0)) ELSE v
      /\ UNCHANGED <<pauserehash, policy, scan, iter>>
  BY DEF Cron
<1>2. DictSound(dict) /\ (iter.on => pauserehash # 0)
  BY DictHas
<1>3. Resized(dict, v)
  BY <1>2, ExpandIs, ShrinkIs
<1> HIDE DEF v
<1>4. DictSound(v) /\ Contents(v) = Contents(dict)
  BY <1>2, <1>3, ResizedSound
<1>5. DictSound(dict') /\ Contents(dict') = Contents(dict)
  <2> DEFINE n == 2 * Size(dict, 0)
  <2>1. n \in Nat
    BY <1>2, SoundHas
  <2> HIDE DEF n
  <2>2. DictSound(dictRehash(v, n)) /\ Contents(dictRehash(v, n)) = Contents(v)
    BY <1>4, <2>1, RehashSound
  <2> QED BY <1>1, <1>4, <2>2 DEF n
<1>6. ASSUME iter.on PROVE IterSound(dict', iter.table, iter.index, iter.chain, iter.owed, iter.returned)
  <2>1. dict' = v
    BY <1>1, <1>2, <1>6
  <2> QED BY <1>2, <1>3, <1>6, <2>1, DictHas, IterResized
<1> QED BY <1>1, <1>5, <1>6, TablesMove

\* A call of SCAN moves the cursor, and what it still owes is ahead of it.
LEMMA ScanMoves ==
    ASSUME DictIInv, ScanCall
    PROVE  /\ DictIInv' /\ Contents(dict') = Contents(dict)
           /\ scan'.owed \subseteq IF scan.on THEN scan.owed ELSE Contents(dict)
           /\ scan'.on \in BOOLEAN /\ (~scan'.on => scan'.owed = {})
           /\ scan'.cursor # 0 => rev[scan'.cursor] > rev[scan.cursor]
<1> DEFINE r == dictScan(dict, scan.cursor)
           owing == IF scan.on THEN scan.owed ELSE Contents(dict)
<1>1. /\ scan' = [on |-> r.cursor # 0, cursor |-> r.cursor, owed |-> owing \ r.keys]
      /\ UNCHANGED <<dict, pauserehash, policy, iter>>
  BY DEF ScanCall
<1>2. r = dictScan(dict, scan.cursor)
  OBVIOUS
<1> HIDE DEF r
<1>3. DictSound(dict) /\ IterOpen /\ ScanTracks(Contents(dict), scan.on, scan.cursor, scan.owed)
  BY DictHas
<1>4. scan.cursor \in Cursor
  BY <1>3 DEF ScanTracks
<1>5. Scanned(Contents(dict), scan.cursor, r.keys, r.cursor)
  BY <1>2, <1>3, <1>4, ScanIs
<1>6. owing \subseteq Contents(dict) /\ \A k \in owing : KeyPos(k) >= rev[scan.cursor]
  <2>1. CASE scan.on
    BY <1>3, <2>1 DEF ScanTracks
  <2>2. CASE ~scan.on
    <3>1. owing = Contents(dict) /\ scan.cursor = 0
      BY <1>3, <2>2 DEF ScanTracks
    <3>2. rev[scan.cursor] = 0
      BY <1>4, <3>1, RevZero
    <3>3. \A k \in Contents(dict) : KeyPos(k) \in Nat
      <4>1. Contents(dict) \subseteq DictKeys
        BY <1>3, SoundHas
      <4>2. 0 \in 0 .. CursorBits
        BY Powers
      <4>3. \A k \in DictKeys : KeyPos(k) \in Cursor
        BY <4>2, KeyBlock
      <4> QED BY <4>1, <4>3, RevType
    <3> QED BY <3>1, <3>2, <3>3
  <2> QED BY <2>1, <2>2
<1> HIDE DEF owing
<1>7. scan'.on = (r.cursor # 0) /\ scan'.cursor = r.cursor /\ scan'.owed = owing \ r.keys
  BY <1>1
<1>8. r.cursor \in Cursor
  BY <1>5 DEF Scanned
<1>9. scan' \in ScanType
  <2>1. owing \subseteq DictKeys
    BY <1>3, <1>6, SoundHas
  <2> QED BY <1>1, <1>8, <2>1 DEF ScanType
<1>10. ASSUME NEW k \in owing \ r.keys PROVE r.cursor # 0 /\ KeyPos(k) >= rev[r.cursor]
  <2>1. ~(r.cursor = 0 \/ KeyPos(k) < rev[r.cursor])
    BY <1>5, <1>6 DEF Scanned
  <2>2. KeyPos(k) \in Nat /\ rev[r.cursor] \in Nat
    <3>1. k \in DictKeys /\ 0 \in 0 .. CursorBits
      BY <1>3, <1>6, SoundHas, Powers
    <3>2. KeyPos(k) \in Cursor
      BY <3>1, KeyBlock
    <3> QED BY <1>8, <3>2, RevType
  <2> QED BY <2>1, <2>2
<1>11. ScanTracks(Contents(dict), r.cursor # 0, r.cursor, owing \ r.keys)
  BY <1>6, <1>8, <1>10 DEF ScanTracks
<1>12. ScanTracks(Contents(dict), scan.on, scan.cursor, scan.owed)'
  BY <1>1, <1>7, <1>11
<1>13. DictIInv'
  <2>1. DictSound(dict)' /\ IterOpen'
    BY <1>1, <1>3 DEF IterOpen, IterDue
  <2> QED BY <1>1, <1>9, <1>12, <2>1 DEF DictIInv
<1>14. r.cursor # 0 => rev[r.cursor] > rev[scan.cursor]
  BY <1>5 DEF Scanned
<1> QED BY <1>1, <1>7, <1>10, <1>13, <1>14 DEF owing

\* The iterator returns a key that it has not passed.
LEMMA IterNextMoves ==
    ASSUME DictIInv, NEW k \in DictKeys, IterNext(k)
    PROVE  DictIInv' /\ UNCHANGED <<dict, scan>> /\ (iter.on => k \notin iter.returned)
<1> DEFINE e == dictNextEntry
<1>1. /\ k \in e.chain
      /\ iter' = [on |-> TRUE, table |-> e.table, index |-> e.index, chain |-> e.chain \ {k},
                  owed |-> IterDue \ {k}, returned |-> IterDone \cup {k}]
      /\ pauserehash' = IF iter.on THEN pauserehash ELSE pauserehash + 1
      /\ UNCHANGED <<dict, policy, scan>>
  BY DEF IterNext, IterDue, IterDone
<1>2. e = dictNextEntry
  OBVIOUS
<1> HIDE DEF e
<1>3. DictSound(dict) /\ IterOpen /\ iter \in IterType /\ iter.on \in BOOLEAN
  BY DictHas
<1>4. IterSound(dict, e.table, e.index, e.chain, IterDue, IterDone)
  BY <1>1, <1>2, <1>3, NextEntryIs
<1>5. IterSound(dict, e.table, e.index, e.chain \ {k}, IterDue \ {k}, IterDone \cup {k}) /\ k \notin IterDone
  BY <1>1, <1>3, <1>4, IterTake
<1>6. e.chain \subseteq Contents(dict) /\ IterDue \subseteq Contents(dict) /\ IterDone \subseteq Contents(dict)
  BY <1>3, <1>4, IterHolds
<1>7. iter' \in IterType
  <2>1. Contents(dict) \subseteq DictKeys
    BY <1>3, SoundHas
  <2>2. e.table \in {0, 1} /\ e.index \in Int
    BY <1>4 DEF IterSound
  <2> HIDE DEF IterDue, IterDone
  <2> QED BY <1>1, <1>6, <2>1, <2>2 DEF IterType
<1>8. /\ iter'.on = TRUE /\ iter'.table = e.table /\ iter'.index = e.index /\ iter'.chain = e.chain \ {k}
      /\ iter'.owed = IterDue \ {k} /\ iter'.returned = IterDone \cup {k}
  BY <1>1
<1>9. IterOpen'
  <2>1. IterSound(dict', iter'.table, iter'.index, iter'.chain, iter'.owed, iter'.returned)
    BY <1>1, <1>5, <1>8
  <2> QED BY <1>8, <2>1 DEF IterOpen
<1>10. pauserehash' = IF iter'.on THEN 1 ELSE 0
  BY <1>1, <1>8 DEF DictIInv
<1>11. DictIInv'
  BY <1>1, <1>7, <1>9, <1>10 DEF DictIInv
<1>12. iter.on => k \notin iter.returned
  BY <1>5 DEF IterDone
<1> QED BY <1>1, <1>11, <1>12

\* At its end the iterator owes no key.
LEMMA IterCloses ==
    ASSUME DictIInv, IterEnd \/ IterRelease
    PROVE  DictIInv' /\ UNCHANGED <<dict, scan>>
<1>1. iter.on /\ pauserehash' = pauserehash - 1 /\ UNCHANGED <<dict, policy, scan>>
  BY DEF IterEnd, IterRelease
<1>2. DictSound(dict) /\ IterOpen
  BY DictHas
<1>3. iter' = NoIter
  <2>1. CASE IterRelease
    BY <2>1 DEF IterRelease
  <2>2. CASE IterEnd
    <3> DEFINE e == dictNextEntry
    <3>1. e.chain = {} /\ iter' = [NoIter EXCEPT !.owed = iter.owed]
      BY <2>2 DEF IterEnd
    <3>2. e = dictNextEntry
      OBVIOUS
    <3> HIDE DEF e
    <3>3. IterDue = {}
      BY <1>2, <3>1, <3>2, NextEntryIs
    <3>4. iter.owed = {}
      BY <1>1, <3>3 DEF IterDue
    <3> QED BY <3>1, <3>4 DEF NoIter
  <2> QED BY <2>1, <2>2
<1>4. iter' \in IterType /\ iter'.on = FALSE /\ IterOpen'
  BY <1>3 DEF IterType, IterOpen, NoIter
<1>5. pauserehash' = IF iter'.on THEN 1 ELSE 0
  BY <1>1, <1>4 DEF DictIInv
<1> QED BY <1>1, <1>4, <1>5 DEF DictIInv

LEMMA PolicyMoves ==
    ASSUME DictIInv, NEW p \in {"ENABLE", "AVOID", "FORBID"}, SetPolicy(p)
    PROVE  DictIInv' /\ UNCHANGED <<dict, scan, iter>>
<1>1. policy' = p /\ UNCHANGED <<dict, pauserehash, scan, iter>>
  BY DEF SetPolicy
<1>2. IterOpen'
  BY <1>1 DEF IterOpen, DictIInv
<1> QED BY <1>1, <1>2 DEF DictIInv

\* Every step keeps the invariant.
LEMMA NextDict == DictIInv /\ [DictNext]_dictVars => DictIInv'
<1> SUFFICES ASSUME DictIInv, [DictNext]_dictVars PROVE DictIInv'
  OBVIOUS
<1>1. ASSUME NEW k \in DictKeys, Insert(k) PROVE DictIInv'
  BY <1>1, InsertMoves
<1>2. ASSUME NEW k \in DictKeys, Delete(k) PROVE DictIInv'
  BY <1>2, DeleteMoves
<1>3. ASSUME NEW k \in DictKeys, Find(k) PROVE DictIInv'
  BY <1>3, FindMoves
<1>4. ASSUME NEW p \in {"ENABLE", "AVOID", "FORBID"}, SetPolicy(p) PROVE DictIInv'
  BY <1>4, PolicyMoves
<1>5. CASE Cron
  BY <1>5, CronMoves
<1>6. CASE ScanCall
  BY <1>6, ScanMoves
<1>7. ASSUME NEW k \in DictKeys, IterNext(k) PROVE DictIInv'
  BY <1>7, IterNextMoves
<1>8. CASE IterEnd \/ IterRelease
  BY <1>8, IterCloses
<1>9. CASE UNCHANGED dictVars
  <2>1. UNCHANGED <<dict, pauserehash, policy, scan, iter>>
    BY <1>9 DEF dictVars
  <2>2. IterOpen'
    BY <2>1 DEF IterOpen, DictIInv
  <2> QED BY <2>1, <2>2 DEF DictIInv
<1> QED BY <1>1, <1>2, <1>3, <1>4, <1>5, <1>6, <1>7, <1>8, <1>9 DEF DictNext, Operations, Iterate

LEMMA DictInvariant == DictSpec => []DictIInv
<1>1. DictInit /\ [][DictNext]_dictVars => []DictIInv
  BY InitDict, NextDict, PTL
<1> QED BY <1>1 DEF DictSpec, DictNext

(***************************************************************************)
(* What the dictionary promises.                                           *)
(***************************************************************************)
LEMMA SoundTables == DictIInv => TablesSound
<1> SUFFICES ASSUME DictIInv PROVE TablesSound
  OBVIOUS
<1> DEFINE f == dict.table[0]  g == dict.table[1]
<1>1. DictSound(dict) /\ dict \in DictRecords
  BY DictHas DEF DictSound
<1>2. /\ f \in AllTables /\ g \in AllTables /\ Placed(f) /\ Placed(g) /\ KeysOf(f) \cap KeysOf(g) = {}
      /\ dict.used[0] = Cardinality(KeysOf(f)) /\ dict.used[1] = Cardinality(KeysOf(g))
      /\ Size(dict, 0) = Width(f) /\ Size(dict, 1) = Width(g) /\ Size(dict, 0) \in Nat /\ Size(dict, 1) \in Nat
      /\ dict.rehashidx \in Int /\ -1 <= dict.rehashidx /\ dict.rehashidx <= Size(dict, 0)
      /\ (dictIsRehashing(dict) <=> Size(dict, 1) # 0)
      /\ StoredIn(dict, 0) = KeysOf(f) /\ StoredIn(dict, 1) = KeysOf(g)
      /\ \A i \in DOMAIN f : i < dict.rehashidx => f[i] = {}
  BY <1>1, SoundHas, StoredIs
<1>3. DictTypeOK
  <2>1. dict = [table |-> dict.table, used |-> dict.used, rehashidx |-> dict.rehashidx]
        /\ dict.used[0] \in Nat /\ dict.used[1] \in Nat
    BY <1>1 DEF DictRecords
  <2>2. \A h \in AllTables : \E n \in {0} \cup {Pow2[e] : e \in 0 .. CursorBits} : h \in [0 .. n - 1 -> SUBSET DictKeys]
    BY DEF AllTables, Sizes
  <2>3. \A t \in {0, 1} : \E n \in {0} \cup {Pow2[e] : e \in 0 .. CursorBits} :
          dict.table[t] \in [0 .. n - 1 -> SUBSET DictKeys]
    BY <1>2, <2>2
  <2>4. pauserehash \in {0, 1} /\ policy \in {"ENABLE", "AVOID", "FORBID"}
    BY DEF DictIInv
  <2>5. scan \in [on : BOOLEAN, cursor : 0 .. Pow2[CursorBits] - 1, owed : SUBSET DictKeys]
    BY DEF DictIInv, ScanType, Cursor
  <2>6. iter \in [on : BOOLEAN, table : {0, 1}, index : Int, chain : SUBSET DictKeys,
                  owed : SUBSET DictKeys, returned : SUBSET DictKeys]
    BY DEF DictIInv, IterType
  <2>7. dict.rehashidx \in -1 .. Size(dict, 0)
    BY <1>2
  <2> QED BY <2>1, <2>3, <2>4, <2>5, <2>6, <2>7 DEF DictTypeOK
<1>4. Placement
  <2>1. \A t \in {0, 1} : \A i \in DOMAIN dict.table[t] : \A k \in dict.table[t][i] : Hash[k] % Size(dict, t) = i
    BY <1>2 DEF Placed
  <2>2. \A t \in {0, 1} : dict.used[t] = Cardinality(StoredIn(dict, t))
    BY <1>2
  <2>3. dictIsRehashing(dict) <=> Size(dict, 1) > 0
    BY <1>2
  <2> QED BY <1>2, <2>1, <2>2, <2>3 DEF Placement
<1>5. LookupExact
  BY <1>1, LookupIs DEF LookupExact
<1> QED BY <1>3, <1>4, <1>5 DEF TablesSound

\* In every state every key is in the bucket of its hash, and a lookup finds
\* what is stored and nothing else (dictFind, dictRehash).
THEOREM DictTables == DictSpec => []TablesSound
BY DictInvariant, SoundTables, PTL

\* No cursor goes back or stays in a call of SCAN (dictScan).
LEMMA CursorMoves == DictIInv => CursorAdvances
<1> SUFFICES ASSUME DictIInv, NEW v \in 0 .. Pow2[CursorBits] - 1
             PROVE  LET next == dictScan(dict, v).cursor IN next = 0 \/ rev[next] > rev[v]
  BY DEF CursorAdvances
<1> DEFINE r == dictScan(dict, v)
<1>1. DictSound(dict) /\ v \in Cursor
  BY DictHas DEF Cursor
<1>2. Scanned(Contents(dict), v, r.keys, r.cursor)
  BY <1>1, ScanIs
<1> QED BY <1>2 DEF Scanned

\* A SCAN ends after a bounded number of calls, whatever happens to the
\* tables meanwhile: every call moves its cursor forward in the order of
\* reversed bits, or ends it.
THEOREM DictCursor == DictSpec => []CursorAdvances
BY DictInvariant, CursorMoves, PTL

\* IterNext returns no key that it has returned.
LEMMA IterMoves ==
  DictIInv /\ [DictNext]_dictVars
    => [\A k \in DictKeys : IterNext(k) => ~iter.on \/ k \notin iter.returned]_dictVars
BY IterNextMoves

\* An iterator that is closed owes nothing.
LEMMA IterOwesNone == DictIInv => IterComplete
BY DEF DictIInv, IterOpen, IterComplete, NoIter

\* A safe iterator returns every key that stays from its first call to its
\* last, and returns a key once, although its user resizes the tables (dictNext).
THEOREM DictIterator == DictSpec => IterExact
<1>1. DictInit /\ [][DictNext]_dictVars => []IterComplete
  BY InitDict, NextDict, IterOwesNone, PTL
<1>2. DictInit /\ [][DictNext]_dictVars
        => [][\A k \in DictKeys : IterNext(k) => ~iter.on \/ k \notin iter.returned]_dictVars
  BY InitDict, NextDict, IterMoves, PTL
<1> QED BY <1>1, <1>2, PTL DEF DictSpec, DictNext, IterExact, IterOnce

\* The tables are empty at first, and so is the set of keys.
LEMMA DictBegins == DictInit => Abstract!Init
<1> SUFFICES ASSUME DictInit PROVE Abstract!Init
  OBVIOUS
<1>1. scan = NoScan /\ dict.table[0] = Unallocated /\ dict.table[1] = Unallocated
  BY DEF DictInit
<1>2. Contents(dict) = {}
  BY <1>1, StoredIs, EmptyTables
<1> QED BY <1>1, <1>2 DEF Abstract!Init, NoScan

\* Every step is a step of the set of keys, or none.
LEMMA DictSteps == DictIInv /\ [DictNext]_dictVars => [Abstract!Next]_(Abstract!vars)
<1> SUFFICES ASSUME DictIInv, [DictNext]_dictVars PROVE [Abstract!Next]_(Abstract!vars)
  OBVIOUS
<1>0. ASSUME Contents(dict') = Contents(dict), UNCHANGED scan PROVE UNCHANGED Abstract!vars
  BY <1>0 DEF Abstract!vars
<1>1. ASSUME NEW k \in DictKeys, Insert(k) PROVE [Abstract!Next]_(Abstract!vars)
  <2>1. UNCHANGED scan
    BY <1>1 DEF Insert
  <2>2. CASE k \in Contents(dict)
    BY <1>0, <1>1, <2>1, <2>2, InsertMoves
  <2>3. CASE k \notin Contents(dict)
    <3>1. Contents(dict') = Contents(dict) \cup {k}
      BY <1>1, <2>3, InsertMoves
    <3>2. Abstract!Insert(k)
      BY <2>1, <2>3, <3>1 DEF Abstract!Insert
    <3> QED BY <3>2 DEF Abstract!Next
  <2> QED BY <2>2, <2>3
<1>2. ASSUME NEW k \in DictKeys, Delete(k) PROVE [Abstract!Next]_(Abstract!vars)
  <2>2. CASE k \notin Contents(dict)
    BY <1>0, <1>2, <2>2, DeleteMoves
  <2>3. CASE k \in Contents(dict)
    <3>1. Contents(dict') = Contents(dict) \ {k} /\ scan'.on = scan.on /\ scan'.owed = scan.owed \ {k}
      BY <1>2, <2>3, DeleteMoves
    <3>2. Abstract!Delete(k)
      BY <2>3, <3>1 DEF Abstract!Delete
    <3> QED BY <3>2 DEF Abstract!Next
  <2> QED BY <2>2, <2>3
<1>3. ASSUME NEW k \in DictKeys, Find(k) PROVE [Abstract!Next]_(Abstract!vars)
  <2>1. UNCHANGED scan
    BY <1>3 DEF Find
  <2> QED BY <1>0, <1>3, <2>1, FindMoves
<1>4. ASSUME NEW p \in {"ENABLE", "AVOID", "FORBID"}, SetPolicy(p) PROVE [Abstract!Next]_(Abstract!vars)
  <2>1. UNCHANGED <<dict, scan>>
    BY <1>4, PolicyMoves
  <2> QED BY <1>0, <2>1
<1>5. CASE Cron
  <2>1. UNCHANGED scan
    BY <1>5 DEF Cron
  <2> QED BY <1>0, <1>5, <2>1, CronMoves
<1>6. CASE ScanCall
  <2>1. /\ Contents(dict') = Contents(dict)
        /\ scan'.owed \subseteq (IF scan.on THEN scan.owed ELSE Contents(dict))
        /\ scan'.on \in BOOLEAN /\ (~scan'.on => scan'.owed = {})
    BY <1>6, ScanMoves
  <2>2. Abstract!Call
    BY <2>1 DEF Abstract!Call
  <2> QED BY <2>2 DEF Abstract!Next
<1>7. ASSUME NEW k \in DictKeys, IterNext(k) PROVE [Abstract!Next]_(Abstract!vars)
  <2>1. UNCHANGED <<dict, scan>>
    BY <1>7, IterNextMoves
  <2> QED BY <1>0, <2>1
<1>8. CASE IterEnd \/ IterRelease
  <2>1. UNCHANGED <<dict, scan>>
    BY <1>8, IterCloses
  <2> QED BY <1>0, <2>1
<1>9. CASE UNCHANGED dictVars
  <2>1. UNCHANGED <<dict, scan>>
    BY <1>9 DEF dictVars
  <2> QED BY <1>0, <2>1
<1> QED BY <1>1, <1>2, <1>3, <1>4, <1>5, <1>6, <1>7, <1>8, <1>9 DEF DictNext, Operations, Iterate

\* No operation loses or invents a key, and SCAN returns every key that was
\* there from its first call to its last (dictScan): Dict implements KeyScan.
THEOREM DictRefines == DictSpec => ImplementsKeyScan
<1>1. DictInit /\ [][DictNext]_dictVars => Abstract!Init /\ [][Abstract!Next]_(Abstract!vars)
  BY InitDict, NextDict, DictBegins, DictSteps, PTL
<1> QED BY <1>1 DEF DictSpec, DictNext, ImplementsKeyScan, Abstract!Spec
============================================================================
