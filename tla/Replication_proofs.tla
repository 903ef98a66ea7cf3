------------------------- MODULE Replication_proofs -------------------------
(***************************************************************************)
(* Replication for every number of servers, writes and events and every    *)
(* size of the backlog: a replication ID names one history, and what a     *)
(* linked replica has and has still to read is what its master has.        *)
(***************************************************************************)
EXTENDS Replication, TLAPS

(***************************************************************************)
(* The inductive invariant: there is a history behind every ID. Its first  *)
(* offsets may count for nothing (writes without a backlog), so a history  *)
(* has a base: offset o is its write o + base.                             *)
(***************************************************************************)
History == [base : Int, data : Seq(1 .. MaxWrites)]

\* Data d at offset o is of history h.
Holds(h, o, d) ==
  /\ Len(d) = o + h.base /\ Len(d) <= Len(h.data)
  /\ \A i \in 1 .. Len(d) : d[i] = h.data[i]

\* The data of s was of history h before its offset second.
Had(h, s) ==
  /\ Len(s.data) = s.offset + h.base /\ s.second <= s.offset + 1
  /\ s.second - 1 + h.base <= Len(h.data)
  /\ \A i \in 1 .. s.second - 1 + h.base : s.data[i] = h.data[i]

\* The backlog is the end of the data.
IsEnd(log, data) ==
  /\ Len(log) <= Len(data)
  /\ \A i \in 1 .. Len(log) : log[i] = data[Len(data) - Len(log) + i]
BacklogSound(s) == HasBacklog(s) => s.first = s.offset + 1 - Len(s.log) /\ IsEnd(s.log, s.data)

\* What a server could answer or ask for with its IDs, now or after a restart,
\* is of the histories they name; a master has the whole of its own.
ServerSound(H, s) ==
  /\ BacklogSound(s)
  /\ Usable(s) => Holds(H[s.replid], s.offset, s.data)
  /\ HasBacklog(s) /\ s.replid2 # NoId => Had(H[s.replid2], s)
  /\ s.rdb.valid => s.rdb.replid # NoId /\ Holds(H[s.rdb.replid], s.rdb.offset, s.rdb.data)
  /\ s.master = None => s.link = "none" /\ ~s.cached
  /\ s.link = "up" => HasBacklog(s)
  /\ s.master = None /\ HasBacklog(s) => H[s.replid].data = s.data

\* IDs are not from the future, nor are offsets.
KnownRdb(x, id, w) == x.replid < id /\ x.offset <= w
Known(s, id, w) ==
  /\ s.replid < id /\ s.replid2 < id /\ s.offset <= w
  /\ KnownRdb(s.rdb, id, w)

\* Replica s with snapshot x of master m: what comes next is in m's backlog.
LinkTo(m, s, x) ==
  /\ HasBacklog(m)
  /\ s.link = "up" => s.replid = m.replid /\ m.first <= s.offset + 1 /\ s.offset <= m.offset
  /\ s.link = "transfer" =>
       x.valid /\ x.replid = m.replid /\ m.first <= x.offset + 1 /\ x.offset <= m.offset
Linked(f, sn, r) ==
  /\ f[r].master # r
  /\ f[r].link # "none" => f[r].master # None /\ LinkTo(f[f[r].master], f[r], sn[r])

\* A master without a backlog goes on without counting: nobody else knows its
\* ID, nor when it becomes a replica.
Visible(s, x, id) ==
  \/ id = s.replid \/ id = s.replid2
  \/ s.rdb.valid /\ s.rdb.replid = id
  \/ s.link = "transfer" /\ x.replid = id
Private(f, sn, n) == \A m \in Servers \ {n} : ~Visible(f[m], sn[m], f[n].replid)
Alone(f, sn, n) ==
  ~HasBacklog(f[n]) =>
    /\ f[n].master = None => /\ Private(f, sn, n)
                             /\ f[n].rdb.valid => f[n].rdb.replid # f[n].replid
    /\ f[n].cached /\ f[n].replid2 # NoId => Private(f, sn, n)

ServersKnown == \A n \in Servers : Known(srv[n], nextId, writes) /\ KnownRdb(snap[n], nextId, writes)
LinksSound == \A n \in Servers : Linked(srv, snap, n)
AloneSound == \A n \in Servers : Alone(srv, snap, n)
MastersDiffer ==
  \A m, n \in Servers : m # n /\ srv[m].master = None /\ srv[n].master = None
                          => srv[m].replid # srv[n].replid
Histories(H) ==
  \A n \in Servers :
    /\ ServerSound(H, srv[n])
    /\ srv[n].link = "transfer" => Holds(H[snap[n].replid], snap[n].offset, snap[n].data)

Sound(H) == TypeOK /\ ServersKnown /\ LinksSound /\ AloneSound /\ MastersDiffer /\ Histories(H)
IInv == \E H \in [Nat -> History] : Sound(H)

(***************************************************************************)
(* What most steps have in common: server n changes, others at most in     *)
(* their links.                                                            *)
(***************************************************************************)
SameButLink(s, u) ==
  /\ u.replid = s.replid /\ u.replid2 = s.replid2 /\ u.second = s.second /\ u.offset = s.offset
  /\ u.data = s.data /\ u.log = s.log /\ u.first = s.first /\ u.master = s.master /\ u.rdb = s.rdb
  /\ u.link = "up" => s.link = "up"
  /\ u.cached => s.cached \/ s.link = "up"

\* An ID that somebody serves.
Served(id) == \E m \in Servers : HasBacklog(srv[m]) /\ id = srv[m].replid

LEMMA RdbFields ==
    ASSUME NEW x \in Rdb
    PROVE  /\ x.data \in Seq(1 .. MaxWrites) /\ x.valid \in BOOLEAN /\ x.replid \in Nat
           /\ x.offset \in Nat /\ x.offset \in 0 .. MaxWrites
<1>1. MaxWrites \in Nat
  BY ReplicationConstants
<1>2. /\ x.data \in Seq(1 .. MaxWrites) /\ x.valid \in BOOLEAN /\ x.replid \in Nat
      /\ x.offset \in 0 .. MaxWrites
  BY DEF Rdb
<1> QED BY <1>1, <1>2

LEMMA ServerFields ==
    ASSUME NEW s \in Server
    PROVE  /\ s.replid \in Nat /\ s.replid # NoId /\ s.replid2 \in Nat
           /\ s.second \in Int /\ s.offset \in Nat /\ s.first \in Nat
           /\ s.data \in Seq(1 .. MaxWrites) /\ s.log \in Seq(1 .. MaxWrites)
           /\ Len(s.data) \in Nat /\ Len(s.log) \in Nat
           /\ s.master \in Servers \cup {None} /\ s.link \in {"none", "wait", "transfer", "up"}
           /\ s.cached \in BOOLEAN /\ s.rdb \in Rdb
<1>1. MaxWrites \in Nat
  BY ReplicationConstants
<1>2. /\ s.replid \in Nat /\ s.replid # NoId /\ s.replid2 \in Nat
      /\ s.second \in -1 .. MaxWrites + 1 /\ s.offset \in 0 .. MaxWrites /\ s.first \in 0 .. MaxWrites + 1
  BY DEF Server
<1>3. /\ s.data \in Seq(1 .. MaxWrites) /\ s.log \in Seq(1 .. MaxWrites)
      /\ s.master \in Servers \cup {None} /\ s.link \in {"none", "wait", "transfer", "up"}
      /\ s.cached \in BOOLEAN /\ s.rdb \in Rdb
  BY DEF Server
<1>4. Len(s.data) \in Nat /\ Len(s.log) \in Nat
  BY <1>3
<1>5. s.second \in Int /\ s.offset \in Nat /\ s.first \in Nat
  BY <1>1, <1>2
<1> QED BY <1>2, <1>3, <1>4, <1>5

LEMMA SameSound ==
    ASSUME NEW G, NEW s \in Server, NEW u \in Server, ServerSound(G, s), SameButLink(s, u),
           s.master = None => u.link = "none"
    PROVE  ServerSound(G, u)
<1>1. HasBacklog(u) <=> HasBacklog(s)
  BY DEF SameButLink, HasBacklog
<1>2. BacklogSound(u)
  BY <1>1 DEF ServerSound, BacklogSound, SameButLink
<1>3. Usable(u) => Usable(s)
  BY <1>1 DEF SameButLink, Usable, ServerSound
<1>4. Usable(u) => Holds(G[u.replid], u.offset, u.data)
  BY <1>3 DEF ServerSound, SameButLink
<1>5. HasBacklog(u) /\ u.replid2 # NoId => Had(G[u.replid2], u)
  BY <1>1 DEF ServerSound, SameButLink, Had
<1>6. /\ u.rdb.valid => u.rdb.replid # NoId /\ Holds(G[u.rdb.replid], u.rdb.offset, u.rdb.data)
      /\ u.link = "up" => HasBacklog(u)
      /\ u.master = None /\ HasBacklog(u) => G[u.replid].data = u.data
  BY <1>1 DEF ServerSound, SameButLink
<1>7. u.master = None => u.link = "none" /\ ~u.cached
  BY DEF ServerSound, SameButLink
<1> QED BY <1>2, <1>4, <1>5, <1>6, <1>7 DEF ServerSound

LEMMA OneServer ==
    ASSUME NEW H \in [Nat -> History], NEW G \in [Nat -> History], Sound(H), TypeOK', NEW n \in Servers,
           nextId' >= nextId, writes' >= writes,
           \A k \in Servers : KnownRdb(snap'[k], nextId', writes'),
           \* the others
           \A k \in Servers \ {n} :
             /\ SameButLink(srv[k], srv'[k])
             /\ ServerSound(G, srv[k])
             /\ \/ srv'[k].link = "none"
                \/ srv'[k].link = srv[k].link /\ snap'[k] = snap[k] /\ srv[k].master # n
                \/ Linked(srv', snap', k)
             /\ srv'[k].link = "transfer" =>
                  /\ Holds(G[snap'[k].replid], snap'[k].offset, snap'[k].data)
                  /\ Visible(srv[k], snap[k], snap'[k].replid) \/ Served(snap'[k].replid),
           \* the server that changes
           ServerSound(G, srv'[n]), Known(srv'[n], nextId', writes'),
           srv'[n].link = "transfer" => Holds(G[snap'[n].replid], snap'[n].offset, snap'[n].data),
           Linked(srv', snap', n), Alone(srv', snap', n),
           \A id \in Nat : Visible(srv'[n], snap'[n], id) =>
             Visible(srv[n], snap[n], id) \/ id >= nextId \/ id = NoId \/ Served(id),
           srv'[n].master = None =>
             srv'[n].replid >= nextId \/ (srv[n].master = None /\ srv'[n].replid = srv[n].replid)
    PROVE  Sound(G)'
<1> USE DEF Sound
<1>1. /\ \A k \in Servers : srv[k] \in Server /\ srv'[k] \in Server /\ srv[k].replid \in Nat \ {NoId}
      /\ \A k \in Servers : srv'[k].replid \in Nat \ {NoId} /\ srv[k].replid < nextId
      /\ nextId \in Nat /\ nextId' \in Nat /\ writes \in Nat /\ writes' \in Nat
  <2>1. \A k \in Servers : srv[k] \in Server /\ srv'[k] \in Server
    BY DEF TypeOK
  <2>2. nextId \in Nat /\ nextId' \in Nat
    BY DEF TypeOK
  <2>3. writes \in Nat /\ writes' \in Nat
    BY ReplicationConstants DEF TypeOK
  <2>4. \A k \in Servers : srv[k].replid < nextId
    BY DEF ServersKnown, Known
  <2>5. \A k \in Servers : srv'[k].replid \in Nat \ {NoId} /\ srv[k].replid \in Nat \ {NoId}
    BY <2>1 DEF Server
  <2> QED BY <2>1, <2>2, <2>3, <2>4, <2>5
<1>2. ASSUME NEW k \in Servers \ {n} PROVE Linked(srv', snap', k)
  <2>1. CASE srv'[k].link = "none"
    BY <2>1 DEF Linked, SameButLink, LinksSound
  <2>2. CASE srv'[k].link = srv[k].link /\ snap'[k] = snap[k] /\ srv[k].master # n
    <3>1. Linked(srv, snap, k) /\ SameButLink(srv[k], srv'[k])
      BY DEF LinksSound
    <3>2. CASE srv[k].link = "none"
      BY <2>1, <2>2, <3>2
    <3>3. CASE srv[k].link # "none"
      <4>1. srv[k].master \in Servers \ {n}
        BY <1>1, <2>2, <3>1, <3>3 DEF Linked, Server
      <4>2. SameButLink(srv[srv[k].master], srv'[srv[k].master])
        BY <4>1
      <4>3. LinkTo(srv'[srv[k].master], srv'[k], snap'[k])
        BY <2>2, <3>1, <3>3, <4>2 DEF Linked, LinkTo, SameButLink, HasBacklog
      <4> QED BY <3>1, <4>3 DEF Linked, SameButLink
    <3> QED BY <3>2, <3>3
  <2> QED BY <2>1, <2>2
<1>3. ASSUME NEW k \in Servers \ {n}
      PROVE  /\ ServerSound(G, srv'[k]) /\ Known(srv'[k], nextId', writes')
             /\ srv'[k].link = "transfer" => Holds(G[snap'[k].replid], snap'[k].offset, snap'[k].data)
  <2>1. SameButLink(srv[k], srv'[k]) /\ ServerSound(G, srv[k])
    OBVIOUS
  <2>2. srv[k].master = None => srv'[k].link = "none"
    BY <1>2, <2>1 DEF Linked, SameButLink
  <2>3. ServerSound(G, srv'[k])
    BY <1>1, <2>1, <2>2, SameSound
  <2>4. Known(srv'[k], nextId', writes')
    <3>1. Known(srv[k], nextId, writes)
      BY DEF ServersKnown
    <3>2. /\ srv[k].replid \in Nat /\ srv[k].replid2 \in Nat /\ srv[k].offset \in Nat
          /\ srv[k].rdb.replid \in Nat /\ srv[k].rdb.offset \in Nat
      BY <1>1, ServerFields, RdbFields
    <3>3. Known(srv[k], nextId', writes')
      BY <1>1, <3>1, <3>2 DEF Known, KnownRdb
    <3> QED BY <2>1, <3>3 DEF SameButLink, Known
  <2> QED BY <2>3, <2>4
<1>4. ASSUME NEW k \in Servers \ {n} PROVE Alone(srv', snap', k)
  <2>1. SameButLink(srv[k], srv'[k]) /\ Alone(srv, snap, k) /\ ServerSound(G, srv[k])
    BY DEF AloneSound
  <2>2. SUFFICES ASSUME ~HasBacklog(srv[k]), Private(srv, snap, k)
                 PROVE  Private(srv', snap', k)
    BY <2>1 DEF Alone, SameButLink, ServerSound, HasBacklog
  <2> DEFINE id == srv[k].replid
  <2>3. ~Served(id)
    BY <2>2 DEF Served, Private, Visible
  <2>4. ASSUME NEW m \in Servers \ {k} PROVE ~Visible(srv'[m], snap'[m], id)
    <3>1. ~Visible(srv[m], snap[m], id)
      BY <2>2 DEF Private
    <3>2. CASE m = n
      <4>1. id \in Nat /\ id # NoId /\ ~(id >= nextId)
        BY <1>1
      <4> QED BY <2>3, <3>1, <3>2, <4>1
    <3>3. CASE m # n
      <4>1. SameButLink(srv[m], srv'[m])
        BY <3>3
      <4>2. srv'[m].link = "transfer" => snap'[m].replid # id
        BY <2>3, <3>1, <3>3
      <4> QED BY <3>1, <4>1, <4>2 DEF Visible, SameButLink
    <3> QED BY <3>2, <3>3
  <2> QED BY <2>1, <2>4 DEF Private, SameButLink
<1>5. MastersDiffer'
  <2>1. ASSUME NEW k \in Servers \ {n}, srv'[k].master = None, srv'[n].master = None
        PROVE  srv'[k].replid # srv'[n].replid
    <3>1. srv[k].master = None /\ srv'[k].replid = srv[k].replid
      BY <2>1 DEF SameButLink
    <3>2. CASE srv'[n].replid >= nextId
      BY <1>1, <3>1, <3>2
    <3>3. CASE srv[n].master = None /\ srv'[n].replid = srv[n].replid
      BY <3>1, <3>3 DEF MastersDiffer
    <3> QED BY <2>1, <3>2, <3>3
  <2>2. ASSUME NEW k \in Servers \ {n}, NEW m \in Servers \ {n}, k # m,
               srv'[k].master = None, srv'[m].master = None
        PROVE  srv'[k].replid # srv'[m].replid
    BY <2>2 DEF MastersDiffer, SameButLink
  <2> QED BY <2>1, <2>2 DEF MastersDiffer
<1>6. ServersKnown'
  BY <1>3 DEF ServersKnown
<1>7. LinksSound' /\ AloneSound'
  BY <1>2, <1>4 DEF LinksSound, AloneSound
<1>8. Histories(G)'
  BY <1>3 DEF Histories
<1> QED BY <1>5, <1>6, <1>7, <1>8

(***************************************************************************)
(* Unlinking, and steps in terms of it.                                    *)
(***************************************************************************)
LEMMA UnlinkedFields ==
    ASSUME NEW s \in Server
    PROVE  /\ Unlinked(s) \in Server
           /\ Unlinked(s).link = "none" /\ Unlinked(s).cached = (s.cached \/ s.link = "up")
           /\ Unlinked(s).replid = s.replid /\ Unlinked(s).replid2 = s.replid2
           /\ Unlinked(s).second = s.second /\ Unlinked(s).offset = s.offset
           /\ Unlinked(s).data = s.data /\ Unlinked(s).log = s.log
           /\ Unlinked(s).first = s.first /\ Unlinked(s).master = s.master
           /\ Unlinked(s).rdb = s.rdb
BY DEF Unlinked, Server

LEMMA UnlinkedSame ==
    ASSUME NEW s \in Server
    PROVE  SameButLink(s, Unlinked(s)) /\ SameButLink(s, s)
<1>1. SameButLink(s, Unlinked(s))
  BY UnlinkedFields DEF SameButLink
<1>2. SameButLink(s, s)
  BY DEF SameButLink
<1> QED BY <1>1, <1>2

LEMMA NoRdbType == NoRdb \in Rdb /\ NoRdb.replid = NoId /\ NoRdb.offset = 0
<1>1. MaxWrites \in Nat
  BY ReplicationConstants
<1>2. <<>> \in Seq(1 .. MaxWrites) /\ 0 \in 0 .. MaxWrites
  BY <1>1
<1> QED BY <1>2 DEF NoRdb, Rdb, NoId

LEMMA SoundFacts ==
    ASSUME NEW H \in [Nat -> History], Sound(H)
    PROVE  /\ srv \in [Servers -> Server] /\ snap \in [Servers -> Rdb]
           /\ nextId \in Nat /\ writes \in Nat
           /\ \A k \in Servers :
                /\ srv[k] \in Server /\ snap[k] \in Rdb
                /\ ServerSound(H, srv[k]) /\ Known(srv[k], nextId, writes) /\ Linked(srv, snap, k)
                /\ Alone(srv, snap, k) /\ KnownRdb(snap[k], nextId, writes)
                /\ srv[k].link = "transfer" => Holds(H[snap[k].replid], snap[k].offset, snap[k].data)
<1>1. srv \in [Servers -> Server] /\ snap \in [Servers -> Rdb] /\ nextId \in Nat
  BY DEF Sound, TypeOK
<1>2. writes \in Nat
  BY ReplicationConstants DEF Sound, TypeOK
<1>3. \A k \in Servers : srv[k] \in Server /\ snap[k] \in Rdb
  BY <1>1
<1> QED BY <1>1, <1>2, <1>3 DEF Sound, ServersKnown, LinksSound, AloneSound, Histories

LEMMA OwnMaster ==
    ASSUME NEW H \in [Nat -> History], Sound(H), NEW n \in Servers
    PROVE  n \notin Slaves(n)
BY SoundFacts DEF Linked, Slaves

\* New records: at n, and at n with its slaves disconnected.
LEMMA Replaced ==
    ASSUME NEW H \in [Nat -> History], Sound(H), NEW n \in Servers, NEW t \in Server,
           srv' = [srv EXCEPT ![n] = t]
    PROVE  /\ srv' \in [Servers -> Server] /\ srv'[n] = t
           /\ \A k \in Servers \ {n} : srv'[k] = srv[k]
BY SoundFacts

LEMMA Disconnected ==
    ASSUME NEW H \in [Nat -> History], Sound(H), NEW n \in Servers, NEW t \in Server,
           srv' = DisconnectSlaves([srv EXCEPT ![n] = t], n)
    PROVE  /\ srv' \in [Servers -> Server] /\ srv'[n] = t
           /\ \A k \in Servers \ {n} : IF k \in Slaves(n) THEN srv'[k] = Unlinked(srv[k])
                                                        ELSE srv'[k] = srv[k]
<1> DEFINE f == [srv EXCEPT ![n] = t]
<1>1. f \in [Servers -> Server] /\ f[n] = t /\ \A k \in Servers \ {n} : f[k] = srv[k]
  BY SoundFacts
<1> HIDE DEF f
<1>2. \A k \in Servers : f[k] \in Server /\ Unlinked(f[k]) \in Server
  BY <1>1, UnlinkedFields
<1>3. srv' = [r \in Servers |-> IF r \in Slaves(n) THEN Unlinked(f[r]) ELSE f[r]]
  BY DEF DisconnectSlaves, f
<1>4. n \notin Slaves(n)
  BY OwnMaster
<1> QED BY <1>1, <1>2, <1>3, <1>4

\* A history that is not among the known ones may be what we like.
LEMMA LaterHistory ==
    ASSUME NEW H \in [Nat -> History], NEW G \in [Nat -> History], Sound(H),
           \A id \in Nat : id < nextId => G[id] = H[id]
    PROVE  \A k \in Servers :
             /\ ServerSound(G, srv[k])
             /\ srv[k].link = "transfer" => Holds(G[snap[k].replid], snap[k].offset, snap[k].data)
<1> TAKE k \in Servers
<1>1. /\ srv[k] \in Server /\ snap[k] \in Rdb
      /\ ServerSound(H, srv[k]) /\ Known(srv[k], nextId, writes) /\ KnownRdb(snap[k], nextId, writes)
      /\ srv[k].link = "transfer" => Holds(H[snap[k].replid], snap[k].offset, snap[k].data)
  BY SoundFacts
<1>2. srv[k].replid \in Nat /\ srv[k].replid2 \in Nat /\ srv[k].rdb.replid \in Nat /\ snap[k].replid \in Nat
  BY <1>1, ServerFields, RdbFields
<1>3. /\ G[srv[k].replid] = H[srv[k].replid] /\ G[srv[k].replid2] = H[srv[k].replid2]
      /\ G[srv[k].rdb.replid] = H[srv[k].rdb.replid] /\ G[snap[k].replid] = H[snap[k].replid]
  BY <1>1, <1>2 DEF Known, KnownRdb
<1> QED BY <1>1, <1>3 DEF ServerSound

\* The other servers: unchanged or unlinked, and what they know is of G.
OthersKept(n) ==
  \A k \in Servers \ {n} :
    \/ srv'[k] = Unlinked(srv[k]) /\ snap'[k] \in {snap[k], NoRdb}
    \/ /\ srv'[k] = srv[k] /\ snap'[k] = snap[k]
       /\ k \in Slaves(n) => LinkTo(srv'[n], srv[k], snap[k])
OthersSound(G, n) ==
  \A k \in Servers \ {n} :
    /\ ServerSound(G, srv[k])
    /\ srv[k].link = "transfer" => Holds(G[snap[k].replid], snap[k].offset, snap[k].data)

\* The server that changes: it learns only new IDs and those that are served.
NewSound(G, n) ==
  /\ KnownRdb(snap'[n], nextId', writes')
  /\ ServerSound(G, srv'[n]) /\ Known(srv'[n], nextId', writes')
  /\ srv'[n].link = "transfer" => Holds(G[snap'[n].replid], snap'[n].offset, snap'[n].data)
  /\ Linked(srv', snap', n) /\ Alone(srv', snap', n)
NewIds(n) ==
  /\ \A id \in Nat : Visible(srv'[n], snap'[n], id) =>
       Visible(srv[n], snap[n], id) \/ id >= nextId \/ id = NoId \/ Served(id)
  /\ srv'[n].master = None =>
       srv'[n].replid >= nextId \/ (srv[n].master = None /\ srv'[n].replid = srv[n].replid)

LEMMA Changes ==
    ASSUME NEW H \in [Nat -> History], NEW G \in [Nat -> History], Sound(H), TypeOK', NEW n \in Servers,
           nextId' >= nextId, writes' >= writes,
           OthersKept(n), OthersSound(G, n), NewSound(G, n), NewIds(n)
    PROVE  Sound(G)'
<1> USE DEF OthersKept, OthersSound, NewSound, NewIds
<1>1. \A k \in Servers : /\ srv[k] \in Server /\ snap[k] \in Rdb /\ KnownRdb(snap[k], nextId, writes)
                         /\ Linked(srv, snap, k)
  BY SoundFacts
<1>2. nextId \in Nat /\ nextId' \in Nat /\ writes \in Nat /\ writes' \in Nat
  <2>1. nextId \in Nat /\ writes \in Nat
    BY SoundFacts
  <2> QED BY <2>1, ReplicationConstants DEF TypeOK
<1>3. \A k \in Servers : KnownRdb(snap'[k], nextId', writes')
  <2> SUFFICES ASSUME NEW k \in Servers \ {n} PROVE KnownRdb(snap'[k], nextId', writes')
    OBVIOUS
  <2>1. snap'[k] \in {snap[k], NoRdb}
    OBVIOUS
  <2>2. CASE snap'[k] = snap[k]
    <3>1. snap[k].replid \in Nat /\ snap[k].offset \in Nat /\ snap[k].replid < nextId /\ snap[k].offset <= writes
      BY <1>1, RdbFields DEF KnownRdb
    <3> QED BY <1>2, <2>2, <3>1 DEF KnownRdb
  <2>3. CASE snap'[k] = NoRdb
    <3>1. 0 < nextId'
      <4>1. Known(srv[k], nextId, writes) /\ srv[k].replid \in Nat
        BY <1>1, SoundFacts, ServerFields
      <4> QED BY <1>2, <4>1 DEF Known
    <3> QED BY <1>2, <2>3, <3>1, NoRdbType DEF KnownRdb, NoId
  <2> QED BY <2>1, <2>2, <2>3
<1>4. ASSUME NEW k \in Servers \ {n}
      PROVE  /\ SameButLink(srv[k], srv'[k])
             /\ ServerSound(G, srv[k])
             /\ \/ srv'[k].link = "none"
                \/ srv'[k].link = srv[k].link /\ snap'[k] = snap[k] /\ srv[k].master # n
                \/ Linked(srv', snap', k)
             /\ srv'[k].link = "transfer" =>
                  /\ Holds(G[snap'[k].replid], snap'[k].offset, snap'[k].data)
                  /\ Visible(srv[k], snap[k], snap'[k].replid) \/ Served(snap'[k].replid)
  <2>1. ServerSound(G, srv[k]) /\ srv[k] \in Server
    BY <1>1
  <2>2. CASE srv'[k] = Unlinked(srv[k])
    <3>1. SameButLink(srv[k], srv'[k]) /\ srv'[k].link = "none"
      BY <2>1, <2>2, UnlinkedFields, UnlinkedSame
    <3> QED BY <2>1, <3>1
  <2>3. CASE srv'[k] = srv[k] /\ snap'[k] = snap[k] /\ (k \in Slaves(n) => LinkTo(srv'[n], srv[k], snap[k]))
    <3>1. SameButLink(srv[k], srv'[k])
      BY <2>1, <2>3, UnlinkedSame
    <3>2. CASE srv[k].link = "none"
      BY <2>1, <2>3, <3>1, <3>2
    <3>3. CASE srv[k].link # "none" /\ srv[k].master = n
      <4>1. Linked(srv', snap', k)
        BY <1>1, <2>3, <3>3 DEF Slaves, Linked
      <4>2. srv'[k].link = "transfer" =>
              /\ Holds(G[snap'[k].replid], snap'[k].offset, snap'[k].data)
              /\ Visible(srv[k], snap[k], snap'[k].replid)
        BY <2>3 DEF Visible
      <4> QED BY <2>1, <3>1, <4>1, <4>2
    <3>4. CASE srv[k].link # "none" /\ srv[k].master # n
      <4>1. srv'[k].link = "transfer" =>
              /\ Holds(G[snap'[k].replid], snap'[k].offset, snap'[k].data)
              /\ Visible(srv[k], snap[k], snap'[k].replid)
        BY <2>3 DEF Visible
      <4> QED BY <2>1, <2>3, <3>1, <3>4, <4>1
    <3> QED BY <3>2, <3>3, <3>4
  <2> QED BY <2>2, <2>3
<1> QED BY <1>3, <1>4, OneServer

\* A fresh ID is nobody else's.
LEMMA FreshAlone ==
    ASSUME NEW H \in [Nat -> History], Sound(H), NEW n \in Servers, srv'[n].replid = nextId,
           srv'[n].rdb.replid < nextId,
           \A k \in Servers \ {n} : /\ srv'[k] \in {srv[k], Unlinked(srv[k])}
                                    /\ snap'[k] \in {snap[k], NoRdb}
    PROVE  Alone(srv', snap', n)
<1>1. nextId \in Nat
  BY SoundFacts
<1>2. ASSUME NEW k \in Servers \ {n} PROVE ~Visible(srv'[k], snap'[k], nextId)
  <2>1. srv[k] \in Server /\ snap[k] \in Rdb /\ Known(srv[k], nextId, writes) /\ KnownRdb(snap[k], nextId, writes)
    BY SoundFacts
  <2>2. /\ srv[k].replid \in Nat /\ srv[k].replid2 \in Nat /\ srv[k].rdb.replid \in Nat /\ snap[k].replid \in Nat
    BY <2>1, ServerFields, RdbFields
  <2>3. srv'[k].replid = srv[k].replid /\ srv'[k].replid2 = srv[k].replid2 /\ srv'[k].rdb = srv[k].rdb
    BY <2>1, UnlinkedFields
  <2>4. srv'[k].replid < nextId /\ srv'[k].replid2 < nextId /\ srv'[k].rdb.replid < nextId
    BY <2>1, <2>3 DEF Known, KnownRdb
  <2>5. snap'[k].replid < nextId
    <3>1. CASE snap'[k] = snap[k]
      BY <2>1, <3>1 DEF KnownRdb
    <3>2. CASE snap'[k] = NoRdb
      BY <1>1, <2>1, <2>2, <3>2, NoRdbType DEF Known, NoId
    <3> QED BY <3>1, <3>2
  <2>6. snap'[k].replid \in Nat
    BY <2>2, NoRdbType DEF NoId
  <2> QED BY <1>1, <2>2, <2>3, <2>4, <2>5, <2>6 DEF Visible
<1>3. Private(srv', snap', n)
  BY <1>2 DEF Private
<1>4. srv'[n].rdb.replid # srv'[n].replid
  <2>1. ~(nextId < nextId)
    BY <1>1
  <2> QED BY <2>1
<1> QED BY <1>3, <1>4 DEF Alone

(***************************************************************************)
(* The stream.                                                             *)
(***************************************************************************)
\* The end of the data stays its end.
LEMMA SuffixAppend ==
    ASSUME NEW S, NEW data \in Seq(S), NEW log \in Seq(S), NEW w \in S, IsEnd(log, data)
    PROVE  /\ Append(data, w) \in Seq(S) /\ Len(Append(data, w)) = Len(data) + 1
           /\ Append(log, w) \in Seq(S) /\ Len(Append(log, w)) = Len(log) + 1
           /\ IsEnd(Append(log, w), Append(data, w))
           /\ Tail(Append(log, w)) \in Seq(S) /\ Len(Tail(Append(log, w))) = Len(log)
           /\ IsEnd(Tail(Append(log, w)), Append(data, w))
<1> DEFINE D == Append(data, w)
           L == Append(log, w)
           T == Tail(L)
<1>1. /\ D \in Seq(S) /\ Len(D) = Len(data) + 1 /\ D[Len(data) + 1] = w
      /\ \A i \in 1 .. Len(data) : D[i] = data[i]
  OBVIOUS
<1>2. /\ L \in Seq(S) /\ Len(L) = Len(log) + 1 /\ L[Len(log) + 1] = w
      /\ \A i \in 1 .. Len(log) : L[i] = log[i]
  OBVIOUS
<1>3. L # <<>>
  BY <1>2
<1>4. T \in Seq(S) /\ Len(T) = Len(L) - 1 /\ \A i \in 1 .. Len(T) : T[i] = L[i + 1]
  BY <1>2, <1>3
<1>5. /\ Len(data) \in Nat /\ Len(log) \in Nat /\ Len(log) <= Len(data)
      /\ \A i \in 1 .. Len(log) : log[i] = data[Len(data) - Len(log) + i]
  BY DEF IsEnd
<1> HIDE DEF D, L, T
<1>6. ASSUME NEW i \in 1 .. Len(L) PROVE L[i] = D[Len(D) - Len(L) + i]
  <2>1. CASE i = Len(log) + 1
    <3>1. Len(D) - Len(L) + i = Len(data) + 1
      BY <1>1, <1>2, <1>5, <2>1
    <3> QED BY <1>1, <1>2, <2>1, <3>1
  <2>2. CASE i \in 1 .. Len(log)
    <3>1. Len(D) - Len(L) + i = Len(data) - Len(log) + i /\ Len(data) - Len(log) + i \in 1 .. Len(data)
      BY <1>1, <1>2, <1>5, <2>2
    <3>2. L[i] = data[Len(data) - Len(log) + i]
      BY <1>2, <1>5, <2>2
    <3> QED BY <1>1, <3>1, <3>2
  <2> QED BY <1>2, <1>5, <2>1, <2>2
<1>7. ASSUME NEW i \in 1 .. Len(T) PROVE T[i] = D[Len(D) - Len(T) + i]
  <2>1. i + 1 \in 1 .. Len(L) /\ Len(D) - Len(L) + (i + 1) = Len(D) - Len(T) + i
    BY <1>1, <1>2, <1>4, <1>5
  <2>2. L[i + 1] = D[Len(D) - Len(L) + (i + 1)]
    BY <1>6, <2>1
  <2> QED BY <1>4, <2>1, <2>2
<1>8. Len(T) = Len(log) /\ Len(L) <= Len(D) /\ Len(T) <= Len(D)
  BY <1>1, <1>2, <1>4, <1>5
<1>9. IsEnd(L, D) /\ IsEnd(T, D)
  BY <1>6, <1>7, <1>8 DEF IsEnd
<1> QED BY <1>1, <1>2, <1>4, <1>8, <1>9 DEF D, L, T

\* A write fed to the buffer of n: nothing a slave has to read is trimmed.
LEMMA FedSound ==
    ASSUME NEW H \in [Nat -> History], Sound(H), NEW n \in Servers, HasBacklog(srv[n]),
           srv[n].offset < MaxWrites, NEW w \in 1 .. MaxWrites, NEW u \in Fed(n, srv[n], w)
    PROVE  LET s == srv[n]
               t == [u EXCEPT !.data = Append(@, w)]
           IN  /\ t \in Server /\ t.offset = s.offset + 1 /\ t.data = Append(s.data, w)
               /\ t.replid = s.replid /\ t.replid2 = s.replid2 /\ t.second = s.second
               /\ t.master = s.master /\ t.link = s.link /\ t.cached = s.cached /\ t.rdb = s.rdb
               /\ HasBacklog(t) /\ BacklogSound(t)
               /\ \A k \in Slaves(n) : LinkTo(t, srv[k], snap[k])
<1> DEFINE s == srv[n]
           D == Append(s.data, w)
           L == Append(s.log, w)
           T == Tail(L)
           t == [u EXCEPT !.data = Append(@, w)]
<1>1. s \in Server /\ BacklogSound(s)
  BY SoundFacts DEF ServerSound
<1>2. /\ s.offset \in Nat /\ s.first \in Nat /\ s.data \in Seq(1 .. MaxWrites) /\ s.log \in Seq(1 .. MaxWrites)
      /\ Len(s.data) \in Nat /\ Len(s.log) \in Nat
  BY <1>1, ServerFields
<1>3. MaxWrites \in Nat /\ backlog_size \in Nat \ {0}
  BY ReplicationConstants
<1>4. s.first = s.offset + 1 - Len(s.log) /\ IsEnd(s.log, s.data) /\ s.first # 0
  BY <1>1 DEF BacklogSound, HasBacklog
<1>5. /\ D \in Seq(1 .. MaxWrites) /\ L \in Seq(1 .. MaxWrites) /\ T \in Seq(1 .. MaxWrites)
      /\ IsEnd(L, D) /\ IsEnd(T, D) /\ Len(L) = Len(s.log) + 1 /\ Len(T) = Len(s.log)
  <2> DEFINE W == 1 .. MaxWrites
  <2>1. s.data \in Seq(W) /\ s.log \in Seq(W) /\ w \in W
    BY <1>2
  <2>3. IsEnd(s.log, s.data)
    BY <1>4
  <2> HIDE DEF W, s, D, L, T
  <2>2. /\ D \in Seq(W) /\ L \in Seq(W) /\ T \in Seq(W)
        /\ IsEnd(L, D) /\ IsEnd(T, D) /\ Len(L) = Len(s.log) + 1 /\ Len(T) = Len(s.log)
    BY <2>1, <2>3, SuffixAppend DEF D, L, T
  <2> QED BY <2>2 DEF W
<1>a. Len(L) = Len(s.log) + 1 /\ Len(T) = Len(s.log)
  BY <1>5
<1>6. s.offset + 1 \in 0 .. MaxWrites
  BY <1>2, <1>3
<1>7. ASSUME NEW k \in Slaves(n) PROVE LinkTo(s, srv[k], snap[k]) /\ k \in Servers
  BY SoundFacts DEF Slaves, Linked
<1>8. ASSUME NEW k \in Slaves(n)
      PROVE  /\ srv[k].offset \in Nat /\ snap[k].offset \in Nat
  BY <1>7, SoundFacts, ServerFields, RdbFields
<1>9. CASE u = [s EXCEPT !.offset = @ + 1, !.log = L]
  <2>1. /\ t \in Server /\ t.offset = s.offset + 1 /\ t.data = D /\ t.log = L /\ t.first = s.first
        /\ t.replid = s.replid /\ t.replid2 = s.replid2 /\ t.second = s.second
        /\ t.master = s.master /\ t.link = s.link /\ t.cached = s.cached /\ t.rdb = s.rdb
    <3> HIDE DEF D, L
    <3>1. t = [s EXCEPT !.offset = s.offset + 1, !.log = L, !.data = D]
      BY <1>1, <1>9 DEF Server, D
    <3> QED BY <1>1, <1>5, <1>6, <3>1 DEF Server
  <2> HIDE DEF t, D, L
  <2>2. HasBacklog(t)
    BY <1>4, <2>1 DEF HasBacklog
  <2>3. BacklogSound(t)
    <3>1. s.first = s.offset + 1 + 1 - Len(L)
      BY <1>2, <1>4, <1>a
    <3> QED BY <1>5, <2>1, <3>1 DEF BacklogSound
  <2>4. ASSUME NEW k \in Slaves(n) PROVE LinkTo(t, srv[k], snap[k])
    <3>1. /\ srv[k].offset <= s.offset => srv[k].offset <= t.offset
          /\ snap[k].offset <= s.offset => snap[k].offset <= t.offset
      BY <1>2, <1>8, <2>1
    <3> QED BY <1>7, <2>1, <2>2, <3>1 DEF LinkTo
  <2> QED BY <2>1, <2>2, <2>3, <2>4 DEF t, D
<1>10. CASE /\ Len(L) > backlog_size /\ ~Referenced(n, s.first)
            /\ u = [[s EXCEPT !.offset = @ + 1, !.log = L] EXCEPT !.log = T, !.first = @ + 1]
  <2>1. s.first + 1 \in 0 .. MaxWrites + 1
    <3> HIDE DEF L, s
    <3>1. Len(L) > backlog_size
      BY <1>10
    <3>2. s.offset \in Nat /\ s.first \in Nat /\ Len(s.log) \in Nat
      BY <1>2
    <3>3. Len(s.log) >= 1
      BY <1>3, <1>a, <3>1, <3>2
    <3>4. s.first + 1 <= s.offset + 1
      BY <1>4, <3>2, <3>3
    <3>5. s.offset + 1 <= MaxWrites
      BY <1>6
    <3> QED BY <1>3, <3>2, <3>4, <3>5
  <2>2. /\ t \in Server /\ t.offset = s.offset + 1 /\ t.data = D /\ t.log = T /\ t.first = s.first + 1
        /\ t.replid = s.replid /\ t.replid2 = s.replid2 /\ t.second = s.second
        /\ t.master = s.master /\ t.link = s.link /\ t.cached = s.cached /\ t.rdb = s.rdb
    <3> HIDE DEF D, L, T
    <3>1. t = [s EXCEPT !.offset = s.offset + 1, !.log = T, !.first = s.first + 1, !.data = D]
      BY <1>1, <1>10 DEF Server, D
    <3> QED BY <1>1, <1>5, <1>6, <2>1, <3>1 DEF Server
  <2> HIDE DEF t, D, L, T
  <2>3. HasBacklog(t)
    BY <1>2, <2>2 DEF HasBacklog
  <2>4. BacklogSound(t)
    <3>1. s.first + 1 = s.offset + 1 + 1 - Len(T)
      BY <1>2, <1>4, <1>a
    <3> QED BY <1>5, <2>2, <3>1 DEF BacklogSound
  <2>5. ASSUME NEW k \in Slaves(n) PROVE LinkTo(t, srv[k], snap[k])
    <3>1. /\ srv[k].offset <= s.offset => srv[k].offset <= t.offset
          /\ snap[k].offset <= s.offset => snap[k].offset <= t.offset
      BY <1>2, <1>8, <2>2
    <3>2. srv[k].link \in {"transfer", "up"} => ~(NextOffset(k) <= s.first)
      BY <1>10 DEF Referenced
    <3>3. srv[k].link = "up" => t.first <= srv[k].offset + 1
      BY <1>2, <1>8, <2>2, <3>2 DEF NextOffset
    <3>4. srv[k].link = "transfer" => t.first <= snap[k].offset + 1
      BY <1>2, <1>8, <2>2, <3>2 DEF NextOffset
    <3> QED BY <1>7, <2>2, <2>3, <3>1, <3>3, <3>4 DEF LinkTo
  <2> QED BY <2>2, <2>3, <2>4, <2>5 DEF t, D
<1>11. u = [s EXCEPT !.offset = @ + 1, !.log = L] \/
       (/\ Len(L) > backlog_size /\ ~Referenced(n, s.first)
        /\ u = [[s EXCEPT !.offset = @ + 1, !.log = L] EXCEPT !.log = T, !.first = @ + 1])
  BY DEF Fed
<1> QED BY <1>9, <1>10, <1>11

\* A history that grows keeps what was of it.
LEMMA HistoryGrows ==
    ASSUME NEW h \in History, NEW w \in 1 .. MaxWrites
    PROVE  LET g == [h EXCEPT !.data = Append(@, w)]
           IN  /\ g \in History /\ g.base = h.base /\ g.data = Append(h.data, w)
               /\ \A o \in Nat, d \in Seq(1 .. MaxWrites) : Holds(h, o, d) => Holds(g, o, d)
               /\ \A s \in Server : Had(h, s) => Had(g, s)
<1> DEFINE W == 1 .. MaxWrites
           g == [h EXCEPT !.data = Append(@, w)]
<1>1. h.base \in Int /\ h.data \in Seq(W) /\ w \in W
  BY DEF History
<1>2. g.base = h.base /\ g.data = Append(h.data, w) /\ g \in History
  <2>1. Append(h.data, w) \in Seq(W)
    <3> HIDE DEF W
    <3> QED BY <1>1
  <2> QED BY <1>1, <2>1 DEF History
<1>3. /\ Len(g.data) = Len(h.data) + 1 /\ Len(h.data) \in Nat
      /\ \A i \in 1 .. Len(h.data) : g.data[i] = h.data[i]
  <2> HIDE DEF W, g
  <2> QED BY <1>1, <1>2
<1> HIDE DEF g
<1>4. ASSUME NEW o \in Nat, NEW d \in Seq(W), Holds(h, o, d) PROVE Holds(g, o, d)
  <2>1. Len(d) \in Nat /\ Len(d) = o + h.base /\ Len(d) <= Len(h.data)
        /\ \A i \in 1 .. Len(d) : d[i] = h.data[i]
    BY <1>4 DEF Holds
  <2>2. Len(d) <= Len(g.data) /\ \A i \in 1 .. Len(d) : i \in 1 .. Len(h.data)
    BY <1>3, <2>1
  <2> QED BY <1>2, <1>3, <2>1, <2>2 DEF Holds
<1>5. ASSUME NEW s \in Server, Had(h, s) PROVE Had(g, s)
  <2>1. s.second \in Int
    BY ServerFields
  <2>2. /\ Len(s.data) = s.offset + h.base /\ s.second <= s.offset + 1
        /\ s.second - 1 + h.base <= Len(h.data)
        /\ \A i \in 1 .. s.second - 1 + h.base : s.data[i] = h.data[i]
    BY <1>5 DEF Had
  <2> DEFINE e == s.second - 1 + h.base
  <2>3. e \in Int /\ e <= Len(h.data)
    BY <1>1, <2>1, <2>2
  <2>4. e <= Len(g.data) /\ \A i \in 1 .. e : i \in 1 .. Len(h.data)
    <3> HIDE DEF e
    <3> QED BY <1>3, <2>3
  <2>5. \A i \in 1 .. e : s.data[i] = g.data[i]
    BY <1>3, <2>2, <2>4
  <2> QED BY <1>2, <2>2, <2>4, <2>5 DEF Had
<1> QED BY <1>2, <1>4, <1>5 DEF g

\* What a server had before second it has as its data grows.
LEMMA HadGrows ==
    ASSUME NEW h \in History, NEW s \in Server, NEW t \in Server, NEW w \in 1 .. MaxWrites,
           Had(h, s), t.data = Append(s.data, w), t.offset = s.offset + 1, t.second = s.second
    PROVE  Had(h, t)
<1> DEFINE W == 1 .. MaxWrites
           e == s.second - 1 + h.base
<1>1. /\ s.data \in Seq(W) /\ w \in W /\ s.offset \in Nat /\ s.second \in Int /\ h.base \in Int
      /\ Len(s.data) \in Nat
  BY ServerFields DEF History
<1>2. Len(t.data) = Len(s.data) + 1 /\ \A i \in 1 .. Len(s.data) : t.data[i] = s.data[i]
  <2> HIDE DEF W
  <2> QED BY <1>1
<1>3. Len(s.data) = s.offset + h.base /\ s.second <= s.offset + 1 /\ e <= Len(h.data)
  BY DEF Had
<1>4. \A i \in 1 .. e : s.data[i] = h.data[i]
  BY DEF Had
<1>5. e \in Int /\ e <= Len(s.data)
  BY <1>1, <1>3
<1>6. \A i \in 1 .. e : t.data[i] = h.data[i]
  <2> HIDE DEF e
  <2> QED BY <1>1, <1>2, <1>4, <1>5
<1>7. Len(t.data) = t.offset + h.base /\ t.second <= t.offset + 1
  BY <1>1, <1>2, <1>3
<1> QED BY <1>3, <1>6, <1>7 DEF Had

LEMMA WriteStep ==
    ASSUME NEW H \in [Nat -> History], Sound(H), NEW n \in Servers, Write(n)
    PROVE  \E G \in [Nat -> History] : Sound(G)'
<1> DEFINE s == srv[n]
           w == writes + 1
           W == 1 .. MaxWrites
<1>1. /\ s.master = None /\ writes < MaxWrites /\ writes' = w
      /\ UNCHANGED <<snap, nextId, events>>
  BY DEF Write, IsMaster
<1>2. /\ s \in Server /\ ServerSound(H, s) /\ Known(s, nextId, writes) /\ Linked(srv, snap, n)
      /\ Alone(srv, snap, n) /\ writes \in Nat /\ nextId \in Nat /\ MaxWrites \in Nat
  BY SoundFacts, ReplicationConstants
<1>3. /\ s.offset \in Nat /\ s.data \in Seq(W) /\ s.rdb \in Rdb /\ s.replid \in Nat /\ Len(s.data) \in Nat
      /\ s.rdb.offset \in Nat /\ s.rdb.replid \in Nat /\ s.replid2 \in Nat
  BY <1>2, ServerFields, RdbFields
<1>4. w \in W /\ w \in 0 .. MaxWrites /\ writes' \in Nat /\ writes' >= writes /\ nextId' >= nextId
  BY <1>1, <1>2
<1>5. \A k \in Servers : KnownRdb(snap'[k], nextId', writes')
  <2> TAKE k \in Servers
  <2>1. KnownRdb(snap[k], nextId, writes) /\ snap[k].offset \in Nat
    BY SoundFacts, RdbFields
  <2> QED BY <1>1, <1>2, <2>1 DEF KnownRdb
<1>6. ASSUME NEW t \in Server, srv' = [srv EXCEPT ![n] = t]
      PROVE  TypeOK'
  <2>1. srv' \in [Servers -> Server]
    BY <1>6, Replaced
  <2> QED BY <1>1, <1>4, <2>1 DEF Sound, TypeOK
<1>7. CASE ~HasBacklog(s)
  <2> DEFINE t == [s EXCEPT !.data = Append(@, w)]
  <2>1. srv' = [srv EXCEPT ![n] = t]
    BY <1>7 DEF Write, Fed
  <2>2. Append(s.data, w) \in Seq(W)
    <3> HIDE DEF W, w, s
    <3> QED BY <1>3, <1>4
  <2>3. /\ t \in Server /\ t.replid = s.replid /\ t.replid2 = s.replid2 /\ t.second = s.second
        /\ t.offset = s.offset /\ t.first = s.first /\ t.master = s.master /\ t.link = s.link
        /\ t.cached = s.cached /\ t.rdb = s.rdb
    <3> DEFINE d == Append(s.data, w)
    <3>1. d \in Seq(1 .. MaxWrites)
      BY <2>2
    <3>2. t = [s EXCEPT !.data = d]
      OBVIOUS
    <3> HIDE DEF d, t, s
    <3> QED BY <1>2, <3>1, <3>2 DEF Server
  <2> HIDE DEF t
  <2>4. srv'[n] = t /\ \A k \in Servers \ {n} : srv'[k] = srv[k]
    BY <2>1, <2>3, Replaced
  <2>5. Slaves(n) = {}
    BY <1>7, SoundFacts DEF Slaves, Linked, LinkTo
  <2>6. ServerSound(H, t)
    <3>1. ~HasBacklog(t) /\ ~Usable(t)
      BY <1>1, <1>2, <1>7, <2>3 DEF HasBacklog, Usable, ServerSound
    <3> QED BY <1>1, <1>2, <2>3, <3>1 DEF ServerSound, BacklogSound, HasBacklog
  <2>7. Known(t, nextId', writes')
    BY <1>1, <1>2, <1>3, <2>3 DEF Known, KnownRdb
  <2>8. Linked(srv', snap', n)
    BY <1>1, <1>2, <2>3, <2>4 DEF Linked, ServerSound
  <2>9. Alone(srv', snap', n)
    BY <1>1, <1>2, <2>3, <2>4 DEF Alone, Private, HasBacklog
  <2>10. NewIds(n)
    BY <1>1, <2>3, <2>4 DEF NewIds, Visible
  <2>11. NewSound(H, n)
    <3>1. t.link # "transfer"
      BY <1>1, <1>2, <2>3 DEF ServerSound
    <3> QED BY <1>5, <2>4, <2>6, <2>7, <2>8, <2>9, <3>1 DEF NewSound
  <2>12. OthersKept(n) /\ OthersSound(H, n)
    BY <1>1, <2>4, <2>5, SoundFacts DEF OthersKept, OthersSound
  <2>13. TypeOK'
    BY <1>6, <2>1, <2>3
  <2>14. Sound(H)'
    BY <1>4, <2>10, <2>11, <2>12, <2>13, Changes
  <2> QED BY <2>14
<1>8. CASE HasBacklog(s)
  <2>1. PICK u \in Fed(n, s, w) : srv' = [srv EXCEPT ![n] = [u EXCEPT !.data = Append(@, w)]]
    BY DEF Write
  <2> DEFINE t == [u EXCEPT !.data = Append(@, w)]
             h == H[s.replid]
             g == [h EXCEPT !.data = Append(@, w)]
  <2>2. s.offset < MaxWrites
    BY <1>1, <1>2, <1>3 DEF Known
  <2>3. /\ t \in Server /\ t.offset = s.offset + 1 /\ t.data = Append(s.data, w)
        /\ t.replid = s.replid /\ t.replid2 = s.replid2 /\ t.second = s.second
        /\ t.master = s.master /\ t.link = s.link /\ t.cached = s.cached /\ t.rdb = s.rdb
        /\ HasBacklog(t) /\ BacklogSound(t)
        /\ \A k \in Slaves(n) : LinkTo(t, srv[k], snap[k])
    BY <1>4, <1>8, <2>2, FedSound
  <2>4. srv' = [srv EXCEPT ![n] = t]
    BY <2>1
  <2> HIDE DEF t
  <2>5. srv'[n] = t /\ \A k \in Servers \ {n} : srv'[k] = srv[k]
    BY <2>3, <2>4, Replaced
  <2>6. h \in History
    BY <1>3
  <2>7. /\ g \in History /\ g.base = h.base /\ g.data = Append(h.data, w)
        /\ \A o \in Nat, d \in Seq(1 .. MaxWrites) : Holds(h, o, d) => Holds(g, o, d)
        /\ \A x \in Server : Had(h, x) => Had(g, x)
    BY <1>4, <2>6, HistoryGrows
  <2> HIDE DEF g
  <2>8. PICK G \in [Nat -> History] :
          G[s.replid] = g /\ \A id \in Nat : id # s.replid => G[id] = H[id]
    <3> DEFINE F == [H EXCEPT ![s.replid] = g]
    <3>1. F \in [Nat -> History] /\ F[s.replid] = g /\ \A id \in Nat : id # s.replid => F[id] = H[id]
      BY <1>3, <2>7
    <3> HIDE DEF F
    <3> QED BY <3>1
  <2>9. \A id \in Nat : /\ \A o \in Nat, d \in Seq(1 .. MaxWrites) : Holds(H[id], o, d) => Holds(G[id], o, d)
                        /\ \A x \in Server : Had(H[id], x) => Had(G[id], x)
    BY <2>7, <2>8
  <2>10. ASSUME NEW k \in Servers \ {n}
         PROVE  /\ ServerSound(G, srv[k])
                /\ srv[k].link = "transfer" => Holds(G[snap[k].replid], snap[k].offset, snap[k].data)
    <3>1. /\ srv[k] \in Server /\ snap[k] \in Rdb /\ ServerSound(H, srv[k])
          /\ srv[k].link = "transfer" => Holds(H[snap[k].replid], snap[k].offset, snap[k].data)
      BY SoundFacts
    <3>2. /\ srv[k].replid \in Nat /\ srv[k].replid2 \in Nat /\ srv[k].rdb.replid \in Nat /\ snap[k].replid \in Nat
          /\ srv[k].offset \in Nat /\ srv[k].rdb.offset \in Nat /\ snap[k].offset \in Nat
          /\ srv[k].data \in Seq(1 .. MaxWrites) /\ srv[k].rdb.data \in Seq(1 .. MaxWrites)
          /\ snap[k].data \in Seq(1 .. MaxWrites)
      BY <3>1, ServerFields, RdbFields
    <3>3. srv[k].master = None => G[srv[k].replid] = H[srv[k].replid]
      BY <1>1, <2>8, <3>2 DEF Sound, MastersDiffer
    <3>4. /\ Holds(H[srv[k].replid], srv[k].offset, srv[k].data) => Holds(G[srv[k].replid], srv[k].offset, srv[k].data)
          /\ Holds(H[srv[k].rdb.replid], srv[k].rdb.offset, srv[k].rdb.data)
               => Holds(G[srv[k].rdb.replid], srv[k].rdb.offset, srv[k].rdb.data)
          /\ Holds(H[snap[k].replid], snap[k].offset, snap[k].data) => Holds(G[snap[k].replid], snap[k].offset, snap[k].data)
          /\ Had(H[srv[k].replid2], srv[k]) => Had(G[srv[k].replid2], srv[k])
      BY <2>9, <3>1, <3>2
    <3> QED BY <3>1, <3>3, <3>4 DEF ServerSound
  <2>11. ServerSound(G, t)
    <3>1. h.data = s.data /\ Holds(h, s.offset, s.data)
      BY <1>1, <1>2, <1>8 DEF ServerSound, Usable
    <3>2. g.data = t.data /\ Len(t.data) = Len(s.data) + 1
      <4>1. Len(Append(s.data, w)) = Len(s.data) + 1
        <5> HIDE DEF W, w, s
        <5> QED BY <1>3, <1>4
      <4> QED BY <2>3, <2>7, <3>1, <4>1
    <3>3. Holds(g, t.offset, t.data)
      <4>1. Len(s.data) = s.offset + h.base /\ h.base \in Int
        BY <2>6, <3>1 DEF Holds, History
      <4>2. Len(t.data) \in Nat /\ t.offset = s.offset + 1 /\ g.base = h.base
        BY <2>3, <2>7, ServerFields
      <4>3. Len(t.data) = t.offset + g.base
        <5> HIDE DEF s, h
        <5> QED BY <1>3, <3>2, <4>1, <4>2
      <4>4. Len(t.data) <= Len(g.data) /\ \A i \in 1 .. Len(t.data) : t.data[i] = g.data[i]
        BY <3>2, <4>2
      <4> QED BY <4>3, <4>4 DEF Holds
    <3>4. t.replid2 # NoId => Had(G[t.replid2], t)
      <4>1. s.replid2 # NoId => Had(H[s.replid2], s)
        BY <1>2, <1>8 DEF ServerSound
      <4>2. s.replid2 # NoId => Had(G[s.replid2], s)
        BY <1>2, <1>3, <2>9, <4>1
      <4>3. G[s.replid2] \in History
        BY <1>3, <2>8
      <4>4. Had(G[s.replid2], s) => Had(G[s.replid2], t)
        BY <1>2, <1>4, <2>3, <4>3, HadGrows
      <4> QED BY <2>3, <4>2, <4>4
    <3>5. s.rdb.valid => s.rdb.replid # NoId /\ Holds(G[s.rdb.replid], s.rdb.offset, s.rdb.data)
      <4>1. s.rdb.data \in Seq(1 .. MaxWrites)
        BY <1>3, RdbFields
      <4> QED BY <1>2, <1>3, <2>9, <4>1 DEF ServerSound
    <3>6. t.master = None => t.link = "none" /\ ~t.cached
      BY <1>2, <2>3 DEF ServerSound
    <3> QED BY <2>3, <2>8, <3>2, <3>3, <3>4, <3>5, <3>6 DEF ServerSound
  <2>12. Known(t, nextId', writes')
    <3>1. /\ s.replid < nextId /\ s.replid2 < nextId /\ s.offset <= writes
          /\ s.rdb.replid < nextId /\ s.rdb.offset <= writes
      BY <1>2 DEF Known, KnownRdb
    <3>2. s.offset + 1 <= writes' /\ s.rdb.offset <= writes'
      BY <1>1, <1>2, <1>3, <3>1
    <3> QED BY <1>1, <2>3, <3>1, <3>2 DEF Known, KnownRdb
  <2>13. Linked(srv', snap', n) /\ t.link = "none"
    BY <1>1, <1>2, <2>3, <2>5 DEF Linked, ServerSound
  <2>14. Alone(srv', snap', n)
    BY <2>3, <2>5 DEF Alone
  <2>15. NewIds(n)
    BY <1>1, <2>3, <2>5 DEF NewIds, Visible
  <2>16. TypeOK'
    BY <1>6, <2>3, <2>4
  <2>17. NewSound(G, n)
    BY <1>5, <2>5, <2>11, <2>12, <2>13, <2>14 DEF NewSound
  <2>18. OthersKept(n) /\ OthersSound(G, n)
    BY <1>1, <2>3, <2>5, <2>10 DEF OthersKept, OthersSound
  <2>19. Sound(G)'
    BY <1>4, <2>15, <2>16, <2>17, <2>18, Changes
  <2> QED BY <2>19
<1> QED BY <1>7, <1>8

LEMMA TypeStep ==
    ASSUME TypeOK, srv' \in [Servers -> Server], snap' \in [Servers -> Rdb],
           nextId' \in {nextId, nextId + 1}, writes' = writes, events' = events \/ Event
    PROVE  TypeOK' /\ nextId' >= nextId /\ writes' >= writes
<1>1. nextId \in Nat /\ writes \in Nat /\ events \in 0 .. MaxEvents /\ MaxEvents \in Nat
  BY ReplicationConstants DEF TypeOK
<1>2. nextId' \in Nat /\ nextId' >= nextId /\ writes' >= writes
  BY <1>1
<1>3. events' \in 0 .. MaxEvents
  BY <1>1 DEF Event
<1> QED BY <1>2, <1>3 DEF TypeOK

\* The slaves of n do not notice a change of n that keeps its stream.
LEMMA SlavesStay ==
    ASSUME NEW H \in [Nat -> History], Sound(H), NEW n \in Servers, NEW t,
           HasBacklog(srv[n]) =>
             t.first = srv[n].first /\ t.replid = srv[n].replid /\ t.offset = srv[n].offset
    PROVE  \A k \in Slaves(n) : k \in Servers /\ LinkTo(t, srv[k], snap[k])
<1> TAKE k \in Slaves(n)
<1>1. k \in Servers /\ LinkTo(srv[n], srv[k], snap[k])
  BY SoundFacts DEF Slaves, Linked
<1> QED BY <1>1 DEF LinkTo, HasBacklog

\* A replica with a link has a master among the others.
LEMMA MasterOf ==
    ASSUME NEW H \in [Nat -> History], Sound(H), NEW r \in Servers, srv[r].master # None
    PROVE  srv[r].master \in Servers \ {r}
BY SoundFacts, ServerFields DEF Linked

LEMMA StreamStep ==
    ASSUME NEW H \in [Nat -> History], Sound(H), NEW r \in Servers, Stream(r)
    PROVE  \E G \in [Nat -> History] : Sound(G)'
<1> DEFINE s == srv[r]
           m == srv[s.master]
           W == 1 .. MaxWrites
           w == m.log[s.offset + 2 - m.first]
           h == H[s.replid]
<1>1. /\ s.link = "up" /\ s.offset < m.offset /\ UNCHANGED <<snap, nextId, writes, events>>
  BY DEF Stream, counters
<1>2. /\ s \in Server /\ ServerSound(H, s) /\ Known(s, nextId, writes) /\ Linked(srv, snap, r)
      /\ s.master # None /\ s.master # r /\ writes \in Nat /\ nextId \in Nat
      /\ MaxWrites \in Nat
  BY <1>1, SoundFacts, ReplicationConstants DEF Linked
<1>3. s.master \in Servers \ {r}
  BY <1>2, MasterOf
<1>4. /\ m \in Server /\ ServerSound(H, m) /\ Known(m, nextId, writes)
      /\ HasBacklog(m) /\ m.replid = s.replid /\ m.first <= s.offset + 1 /\ HasBacklog(s)
  BY <1>1, <1>2, <1>3, SoundFacts DEF Linked, LinkTo, ServerSound
<1>5. /\ s.offset \in Nat /\ s.data \in Seq(W) /\ s.replid \in Nat /\ Len(s.data) \in Nat /\ s.replid2 \in Nat
      /\ m.offset \in Nat /\ m.first \in Nat /\ m.data \in Seq(W) /\ m.log \in Seq(W)
      /\ Len(m.data) \in Nat /\ Len(m.log) \in Nat
  BY <1>2, <1>4, ServerFields
<1>6. h \in History /\ h.base \in Int /\ Len(h.data) \in Nat
  <2>1. h \in History
    BY <1>5
  <2>2. h.base \in Int /\ h.data \in Seq(W)
    BY <2>1 DEF History
  <2>3. Len(h.data) \in Nat
    <3> HIDE DEF h, W
    <3> QED BY <2>2
  <2> QED BY <2>1, <2>2, <2>3
<1>7. Holds(h, m.offset, m.data) /\ Holds(h, s.offset, s.data)
  BY <1>2, <1>4 DEF ServerSound, Usable
<1>8. m.first = m.offset + 1 - Len(m.log) /\ IsEnd(m.log, m.data)
  BY <1>4 DEF ServerSound, BacklogSound
<1> DEFINE i == s.offset + 2 - m.first
<1>9. /\ i \in 1 .. Len(m.log) /\ Len(m.data) - Len(m.log) + i = Len(s.data) + 1
      /\ Len(s.data) + 1 \in 1 .. Len(m.data) /\ Len(s.data) + 1 <= Len(h.data)
  <2>1. Len(m.data) = m.offset + h.base /\ Len(s.data) = s.offset + h.base /\ Len(m.data) <= Len(h.data)
    BY <1>7 DEF Holds
  <2>2. Len(m.log) <= Len(m.data)
    BY <1>8 DEF IsEnd
  <2>3. /\ s.offset \in Nat /\ m.offset \in Nat /\ m.first \in Nat /\ Len(m.log) \in Nat
        /\ Len(m.data) \in Nat /\ Len(s.data) \in Nat /\ Len(h.data) \in Nat /\ h.base \in Int
    BY <1>5, <1>6
  <2>4. s.offset < m.offset /\ m.first <= s.offset + 1 /\ m.first = m.offset + 1 - Len(m.log)
    BY <1>1, <1>4, <1>8
  <2> HIDE DEF s, m, h
  <2> DEFINE o == s.offset  mo == m.offset  first == m.first  log == Len(m.log)
             mlen == Len(m.data)  len == Len(s.data)  hlen == Len(h.data)  base == h.base
  <2>5. /\ o \in Nat /\ mo \in Nat /\ first \in Nat /\ log \in Nat /\ mlen \in Nat /\ len \in Nat
        /\ hlen \in Nat /\ base \in Int /\ o < mo /\ first <= o + 1 /\ first = mo + 1 - log
        /\ mlen = mo + base /\ len = o + base /\ log <= mlen /\ mlen <= hlen
    BY <2>1, <2>2, <2>3, <2>4
  <2>6. /\ o + 2 - first \in 1 .. log /\ mlen - log + (o + 2 - first) = len + 1
        /\ len + 1 \in 1 .. mlen /\ len + 1 <= hlen
    <3> HIDE DEF o, mo, first, log, mlen, len, hlen, base
    <3> QED BY <2>5
  <2> QED BY <2>6
<1>11. w = h.data[Len(s.data) + 1] /\ w \in W
  <2>1. w = m.data[Len(s.data) + 1]
    BY <1>8, <1>9 DEF IsEnd
  <2>2. m.data[Len(s.data) + 1] = h.data[Len(s.data) + 1]
    BY <1>7, <1>9 DEF Holds
  <2>3. w \in W
    <3> HIDE DEF W, m, s
    <3> QED BY <1>5, <1>9
  <2> QED BY <2>1, <2>2, <2>3
<1> HIDE DEF i, w
<1>12. PICK u \in Fed(r, s, w) : srv' = [srv EXCEPT ![r] = [u EXCEPT !.data = Append(@, w)]]
  BY DEF Stream, w
<1> DEFINE t == [u EXCEPT !.data = Append(@, w)]
<1>13. s.offset < MaxWrites /\ s.offset + 1 <= writes
  <2>1. m.offset <= MaxWrites /\ m.offset <= writes
    BY <1>4 DEF Server, Known
  <2> HIDE DEF s, m
  <2> QED BY <1>1, <1>2, <1>5, <2>1
<1>14. /\ t \in Server /\ t.offset = s.offset + 1 /\ t.data = Append(s.data, w)
       /\ t.replid = s.replid /\ t.replid2 = s.replid2 /\ t.second = s.second
       /\ t.master = s.master /\ t.link = s.link /\ t.cached = s.cached /\ t.rdb = s.rdb
       /\ HasBacklog(t) /\ BacklogSound(t)
       /\ \A k \in Slaves(r) : LinkTo(t, srv[k], snap[k])
  <2>1. HasBacklog(srv[r]) /\ srv[r].offset < MaxWrites /\ w \in 1 .. MaxWrites /\ u \in Fed(r, srv[r], w)
    BY <1>4, <1>11, <1>13
  <2> QED BY <2>1, FedSound
<1>15. srv' = [srv EXCEPT ![r] = t]
  BY <1>12
<1> HIDE DEF t
<1>16. srv' \in [Servers -> Server] /\ srv'[r] = t /\ \A k \in Servers \ {r} : srv'[k] = srv[k]
  BY <1>14, <1>15, Replaced
<1>17. TypeOK' /\ nextId' >= nextId /\ writes' >= writes
  BY <1>1, <1>16, TypeStep, SoundFacts DEF Sound
<1>18. Holds(h, t.offset, t.data)
  <2>1. /\ Len(t.data) = Len(s.data) + 1 /\ t.data[Len(s.data) + 1] = w
        /\ \A j \in 1 .. Len(s.data) : t.data[j] = s.data[j]
    <3>1. t.data = Append(s.data, w)
      BY <1>14
    <3> HIDE DEF s, W
    <3> QED BY <1>5, <1>11, <3>1
  <2>2. Len(s.data) = s.offset + h.base /\ \A j \in 1 .. Len(s.data) : s.data[j] = h.data[j]
    BY <1>7 DEF Holds
  <2>3. t.offset = s.offset + 1
    BY <1>14
  <2> HIDE DEF s, h
  <2>4. Len(t.data) = t.offset + h.base /\ Len(t.data) <= Len(h.data)
    <3>1. Len(s.data) + 1 <= Len(h.data) /\ s.offset \in Nat /\ h.base \in Int
      BY <1>5, <1>6, <1>9
    <3> QED BY <2>1, <2>2, <2>3, <3>1
  <2>5. ASSUME NEW j \in 1 .. Len(t.data) PROVE t.data[j] = h.data[j]
    <3>1. Len(s.data) \in Nat /\ w = h.data[Len(s.data) + 1]
      BY <1>5, <1>11
    <3>2. j \in 1 .. Len(s.data) \/ j = Len(s.data) + 1
      BY <2>1, <3>1
    <3> QED BY <2>1, <2>2, <3>1, <3>2
  <2> QED BY <2>4, <2>5 DEF Holds
<1>19. t.replid2 # NoId => Had(H[t.replid2], t)
  <2>1. s.replid2 # NoId => Had(H[s.replid2], s)
    BY <1>2, <1>4 DEF ServerSound
  <2>2. H[s.replid2] \in History
    BY <1>5
  <2>3. Had(H[s.replid2], s) => Had(H[s.replid2], t)
    BY <1>2, <1>11, <1>14, <2>2, HadGrows
  <2> QED BY <1>14, <2>1, <2>3
<1>20. ServerSound(H, t)
  <2>1. t.master # None
    BY <1>2, <1>14
  <2>2. t.rdb.valid => t.rdb.replid # NoId /\ Holds(H[t.rdb.replid], t.rdb.offset, t.rdb.data)
    BY <1>2, <1>14 DEF ServerSound
  <2> QED BY <1>14, <1>18, <1>19, <2>1, <2>2 DEF ServerSound
<1>21. Known(t, nextId', writes')
  BY <1>1, <1>2, <1>13, <1>14 DEF Known
<1>22. Linked(srv', snap', r)
  <2>1. t.offset <= m.offset /\ m.first <= t.offset + 1
    <3>1. t.offset = s.offset + 1
      BY <1>14
    <3> HIDE DEF s, m
    <3> QED BY <1>1, <1>4, <1>5, <3>1
  <2>2. t.master = s.master /\ srv'[t.master] = m /\ srv'[r] = t
    BY <1>3, <1>14, <1>16
  <2>3. LinkTo(m, t, snap'[r])
    BY <1>1, <1>4, <1>14, <2>1 DEF LinkTo
  <2> QED BY <1>2, <2>2, <2>3 DEF Linked
<1>23. NewSound(H, r)
  <2>1. Alone(srv', snap', r) /\ t.link # "transfer" /\ KnownRdb(snap'[r], nextId', writes')
    BY <1>1, <1>14, <1>16, SoundFacts DEF Alone
  <2> QED BY <1>16, <1>20, <1>21, <1>22, <2>1 DEF NewSound
<1>24. NewIds(r)
  BY <1>1, <1>2, <1>14, <1>16 DEF NewIds, Visible
<1>25. OthersKept(r) /\ OthersSound(H, r)
  BY <1>1, <1>14, <1>16, SoundFacts DEF OthersKept, OthersSound
<1> QED BY <1>17, <1>23, <1>24, <1>25, Changes

(***************************************************************************)
(* PSYNC.                                                                  *)
(***************************************************************************)
LEMMA WithBacklogFields ==
    ASSUME NEW s \in Server
    PROVE  LET b == WithBacklog(s)
           IN  /\ b \in Server /\ HasBacklog(b)
               /\ b.replid = s.replid /\ b.replid2 = s.replid2 /\ b.second = s.second
               /\ b.offset = s.offset /\ b.data = s.data /\ b.master = s.master
               /\ b.link = s.link /\ b.cached = s.cached /\ b.rdb = s.rdb
               /\ HasBacklog(s) => b.first = s.first
               /\ BacklogSound(s) => BacklogSound(b)
<1> DEFINE b == WithBacklog(s)
<1>1. CASE HasBacklog(s)
  BY <1>1 DEF WithBacklog
<1>2. CASE ~HasBacklog(s)
  <2>1. b = [s EXCEPT !.log = <<>>, !.first = s.offset + 1]
    BY <1>2 DEF WithBacklog
  <2>2. /\ s.offset \in 0 .. MaxWrites /\ MaxWrites \in Nat /\ s.data \in Seq(1 .. MaxWrites)
        /\ Len(s.data) \in Nat
    BY ReplicationConstants, ServerFields DEF Server
  <2>3. s.offset + 1 \in 0 .. MaxWrites + 1 /\ s.offset + 1 # 0 /\ s.offset + 1 = s.offset + 1 - 0
    BY <2>2
  <2>4. <<>> \in Seq(1 .. MaxWrites) /\ Len(<<>>) = 0
    OBVIOUS
  <2> HIDE DEF b
  <2>5. /\ b \in Server /\ b.replid = s.replid /\ b.replid2 = s.replid2 /\ b.second = s.second
        /\ b.offset = s.offset /\ b.data = s.data /\ b.master = s.master
        /\ b.link = s.link /\ b.cached = s.cached /\ b.rdb = s.rdb
        /\ b.log = <<>> /\ b.first = s.offset + 1
    BY <2>1, <2>3, <2>4 DEF Server
  <2>6. HasBacklog(b)
    BY <2>3, <2>5 DEF HasBacklog
  <2>7. IsEnd(b.log, b.data)
    BY <2>2, <2>4, <2>5 DEF IsEnd
  <2>8. BacklogSound(b)
    BY <2>3, <2>4, <2>5, <2>7 DEF BacklogSound
  <2> QED BY <1>2, <2>5, <2>6, <2>8 DEF b
<1> QED BY <1>1, <1>2

\* Who answers +CONTINUE with the same ID or the one it had before has the data
\* of the replica as its beginning.
LEMMA Continued ==
    ASSUME NEW H \in [Nat -> History], Sound(H), NEW r \in Servers, NEW n \in Servers, Continues(n, r)
    PROVE  /\ Holds(H[srv[n].replid], srv[r].offset, srv[r].data)
           /\ HasBacklog(srv[n]) /\ srv[n].first <= srv[r].offset + 1 /\ srv[r].offset <= srv[n].offset
<1> DEFINE s == srv[r]
           m == srv[n]
           g == H[m.replid]
           h == H[s.replid]
<1>1. /\ s \in Server /\ m \in Server /\ ServerSound(H, s) /\ ServerSound(H, m)
  BY SoundFacts
<1>2. /\ s.offset \in Nat /\ m.offset \in Nat /\ m.first \in Nat /\ Len(m.log) \in Nat /\ m.second \in Int
      /\ Len(s.data) \in Nat /\ Len(m.data) \in Nat /\ s.replid \in Nat /\ m.replid \in Nat /\ s.replid # NoId
  BY <1>1, ServerFields
<1>3. s.cached /\ HasBacklog(m) /\ s.offset + 1 >= m.first /\ s.offset + 1 <= m.first + Len(m.log)
  BY DEF Continues, InBacklog
<1>4. m.first = m.offset + 1 - Len(m.log)
  BY <1>1, <1>3 DEF ServerSound, BacklogSound
<1>5. m.first <= s.offset + 1 /\ s.offset <= m.offset
  <2> HIDE DEF s, m
  <2> QED BY <1>2, <1>3, <1>4
<1>6. Holds(h, s.offset, s.data) /\ Holds(g, m.offset, m.data)
  BY <1>1, <1>3 DEF ServerSound, Usable
<1>7. CASE s.replid = m.replid
  BY <1>3, <1>5, <1>6, <1>7
<1>8. CASE s.replid # m.replid
  <2>1. s.replid = m.replid2 /\ s.offset + 1 <= m.second
    BY <1>8 DEF Continues, AcceptsId
  <2>2. Had(h, m)
    BY <1>1, <1>2, <1>3, <2>1 DEF ServerSound
  <2>3. h.base \in Int /\ g.base \in Int
    <3>1. h \in History /\ g \in History
      BY <1>2
    <3> QED BY <3>1 DEF History
  <2>4. /\ Len(m.data) = m.offset + h.base /\ Len(m.data) = m.offset + g.base
        /\ Len(s.data) = s.offset + h.base /\ Len(m.data) <= Len(g.data)
    BY <1>6, <2>2 DEF Holds, Had
  <2> DEFINE e == m.second - 1 + h.base
             a == Len(s.data)
             b == Len(m.data)
             o == s.offset  mo == m.offset  gb == g.base  hb == h.base  sc == m.second
  <2>a. /\ o \in Nat /\ mo \in Nat /\ gb \in Int /\ hb \in Int /\ sc \in Int /\ a \in Nat /\ b \in Nat
        /\ b = mo + hb /\ b = mo + gb /\ a = o + hb /\ o <= mo /\ o + 1 <= sc
    BY <1>2, <1>5, <2>1, <2>3, <2>4
  <2>5. gb = hb /\ a <= b /\ a <= e /\ e \in Int /\ a = o + gb
    <3>1. e = sc - 1 + hb
      OBVIOUS
    <3> HIDE DEF o, mo, gb, hb, sc, a, b, e
    <3> QED BY <2>a, <3>1
  <2>6. a <= Len(g.data)
    <3>1. Len(g.data) \in Nat
      <4>1. g.data \in Seq(1 .. MaxWrites)
        BY <1>2 DEF History
      <4> HIDE DEF g
      <4> QED BY <4>1
    <3> QED BY <2>4, <2>5, <2>a, <3>1
  <2>7. /\ \A i \in 1 .. a : s.data[i] = h.data[i]
        /\ \A i \in 1 .. b : m.data[i] = g.data[i]
        /\ \A i \in 1 .. e : m.data[i] = h.data[i]
    BY <1>6, <2>2 DEF Holds, Had
  <2>8. ASSUME NEW i \in 1 .. a PROVE s.data[i] = g.data[i]
    <3>1. i \in 1 .. b /\ i \in 1 .. e
      <4> HIDE DEF a, b, e
      <4> QED BY <2>5, <2>a
    <3> QED BY <2>7, <3>1
  <2>9. Holds(g, s.offset, s.data)
    BY <2>5, <2>6, <2>8 DEF Holds
  <2> QED BY <1>3, <1>5, <2>9
<1> QED BY <1>7, <1>8

LEMMA PartialSyncStep ==
    ASSUME NEW H \in [Nat -> History], Sound(H), NEW r \in Servers, PartialSync(r)
    PROVE  \E G \in [Nat -> History] : Sound(G)'
<1> DEFINE s == srv[r]
           n == s.master
           m == srv[n]
           a == [AdoptedId(s, m.replid) EXCEPT !.link = "up", !.cached = FALSE]
           t == WithBacklog(a)
<1>1. /\ s.link = "none" /\ n # None /\ Continues(n, r) /\ s.cached
      /\ UNCHANGED <<snap, nextId, writes, events>>
  BY DEF PartialSync, Asks, IsMaster, Continues, counters
<1>2. /\ s \in Server /\ ServerSound(H, s) /\ Known(s, nextId, writes) /\ Alone(srv, snap, r) /\ n \in Servers \ {r}
  BY <1>1, SoundFacts, MasterOf
<1>3. m \in Server /\ Known(m, nextId, writes)
  BY <1>2, SoundFacts
<1>4. /\ Holds(H[m.replid], s.offset, s.data) /\ Holds(H[s.replid], s.offset, s.data)
      /\ HasBacklog(m) /\ m.first <= s.offset + 1 /\ s.offset <= m.offset
  BY <1>1, <1>2, Continued DEF ServerSound, Usable
<1>5. /\ m.replid \in Nat /\ m.replid # NoId /\ s.replid \in Nat /\ s.replid # NoId
      /\ s.offset \in Nat /\ s.data \in Seq(1 .. MaxWrites) /\ MaxWrites \in Nat
  BY <1>2, <1>3, ServerFields, ReplicationConstants
<1>6. /\ a \in Server /\ a.replid = m.replid /\ a.offset = s.offset /\ a.data = s.data /\ a.log = s.log
      /\ a.first = s.first /\ a.master = n /\ a.link = "up" /\ ~a.cached /\ a.rdb = s.rdb
      /\ m.replid = s.replid => a.replid2 = s.replid2 /\ a.second = s.second
      /\ m.replid # s.replid => a.replid2 = s.replid /\ a.second = s.offset + 1
  <2>1. CASE m.replid = s.replid
    <3>1. a = [s EXCEPT !.link = "up", !.cached = FALSE]
      BY <2>1 DEF AdoptedId
    <3> HIDE DEF a, m
    <3> QED BY <1>2, <2>1, <3>1 DEF Server
  <2>2. CASE m.replid # s.replid
    <3>1. a = [s EXCEPT !.replid2 = s.replid, !.second = s.offset + 1, !.replid = m.replid,
                        !.link = "up", !.cached = FALSE]
      BY <1>2, <2>2 DEF AdoptedId, Server
    <3>2. s.offset + 1 \in -1 .. MaxWrites + 1
      <4>1. s.offset <= MaxWrites
        BY <1>2 DEF Server
      <4> QED BY <1>5, <4>1
    <3> HIDE DEF a, m
    <3> QED BY <1>2, <1>5, <2>2, <3>1, <3>2 DEF Server
  <2> QED BY <2>1, <2>2
<1> HIDE DEF a
<1>7. /\ t \in Server /\ HasBacklog(t) /\ t.replid = m.replid /\ t.offset = s.offset /\ t.data = s.data
      /\ t.master = n /\ t.link = "up" /\ ~t.cached /\ t.rdb = s.rdb
      /\ t.replid2 = a.replid2 /\ t.second = a.second
      /\ HasBacklog(s) => t.first = s.first
      /\ BacklogSound(a) => BacklogSound(t)
  BY <1>6, WithBacklogFields DEF HasBacklog
<1>8. srv' = IF m.replid = s.replid THEN [srv EXCEPT ![r] = t] ELSE DisconnectSlaves([srv EXCEPT ![r] = t], r)
  BY DEF PartialSync, t, a
<1> HIDE DEF t
<1>9. /\ srv' \in [Servers -> Server] /\ srv'[r] = t
      /\ \A k \in Servers \ {r} : \/ srv'[k] = Unlinked(srv[k])
                                  \/ srv'[k] = srv[k] /\ (k \in Slaves(r) => m.replid = s.replid)
  <2>1. CASE m.replid = s.replid
    BY <1>7, <1>8, <2>1, Replaced
  <2>2. CASE m.replid # s.replid
    BY <1>7, <1>8, <2>2, Disconnected
  <2> QED BY <2>1, <2>2
<1>10. TypeOK' /\ nextId' >= nextId /\ writes' >= writes
  BY <1>1, <1>9, TypeStep, SoundFacts DEF Sound
<1>11. OthersKept(r) /\ OthersSound(H, r)
  <2>1. m.replid = s.replid => \A k \in Slaves(r) : LinkTo(t, srv[k], snap[k])
    BY <1>7, SlavesStay
  <2> QED BY <1>1, <1>9, <2>1, SoundFacts DEF OthersKept, OthersSound
<1>12. t.replid2 # NoId => Had(H[t.replid2], t)
  <2>1. CASE m.replid = s.replid
    <3>1. CASE HasBacklog(s)
      <4>1. s.replid2 # NoId => Had(H[s.replid2], s)
        BY <1>2, <3>1 DEF ServerSound
      <4> QED BY <1>6, <1>7, <2>1, <4>1 DEF Had
    <3>2. CASE ~HasBacklog(s)
      <4>1. s.replid2 # NoId => Private(srv, snap, r)
        BY <1>1, <1>2, <3>2 DEF Alone
      <4>2. ~Private(srv, snap, r)
        BY <1>2, <2>1 DEF Private, Visible
      <4> QED BY <1>6, <1>7, <2>1, <4>1, <4>2
    <3> QED BY <3>1, <3>2
  <2>2. CASE m.replid # s.replid
    <3>1. t.replid2 = s.replid /\ t.second = s.offset + 1 /\ t.offset = s.offset /\ t.data = s.data
      BY <1>6, <1>7, <2>2
    <3> DEFINE h == H[s.replid]
    <3>2. h.base \in Int /\ Len(h.data) \in Nat /\ Len(s.data) \in Nat
      <4>1. h \in History
        BY <1>5
      <4>2. h.base \in Int /\ h.data \in Seq(1 .. MaxWrites)
        BY <4>1 DEF History
      <4> HIDE DEF h
      <4> QED BY <1>5, <4>2
    <3>3. /\ Len(s.data) = s.offset + h.base /\ Len(s.data) <= Len(h.data)
          /\ \A i \in 1 .. Len(s.data) : s.data[i] = h.data[i]
      BY <1>4 DEF Holds
    <3>4. t.second - 1 + h.base = Len(s.data) /\ t.second <= t.offset + 1
      <4> HIDE DEF h, s
      <4> QED BY <1>5, <3>1, <3>2, <3>3
    <3> HIDE DEF h
    <3>5. Had(h, t)
      BY <3>1, <3>3, <3>4 DEF Had
    <3> QED BY <3>1, <3>5 DEF h
  <2> QED BY <2>1, <2>2
<1>13. ServerSound(H, t)
  <2>1. BacklogSound(t)
    BY <1>2, <1>6, <1>7 DEF ServerSound, BacklogSound, HasBacklog
  <2>2. Holds(H[t.replid], t.offset, t.data)
    BY <1>4, <1>7
  <2>3. t.rdb.valid => t.rdb.replid # NoId /\ Holds(H[t.rdb.replid], t.rdb.offset, t.rdb.data)
    BY <1>2, <1>7 DEF ServerSound
  <2> QED BY <1>1, <1>7, <1>12, <2>1, <2>2, <2>3 DEF ServerSound
<1>14. Known(t, nextId', writes')
  <2>1. t.replid2 < nextId
    BY <1>2, <1>6, <1>7 DEF Known
  <2> QED BY <1>1, <1>2, <1>3, <1>7, <2>1 DEF Known
<1>15. Linked(srv', snap', r)
  <2>1. srv'[n].first = m.first /\ srv'[n].replid = m.replid /\ srv'[n].offset = m.offset
    BY <1>2, <1>3, <1>9, UnlinkedFields
  <2>2. LinkTo(srv'[n], t, snap'[r])
    BY <1>4, <1>7, <2>1 DEF LinkTo, HasBacklog
  <2>3. n # r /\ n # None /\ srv'[r] = t /\ t.master = n
    BY <1>1, <1>2, <1>7, <1>9
  <2> HIDE DEF n
  <2> QED BY <2>2, <2>3 DEF Linked
<1>16. NewSound(H, r)
  <2>1. Alone(srv', snap', r) /\ t.link # "transfer" /\ KnownRdb(snap'[r], nextId', writes')
    BY <1>1, <1>7, <1>9, SoundFacts DEF Alone
  <2> QED BY <1>9, <1>13, <1>14, <1>15, <2>1 DEF NewSound
<1>17. NewIds(r)
  <2>1. Served(m.replid)
    BY <1>2, <1>4 DEF Served
  <2>2. \A id : Visible(t, snap'[r], id) => Visible(s, snap[r], id) \/ id = m.replid
    BY <1>1, <1>6, <1>7 DEF Visible
  <2> QED BY <1>1, <1>7, <1>9, <2>1, <2>2 DEF NewIds
<1> QED BY <1>10, <1>11, <1>16, <1>17, Changes

\* A new ID may name any history.
LEMMA FreshHistory ==
    ASSUME NEW H \in [Nat -> History], Sound(H), NEW d \in Seq(1 .. MaxWrites), NEW o \in Nat
    PROVE  \E G \in [Nat -> History] :
             /\ Holds(G[nextId], o, d) /\ G[nextId].data = d
             /\ \A id \in Nat : id < nextId => G[id] = H[id]
<1> DEFINE g == [base |-> Len(d) - o, data |-> d]
           F == [H EXCEPT ![nextId] = g]
<1>1. nextId \in Nat /\ Len(d) \in Nat
  BY SoundFacts
<1>2. Len(d) - o \in Int /\ Len(d) = o + (Len(d) - o)
  BY <1>1
<1>3. g \in History /\ Holds(g, o, d) /\ g.data = d
  BY <1>1, <1>2 DEF History, Holds
<1> HIDE DEF g
<1>4. F \in [Nat -> History] /\ F[nextId] = g /\ \A id \in Nat : id < nextId => F[id] = H[id]
  BY <1>1, <1>3
<1> HIDE DEF F
<1> QED BY <1>3, <1>4

LEMMA AskFullSyncStep ==
    ASSUME NEW H \in [Nat -> History], Sound(H), NEW r \in Servers, AskFullSync(r)
    PROVE  \E G \in [Nat -> History] : Sound(G)'
<1> DEFINE s == srv[r]
           n == s.master
           m == srv[n]
           new == Slaves(n) = {} /\ ~HasBacklog(m)
           t == [s EXCEPT !.link = "wait"]
<1>1. /\ s.link = "none" /\ n # None /\ MayServe(n) /\ UNCHANGED <<snap, writes, events>>
      /\ nextId' = IF new THEN nextId + 1 ELSE nextId
      /\ srv' = [srv EXCEPT ![r].link = "wait", ![n] = IF new THEN WithBacklog(NewHistory(@)) ELSE @]
  BY DEF AskFullSync, Asks, IsMaster, counters
<1>2. /\ s \in Server /\ ServerSound(H, s) /\ Known(s, nextId, writes) /\ Alone(srv, snap, r)
      /\ Linked(srv, snap, r) /\ n \in Servers \ {r} /\ srv \in [Servers -> Server]
  BY <1>1, SoundFacts, MasterOf
<1>3. m \in Server /\ ServerSound(H, m) /\ Known(m, nextId, writes) /\ Linked(srv, snap, n) /\ nextId \in Nat
  BY <1>2, SoundFacts
<1>4. /\ t \in Server /\ SameButLink(s, t) /\ t.link = "wait" /\ t.cached = s.cached
      /\ t.master = n
  <2>1. /\ t \in Server /\ t.replid = s.replid /\ t.replid2 = s.replid2 /\ t.second = s.second
        /\ t.offset = s.offset /\ t.data = s.data /\ t.log = s.log /\ t.first = s.first
        /\ t.master = s.master /\ t.rdb = s.rdb /\ t.link = "wait" /\ t.cached = s.cached
    BY <1>2 DEF Server
  <2> HIDE DEF t
  <2> QED BY <2>1 DEF SameButLink
<1>5. ServerSound(H, t)
  <2>1. s.master # None
    BY <1>1
  <2> QED BY <1>2, <1>4, <2>1, SameSound
<1> HIDE DEF t
<1>6. CASE ~new
  <2>1. srv' = [srv EXCEPT ![r] = t]
    <3>1. srv' = [srv EXCEPT ![r].link = "wait", ![n] = srv[n]]
      BY <1>1, <1>2, <1>6
    <3> HIDE DEF n, new
    <3> QED BY <1>2, <3>1 DEF t
  <2>2. srv' \in [Servers -> Server] /\ srv'[r] = t /\ \A k \in Servers \ {r} : srv'[k] = srv[k]
    BY <1>4, <2>1, Replaced
  <2>3. nextId' = nextId
    BY <1>1, <1>6
  <2>4. TypeOK' /\ nextId' >= nextId /\ writes' >= writes
    BY <1>1, <2>2, <2>3, TypeStep, SoundFacts DEF Sound
  <2>5. OthersKept(r) /\ OthersSound(H, r)
    <3>1. \A k \in Slaves(r) : LinkTo(t, srv[k], snap[k])
      BY <1>4, SlavesStay DEF SameButLink
    <3> QED BY <1>1, <2>2, <3>1, SoundFacts DEF OthersKept, OthersSound
  <2>6. HasBacklog(m)
    <3>1. Slaves(n) # {} => HasBacklog(m)
      BY SoundFacts DEF Slaves, Linked, LinkTo
    <3> QED BY <1>6, <3>1
  <2>7. Linked(srv', snap', r)
    <3>1. LinkTo(m, t, snap'[r]) /\ srv'[n] = m
      BY <1>2, <1>4, <2>2, <2>6 DEF LinkTo
    <3> QED BY <1>1, <1>2, <1>4, <2>2, <3>1 DEF Linked
  <2>8. Alone(srv', snap', r)
    BY <1>1, <1>2, <1>4, <2>2 DEF Alone, SameButLink, HasBacklog, Private
  <2>9. NewSound(H, r)
    <3>1. Known(t, nextId', writes') /\ KnownRdb(snap'[r], nextId', writes') /\ t.link # "transfer"
      BY <1>1, <1>2, <1>4, <2>3, SoundFacts DEF Known, SameButLink
    <3> QED BY <1>5, <2>2, <2>7, <2>8, <3>1 DEF NewSound
  <2>10. NewIds(r)
    BY <1>1, <1>4, <2>2 DEF NewIds, SameButLink, Visible
  <2> QED BY <2>4, <2>5, <2>9, <2>10, Changes
<1>7. CASE new
  <2> DEFINE a == NewHistory(m)
             u == WithBacklog(a)
  <2>1. ~HasBacklog(m) /\ Slaves(n) = {} /\ m.master = None /\ m.link = "none" /\ ~m.cached
    BY <1>1, <1>3, <1>7 DEF MayServe, IsMaster, ServerSound
  <2>2. /\ a \in Server /\ a.replid = nextId /\ a.replid2 = NoId /\ a.offset = m.offset /\ a.data = m.data
        /\ a.first = m.first /\ a.master = None /\ a.link = "none" /\ ~a.cached /\ a.rdb = m.rdb
    <3>1. nextId \in Nat \ {NoId}
      <4>1. m.replid < nextId /\ m.replid \in Nat
        BY <1>3, ServerFields DEF Known
      <4> QED BY <1>3, <4>1 DEF NoId
    <3>2. NoId \in Nat /\ -1 \in -1 .. MaxWrites + 1
      BY ReplicationConstants DEF NoId
    <3> HIDE DEF m
    <3> QED BY <1>3, <2>1, <3>1, <3>2 DEF NewHistory, Server
  <2> HIDE DEF a
  <2>3. /\ u \in Server /\ HasBacklog(u) /\ u.replid = nextId /\ u.replid2 = NoId /\ u.offset = m.offset
        /\ u.data = m.data /\ u.master = None /\ u.link = "none" /\ ~u.cached /\ u.rdb = m.rdb
        /\ BacklogSound(u)
    <3>1. ~HasBacklog(a)
      BY <2>1, <2>2 DEF HasBacklog
    <3> QED BY <2>2, <3>1, WithBacklogFields DEF BacklogSound
  <2>4. srv' = [srv EXCEPT ![r].link = "wait", ![n] = u]
    <3>1. srv' = [srv EXCEPT ![r].link = "wait", ![n] = WithBacklog(NewHistory(srv[n]))]
      BY <1>1, <1>2, <1>7
    <3> QED BY <3>1 DEF a
  <2> HIDE DEF u
  <2>5. /\ srv' \in [Servers -> Server] /\ srv'[n] = u /\ srv'[r] = t
        /\ \A k \in Servers \ {n, r} : srv'[k] = srv[k]
    <3> HIDE DEF n, new
    <3> QED BY <1>2, <1>4, <2>3, <2>4 DEF t
  <2>6. nextId' = nextId + 1
    BY <1>1, <1>7
  <2>7. TypeOK' /\ nextId' >= nextId /\ writes' >= writes
    BY <1>1, <2>5, <2>6, TypeStep, SoundFacts DEF Sound
  <2>8. PICK G \in [Nat -> History] :
             /\ Holds(G[nextId], m.offset, m.data) /\ G[nextId].data = m.data
             /\ \A id \in Nat : id < nextId => G[id] = H[id]
    <3>1. m.offset \in Nat /\ m.data \in Seq(1 .. MaxWrites)
      BY <1>3, ServerFields
    <3> HIDE DEF m
    <3> QED BY <3>1, FreshHistory
  <2>9. \A k \in Servers :
             /\ ServerSound(G, srv[k])
             /\ srv[k].link = "transfer" => Holds(G[snap[k].replid], snap[k].offset, snap[k].data)
    BY <2>8, LaterHistory
  <2>10. ServerSound(G, u)
    <3>1. m.rdb.valid => m.rdb.replid # NoId /\ Holds(G[m.rdb.replid], m.rdb.offset, m.rdb.data)
      BY <1>2, <2>9 DEF ServerSound
    <3> QED BY <2>3, <2>8, <3>1 DEF ServerSound
  <2>11. Known(u, nextId', writes') /\ \A k \in Servers : KnownRdb(snap'[k], nextId', writes')
    <3>1. Known(m, nextId, writes) /\ \A k \in Servers : KnownRdb(snap[k], nextId, writes) /\ snap[k] \in Rdb
      BY <1>3, SoundFacts
    <3>2. m.rdb.replid \in Nat /\ \A k \in Servers : snap[k].replid \in Nat
      BY <1>3, <3>1, ServerFields, RdbFields
    <3>3. \A id \in Nat : id < nextId => id < nextId'
      BY <1>3, <2>6
    <3>4. nextId < nextId' /\ NoId < nextId'
      BY <1>3, <2>6 DEF NoId
    <3> QED BY <1>1, <2>3, <3>1, <3>2, <3>3, <3>4 DEF Known, KnownRdb
  <2>12. Linked(srv', snap', n) /\ Alone(srv', snap', n)
    <3>1. srv'[n].link = "none" /\ srv'[n].master # n /\ HasBacklog(srv'[n])
      BY <1>1, <2>3, <2>5
    <3> HIDE DEF n
    <3> QED BY <3>1 DEF Linked, Alone
  <2>13. Linked(srv', snap', r)
    <3>1. LinkTo(u, t, snap'[r])
      BY <1>4, <2>3 DEF LinkTo
    <3> QED BY <1>1, <1>2, <1>4, <2>5, <3>1 DEF Linked
  <2>14. ASSUME NEW k \in Servers \ {n}
         PROVE  /\ SameButLink(srv[k], srv'[k])
                /\ \/ srv'[k].link = "none"
                   \/ srv'[k].link = srv[k].link /\ snap'[k] = snap[k] /\ srv[k].master # n
                   \/ Linked(srv', snap', k)
                /\ srv'[k].link = "transfer" =>
                     /\ Holds(G[snap'[k].replid], snap'[k].offset, snap'[k].data)
                     /\ Visible(srv[k], snap[k], snap'[k].replid)
    <3>1. CASE k = r
      BY <1>4, <2>5, <2>13, <3>1
    <3>2. CASE k # r
      <4>1. srv'[k] = srv[k] /\ snap'[k] = snap[k] /\ SameButLink(srv[k], srv'[k])
        BY <1>1, <2>5, <3>2, UnlinkedSame, SoundFacts
      <4>2. srv[k].link = "none" \/ srv[k].master # n
        BY <2>1 DEF Slaves
      <4> QED BY <2>9, <4>1, <4>2 DEF Visible
    <3> QED BY <3>1, <3>2
  <2>15. \A id \in Nat : Visible(srv'[n], snap'[n], id) =>
             Visible(srv[n], snap[n], id) \/ id >= nextId \/ id = NoId \/ Served(id)
    <3>1. nextId >= nextId
      BY <1>3
    <3> QED BY <1>1, <2>3, <2>5, <3>1 DEF Visible
  <2>16. srv'[n].link # "transfer" /\ srv'[n].replid >= nextId
    BY <1>3, <2>3, <2>5
  <2> HIDE DEF n, new
  <2>17. ServerSound(G, srv'[n]) /\ Known(srv'[n], nextId', writes') /\ n \in Servers
    BY <1>2, <2>5, <2>10, <2>11
  <2> QED BY <2>7, <2>9, <2>11, <2>12, <2>14, <2>15, <2>16, <2>17, OneServer
<1> QED BY <1>6, <1>7

LEMMA StartBgsaveStep ==
    ASSUME NEW H \in [Nat -> History], Sound(H), NEW n \in Servers, StartBgsave(n)
    PROVE  \E G \in [Nat -> History] : Sound(G)'
<1> DEFINE m == srv[n]
           waiting == {r \in Slaves(n) : srv[r].link = "wait"}
           x == SnapOf(n)
<1>1. /\ waiting # {} /\ UNCHANGED <<nextId, writes, events>>
      /\ snap' = [r \in Servers |-> IF r \in waiting THEN x ELSE snap[r]]
      /\ srv' = [r \in Servers |-> IF r \in waiting THEN [srv[r] EXCEPT !.link = "transfer"] ELSE srv[r]]
  BY DEF StartBgsave, counters
<1>2. /\ m \in Server /\ ServerSound(H, m) /\ Known(m, nextId, writes) /\ Linked(srv, snap, n)
      /\ \A k \in Servers : srv[k] \in Server /\ snap[k] \in Rdb
      /\ \A k \in Slaves(n) : k \in Servers /\ LinkTo(m, srv[k], snap[k])
  BY SoundFacts DEF Slaves, Linked
<1>3. HasBacklog(m) /\ n \notin waiting
  BY <1>1, <1>2, OwnMaster DEF LinkTo
<1>4. Holds(H[m.replid], m.offset, m.data) /\ m.first <= m.offset + 1
  <2>1. m.first = m.offset + 1 - Len(m.log)
    BY <1>2, <1>3 DEF ServerSound, BacklogSound
  <2>2. m.offset \in Nat /\ m.first \in Nat /\ Len(m.log) \in Nat
    BY <1>2, ServerFields
  <2>3. m.first <= m.offset + 1
    <3> HIDE DEF m
    <3> QED BY <2>1, <2>2
  <2> QED BY <1>2, <1>3, <2>3 DEF ServerSound, Usable
<1>5. /\ x \in Rdb /\ x.data = m.data /\ x.valid /\ x.replid = m.replid /\ x.offset = m.offset
      /\ KnownRdb(x, nextId, writes)
  <2>1. x \in Rdb /\ x.data = m.data /\ x.valid /\ x.replid = m.replid /\ x.offset = m.offset
    BY <1>2 DEF SnapOf, Rdb, Server
  <2> QED BY <1>2, <2>1 DEF Known, KnownRdb
<1> HIDE DEF x
<1>6. ASSUME NEW k \in waiting
      PROVE  LET t == [srv[k] EXCEPT !.link = "transfer"]
             IN  /\ srv'[k] = t /\ snap'[k] = x /\ t \in Server /\ t.link = "transfer"
                 /\ SameButLink(srv[k], t) /\ t.master = n
  <2> DEFINE t == [srv[k] EXCEPT !.link = "transfer"]
  <2>1. k \in Servers /\ srv[k] \in Server /\ srv[k].master = n
    BY <1>2 DEF Slaves
  <2>2. srv'[k] = t /\ snap'[k] = x
    BY <1>1, <2>1
  <2>3. /\ t \in Server /\ t.replid = srv[k].replid /\ t.replid2 = srv[k].replid2 /\ t.second = srv[k].second
        /\ t.offset = srv[k].offset /\ t.data = srv[k].data /\ t.log = srv[k].log /\ t.first = srv[k].first
        /\ t.master = srv[k].master /\ t.rdb = srv[k].rdb /\ t.link = "transfer" /\ t.cached = srv[k].cached
    BY <2>1 DEF Server
  <2> HIDE DEF t
  <2>4. SameButLink(srv[k], t)
    BY <2>3 DEF SameButLink
  <2> QED BY <2>1, <2>2, <2>3, <2>4 DEF t
<1>7. \A k \in Servers \ waiting : srv'[k] = srv[k] /\ snap'[k] = snap[k]
  BY <1>1
<1>8. \A k \in Servers : srv'[k] \in Server /\ snap'[k] \in Rdb
  BY <1>2, <1>5, <1>6, <1>7
<1>9. TypeOK' /\ nextId' >= nextId /\ writes' >= writes
  <2>1. srv' \in [Servers -> Server] /\ snap' \in [Servers -> Rdb]
    BY <1>1, <1>8
  <2> QED BY <1>1, <2>1, TypeStep DEF Sound
<1>10. \A k \in Servers : KnownRdb(snap'[k], nextId', writes')
  BY <1>1, <1>5, <1>6, <1>7, SoundFacts
<1>11. srv'[n] = m /\ snap'[n] = snap[n]
  BY <1>3, <1>7
<1> HIDE DEF waiting
<1>12. ASSUME NEW k \in Servers \ {n}
       PROVE  /\ SameButLink(srv[k], srv'[k])
              /\ ServerSound(H, srv[k])
              /\ \/ srv'[k].link = "none"
                 \/ srv'[k].link = srv[k].link /\ snap'[k] = snap[k] /\ srv[k].master # n
                 \/ Linked(srv', snap', k)
              /\ srv'[k].link = "transfer" =>
                   /\ Holds(H[snap'[k].replid], snap'[k].offset, snap'[k].data)
                   /\ Visible(srv[k], snap[k], snap'[k].replid) \/ Served(snap'[k].replid)
  <2>1. ServerSound(H, srv[k]) /\ srv[k] \in Server
    BY SoundFacts
  <2>2. CASE k \in waiting
    <3>1. SameButLink(srv[k], srv'[k]) /\ srv'[k].link = "transfer" /\ snap'[k] = x /\ srv'[k].master = n
      BY <1>6, <2>2
    <3>2. Served(x.replid) /\ Holds(H[x.replid], x.offset, x.data)
      BY <1>3, <1>4, <1>5 DEF Served
    <3>3. LinkTo(m, srv'[k], x)
      <4>1. m.offset <= m.offset
        BY <1>2, ServerFields
      <4> QED BY <1>3, <1>4, <1>5, <3>1, <4>1 DEF LinkTo
    <3>4. n # None
      BY ReplicationConstants
    <3>5. Linked(srv', snap', k)
      BY <1>11, <3>1, <3>3, <3>4 DEF Linked
    <3> QED BY <2>1, <3>1, <3>2, <3>5
  <2>3. CASE k \notin waiting
    <3>1. srv'[k] = srv[k] /\ snap'[k] = snap[k] /\ SameButLink(srv[k], srv'[k])
      BY <1>7, <2>1, <2>3, UnlinkedSame
    <3>2. srv'[k].link = "transfer" =>
            /\ Holds(H[snap'[k].replid], snap'[k].offset, snap'[k].data)
            /\ Visible(srv[k], snap[k], snap'[k].replid)
      BY <3>1, SoundFacts DEF Visible
    <3>3. srv[k].master = n => Linked(srv', snap', k)
      BY <1>11, <3>1, SoundFacts DEF Linked
    <3> QED BY <2>1, <3>1, <3>2, <3>3
  <2> QED BY <2>2, <2>3
<1>13. /\ ServerSound(H, srv'[n]) /\ Known(srv'[n], nextId', writes') /\ Alone(srv', snap', n)
       /\ srv'[n].link = "transfer" => Holds(H[snap'[n].replid], snap'[n].offset, snap'[n].data)
  BY <1>1, <1>2, <1>3, <1>11, SoundFacts DEF Alone
<1>14. Linked(srv', snap', n)
  <2>1. CASE m.link = "none"
    BY <1>2, <1>11, <2>1 DEF Linked
  <2>2. CASE m.link # "none"
    <3> DEFINE p == m.master
    <3>1. p \in Servers /\ p # n /\ p # None /\ LinkTo(srv[p], m, snap[n])
      BY <1>2, <2>2, MasterOf DEF Linked
    <3>2. SameButLink(srv[p], srv'[p])
      BY <1>12, <3>1
    <3>3. LinkTo(srv'[p], m, snap'[n])
      BY <1>11, <3>1, <3>2 DEF LinkTo, SameButLink, HasBacklog
    <3> QED BY <1>11, <3>1, <3>3 DEF Linked
  <2> QED BY <2>1, <2>2
<1>15. \A id \in Nat : Visible(srv'[n], snap'[n], id) => Visible(srv[n], snap[n], id)
  BY <1>11
<1>16. srv'[n].master = None => srv[n].master = None /\ srv'[n].replid = srv[n].replid
  BY <1>11
<1> QED BY <1>9, <1>10, <1>12, <1>13, <1>14, <1>15, <1>16, OneServer

LEMMA JoinBgsaveStep ==
    ASSUME NEW H \in [Nat -> History], Sound(H), NEW r \in Servers, NEW o \in Servers, JoinBgsave(r, o)
    PROVE  \E G \in [Nat -> History] : Sound(G)'
<1> DEFINE s == srv[r]
           n == s.master
           m == srv[n]
           t == [s EXCEPT !.link = "transfer"]
           x == [snap[o] EXCEPT !.replid = m.replid]
<1>1. /\ s.link = "none" /\ n # None /\ o \in Slaves(n) /\ srv[o].link = "transfer"
      /\ UNCHANGED <<nextId, writes, events>>
      /\ snap' = [snap EXCEPT ![r] = x] /\ srv' = [srv EXCEPT ![r].link = "transfer"]
  BY DEF JoinBgsave, Asks, IsMaster, counters
<1>2. /\ s \in Server /\ ServerSound(H, s) /\ Known(s, nextId, writes) /\ Alone(srv, snap, r)
      /\ n \in Servers \ {r} /\ srv \in [Servers -> Server] /\ snap \in [Servers -> Rdb]
  BY <1>1, SoundFacts, MasterOf
<1>3. LinkTo(m, srv[o], snap[o]) /\ snap[o] \in Rdb /\ KnownRdb(snap[o], nextId, writes)
  BY <1>1, SoundFacts DEF Slaves, Linked
<1>4. x = snap[o]
  <2>1. snap[o].replid = m.replid
    BY <1>1, <1>3 DEF LinkTo
  <2> HIDE DEF m
  <2> QED BY <1>3, <2>1 DEF Rdb
<1> HIDE DEF x
<1>5. /\ t \in Server /\ SameButLink(s, t) /\ t.link = "transfer" /\ t.cached = s.cached /\ t.master = n
  <2>1. /\ t \in Server /\ t.replid = s.replid /\ t.replid2 = s.replid2 /\ t.second = s.second
        /\ t.offset = s.offset /\ t.data = s.data /\ t.log = s.log /\ t.first = s.first
        /\ t.master = s.master /\ t.rdb = s.rdb /\ t.link = "transfer" /\ t.cached = s.cached
    BY <1>2 DEF Server
  <2> HIDE DEF t
  <2> QED BY <2>1 DEF SameButLink
<1>6. srv' = [srv EXCEPT ![r] = t]
  BY <1>1
<1> HIDE DEF t
<1>7. ServerSound(H, t)
  <2>1. s.master # None
    BY <1>1
  <2> QED BY <1>2, <1>5, <2>1, SameSound
<1>8. srv' \in [Servers -> Server] /\ srv'[r] = t /\ \A k \in Servers \ {r} : srv'[k] = srv[k]
  BY <1>5, <1>6, Replaced
<1>9. snap' \in [Servers -> Rdb] /\ snap'[r] = snap[o] /\ \A k \in Servers \ {r} : snap'[k] = snap[k]
  BY <1>1, <1>2, <1>3, <1>4
<1>10. TypeOK' /\ nextId' >= nextId /\ writes' >= writes
  BY <1>1, <1>8, <1>9, TypeStep DEF Sound
<1>11. OthersKept(r) /\ OthersSound(H, r)
  <2>1. \A k \in Slaves(r) : LinkTo(t, srv[k], snap[k])
    BY <1>5, SlavesStay DEF SameButLink
  <2> QED BY <1>8, <1>9, <2>1, SoundFacts DEF OthersKept, OthersSound
<1>12. Linked(srv', snap', r)
  <2>1. LinkTo(m, t, snap'[r]) /\ srv'[n] = m
    BY <1>1, <1>2, <1>3, <1>5, <1>8, <1>9 DEF LinkTo
  <2> QED BY <1>1, <1>2, <1>5, <1>8, <2>1 DEF Linked
<1>13. Alone(srv', snap', r)
  BY <1>1, <1>2, <1>5, <1>8, <1>9 DEF Alone, SameButLink, HasBacklog, Private
<1>14. NewSound(H, r)
  <2>1. Known(t, nextId', writes') /\ KnownRdb(snap'[r], nextId', writes')
    BY <1>1, <1>2, <1>3, <1>5, <1>9 DEF Known, SameButLink
  <2>2. Holds(H[snap[o].replid], snap[o].offset, snap[o].data)
    BY <1>1, SoundFacts
  <2> QED BY <1>7, <1>8, <1>9, <1>12, <1>13, <2>1, <2>2 DEF NewSound
<1>15. NewIds(r)
  <2>1. Served(snap[o].replid)
    BY <1>1, <1>2, <1>3 DEF LinkTo, Served
  <2> QED BY <1>1, <1>5, <1>8, <1>9, <2>1 DEF NewIds, SameButLink, Visible
<1> QED BY <1>10, <1>11, <1>14, <1>15, Changes

LEMMA FinishFullSyncStep ==
    ASSUME NEW H \in [Nat -> History], Sound(H), NEW r \in Servers, FinishFullSync(r)
    PROVE  \E G \in [Nat -> History] : Sound(G)'
<1> DEFINE s == srv[r]
           n == s.master
           m == srv[n]
           x == snap[r]
           a == [Attached(s) EXCEPT
                   !.data = x.data, !.replid = x.replid, !.offset = x.offset,
                   !.replid2 = NoId, !.second = -1, !.link = "up"]
           b == WithBacklog(a)
           t == [b EXCEPT !.rdb = x]
<1>1. /\ s.link = "transfer" /\ UNCHANGED <<nextId, writes, events>>
      /\ srv' = DisconnectSlaves([srv EXCEPT ![r] = t], r) /\ snap' = [snap EXCEPT ![r] = NoRdb]
  BY DEF FinishFullSync, counters
<1>2. /\ s \in Server /\ ServerSound(H, s) /\ Known(s, nextId, writes) /\ Linked(srv, snap, r)
      /\ x \in Rdb /\ KnownRdb(x, nextId, writes) /\ Holds(H[x.replid], x.offset, x.data)
      /\ snap \in [Servers -> Rdb] /\ nextId \in Nat /\ writes \in Nat
  BY <1>1, SoundFacts
<1>3. /\ n \in Servers \ {r} /\ n # None /\ m \in Server
      /\ HasBacklog(m) /\ x.replid = m.replid /\ m.first <= x.offset + 1 /\ x.offset <= m.offset
  BY <1>1, <1>2, SoundFacts, MasterOf DEF Linked, LinkTo
<1>4. x.replid \in Nat \ {NoId}
  BY <1>3, ServerFields
<1>5. /\ a \in Server /\ a.data = x.data /\ a.replid = x.replid /\ a.offset = x.offset
      /\ a.replid2 = NoId /\ a.link = "up" /\ ~a.cached /\ a.first = 0 /\ a.master = n
  <2>1. a = [s EXCEPT !.cached = FALSE, !.log = <<>>, !.first = 0,
                      !.data = x.data, !.replid = x.replid, !.offset = x.offset,
                      !.replid2 = NoId, !.second = -1, !.link = "up"]
    BY <1>2 DEF Attached, WithoutBacklog, Server
  <2>2. /\ NoId \in Nat /\ -1 \in -1 .. MaxWrites + 1 /\ 0 \in 0 .. MaxWrites + 1
        /\ <<>> \in Seq(1 .. MaxWrites)
    BY ReplicationConstants DEF NoId
  <2>3. x.data \in Seq(1 .. MaxWrites) /\ x.offset \in 0 .. MaxWrites
    BY <1>2, RdbFields
  <2> HIDE DEF a, x
  <2> QED BY <1>2, <1>4, <2>1, <2>2, <2>3 DEF Server
<1> HIDE DEF a
<1>6. /\ b \in Server /\ HasBacklog(b) /\ b.data = x.data /\ b.replid = x.replid /\ b.offset = x.offset
      /\ b.replid2 = NoId /\ b.link = "up" /\ ~b.cached /\ b.master = n /\ BacklogSound(b)
  <2>1. ~HasBacklog(a)
    BY <1>5 DEF HasBacklog
  <2> QED BY <1>5, <2>1, WithBacklogFields DEF BacklogSound
<1> HIDE DEF b
<1>7. /\ t \in Server /\ HasBacklog(t) /\ t.data = x.data /\ t.replid = x.replid /\ t.offset = x.offset
      /\ t.replid2 = NoId /\ t.link = "up" /\ ~t.cached /\ t.master = n /\ t.rdb = x /\ BacklogSound(t)
  <2>1. /\ t \in Server /\ t.first = b.first /\ t.log = b.log /\ t.data = b.data /\ t.replid = b.replid
        /\ t.offset = b.offset /\ t.replid2 = b.replid2 /\ t.link = b.link /\ t.cached = b.cached
        /\ t.master = b.master /\ t.rdb = x
    <3> HIDE DEF x
    <3> QED BY <1>2, <1>6 DEF Server
  <2> HIDE DEF t
  <2> QED BY <1>6, <2>1 DEF HasBacklog, BacklogSound
<1> HIDE DEF t
<1>8. /\ srv' \in [Servers -> Server] /\ srv'[r] = t
      /\ \A k \in Servers \ {r} : IF k \in Slaves(r) THEN srv'[k] = Unlinked(srv[k])
                                                    ELSE srv'[k] = srv[k]
  BY <1>1, <1>7, Disconnected
<1>9. snap' \in [Servers -> Rdb] /\ snap'[r] = NoRdb /\ \A k \in Servers \ {r} : snap'[k] = snap[k]
  BY <1>1, <1>2, NoRdbType
<1>10. TypeOK' /\ nextId' >= nextId /\ writes' >= writes
  BY <1>1, <1>8, <1>9, TypeStep DEF Sound
<1>11. OthersKept(r) /\ OthersSound(H, r)
  BY <1>8, <1>9, SoundFacts DEF OthersKept, OthersSound
<1>12. ServerSound(H, t)
  <2>1. t.master # None /\ Holds(H[t.replid], t.offset, t.data)
    BY <1>2, <1>3, <1>7
  <2>2. t.rdb.valid => t.rdb.replid # NoId /\ Holds(H[t.rdb.replid], t.rdb.offset, t.rdb.data)
    BY <1>2, <1>4, <1>7
  <2> QED BY <1>7, <2>1, <2>2 DEF ServerSound
<1>13. Linked(srv', snap', r)
  <2>1. srv'[n].first = m.first /\ srv'[n].replid = m.replid /\ srv'[n].offset = m.offset
    BY <1>3, <1>8, UnlinkedFields
  <2>2. LinkTo(srv'[n], t, snap'[r])
    BY <1>3, <1>7, <2>1 DEF LinkTo, HasBacklog
  <2>3. n # r /\ n # None /\ srv'[r] = t /\ t.master = n
    BY <1>3, <1>7, <1>8
  <2> HIDE DEF n
  <2> QED BY <2>2, <2>3 DEF Linked
<1>14. NewSound(H, r)
  <2>1. 0 < nextId /\ 0 <= writes
    <3>1. x.replid < nextId
      BY <1>2 DEF KnownRdb
    <3> QED BY <1>2, <1>4, <3>1
  <2>2. Known(t, nextId', writes') /\ KnownRdb(snap'[r], nextId', writes')
    BY <1>1, <1>2, <1>7, <1>9, <2>1, NoRdbType DEF Known, KnownRdb, NoId
  <2>3. Alone(srv', snap', r) /\ t.link # "transfer"
    BY <1>7, <1>8 DEF Alone
  <2> QED BY <1>8, <1>12, <1>13, <2>2, <2>3 DEF NewSound
<1>15. NewIds(r)
  BY <1>1, <1>3, <1>7, <1>8 DEF NewIds, Visible
<1> QED BY <1>10, <1>11, <1>14, <1>15, Changes

(***************************************************************************)
(* Faults.                                                                 *)
(***************************************************************************)
\* What there is to show of a step that gives n a record t and no snapshot.
LEMMA NewRecord ==
    ASSUME NEW H \in [Nat -> History], NEW G \in [Nat -> History], Sound(H), NEW n \in Servers, NEW t \in Server,
           srv' \in [Servers -> Server], srv'[n] = t, snap' \in [Servers -> Rdb],
           snap'[n] \in {snap[n], NoRdb}, t.link = "none", t.master # n,
           nextId' \in {nextId, nextId + 1}, writes' = writes, events' = events \/ Event,
           ServerSound(G, t), Known(t, nextId', writes), Alone(srv', snap', n),
           OthersKept(n), OthersSound(G, n), NewIds(n)
    PROVE  Sound(G)'
<1>1. TypeOK' /\ nextId' >= nextId /\ writes' >= writes
  BY TypeStep DEF Sound
<1>2. Linked(srv', snap', n)
  BY DEF Linked
<1>3. KnownRdb(snap'[n], nextId', writes')
  <2>1. /\ KnownRdb(snap[n], nextId, writes) /\ snap[n].replid \in Nat /\ snap[n].offset \in Nat
        /\ nextId \in Nat /\ writes \in Nat
    BY SoundFacts, RdbFields
  <2>2. nextId' \in Nat
    BY <2>1
  <2>3. KnownRdb(snap[n], nextId', writes')
    BY <1>1, <2>1, <2>2 DEF KnownRdb
  <2>4. 0 < nextId' /\ 0 <= writes'
    BY <1>1, <2>1, <2>2 DEF KnownRdb
  <2> QED BY <2>3, <2>4, NoRdbType DEF KnownRdb, NoId
<1>4. NewSound(G, n)
  <2>1. Known(srv'[n], nextId', writes') /\ srv'[n].link # "transfer"
    OBVIOUS
  <2> QED BY <1>2, <1>3, <2>1 DEF NewSound
<1> QED BY <1>1, <1>4, Changes

LEMMA OthersStay ==
    ASSUME NEW H \in [Nat -> History], Sound(H), NEW n \in Servers
    PROVE  OthersSound(H, n)
BY SoundFacts DEF OthersSound

LEMMA DisconnectStep ==
    ASSUME NEW H \in [Nat -> History], Sound(H), NEW r \in Servers, Disconnect(r)
    PROVE  \E G \in [Nat -> History] : Sound(G)'
<1> DEFINE s == srv[r]
           t == Unlinked(s)
<1>1. /\ Event /\ UNCHANGED <<nextId, writes>>
      /\ srv' = [srv EXCEPT ![r] = t] /\ snap' = [snap EXCEPT ![r] = NoRdb]
  BY DEF Disconnect
<1>2. /\ s \in Server /\ ServerSound(H, s) /\ Known(s, nextId, writes) /\ Linked(srv, snap, r)
      /\ Alone(srv, snap, r) /\ snap \in [Servers -> Rdb]
  BY SoundFacts
<1>3. t \in Server /\ SameButLink(s, t) /\ t.link = "none" /\ t.cached = (s.cached \/ s.link = "up")
  BY <1>2, UnlinkedFields, UnlinkedSame
<1> HIDE DEF t
<1>4. srv' \in [Servers -> Server] /\ srv'[r] = t /\ \A k \in Servers \ {r} : srv'[k] = srv[k]
  BY <1>1, <1>3, Replaced
<1>5. snap' \in [Servers -> Rdb] /\ snap'[r] = NoRdb /\ \A k \in Servers \ {r} : snap'[k] = snap[k]
  BY <1>1, <1>2, NoRdbType
<1>6. OthersKept(r)
  <2>1. \A k \in Slaves(r) : LinkTo(t, srv[k], snap[k])
    BY <1>3, SlavesStay DEF SameButLink
  <2> QED BY <1>4, <1>5, <2>1 DEF OthersKept
<1>7. ServerSound(H, t)
  BY <1>2, <1>3, SameSound
<1>8. Alone(srv', snap', r)
  <2>1. ~HasBacklog(s) => s.link # "up"
    BY <1>2 DEF ServerSound
  <2>2. ~HasBacklog(s) => t.cached = s.cached
    BY <1>2, <1>3, <2>1, ServerFields
  <2> QED BY <1>2, <1>3, <1>4, <1>5, <2>2 DEF Alone, SameButLink, HasBacklog, Private
<1>9. NewIds(r)
  BY <1>3, <1>4 DEF NewIds, SameButLink, Visible
<1>10. Known(t, nextId', writes) /\ t.master # r
  BY <1>1, <1>2, <1>3 DEF Known, SameButLink, Linked
<1>11. OthersSound(H, r)
  BY OthersStay
<1>12. nextId' \in {nextId, nextId + 1} /\ writes' = writes /\ snap'[r] \in {snap[r], NoRdb}
  BY <1>1, <1>5
<1>13. Sound(H)'
  BY <1>1, <1>3, <1>4, <1>5, <1>6, <1>7, <1>8, <1>9, <1>10, <1>11, <1>12, NewRecord
<1> QED BY <1>13

LEMMA FailFullSyncStep ==
    ASSUME NEW H \in [Nat -> History], Sound(H), NEW r \in Servers, FailFullSync(r)
    PROVE  \E G \in [Nat -> History] : Sound(G)'
<1> DEFINE s == srv[r]
           t == [Attached(s) EXCEPT !.link = "none", !.data = <<>>]
<1>1. /\ Event /\ UNCHANGED <<nextId, writes>> /\ s.link = "transfer"
      /\ srv' = DisconnectSlaves([srv EXCEPT ![r] = t], r) /\ snap' = [snap EXCEPT ![r] = NoRdb]
  BY SoundFacts DEF FailFullSync
<1>2. /\ s \in Server /\ ServerSound(H, s) /\ Known(s, nextId, writes) /\ Linked(srv, snap, r)
      /\ snap \in [Servers -> Rdb]
  BY SoundFacts
<1>3. /\ t \in Server /\ t.link = "none" /\ ~t.cached /\ ~HasBacklog(t) /\ t.replid = s.replid
      /\ t.replid2 = s.replid2 /\ t.offset = s.offset /\ t.rdb = s.rdb /\ t.master = s.master
  <2>1. t = [s EXCEPT !.cached = FALSE, !.log = <<>>, !.first = 0, !.link = "none", !.data = <<>>]
    BY <1>2 DEF Attached, WithoutBacklog, Server
  <2>2. 0 \in 0 .. MaxWrites + 1 /\ <<>> \in Seq(1 .. MaxWrites)
    BY ReplicationConstants
  <2> HIDE DEF t
  <2> QED BY <1>2, <2>1, <2>2 DEF Server, HasBacklog
<1> HIDE DEF t
<1>4. /\ srv' \in [Servers -> Server] /\ srv'[r] = t
      /\ \A k \in Servers \ {r} : IF k \in Slaves(r) THEN srv'[k] = Unlinked(srv[k])
                                                    ELSE srv'[k] = srv[k]
  BY <1>1, <1>3, Disconnected
<1>5. snap' \in [Servers -> Rdb] /\ snap'[r] = NoRdb /\ \A k \in Servers \ {r} : snap'[k] = snap[k]
  BY <1>1, <1>2, NoRdbType
<1>6. OthersKept(r) /\ OthersSound(H, r)
  BY <1>4, <1>5, OthersStay DEF OthersKept
<1>7. s.master # None /\ s.master # r
  BY <1>1, <1>2 DEF Linked
<1>8. ServerSound(H, t)
  BY <1>2, <1>3, <1>7 DEF ServerSound, BacklogSound, Usable
<1>9. Alone(srv', snap', r)
  BY <1>3, <1>4, <1>7 DEF Alone
<1>10. NewIds(r)
  BY <1>3, <1>4, <1>7 DEF NewIds, Visible
<1>11. Known(t, nextId', writes)
  BY <1>1, <1>2, <1>3 DEF Known
<1>12. nextId' \in {nextId, nextId + 1} /\ writes' = writes /\ snap'[r] \in {snap[r], NoRdb} /\ t.master # r
  BY <1>1, <1>3, <1>5, <1>7
<1>13. Sound(H)'
  BY <1>1, <1>3, <1>4, <1>5, <1>6, <1>8, <1>9, <1>10, <1>11, <1>12, NewRecord
<1> QED BY <1>13

LEMMA SaveStep ==
    ASSUME NEW H \in [Nat -> History], Sound(H), NEW n \in Servers, Save(n)
    PROVE  \E G \in [Nat -> History] : Sound(G)'
<1> DEFINE s == srv[n]
           x == Saved(s)
           t == [s EXCEPT !.rdb = x]
<1>1. /\ Event /\ UNCHANGED <<snap, nextId, writes>> /\ srv' = [srv EXCEPT ![n].rdb = x]
  BY DEF Save
<1>2. /\ s \in Server /\ ServerSound(H, s) /\ Known(s, nextId, writes) /\ Linked(srv, snap, n)
      /\ Alone(srv, snap, n) /\ KnownRdb(snap[n], nextId, writes)
      /\ s.link = "transfer" => Holds(H[snap[n].replid], snap[n].offset, snap[n].data)
  BY SoundFacts
<1>3. /\ x \in Rdb /\ x.data = s.data /\ x.replid = s.replid /\ x.offset = s.offset
      /\ x.valid => Usable(s)
      /\ s.master = None /\ ~HasBacklog(s) => ~x.valid
  <2>1. x.data = s.data /\ x.replid = s.replid /\ x.offset = s.offset
        /\ x.valid = (IF s.master = None THEN HasBacklog(s) ELSE s.link = "up" \/ s.cached)
    BY DEF Saved
  <2>2. (IF s.master = None THEN HasBacklog(s) ELSE s.link = "up" \/ s.cached) \in BOOLEAN
    BY <1>2, ServerFields DEF HasBacklog
  <2>3. x \in Rdb
    BY <1>2, <2>2 DEF Saved, Rdb, Server
  <2> HIDE DEF x
  <2>4. x.valid => Usable(s)
    BY <1>2, <2>1 DEF ServerSound, Usable
  <2> QED BY <2>1, <2>3, <2>4
<1> HIDE DEF x
<1>4. /\ t \in Server /\ t.replid = s.replid /\ t.replid2 = s.replid2 /\ t.second = s.second
      /\ t.offset = s.offset /\ t.data = s.data /\ t.log = s.log /\ t.first = s.first
      /\ t.master = s.master /\ t.link = s.link /\ t.cached = s.cached /\ t.rdb = x
  BY <1>2, <1>3 DEF Server
<1>5. srv' = [srv EXCEPT ![n] = t]
  BY <1>1
<1> HIDE DEF t
<1>6. srv' \in [Servers -> Server] /\ srv'[n] = t /\ \A k \in Servers \ {n} : srv'[k] = srv[k]
  BY <1>4, <1>5, Replaced
<1>7. TypeOK' /\ nextId' >= nextId /\ writes' >= writes
  BY <1>1, <1>6, SoundFacts, TypeStep DEF Sound
<1>8. OthersKept(n) /\ OthersSound(H, n)
  <2>1. \A k \in Slaves(n) : LinkTo(t, srv[k], snap[k])
    BY <1>4, SlavesStay
  <2> QED BY <1>1, <1>6, <2>1, OthersStay DEF OthersKept
<1>9. ServerSound(H, t)
  <2>1. (HasBacklog(t) <=> HasBacklog(s)) /\ (Usable(t) <=> Usable(s))
    BY <1>4 DEF HasBacklog, Usable
  <2>2. BacklogSound(t)
    BY <1>2, <1>4, <2>1 DEF ServerSound, BacklogSound
  <2>3. HasBacklog(t) /\ t.replid2 # NoId => Had(H[t.replid2], t)
    BY <1>2, <1>4, <2>1 DEF ServerSound, Had
  <2>4. t.rdb.valid => t.rdb.replid # NoId /\ Holds(H[t.rdb.replid], t.rdb.offset, t.rdb.data)
    BY <1>2, <1>3, <1>4, ServerFields DEF ServerSound
  <2> QED BY <1>2, <1>4, <2>1, <2>2, <2>3, <2>4 DEF ServerSound
<1>10. Linked(srv', snap', n)
  <2>1. s.link # "none" => s.master \in Servers \ {n} /\ s.master # None /\ LinkTo(srv[s.master], s, snap[n])
    BY <1>2, MasterOf DEF Linked
  <2>2. s.link # "none" => srv'[s.master] = srv[s.master] /\ LinkTo(srv[s.master], t, snap[n])
    BY <1>4, <1>6, <2>1 DEF LinkTo
  <2> QED BY <1>1, <1>2, <1>4, <1>6, <2>1, <2>2 DEF Linked
<1>11. Alone(srv', snap', n)
  BY <1>1, <1>2, <1>3, <1>4, <1>6 DEF Alone, HasBacklog, Private
<1>12. NewSound(H, n)
  <2>1. Known(t, nextId', writes') /\ KnownRdb(snap'[n], nextId', writes')
    BY <1>1, <1>2, <1>3, <1>4 DEF Known, KnownRdb
  <2> QED BY <1>1, <1>2, <1>4, <1>6, <1>9, <1>10, <1>11, <2>1 DEF NewSound
<1>13. NewIds(n)
  BY <1>1, <1>3, <1>4, <1>6 DEF NewIds, Visible
<1> QED BY <1>7, <1>8, <1>12, <1>13, Changes

LEMMA NewServerFields ==
    ASSUME NEW id \in Nat \ {NoId}, NEW m \in Servers \cup {None}
    PROVE  LET s == NewServer(id, m)
           IN  /\ s \in Server /\ s.replid = id /\ s.replid2 = NoId /\ s.second = -1 /\ s.offset = 0
               /\ s.data = <<>> /\ s.log = <<>> /\ s.first = 0 /\ s.master = m
               /\ s.link = "none" /\ ~s.cached /\ s.rdb = NoRdb
<1>1. /\ NoId \in Nat /\ -1 \in -1 .. MaxWrites + 1 /\ 0 \in 0 .. MaxWrites + 1 /\ 0 \in 0 .. MaxWrites
      /\ <<>> \in Seq(1 .. MaxWrites)
  BY ReplicationConstants DEF NoId
<1> QED BY <1>1, NoRdbType DEF NewServer, Server

LEMMA RestartStep ==
    ASSUME NEW H \in [Nat -> History], Sound(H), NEW n \in Servers, Restart(n)
    PROVE  \E G \in [Nat -> History] : Sound(G)'
<1> DEFINE s == srv[n]
           x == s.rdb
           t == Reloaded(s)
           new == [NewServer(nextId, s.master) EXCEPT !.data = x.data, !.rdb = x]
           at == [new EXCEPT !.offset = x.offset]
<1>1. /\ Event /\ writes' = writes /\ nextId' = nextId + 1
      /\ srv' = DisconnectSlaves([srv EXCEPT ![n] = t], n)
      /\ snap' = [r \in Servers |-> IF r = n \/ r \in Slaves(n) THEN NoRdb ELSE snap[r]]
  BY DEF Restart
<1>2. /\ s \in Server /\ ServerSound(H, s) /\ Known(s, nextId, writes) /\ Linked(srv, snap, n)
      /\ snap \in [Servers -> Rdb] /\ nextId \in Nat /\ writes \in Nat
  BY SoundFacts
<1>3. /\ x \in Rdb /\ x.data \in Seq(1 .. MaxWrites) /\ x.offset \in 0 .. MaxWrites /\ x.offset \in Nat
      /\ x.replid \in Nat /\ x.replid < nextId /\ x.offset <= writes /\ x.valid \in BOOLEAN
      /\ s.master \in Servers \cup {None} /\ s.master # n
      /\ x.valid => x.replid # NoId /\ Holds(H[x.replid], x.offset, x.data)
  BY <1>2, ServerFields, RdbFields DEF Known, KnownRdb, ServerSound, Linked
<1>4. nextId \in Nat \ {NoId} /\ NoId < nextId /\ nextId < nextId + 1 /\ nextId >= nextId
      /\ NoId < nextId + 1 /\ 0 <= writes
  BY <1>2, <1>3 DEF NoId
<1>5. /\ new \in Server /\ new.replid = nextId /\ new.replid2 = NoId /\ new.second = -1 /\ new.offset = 0
      /\ new.data = x.data /\ new.log = <<>> /\ new.first = 0 /\ new.master = s.master
      /\ new.link = "none" /\ ~new.cached /\ new.rdb = x
  <2> DEFINE a == NewServer(nextId, s.master)
  <2>1. /\ a \in Server /\ a.replid = nextId /\ a.replid2 = NoId /\ a.second = -1 /\ a.offset = 0
        /\ a.log = <<>> /\ a.first = 0 /\ a.master = s.master /\ a.link = "none" /\ ~a.cached
    BY <1>3, <1>4, NewServerFields
  <2>2. new = [a EXCEPT !.data = x.data, !.rdb = x]
    OBVIOUS
  <2> HIDE DEF a, x, new, s
  <2> QED BY <1>3, <2>1, <2>2 DEF Server
<1> HIDE DEF new
<1>6. /\ at \in Server /\ at.replid = nextId /\ at.replid2 = NoId /\ at.offset = x.offset
      /\ at.data = x.data /\ at.log = <<>> /\ at.first = 0 /\ at.master = s.master
      /\ at.link = "none" /\ ~at.cached /\ at.rdb = x /\ at.second = -1
  <2> HIDE DEF x
  <2> QED BY <1>3, <1>5 DEF Server
<1>7. t = CASE ~x.valid -> new
            [] x.valid /\ s.master = None ->
                 WithBacklog([at EXCEPT !.replid2 = x.replid, !.second = x.offset + 1])
            [] x.valid /\ s.master # None -> [at EXCEPT !.replid = x.replid, !.cached = TRUE]
  BY DEF Reloaded, new
<1> HIDE DEF t, at
<1>8. PICK G \in [Nat -> History] :
           /\ Holds(G[nextId], x.offset, x.data) /\ G[nextId].data = x.data
           /\ \A id \in Nat : id < nextId => G[id] = H[id]
  <2>1. x.data \in Seq(1 .. MaxWrites) /\ x.offset \in Nat
    BY <1>3
  <2> HIDE DEF x
  <2> QED BY <2>1, FreshHistory
<1>9. OthersSound(G, n)
  BY <1>8, LaterHistory DEF OthersSound
<1>10. x.valid => Holds(G[x.replid], x.offset, x.data)
  <2>1. G[x.replid] = H[x.replid]
    BY <1>3, <1>8
  <2> QED BY <1>3, <2>1
\* What the three cases have in common.
<1>11. SUFFICES /\ t \in Server /\ t.link = "none" /\ t.master = s.master /\ t.rdb = x
                /\ ServerSound(G, t) /\ t.offset \in {0, x.offset}
                /\ \/ /\ t.replid = nextId
                      /\ t.replid2 \in {NoId, x.replid}
                      /\ t.replid2 = x.replid => x.valid \/ x.replid = NoId
                   \/ /\ t.replid = x.replid /\ t.replid2 = NoId
                      /\ x.valid /\ t.master # None
  <2>1. /\ srv' \in [Servers -> Server] /\ srv'[n] = t
        /\ \A k \in Servers \ {n} : IF k \in Slaves(n) THEN srv'[k] = Unlinked(srv[k])
                                                      ELSE srv'[k] = srv[k]
    BY <1>1, <1>11, Disconnected
  <2>2. /\ snap' \in [Servers -> Rdb] /\ snap'[n] = NoRdb
        /\ \A k \in Servers \ {n} : snap'[k] = IF k \in Slaves(n) THEN NoRdb ELSE snap[k]
    BY <1>1, <1>2, NoRdbType
  <2>3. OthersKept(n)
    BY <2>1, <2>2 DEF OthersKept
  <2>4. Alone(srv', snap', n)
    <3>1. CASE t.replid = nextId
      BY <1>3, <1>11, <2>1, <2>2, <3>1, FreshAlone
    <3>2. CASE t.replid = x.replid /\ t.replid2 = NoId /\ t.master # None
      BY <2>1, <3>2 DEF Alone
    <3> QED BY <1>11, <3>1, <3>2
  <2>5. NewIds(n)
    <3>1. \A id : Visible(t, snap'[n], id) =>
            id = nextId \/ id = NoId \/ (x.valid /\ id = x.replid)
      BY <1>11 DEF Visible
    <3>2. \A id : x.valid /\ id = x.replid => Visible(s, snap[n], id)
      BY DEF Visible
    <3>3. t.master = None => t.replid = nextId
      BY <1>11
    <3> QED BY <1>4, <2>1, <3>1, <3>2, <3>3 DEF NewIds
  <2>6. Known(t, nextId', writes)
    <3>1. t.replid < nextId' /\ t.replid2 < nextId' /\ x.replid < nextId' /\ t.offset <= writes
      <4>1. \A id \in Nat : id < nextId => id < nextId'
        BY <1>1, <1>2
      <4> QED BY <1>1, <1>3, <1>4, <1>11, <4>1
    <3> QED BY <1>3, <1>11, <3>1 DEF Known, KnownRdb
  <2>7. nextId' \in {nextId, nextId + 1} /\ snap'[n] \in {snap[n], NoRdb} /\ t.master # n
    BY <1>1, <1>3, <1>11, <2>2
  <2>8. Sound(G)'
    BY <1>1, <1>9, <1>11, <2>1, <2>2, <2>3, <2>4, <2>5, <2>6, <2>7, NewRecord
  <2> QED BY <2>8
<1>12. CASE ~x.valid
  <2>1. t = new
    BY <1>7, <1>12
  <2>2. ServerSound(G, t)
    BY <1>5, <1>12, <2>1 DEF ServerSound, BacklogSound, HasBacklog, Usable
  <2>3. t.replid2 = x.replid => x.replid = NoId
    BY <1>5, <2>1
  <2> QED BY <1>5, <2>1, <2>2, <2>3
<1>13. CASE x.valid /\ s.master = None
  <2> DEFINE a == [at EXCEPT !.replid2 = x.replid, !.second = x.offset + 1]
  <2>1. t = WithBacklog(a)
    BY <1>7, <1>13
  <2>2. /\ a \in Server /\ a.replid = nextId /\ a.replid2 = x.replid /\ a.second = x.offset + 1
        /\ a.offset = x.offset /\ a.data = x.data /\ a.first = 0 /\ a.master = s.master
        /\ a.link = "none" /\ ~a.cached /\ a.rdb = x
    <3>1. x.offset + 1 \in -1 .. MaxWrites + 1
      BY <1>3, ReplicationConstants
    <3> HIDE DEF x
    <3> QED BY <1>3, <1>6, <3>1 DEF Server
  <2> HIDE DEF a
  <2>3. /\ t \in Server /\ HasBacklog(t) /\ t.replid = nextId /\ t.replid2 = x.replid /\ t.second = x.offset + 1
        /\ t.offset = x.offset /\ t.data = x.data /\ t.master = s.master
        /\ t.link = "none" /\ ~t.cached /\ t.rdb = x /\ BacklogSound(t)
    <3>1. ~HasBacklog(a)
      BY <2>2 DEF HasBacklog
    <3> QED BY <2>1, <2>2, <3>1, WithBacklogFields DEF BacklogSound
  <2>4. Had(G[t.replid2], t)
    <3> DEFINE h == G[x.replid]
    <3>1. /\ Len(x.data) = x.offset + h.base /\ Len(x.data) <= Len(h.data)
          /\ \A i \in 1 .. Len(x.data) : x.data[i] = h.data[i]
      BY <1>10, <1>13 DEF Holds
    <3>2. h.base \in Int /\ Len(x.data) \in Nat
      <4>1. h \in History
        BY <1>3
      <4>2. h.base \in Int
        BY <4>1 DEF History
      <4>3. x.data \in Seq(1 .. MaxWrites)
        BY <1>3
      <4> HIDE DEF x, h
      <4> QED BY <4>2, <4>3
    <3>3. t.second - 1 + h.base = Len(x.data) /\ t.second <= t.offset + 1
      <4> HIDE DEF h, x
      <4> QED BY <1>3, <2>3, <3>1, <3>2
    <3> HIDE DEF h
    <3>4. Had(h, t)
      BY <2>3, <3>1, <3>3 DEF Had
    <3> QED BY <2>3, <3>4 DEF h
  <2>5. ServerSound(G, t)
    <3>1. Holds(G[t.replid], t.offset, t.data) /\ G[t.replid].data = t.data
      BY <1>8, <2>3
    <3>2. t.rdb.valid => t.rdb.replid # NoId /\ Holds(G[t.rdb.replid], t.rdb.offset, t.rdb.data)
      BY <1>3, <1>10, <2>3
    <3> QED BY <2>3, <2>4, <3>1, <3>2 DEF ServerSound
  <2> QED BY <1>13, <2>3, <2>5
<1>14. CASE x.valid /\ s.master # None
  <2>1. t = [at EXCEPT !.replid = x.replid, !.cached = TRUE]
    BY <1>7, <1>14
  <2>2. /\ t \in Server /\ t.replid = x.replid /\ t.replid2 = NoId /\ t.first = 0 /\ t.offset = x.offset
        /\ t.data = x.data /\ t.master = s.master /\ t.link = "none" /\ t.cached /\ t.rdb = x
    <3> HIDE DEF x
    <3> QED BY <1>3, <1>6, <1>14, <2>1 DEF Server
  <2>3. ServerSound(G, t)
    BY <1>3, <1>10, <1>14, <2>2 DEF ServerSound, BacklogSound, HasBacklog, Usable
  <2> QED BY <1>14, <2>2, <2>3
<1> QED BY <1>3, <1>12, <1>13, <1>14

(***************************************************************************)
(* The operator and the cron.                                              *)
(***************************************************************************)
\* What an ID that only n knows names is n's business.
LEMMA OwnHistory ==
    ASSUME NEW H \in [Nat -> History], Sound(H), NEW n \in Servers, Private(srv, snap, n)
    PROVE  \E G \in [Nat -> History] :
             /\ Holds(G[srv[n].replid], srv[n].offset, srv[n].data)
             /\ \A id \in Nat \ {srv[n].replid} : G[id] = H[id]
             /\ OthersSound(G, n)
<1> DEFINE s == srv[n]
           g == [base |-> Len(s.data) - s.offset, data |-> s.data]
           F == [H EXCEPT ![s.replid] = g]
<1>1. s \in Server /\ s.replid \in Nat
  BY SoundFacts, ServerFields
<1>2. s.data \in Seq(1 .. MaxWrites) /\ Len(s.data) \in Nat /\ s.offset \in Nat
  BY <1>1, ServerFields
<1>3. Len(s.data) - s.offset \in Int /\ Len(s.data) = s.offset + (Len(s.data) - s.offset)
  <2> HIDE DEF s
  <2> QED BY <1>2
<1>4. g \in History /\ Holds(g, s.offset, s.data)
  BY <1>2, <1>3 DEF History, Holds
<1> HIDE DEF g
<1>5. F \in [Nat -> History] /\ F[s.replid] = g /\ \A id \in Nat \ {s.replid} : F[id] = H[id]
  BY <1>1, <1>4
<1> HIDE DEF F
<1>6. ASSUME NEW k \in Servers \ {n}
      PROVE  /\ ServerSound(F, srv[k])
             /\ srv[k].link = "transfer" => Holds(F[snap[k].replid], snap[k].offset, snap[k].data)
  <2>1. /\ srv[k] \in Server /\ snap[k] \in Rdb /\ ServerSound(H, srv[k])
        /\ srv[k].link = "transfer" => Holds(H[snap[k].replid], snap[k].offset, snap[k].data)
    BY SoundFacts
  <2>2. srv[k].replid \in Nat /\ srv[k].replid2 \in Nat /\ srv[k].rdb.replid \in Nat /\ snap[k].replid \in Nat
    BY <2>1, ServerFields, RdbFields
  <2>3. ~Visible(srv[k], snap[k], s.replid)
    BY DEF Private
  <2>4. /\ F[srv[k].replid] = H[srv[k].replid] /\ F[srv[k].replid2] = H[srv[k].replid2]
        /\ srv[k].rdb.valid => F[srv[k].rdb.replid] = H[srv[k].rdb.replid]
        /\ srv[k].link = "transfer" => F[snap[k].replid] = H[snap[k].replid]
    BY <1>5, <2>2, <2>3 DEF Visible
  <2> QED BY <2>1, <2>4 DEF ServerSound
<1>7. OthersSound(F, n)
  BY <1>6 DEF OthersSound
<1> QED BY <1>4, <1>5, <1>7

LEMMA ReplicaOfStep ==
    ASSUME NEW H \in [Nat -> History], Sound(H), NEW n \in Servers, NEW m \in Servers, ReplicaOf(n, m)
    PROVE  \E G \in [Nat -> History] : Sound(G)'
<1> DEFINE s == srv[n]
           c == s.cached \/ s.link = "up" \/ s.master = None
           t == [Unlinked(s) EXCEPT !.master = m, !.cached = @ \/ IsMaster(n)]
<1>1. /\ Event /\ UNCHANGED <<nextId, writes>> /\ m # n
      /\ srv' = [srv EXCEPT ![n] = t] /\ snap' = [snap EXCEPT ![n] = NoRdb]
  BY DEF ReplicaOf
<1>2. /\ s \in Server /\ ServerSound(H, s) /\ Known(s, nextId, writes) /\ Alone(srv, snap, n)
      /\ snap \in [Servers -> Rdb] /\ m # None
  BY SoundFacts, ReplicationConstants
<1>3. /\ t \in Server /\ t.replid = s.replid /\ t.replid2 = s.replid2 /\ t.second = s.second
      /\ t.offset = s.offset /\ t.data = s.data /\ t.log = s.log /\ t.first = s.first
      /\ t.master = m /\ t.link = "none" /\ t.cached = c /\ t.rdb = s.rdb
  <2>1. t = [s EXCEPT !.link = "none", !.cached = c, !.master = m]
    BY <1>2 DEF Unlinked, IsMaster, Server
  <2>2. c \in BOOLEAN
    BY <1>2, ServerFields
  <2> HIDE DEF t, c
  <2> QED BY <1>2, <2>1, <2>2 DEF Server
<1> HIDE DEF t
<1>4. srv' \in [Servers -> Server] /\ srv'[n] = t /\ \A k \in Servers \ {n} : srv'[k] = srv[k]
  BY <1>1, <1>3, Replaced
<1>5. snap' \in [Servers -> Rdb] /\ snap'[n] = NoRdb /\ \A k \in Servers \ {n} : snap'[k] = snap[k]
  BY <1>1, <1>2, NoRdbType
<1>6. OthersKept(n)
  <2>1. \A k \in Slaves(n) : LinkTo(t, srv[k], snap[k])
    BY <1>3, SlavesStay
  <2> QED BY <1>4, <1>5, <2>1 DEF OthersKept
<1>7. (HasBacklog(t) <=> HasBacklog(s)) /\ BacklogSound(t)
  <2>1. HasBacklog(t) <=> HasBacklog(s)
    BY <1>3 DEF HasBacklog
  <2> QED BY <1>2, <1>3, <2>1 DEF ServerSound, BacklogSound
<1>8. Alone(srv', snap', n)
  <2>1. ASSUME ~HasBacklog(s), c, s.replid2 # NoId PROVE Private(srv, snap, n)
    <3>1. s.link # "up"
      BY <1>2, <2>1 DEF ServerSound
    <3> QED BY <1>2, <2>1, <3>1 DEF Alone
  <2>2. Private(srv, snap, n) => Private(srv', snap', n)
    BY <1>3, <1>4, <1>5 DEF Private
  <2> QED BY <1>2, <1>3, <1>4, <1>7, <2>1, <2>2 DEF Alone
<1>9. NewIds(n)
  BY <1>2, <1>3, <1>4 DEF NewIds, Visible
<1>10. Known(t, nextId', writes) /\ t.master # n
  BY <1>1, <1>2, <1>3 DEF Known
<1>11. ASSUME NEW G \in [Nat -> History], OthersSound(G, n), Holds(G[s.replid], s.offset, s.data) \/ ~Usable(t),
              HasBacklog(s) => G = H,
              s.rdb.valid => G[s.rdb.replid] = H[s.rdb.replid]
       PROVE  Sound(G)'
  <2>1. ServerSound(G, t)
    <3>1. HasBacklog(t) /\ t.replid2 # NoId => Had(G[t.replid2], t)
      BY <1>2, <1>3, <1>7, <1>11 DEF ServerSound, Had
    <3>2. t.rdb.valid => t.rdb.replid # NoId /\ Holds(G[t.rdb.replid], t.rdb.offset, t.rdb.data)
      BY <1>2, <1>3, <1>11 DEF ServerSound
    <3>3. Usable(t) => Holds(G[t.replid], t.offset, t.data)
      BY <1>3, <1>11
    <3> QED BY <1>2, <1>3, <1>7, <3>1, <3>2, <3>3 DEF ServerSound
  <2>2. nextId' \in {nextId, nextId + 1} /\ writes' = writes /\ snap'[n] \in {snap[n], NoRdb}
    BY <1>1, <1>5
  <2> QED BY <1>1, <1>3, <1>4, <1>5, <1>6, <1>8, <1>9, <1>10, <1>11, <2>1, <2>2, NewRecord
<1>12. CASE HasBacklog(s) \/ s.master # None
  <2>1. Usable(t) => Usable(s)
    BY <1>2, <1>3, <1>7, <1>12 DEF Usable, ServerSound
  <2>2. Holds(H[s.replid], s.offset, s.data) \/ ~Usable(t)
    BY <1>2, <2>1 DEF ServerSound
  <2>3. Sound(H)'
    BY <1>11, <2>2, OthersStay
  <2> QED BY <2>3
<1>13. CASE ~HasBacklog(s) /\ s.master = None
  <2>1. Private(srv, snap, n) /\ (s.rdb.valid => s.rdb.replid # s.replid)
    BY <1>2, <1>13 DEF Alone
  <2>2. PICK G \in [Nat -> History] :
             /\ Holds(G[s.replid], s.offset, s.data)
             /\ \A id \in Nat \ {s.replid} : G[id] = H[id]
             /\ OthersSound(G, n)
    BY <2>1, OwnHistory
  <2>3. s.rdb.valid => G[s.rdb.replid] = H[s.rdb.replid]
    BY <1>2, <2>1, <2>2, ServerFields, RdbFields
  <2>4. Sound(G)'
    BY <1>11, <1>13, <2>2, <2>3
  <2> QED BY <2>4
<1> QED BY <1>12, <1>13

LEMMA PromoteStep ==
    ASSUME NEW H \in [Nat -> History], Sound(H), NEW n \in Servers, Promote(n)
    PROVE  \E G \in [Nat -> History] : Sound(G)'
<1> DEFINE s == srv[n]
           t == [ShiftedId(s) EXCEPT !.master = None, !.link = "none", !.cached = FALSE]
<1>1. /\ Event /\ writes' = writes /\ nextId' = nextId + 1
      /\ srv' = DisconnectSlaves([srv EXCEPT ![n] = t], n)
      /\ snap' = [r \in Servers |-> IF r = n \/ r \in Slaves(n) THEN NoRdb ELSE snap[r]]
  BY SoundFacts DEF Promote
<1>2. /\ s \in Server /\ ServerSound(H, s) /\ Known(s, nextId, writes)
      /\ snap \in [Servers -> Rdb] /\ nextId \in Nat /\ writes \in Nat
  BY SoundFacts
<1>3. /\ s.replid \in Nat /\ s.replid # NoId /\ s.offset \in Nat /\ s.data \in Seq(1 .. MaxWrites) /\ s.rdb \in Rdb
      /\ Len(s.data) \in Nat /\ s.rdb.replid \in Nat /\ s.replid < nextId /\ s.rdb.replid < nextId
      /\ s.offset <= MaxWrites /\ MaxWrites \in Nat
  <2>1. s.offset <= MaxWrites /\ MaxWrites \in Nat
    BY <1>2, ReplicationConstants DEF Server
  <2> QED BY <1>2, <2>1, ServerFields, RdbFields DEF Known, KnownRdb
<1>4. nextId \in Nat \ {NoId} /\ nextId >= nextId /\ nextId < nextId + 1
      /\ \A id \in Nat : id < nextId => id < nextId + 1
  BY <1>2, <1>3 DEF NoId
<1>5. /\ t \in Server /\ t.replid = nextId /\ t.replid2 = s.replid /\ t.second = s.offset + 1
      /\ t.offset = s.offset /\ t.data = s.data /\ t.log = s.log /\ t.first = s.first
      /\ t.master = None /\ t.link = "none" /\ ~t.cached /\ t.rdb = s.rdb
  <2>1. t = [s EXCEPT !.replid2 = s.replid, !.second = s.offset + 1, !.replid = nextId,
                      !.master = None, !.link = "none", !.cached = FALSE]
    BY <1>2 DEF ShiftedId, Server
  <2>2. s.offset + 1 \in -1 .. MaxWrites + 1
    <3> HIDE DEF s
    <3> QED BY <1>3
  <2> HIDE DEF t
  <2> QED BY <1>2, <1>3, <1>4, <2>1, <2>2 DEF Server
<1> HIDE DEF t
<1>6. /\ srv' \in [Servers -> Server] /\ srv'[n] = t
      /\ \A k \in Servers \ {n} : IF k \in Slaves(n) THEN srv'[k] = Unlinked(srv[k])
                                                    ELSE srv'[k] = srv[k]
  BY <1>1, <1>5, Disconnected
<1>7. /\ snap' \in [Servers -> Rdb] /\ snap'[n] = NoRdb
      /\ \A k \in Servers \ {n} : snap'[k] = IF k \in Slaves(n) THEN NoRdb ELSE snap[k]
  BY <1>1, <1>2, NoRdbType
<1>8. OthersKept(n)
  BY <1>6, <1>7 DEF OthersKept
<1>9. PICK G \in [Nat -> History] :
           /\ Holds(G[nextId], s.offset, s.data) /\ G[nextId].data = s.data
           /\ \A id \in Nat : id < nextId => G[id] = H[id]
  <2>1. s.data \in Seq(1 .. MaxWrites) /\ s.offset \in Nat
    BY <1>3
  <2> HIDE DEF s
  <2> QED BY <2>1, FreshHistory
<1>10. OthersSound(G, n) /\ ServerSound(G, s)
  BY <1>9, LaterHistory DEF OthersSound
<1>11. HasBacklog(t) => Had(G[t.replid2], t)
  <2> DEFINE h == G[s.replid]
  <2>1. SUFFICES ASSUME HasBacklog(s) PROVE Had(h, t)
    BY <1>5 DEF HasBacklog
  <2>2. /\ Len(s.data) = s.offset + h.base /\ Len(s.data) <= Len(h.data)
        /\ \A i \in 1 .. Len(s.data) : s.data[i] = h.data[i]
    BY <1>10, <2>1 DEF ServerSound, Usable, Holds
  <2>3. h.base \in Int
    <3>1. h \in History
      BY <1>3
    <3> QED BY <3>1 DEF History
  <2>4. t.second - 1 + h.base = Len(s.data) /\ t.second <= t.offset + 1
    <3> HIDE DEF h, s
    <3> QED BY <1>3, <1>5, <2>2, <2>3
  <2> HIDE DEF h
  <2> QED BY <1>5, <2>2, <2>4 DEF Had
<1>12. ServerSound(G, t)
  <2>1. BacklogSound(t)
    BY <1>2, <1>5 DEF ServerSound, BacklogSound, HasBacklog
  <2>2. Holds(G[t.replid], t.offset, t.data) /\ G[t.replid].data = t.data
    BY <1>5, <1>9
  <2>3. t.rdb.valid => t.rdb.replid # NoId /\ Holds(G[t.rdb.replid], t.rdb.offset, t.rdb.data)
    BY <1>5, <1>10 DEF ServerSound
  <2> QED BY <1>5, <1>11, <2>1, <2>2, <2>3 DEF ServerSound
<1>13. Alone(srv', snap', n)
  BY <1>3, <1>5, <1>6, <1>7, FreshAlone
<1>14. NewIds(n)
  BY <1>4, <1>5, <1>6 DEF NewIds, Visible
<1>15. Known(t, nextId', writes)
  BY <1>1, <1>2, <1>3, <1>4, <1>5 DEF Known, KnownRdb
<1>16. nextId' \in {nextId, nextId + 1} /\ snap'[n] \in {snap[n], NoRdb} /\ t.master # n
  BY <1>1, <1>5, <1>7, ReplicationConstants
<1>17. Sound(G)'
  BY <1>1, <1>5, <1>6, <1>7, <1>8, <1>10, <1>12, <1>13, <1>14, <1>15, <1>16, NewRecord
<1> QED BY <1>17

LEMMA ExpireBacklogStep ==
    ASSUME NEW H \in [Nat -> History], Sound(H), NEW n \in Servers, ExpireBacklog(n)
    PROVE  \E G \in [Nat -> History] : Sound(G)'
<1> DEFINE s == srv[n]
           t == WithoutBacklog(NewHistory(s))
<1>1. /\ s.master = None /\ Slaves(n) = {} /\ UNCHANGED <<snap, writes, events>> /\ nextId' = nextId + 1
      /\ srv' = [srv EXCEPT ![n] = t]
  BY SoundFacts DEF ExpireBacklog, IsMaster, counters
<1>2. /\ s \in Server /\ ServerSound(H, s) /\ Known(s, nextId, writes)
      /\ snap \in [Servers -> Rdb] /\ nextId \in Nat
  BY SoundFacts
<1>3. /\ s.replid \in Nat /\ s.rdb.replid \in Nat /\ s.replid < nextId /\ s.rdb.replid < nextId
  BY <1>2, ServerFields, RdbFields DEF Known, KnownRdb
<1>4. nextId \in Nat \ {NoId} /\ nextId >= nextId /\ nextId < nextId + 1 /\ NoId < nextId + 1
      /\ \A id \in Nat : id < nextId => id < nextId + 1
  BY <1>2, <1>3 DEF NoId
<1>5. /\ t \in Server /\ t.replid = nextId /\ t.replid2 = NoId /\ t.offset = s.offset /\ t.data = s.data
      /\ t.first = 0 /\ t.master = None /\ t.link = s.link /\ t.cached = s.cached /\ t.rdb = s.rdb
  <2>1. t = [s EXCEPT !.replid = nextId, !.replid2 = NoId, !.second = -1, !.log = <<>>, !.first = 0]
    BY <1>2 DEF NewHistory, WithoutBacklog, Server
  <2>2. /\ NoId \in Nat /\ -1 \in -1 .. MaxWrites + 1 /\ 0 \in 0 .. MaxWrites + 1
        /\ <<>> \in Seq(1 .. MaxWrites)
    BY ReplicationConstants DEF NoId
  <2> HIDE DEF t
  <2> QED BY <1>1, <1>2, <1>4, <2>1, <2>2 DEF Server
<1> HIDE DEF t
<1>6. t.link = "none" /\ ~t.cached
  BY <1>1, <1>2, <1>5 DEF ServerSound
<1>7. srv' \in [Servers -> Server] /\ srv'[n] = t /\ \A k \in Servers \ {n} : srv'[k] = srv[k]
  BY <1>1, <1>5, Replaced
<1>8. OthersKept(n)
  BY <1>1, <1>7 DEF OthersKept
<1>9. ServerSound(H, t)
  BY <1>2, <1>5, <1>6 DEF ServerSound, BacklogSound, HasBacklog, Usable
<1>10. Alone(srv', snap', n)
  BY <1>1, <1>3, <1>5, <1>7, FreshAlone
<1>11. NewIds(n)
  BY <1>1, <1>4, <1>5, <1>6, <1>7 DEF NewIds, Visible
<1>12. Known(t, nextId', writes)
  BY <1>1, <1>2, <1>3, <1>4, <1>5 DEF Known, KnownRdb
<1>13. /\ nextId' \in {nextId, nextId + 1} /\ writes' = writes /\ events' = events
       /\ snap' \in [Servers -> Rdb] /\ snap'[n] \in {snap[n], NoRdb} /\ t.master # n
  BY <1>1, <1>2, <1>5, ReplicationConstants
<1>14. Sound(H)'
  BY <1>5, <1>6, <1>7, <1>8, <1>9, <1>10, <1>11, <1>12, <1>13, OthersStay, NewRecord
<1> QED BY <1>14

(***************************************************************************)
(* The invariant.                                                          *)
(***************************************************************************)
LEMMA InitInv == Init => IInv
<1> SUFFICES ASSUME Init PROVE IInv
  OBVIOUS
<1> DEFINE h == [base |-> 0, data |-> <<>>]
           H == [id \in Nat |-> h]
<1>1. h \in History
  BY DEF History
<1>2. H \in [Nat -> History]
  BY <1>1
<1>3. ASSUME NEW n \in Servers
      PROVE  /\ srv[n] \in Server /\ snap[n] = NoRdb
             /\ srv[n].replid = (IF n = Primary THEN 1 ELSE 2) /\ srv[n].replid2 = NoId /\ srv[n].offset = 0
             /\ srv[n].data = <<>> /\ srv[n].first = 0
             /\ srv[n].master = (IF n = Primary THEN None ELSE Primary)
             /\ srv[n].link = "none" /\ ~srv[n].cached /\ srv[n].rdb = NoRdb
  <2>1. 1 \in Nat \ {NoId} /\ 2 \in Nat \ {NoId} /\ None \in Servers \cup {None} /\ Primary \in Servers \cup {None}
    BY ReplicationConstants DEF NoId
  <2>2. srv[n] = IF n = Primary THEN NewServer(1, None) ELSE NewServer(2, Primary)
    BY DEF Init
  <2>3. CASE n = Primary
    <3>1. srv[n] = NewServer(1, None)
      BY <2>2, <2>3
    <3>2. /\ srv[n] \in Server /\ srv[n].replid = 1 /\ srv[n].replid2 = NoId /\ srv[n].offset = 0
          /\ srv[n].data = <<>> /\ srv[n].first = 0 /\ srv[n].master = None
          /\ srv[n].link = "none" /\ ~srv[n].cached /\ srv[n].rdb = NoRdb
      BY <2>1, <3>1, NewServerFields
    <3> QED BY <2>3, <3>2 DEF Init
  <2>4. CASE n # Primary
    <3>1. srv[n] = NewServer(2, Primary)
      BY <2>2, <2>4
    <3>2. /\ srv[n] \in Server /\ srv[n].replid = 2 /\ srv[n].replid2 = NoId /\ srv[n].offset = 0
          /\ srv[n].data = <<>> /\ srv[n].first = 0 /\ srv[n].master = Primary
          /\ srv[n].link = "none" /\ ~srv[n].cached /\ srv[n].rdb = NoRdb
      BY <2>1, <3>1, NewServerFields
    <3> QED BY <2>4, <3>2 DEF Init
  <2> QED BY <2>3, <2>4
<1>4. TypeOK
  <2>1. srv \in [Servers -> Server]
    <3>1. srv = [n \in Servers |-> srv[n]]
      BY DEF Init
    <3> QED BY <1>3, <3>1
  <2>2. snap \in [Servers -> Rdb]
    BY NoRdbType DEF Init
  <2> QED BY <2>1, <2>2, ReplicationConstants DEF Init, TypeOK
<1>5. nextId = 3 /\ writes = 0
  BY DEF Init
<1>6. NoRdb.replid = 0 /\ NoRdb.offset = 0 /\ ~NoRdb.valid /\ NoId = 0
  BY DEF NoRdb, NoId
<1>7. ServersKnown
  BY <1>3, <1>5, <1>6 DEF ServersKnown, Known, KnownRdb
<1>8. LinksSound
  BY <1>3, ReplicationConstants DEF LinksSound, Linked
<1>9. AloneSound
  <2> SUFFICES ASSUME NEW n \in Servers PROVE Alone(srv, snap, n)
    BY DEF AloneSound
  <2>1. CASE n = Primary
    <3>1. srv[n].replid = 1 /\ ~srv[n].cached /\ ~srv[n].rdb.valid
      BY <1>3, <1>6, <2>1
    <3>2. ASSUME NEW m \in Servers \ {n} PROVE ~Visible(srv[m], snap[m], 1)
      <4>1. srv[m].replid = 2 /\ srv[m].replid2 = 0 /\ ~srv[m].rdb.valid /\ srv[m].link = "none"
        BY <1>3, <1>6, <2>1
      <4> QED BY <4>1 DEF Visible
    <3> QED BY <3>1, <3>2 DEF Alone, Private
  <2>2. CASE n # Primary
    BY <1>3, <2>2, ReplicationConstants DEF Alone
  <2> QED BY <2>1, <2>2
<1>10. MastersDiffer
  BY <1>3, ReplicationConstants DEF MastersDiffer
<1>11. Histories(H)
  <2> HIDE DEF H
  <2> QED BY <1>3, <1>6 DEF Histories, ServerSound, BacklogSound, HasBacklog, Usable
<1>12. Sound(H)
  BY <1>4, <1>7, <1>8, <1>9, <1>10, <1>11 DEF Sound
<1> QED BY <1>2, <1>12 DEF IInv

LEMMA InvStep == IInv /\ [Next]_vars => IInv'
<1> SUFFICES ASSUME IInv, [Next]_vars PROVE \E G \in [Nat -> History] : Sound(G)'
  BY DEF IInv
<1>1. PICK H \in [Nat -> History] : Sound(H)
  BY DEF IInv
<1>2. CASE UNCHANGED vars
  <2>1. /\ srv' = srv /\ snap' = snap /\ nextId' = nextId /\ writes' = writes /\ events' = events
    BY <1>2 DEF vars, counters
  <2>2. Sound(H)'
    BY <1>1, <2>1 DEF Sound, TypeOK, ServersKnown, LinksSound, AloneSound, MastersDiffer, Histories
  <2> QED BY <2>2
<1>3. CASE Next
  <2>1. PICK n \in Servers :
          \/ Write(n) \/ Stream(n)
          \/ PartialSync(n) \/ AskFullSync(n) \/ StartBgsave(n) \/ FinishFullSync(n)
          \/ \E o \in Servers : JoinBgsave(n, o) \/ ReplicaOf(n, o)
          \/ Disconnect(n) \/ FailFullSync(n) \/ Save(n) \/ Restart(n)
          \/ Promote(n) \/ ExpireBacklog(n)
    BY <1>3 DEF Next
  <2>2. CASE Write(n)
    BY <1>1, <2>2, WriteStep
  <2>3. CASE Stream(n)
    BY <1>1, <2>3, StreamStep
  <2>4. CASE PartialSync(n)
    BY <1>1, <2>4, PartialSyncStep
  <2>5. CASE AskFullSync(n)
    BY <1>1, <2>5, AskFullSyncStep
  <2>6. CASE StartBgsave(n)
    BY <1>1, <2>6, StartBgsaveStep
  <2>7. CASE FinishFullSync(n)
    BY <1>1, <2>7, FinishFullSyncStep
  <2>8. CASE \E o \in Servers : JoinBgsave(n, o) \/ ReplicaOf(n, o)
    BY <1>1, <2>8, JoinBgsaveStep, ReplicaOfStep
  <2>9. CASE Disconnect(n)
    BY <1>1, <2>9, DisconnectStep
  <2>10. CASE FailFullSync(n)
    BY <1>1, <2>10, FailFullSyncStep
  <2>11. CASE Save(n)
    BY <1>1, <2>11, SaveStep
  <2>12. CASE Restart(n)
    BY <1>1, <2>12, RestartStep
  <2>13. CASE Promote(n)
    BY <1>1, <2>13, PromoteStep
  <2>14. CASE ExpireBacklog(n)
    BY <1>1, <2>14, ExpireBacklogStep
  <2> QED BY <2>1, <2>2, <2>3, <2>4, <2>5, <2>6, <2>7, <2>8, <2>9, <2>10, <2>11, <2>12, <2>13, <2>14
<1> QED BY <1>2, <1>3

LEMMA Invariance == Spec => []IInv
<1> QED BY InitInv, InvStep, PTL DEF Spec

(***************************************************************************)
(* What the invariant says of the data.                                    *)
(***************************************************************************)
LEMMA Concatenated ==
    ASSUME NEW S, NEW a \in Seq(S), NEW c \in Seq(S)
    PROVE  /\ a \o c \in Seq(S) /\ Len(a \o c) = Len(a) + Len(c)
           /\ \A j \in 1 .. Len(a) : (a \o c)[j] = a[j]
           /\ \A k \in 1 .. Len(c) : (a \o c)[Len(a) + k] = c[k]
OBVIOUS

LEMMA SameElements ==
    ASSUME NEW S, NEW a \in Seq(S), NEW b \in Seq(S), Len(a) = Len(b),
           \A j \in 1 .. Len(a) : a[j] = b[j]
    PROVE  a = b
OBVIOUS

\* The beginning of a sequence and the rest of it, which is the end of a log.
LEMMA Completed ==
    ASSUME NEW S, NEW a \in Seq(S), NEW b \in Seq(S), NEW log \in Seq(S), NEW i \in Nat,
           Len(a) <= Len(b), \A j \in 1 .. Len(a) : a[j] = b[j], IsEnd(log, b),
           i \in 1 .. Len(log) + 1, Len(b) - Len(log) + i = Len(a) + 1
    PROVE  b = a \o SubSeq(log, i, Len(log))
<1> DEFINE c == SubSeq(log, i, Len(log))
<1>1. Len(a) \in Nat /\ Len(b) \in Nat /\ Len(log) \in Nat
  OBVIOUS
<1>2. c \in Seq(S) /\ Len(c) = Len(log) - i + 1 /\ \A j \in 1 .. Len(c) : c[j] = log[i + j - 1]
  <2>1. \A j \in i .. Len(log) : log[j] \in S
    BY <1>1
  <2>2. CASE i <= Len(log)
    BY <1>1, <2>1, <2>2
  <2>3. CASE i = Len(log) + 1
    BY <1>1, <2>3
  <2> QED BY <1>1, <2>2, <2>3
<1> HIDE DEF c
<1>3. Len(b) = Len(a) + Len(c) /\ Len(c) \in Nat
  BY <1>1, <1>2
<1> DEFINE d == a \o c
<1>4. /\ d \in Seq(S) /\ Len(d) = Len(b)
      /\ \A j \in 1 .. Len(a) : d[j] = a[j]
      /\ \A k \in 1 .. Len(c) : d[Len(a) + k] = c[k]
  <2>1. c \in Seq(S)
    BY <1>2
  <2>2. /\ d \in Seq(S) /\ Len(d) = Len(a) + Len(c) /\ \A j \in 1 .. Len(a) : d[j] = a[j]
        /\ \A k \in 1 .. Len(c) : d[Len(a) + k] = c[k]
    BY ONLY <2>1, Concatenated, a \in Seq(S)
  <2> HIDE DEF d
  <2> QED BY <1>3, <2>2
<1> HIDE DEF d
<1>5. ASSUME NEW j \in 1 .. Len(b) PROVE b[j] = d[j]
  <2>1. CASE j <= Len(a)
    <3>1. j \in 1 .. Len(a)
      BY <1>1, <2>1
    <3> QED BY <1>4, <3>1
  <2>2. CASE j > Len(a)
    <3> DEFINE k == j - Len(a)
    <3>1. k \in 1 .. Len(c) /\ i + k - 1 \in 1 .. Len(log) /\ Len(b) - Len(log) + (i + k - 1) = j
          /\ Len(a) + k = j
      BY <1>1, <1>2, <1>3, <2>2
    <3>2. c[k] = log[i + k - 1] /\ log[i + k - 1] = b[j]
      BY <1>2, <3>1 DEF IsEnd
    <3> HIDE DEF k
    <3>3. d[j] = c[k]
      BY <1>4, <3>1
    <3> QED BY <3>2, <3>3
  <2> QED BY <1>1, <2>1, <2>2
<1>6. b = d
  BY <1>4, <1>5, SameElements
<1> QED BY <1>6 DEF c, d

LEMMA Prefixed ==
    ASSUME NEW S, NEW a \in Seq(S), NEW b \in Seq(S), Len(a) <= Len(b),
           \A i \in 1 .. Len(a) : a[i] = b[i]
    PROVE  IsPrefix(a, b)
BY DEF IsPrefix

LEMMA StreamCompletesInv == IInv => StreamCompletes
<1> SUFFICES ASSUME IInv, NEW r \in Servers, srv[r].link = "up"
             PROVE  LET m == srv[srv[r].master] IN
                    /\ HasBacklog(m) /\ m.first <= srv[r].offset + 1 /\ srv[r].offset <= m.offset
                    /\ m.data = srv[r].data \o SubSeq(m.log, srv[r].offset + 2 - m.first, Len(m.log))
  BY DEF StreamCompletes
<1>1. PICK H \in [Nat -> History] : Sound(H)
  BY DEF IInv
<1> DEFINE s == srv[r]
           n == s.master
           m == srv[n]
           h == H[s.replid]
           W == 1 .. MaxWrites
           i == s.offset + 2 - m.first
<1>2. s \in Server /\ ServerSound(H, s) /\ Linked(srv, snap, r) /\ n \in Servers \ {r}
  BY <1>1, SoundFacts, MasterOf DEF Linked
<1>3. /\ m \in Server /\ ServerSound(H, m)
      /\ HasBacklog(s) /\ HasBacklog(m) /\ m.replid = s.replid /\ m.first <= s.offset + 1 /\ s.offset <= m.offset
  BY <1>1, <1>2, SoundFacts DEF Linked, LinkTo, ServerSound
<1>4. Holds(h, s.offset, s.data) /\ Holds(h, m.offset, m.data)
  BY <1>2, <1>3 DEF ServerSound, Usable
<1>5. m.first = m.offset + 1 - Len(m.log) /\ IsEnd(m.log, m.data)
  BY <1>3 DEF ServerSound, BacklogSound
<1>6. /\ s.offset \in Nat /\ m.offset \in Nat /\ m.first \in Nat /\ Len(m.log) \in Nat /\ Len(m.data) \in Nat
      /\ Len(s.data) \in Nat /\ s.data \in Seq(W) /\ m.data \in Seq(W) /\ m.log \in Seq(W) /\ s.replid \in Nat
  BY <1>2, <1>3, ServerFields
<1>7. h.base \in Int
  <2>1. h \in History
    BY <1>6
  <2> QED BY <2>1 DEF History
<1>8. /\ Len(s.data) <= Len(m.data) /\ i \in Nat /\ i \in 1 .. Len(m.log) + 1
      /\ Len(m.data) - Len(m.log) + i = Len(s.data) + 1
  <2>1. Len(m.data) = m.offset + h.base /\ Len(s.data) = s.offset + h.base
    BY <1>4 DEF Holds
  <2> DEFINE o == s.offset  mo == m.offset  first == m.first  log == Len(m.log)
             mlen == Len(m.data)  len == Len(s.data)  base == h.base
  <2>2. /\ o \in Nat /\ mo \in Nat /\ first \in Nat /\ log \in Nat /\ mlen \in Nat /\ len \in Nat
        /\ base \in Int /\ o <= mo /\ first <= o + 1 /\ first = mo + 1 - log
        /\ mlen = mo + base /\ len = o + base
    BY <1>3, <1>5, <1>6, <1>7, <2>1
  <2>3. /\ len <= mlen /\ o + 2 - first \in Nat /\ o + 2 - first \in 1 .. log + 1
        /\ mlen - log + (o + 2 - first) = len + 1
    <3> HIDE DEF o, mo, first, log, mlen, len, base
    <3> QED BY <2>2
  <2> QED BY <2>3
<1>9. \A j \in 1 .. Len(s.data) : s.data[j] = m.data[j]
  <2>1. /\ \A j \in 1 .. Len(s.data) : s.data[j] = h.data[j]
        /\ \A j \in 1 .. Len(m.data) : m.data[j] = h.data[j]
    BY <1>4 DEF Holds
  <2>2. \A j \in 1 .. Len(s.data) : j \in 1 .. Len(m.data)
    BY <1>6, <1>8
  <2> QED BY <2>1, <2>2
<1>10. m.data = s.data \o SubSeq(m.log, i, Len(m.log))
  <2> DEFINE a == s.data  b == m.data  log == m.log
  <2>1. /\ a \in Seq(W) /\ b \in Seq(W) /\ log \in Seq(W) /\ i \in Nat /\ Len(a) <= Len(b)
        /\ \A j \in 1 .. Len(a) : a[j] = b[j]
        /\ IsEnd(log, b) /\ i \in 1 .. Len(log) + 1 /\ Len(b) - Len(log) + i = Len(a) + 1
    BY <1>5, <1>6, <1>8, <1>9
  <2>2. b = a \o SubSeq(log, i, Len(log))
    <3> HIDE DEF i, a, b, log, W
    <3> QED BY <2>1, Completed
  <2> QED BY <2>2
<1> QED BY <1>3, <1>10

LEMMA HistoriesSoundInv == IInv => HistoriesSound
<1> SUFFICES ASSUME IInv PROVE TypeOK /\ OneHistoryPerId
  BY DEF HistoriesSound
<1>1. PICK H \in [Nat -> History] : Sound(H)
  BY DEF IInv
<1>2. ASSUME NEW a \in Servers, NEW b \in Servers, srv[a].replid = srv[b].replid,
             Usable(srv[a]), Usable(srv[b]), srv[a].offset <= srv[b].offset
      PROVE  IsPrefix(srv[a].data, srv[b].data)
  <2> DEFINE s == srv[a]
             t == srv[b]
             h == H[s.replid]
             W == 1 .. MaxWrites
  <2>1. s \in Server /\ t \in Server /\ Holds(h, s.offset, s.data) /\ Holds(h, t.offset, t.data)
    BY <1>1, <1>2, SoundFacts DEF ServerSound
  <2>2. /\ s.offset \in Nat /\ t.offset \in Nat /\ s.data \in Seq(W) /\ t.data \in Seq(W)
        /\ Len(s.data) \in Nat /\ Len(t.data) \in Nat /\ s.replid \in Nat
    BY <2>1, ServerFields
  <2>3. h.base \in Int
    <3>1. h \in History
      BY <2>2
    <3> QED BY <3>1 DEF History
  <2>4. /\ Len(s.data) = s.offset + h.base /\ Len(t.data) = t.offset + h.base
        /\ \A j \in 1 .. Len(s.data) : s.data[j] = h.data[j]
        /\ \A j \in 1 .. Len(t.data) : t.data[j] = h.data[j]
    BY <2>1 DEF Holds
  <2>5. s.offset <= t.offset
    BY <1>2
  <2>6. Len(s.data) <= Len(t.data)
    <3> DEFINE o == s.offset  p == t.offset  l == Len(s.data)  k == Len(t.data)  base == h.base
    <3>1. o \in Nat /\ p \in Nat /\ base \in Int /\ o <= p /\ l = o + base /\ k = p + base
      BY <2>2, <2>3, <2>4, <2>5
    <3>2. l <= k
      <4> HIDE DEF o, p, l, k, base
      <4> QED BY <3>1
    <3> QED BY <3>2
  <2>7. \A j \in 1 .. Len(s.data) : s.data[j] = t.data[j]
    <3>1. \A j \in 1 .. Len(s.data) : j \in 1 .. Len(t.data)
      BY <2>2, <2>6
    <3> QED BY <2>4, <3>1
  <2> HIDE DEF s, t, W
  <2>8. IsPrefix(s.data, t.data)
    BY <2>2, <2>6, <2>7, Prefixed
  <2> QED BY <2>8 DEF s, t
<1>3. OneHistoryPerId
  BY <1>2 DEF OneHistoryPerId
<1> QED BY <1>1, <1>3 DEF Sound

\* What a linked replica has, followed by what it still has to read, is what
\* its master has (masterTryPartialResynchronization, feedReplicationBuffer,
\* incrementalTrimReplicationBacklog).
THEOREM StreamsComplete == Spec => []StreamCompletes
<1> QED BY Invariance, StreamCompletesInv, PTL

\* A replication ID names one history, after any promotions, full and partial
\* resynchronisations, restarts and expired backlogs (changeReplicationId,
\* shiftReplicationId, replicationCacheMasterUsingMyself).
THEOREM IdsNameHistories == Spec => []HistoriesSound
<1> QED BY Invariance, HistoriesSoundInv, PTL
=============================================================================
