---------------------------- MODULE StreamGroup ----------------------------
(***************************************************************************)
(* A stream and its consumer groups, redis-stable/src/t_stream.c, at a     *)
(* master and at its replica, which gets what the commands propagate.      *)
(*                                                                         *)
(* A pending entry (NACK) is in four places: the group's PEL, its          *)
(* consumer's PEL, the group's list by delivery time and the stream's      *)
(* index of references. IDs are numbers. The nodes of the radix tree are   *)
(* there only where a trim may stop. Delivery counts, idempotent producers *)
(* and blocking are left out.                                              *)
(***************************************************************************)
EXTENDS Integers, FiniteSets, SequencesExt, FiniteSetsExt

CONSTANTS
  Groups, Consumers, None,
  Readers,         \* bound: the groups whose consumers come
  MaxId, MaxTime  \* bounds of a behaviour

ASSUME StreamConstants ==
  /\ MaxId \in Nat /\ MaxTime \in Nat
  /\ Readers \subseteq Groups /\ None \notin Consumers

VARIABLES
  s,       \* the stream at the master
  r,       \* the stream at the replica
  now,     \* the master's time
  drifted  \* history: what was propagated was once less than what was done

vars == <<s, r, now, drifted>>

Ids == 1 .. MaxId
Top == MaxId + 1   \* greater than every ID
Unknown == -1      \* SCG_INVALID_ENTRIES_READ; a lag of null
Modes == {"KEEPREF", "DELREF", "ACKED"}

NoGroup ==
  [on |-> FALSE, last |-> 0, read |-> Unknown,
   pel |-> [i \in Ids |-> None], time |-> [i \in Ids |-> 0], list |-> <<>>,
   consumers |-> {}, cpel |-> [c \in Consumers |-> {}]]

NewStream ==
  [entries |-> {}, last |-> 0, first |-> 0, max_deleted |-> 0, added |-> 0,
   min |-> 0, min_valid |-> FALSE,
   refs |-> [i \in Ids |-> {}], g |-> [g \in Groups |-> NoGroup]]

Init == s = NewStream /\ r = NewStream /\ now = 0 /\ drifted = FALSE

On(t) == {g \in Groups : t.g[g].on}
\* The IDs of a set, the smallest first: the order of the radix trees.
Sorted(set) ==
  [i \in 1 .. Cardinality(set) |-> CHOOSE x \in set : Cardinality({y \in set : y < x}) = i - 1]

(***************************************************************************)
(* Entries.                                                                *)
(***************************************************************************)
\* streamAppendItem
Append_(t, id) ==
  [t EXCEPT !.entries = @ \cup {id}, !.last = id, !.added = @ + 1,
            !.first = IF t.entries = {} THEN id ELSE @]

Edge(t) == IF t.entries = {} THEN 0 ELSE Min(t.entries)

\* As a mistake would have it: the tombstone is not noted.
DeleteItemOnly(t, id) ==
  IF id \notin t.entries THEN t
  ELSE LET u == [t EXCEPT !.entries = @ \ {id}] IN [u EXCEPT !.first = Edge(u)]

\* streamDeleteItem, and what every caller does after it.
DeleteItem(t, id) ==
  IF id \notin t.entries THEN t
  ELSE LET u == [t EXCEPT !.entries = @ \ {id}, !.max_deleted = IF id > @ THEN id ELSE @]
       IN [u EXCEPT !.first = IF u.entries = {} \/ id = t.first THEN Edge(u) ELSE @]

(***************************************************************************)
(* Pending entries.                                                        *)
(***************************************************************************)
\* pelListUnlink
Unlinked(list, id) ==
  LET p == CHOOSE i \in 1 .. Len(list) : list[i] = id
  IN [i \in 1 .. Len(list) - 1 |-> IF i < p THEN list[i] ELSE list[i + 1]]

\* pelListUpdate: unlinked, and put behind the last that is not later.
PelListUpdate(q, id, time) ==
  LET rest == Unlinked(q.list, id)
      k == Max({0} \cup {j \in 1 .. Len(rest) : q.time[rest[j]] <= time})
  IN [q EXCEPT !.time[id] = time, !.list = InsertAt(rest, k + 1, id)]

\* pelListInsertAtTail
InsertAtTail(q, id, time) == [q EXCEPT !.time[id] = time, !.list = Append(@, id)]

\* A NACK of group g for entry id; its consumer is given to it next.
CreateNACK(t, g, id, time) ==
  [t EXCEPT !.g[g] = InsertAtTail(@, id, time), !.refs[id] = @ \cup {g}]

\* The consumer's PEL follows the NACK.
Assign(q, id, c) ==
  [q EXCEPT !.pel[id] = c,
            !.cpel = [d \in Consumers |-> IF d = c THEN @[d] \cup {id} ELSE @[d] \ {id}],
            !.consumers = @ \cup {c}]

\* A group without its NACK for id: pelListUnlink and the removal from both PELs.
Unpended(q, id) ==
  [q EXCEPT !.pel[id] = None, !.time[id] = 0, !.list = Unlinked(@, id),
            !.cpel[q.pel[id]] = @ \ {id}]

\* As a mistake would have it: the index keeps the reference.
DropNACKOnly(t, g, id) ==
  IF t.g[g].pel[id] = None THEN t ELSE [t EXCEPT !.g[g] = Unpended(@, id)]

\* ... and with streamDestroyNACK
DropNACK(t, g, id) ==
  IF t.g[g].pel[id] = None THEN t
  ELSE [t EXCEPT !.g[g] = Unpended(@, id), !.refs[id] = @ \ {g}]

\* streamCleanupEntryCGroupRefs
CleanupRefs(t, id) ==
  [t EXCEPT !.g = [g \in Groups |-> IF g \in t.refs[id] THEN Unpended(@[g], id) ELSE @[g]],
            !.refs[id] = {}]

\* streamUpdateCGroupLastId: the cached minimum may be no longer one.
UpdateLastId(t, g, id) ==
  [t EXCEPT !.min_valid = @ /\ t.g[g].last # t.min /\ id >= t.min, !.g[g].last = id]

\* streamEntryIsReferenced, which caches the minimum of the groups' last IDs.
MinLast(t) == Min({t.g[g].last : g \in On(t)} \cup {Top})
Cached(t) ==
  IF On(t) = {} \/ t.min_valid THEN t ELSE [t EXCEPT !.min = MinLast(t), !.min_valid = TRUE]
Referenced(t, id) == On(t) # {} /\ (Cached(t).min < id \/ t.refs[id] # {})

\* Deletes entry id as mode says; what is referenced stays under ACKED.
DeleteAs(t, id, mode) ==
  CASE mode = "KEEPREF" -> DeleteItem(t, id)
    [] mode = "DELREF" -> DeleteItem(CleanupRefs(t, id), id)
    [] mode = "ACKED" -> IF Referenced(t, id) THEN Cached(t) ELSE DeleteItem(Cached(t), id)

\* streamTrim: the entries go from the first on, until Enough. No tombstones
\* are noted. Before the entry trim.until begins a node that is left alone.
Enough(t, trim, id) ==
  \/ id >= trim.until
  \/ IF trim.by = "maxlen" THEN Cardinality(t.entries) <= trim.at ELSE id >= trim.at
TrimOne(acc, id, trim) ==
  IF acc.stop \/ Enough(acc.t, trim, id) THEN [acc EXCEPT !.stop = TRUE]
  ELSE [acc EXCEPT !.t = [DeleteAs(acc.t, id, trim.mode) EXCEPT !.max_deleted = acc.t.max_deleted]]
Trim(t, trim) ==
  IF trim.by = "none" THEN t
  ELSE FoldLeft(LAMBDA acc, id : TrimOne(acc, id, trim), [t |-> t, stop |-> FALSE], Sorted(t.entries)).t

\* The trims that may remove an entry.
Trims ==
  [by : {"maxlen"}, at : 0 .. MaxId - 1, mode : Modes, until : 2 .. Top]
    \cup [by : {"minid"}, at : 2 .. Top, mode : Modes, until : 2 .. Top]
NoTrim == [by |-> "none", until |-> Top]

\* Where a trim that is exact stops. With MAXLEN and ACKED it does behind a node
\* that has more entries than are to go, even if some of them stay.
ExactStop(t, trim) ==
  \/ trim.until = Top
  \/ /\ trim.by = "maxlen" /\ trim.mode = "ACKED"
     /\ Cardinality({id \in t.entries : id < trim.until}) + trim.at > Cardinality(t.entries)

\* streamGetEdgeID, for the first entry with those that are marked as deleted,
\* when trim has made u of t: they are there if their node is, because an entry
\* of it is left or it ends at trim.at or behind.
FirstEdges(t, u, trim) ==
  LET held == \E y \in u.entries \cup {t.last} :
                y < trim.until /\ (y \in u.entries \/ y >= trim.at)
  IN {Min(u.entries \cup {Top})}
       \cup {id \in t.entries \ u.entries :
              trim.mode # "KEEPREF" /\ held /\ \A y \in u.entries : id < y}

\* As a mistake would have it: what is left of a trim is not told.
RewrittenNot(t, u, trim) == {[trim EXCEPT !.until = Top]}

\* streamRewriteTrimArgument: what a trim with ~ is propagated as. The replica
\* has the nodes of the master.
Rewritten(t, u, trim) ==
  IF trim.by = "maxlen"
    THEN {x \in [by : {"maxlen"}, at : {Cardinality(u.entries)}, mode : {trim.mode}, until : 2 .. Top] :
            ExactStop(t, x)}
    ELSE [by : {"minid"}, at : FirstEdges(t, u, trim), mode : {trim.mode}, until : {Top}]

\* What is propagated stops before an entry that the trim removed.
Lost(removed, x) == \E id \in removed : id >= x.until \/ (x.by = "minid" /\ id >= x.at)

(***************************************************************************)
(* The count of the entries a group has read, and its lag.                 *)
(***************************************************************************)
\* streamRangeHasTombstones, to the end of the stream.
HasTombstones(t, start) == t.entries # {} /\ t.max_deleted # 0 /\ start <= t.max_deleted

\* streamEstimateDistanceFromFirstEverEntry
Distance(t, id) ==
  LET unbroken == t.max_deleted = 0 \/ t.max_deleted < t.first IN
  CASE t.added = 0 -> 0
    [] t.added # 0 /\ t.entries = {} /\ id <= t.last -> t.added
    [] t.added # 0 /\ ~(t.entries = {} /\ id <= t.last) ->
         CASE id # 0 /\ id < t.max_deleted -> Unknown
           [] ~(id # 0 /\ id < t.max_deleted) /\ id = t.last -> t.added
           [] ~(id # 0 /\ id < t.max_deleted) /\ id < t.last /\ unbroken /\ id < t.first ->
                t.added - Cardinality(t.entries)
           [] ~(id # 0 /\ id < t.max_deleted) /\ id < t.last /\ unbroken /\ id = t.first ->
                t.added - Cardinality(t.entries) + 1
           [] OTHER -> Unknown

\* The group's counter when it reads id.
ReadCount(t, g, id) ==
  LET q == t.g[g] IN
  IF q.read # Unknown /\ q.last >= t.first /\ ~HasTombstones(t, q.last) THEN q.read + 1
  ELSE IF t.added # 0 THEN Distance(t, id) ELSE q.read

\* streamReplyWithCGLag
Lag(t, g) ==
  LET q == t.g[g]
      d == Distance(t, q.last)
  IN CASE t.added = 0 \/ t.entries = {} -> 0
       [] t.entries # {} /\ q.last < t.first /\ t.max_deleted < t.first -> Cardinality(t.entries)
       [] t.entries # {} /\ ~(q.last < t.first /\ t.max_deleted < t.first) ->
            IF q.read # Unknown /\ ~HasTombstones(t, q.last) THEN t.added - q.read
            ELSE IF d # Unknown THEN t.added - d ELSE Unknown

(***************************************************************************)
(* Delivery.  A delivery to the replica is XCLAIM ... FORCE JUSTID LASTID. *)
(***************************************************************************)
\* One ID of xclaimCommand, for a consumer that exists by then.
ClaimOne(t, g, c, id, force, minidle, time) ==
  LET nack == t.g[g].pel[id] # None
      u == IF force /\ ~nack THEN CreateNACK(t, g, id, now) ELSE t
  IN CASE id \notin t.entries -> DropNACK(t, g, id)
       [] id \in t.entries /\ ~nack /\ ~force -> t
       [] id \in t.entries /\ nack /\ now - t.g[g].time[id] < minidle -> t
       [] OTHER -> [u EXCEPT !.g[g] = Assign(PelListUpdate(@, id, time), id, c)]

CreateConsumer(t, g, c) == [t EXCEPT !.g[g].consumers = @ \cup {c}]

\* streamPropagateXCLAIM, as the replica executes it.
Propagated(t, g, c, id, time, last) ==
  LET u == IF last > t.g[g].last THEN UpdateLastId(t, g, last) ELSE t
  IN ClaimOne(CreateConsumer(u, g, c), g, c, id, TRUE, 0, time)

\* streamPropagateGroupID, as the replica executes it.
PropagatedId(t, g, last, read) == [UpdateLastId(t, g, last) EXCEPT !.g[g].read = read]

\* One ID that is claimed, at both: acc.n counts what the reply has.
ClaimBoth(acc, g, c, id, minidle, last) ==
  LET q == acc.t.g[g]
      gone == id \notin acc.t.entries
  IN IF ~gone /\ now - q.time[id] < minidle THEN acc
     ELSE [acc EXCEPT !.t = ClaimOne(@, g, c, id, FALSE, minidle, now),
                      !.u = IF gone THEN Propagated(@, g, q.pel[id], id, q.time[id], last)
                            ELSE Propagated(@, g, c, id, now, last),
                      !.n = @ + 1]

\* The claim in streamReplyWithRange: from the head of the list on, to the
\* first that is not idle; entries that are gone stay.
ClaimNext(acc, id, g, c, minidle, count) ==
  IF acc.stop \/ acc.n = count \/ now - acc.t.g[g].time[id] < minidle THEN [acc EXCEPT !.stop = TRUE]
  ELSE IF id \notin acc.t.entries THEN acc
  ELSE ClaimBoth(acc, g, c, id, minidle, acc.t.g[g].last)
ClaimIdle(acc, g, c, minidle, count) ==
  FoldLeft(LAMBDA a, id : ClaimNext(a, id, g, c, minidle, count), acc, acc.t.g[g].list)

\* A NACK for a new entry, or the one it has for this consumer now.
Deliver(t, g, c, id) ==
  IF t.g[g].pel[id] = None
    THEN [CreateNACK(t, g, id, now) EXCEPT !.g[g] = Assign(@, id, c)]
    ELSE [t EXCEPT !.g[g] = Assign(PelListUpdate(@, id, now), id, c)]

\* The entries behind the group's last ID in streamReplyWithRange.
ReadNext(acc, id, g, c, count, noack, last) ==
  LET t == [UpdateLastId(acc.t, g, id) EXCEPT !.g[g].read = ReadCount(acc.t, g, id)]
  IN IF acc.n = count THEN acc
     ELSE [acc EXCEPT !.t = IF noack THEN t ELSE Deliver(t, g, c, id),
                      !.u = IF noack THEN @ ELSE Propagated(@, g, c, id, now, last),
                      !.n = @ + 1]
ReadNew(acc, g, c, count, noack) ==
  LET last == acc.t.g[g].last
      b == FoldLeft(LAMBDA a, id : ReadNext(a, id, g, c, count, noack, last), acc,
                    Sorted({id \in acc.t.entries : id > last}))
  IN IF b.t.g[g].last = last THEN b
     ELSE [b EXCEPT !.u = PropagatedId(@, g, b.t.g[g].last, b.t.g[g].read)]

\* xreadCommand, XREADGROUP with the ID >; minidle is -1 without CLAIM.
ReadGroup(g, c, minidle, count, noack) ==
  LET q == s.g[g]
      new == s.entries # {} /\ Max(s.entries) > q.last
      there == SelectSeq(q.list, LAMBDA id : id \in s.entries)
      idle == minidle # -1 /\ there # <<>> /\ now - q.time[there[1]] >= minidle
      start == [t |-> CreateConsumer(s, g, c), n |-> 0, stop |-> FALSE,
                u |-> IF noack THEN CreateConsumer(r, g, c) ELSE r]
      claimed == IF (new \/ idle) /\ minidle # -1 THEN ClaimIdle(start, g, c, minidle, count) ELSE start
      end == IF new /\ claimed.n < count THEN ReadNew(claimed, g, c, count, noack) ELSE claimed
  IN /\ q.on
     /\ s' = end.t
     /\ r' = end.u
     /\ UNCHANGED <<now, drifted>>

\* XREADGROUP with another ID, streamReplyWithRangeFromConsumerPEL: the times
\* are not propagated.
ReadHistory(g, c, start) ==
  /\ s.g[g].on
  /\ LET ids == {id \in s.g[g].cpel[c] \cap s.entries : id >= start}
     IN s' = [CreateConsumer(s, g, c) EXCEPT
                !.g[g] = FoldLeft(LAMBDA q, id : PelListUpdate(q, id, now), @, Sorted(ids))]
  /\ UNCHANGED <<r, now, drifted>>

\* xclaimCommand, with the idle time and the delivery time of its options.
XClaim(g, c, id, force, minidle, time) ==
  LET q == s.g[g]
      gone == id \notin s.entries
      due == IF q.pel[id] = None THEN force ELSE now - q.time[id] >= minidle
  IN /\ q.on
     /\ s' = ClaimOne(CreateConsumer(s, g, c), g, c, id, force, minidle, time)
     /\ r' = CASE gone /\ q.pel[id] # None -> Propagated(r, g, q.pel[id], id, q.time[id], q.last)
               [] ~gone /\ due -> Propagated(r, g, c, id, time, q.last)
               [] OTHER -> r
     /\ UNCHANGED <<now, drifted>>

\* xautoclaimCommand; what is gone counts too.
AutoClaimNext(acc, id, g, c, minidle, count) ==
  IF acc.n = count THEN acc ELSE ClaimBoth(acc, g, c, id, minidle, acc.t.g[g].last)
XAutoClaim(g, c, minidle, start, count) ==
  LET q == s.g[g]
      end == FoldLeft(LAMBDA a, id : AutoClaimNext(a, id, g, c, minidle, count),
                      [t |-> CreateConsumer(s, g, c), u |-> r, n |-> 0],
                      Sorted({id \in start .. MaxId : q.pel[id] # None}))
  IN /\ q.on
     /\ s' = end.t
     /\ r' = end.u
     /\ UNCHANGED <<now, drifted>>

(***************************************************************************)
(* The commands that are propagated as they are, if they change anything.  *)
(***************************************************************************)
Core(t) == [t EXCEPT !.min = 0, !.min_valid = FALSE]

Both(Command(_)) ==
  /\ s' = Command(s)
  /\ r' = IF Core(s') = Core(s) THEN r ELSE Command(r)
  /\ UNCHANGED <<now, drifted>>

\* xaddCommand
XAdd(id, trim) ==
  /\ id > s.last /\ ExactStop(Append_(s, id), trim)
  /\ Both(LAMBDA t : Trim(Append_(t, id), trim))

\* xtrimCommand
XTrim(trim) == ExactStop(s, trim) /\ Both(LAMBDA t : Trim(t, trim))

\* A trim with ~ of t at the master, which is propagated as x for u at the replica.
Approximate(t, u, trim) ==
  /\ s' = Trim(t, trim)
  /\ \E x \in Rewritten(t, s', trim) :
       /\ r' = IF Core(s') = Core(s) THEN r ELSE Trim(u, x)
       /\ drifted' = (drifted \/ Lost(t.entries \ s'.entries, x))
  /\ UNCHANGED now

\* xaddCommand and xtrimCommand, with ~
XAddAbout(id, trim) == id > s.last /\ Approximate(Append_(s, id), Append_(r, id), trim)
XTrimAbout(trim) == Approximate(s, r, trim)

\* xdelCommand
XDel(id) == Both(LAMBDA t : DeleteItem(t, id))

\* As a mistake would have it: an entry that no group has pending is deleted.
DeleteExUnread(t, id, mode) ==
  IF mode = "ACKED" THEN IF t.refs[id] # {} THEN t ELSE DeleteItem(t, id) ELSE DeleteAs(t, id, mode)

\* xdelexCommand: it is propagated if the entry is deleted. DELREF of what is
\* gone drops references at the master alone.
DeleteEx(t, id, mode) == DeleteAs(t, id, mode)
XDelEx(id, mode) ==
  /\ s' = DeleteEx(s, id, mode)
  /\ r' = IF s'.entries = s.entries THEN r ELSE DeleteEx(r, id, mode)
  /\ drifted' = (drifted \/ (mode = "DELREF" /\ id \notin s.entries /\ s.refs[id] # {}))
  /\ UNCHANGED now

\* xackCommand
XAck(g, id) == s.g[g].on /\ Both(LAMBDA t : DropNACK(t, g, id))

\* xackdelCommand: an entry that the group has not pending is left alone.
AckDelete(t, g, id, mode) ==
  IF t.g[g].pel[id] = None THEN t ELSE DeleteAs(DropNACK(t, g, id), id, mode)
XAckDel(g, id, mode) == s.g[g].on /\ Both(LAMBDA t : AckDelete(t, g, id, mode))

\* streamCreateCG, for a new group
CreateCG(t, g, id) == UpdateLastId([t EXCEPT !.g[g] = [NoGroup EXCEPT !.on = TRUE]], g, id)
XGroupCreate(g, id) == ~s.g[g].on /\ Both(LAMBDA t : CreateCG(t, g, id))

XGroupSetId(g, id) == s.g[g].on /\ Both(LAMBDA t : PropagatedId(t, g, id, Unknown))

\* streamDestroyCG
DestroyCG(t, g) ==
  [t EXCEPT !.refs = [id \in Ids |-> @[id] \ {g}],
            !.min_valid = @ /\ t.min # t.g[g].last,
            !.g[g] = NoGroup]
XGroupDestroy(g) == s.g[g].on /\ Both(LAMBDA t : DestroyCG(t, g))

XGroupCreateConsumer(g, c) == s.g[g].on /\ Both(LAMBDA t : CreateConsumer(t, g, c))

\* streamDelConsumer: what it has pending is pending no more.
DelConsumer(t, g, c) ==
  LET u == FoldLeft(LAMBDA v, id : DropNACK(v, g, id), t, Sorted(t.g[g].cpel[c]))
  IN [u EXCEPT !.g[g].consumers = @ \ {c}]
XGroupDelConsumer(g, c) == s.g[g].on /\ Both(LAMBDA t : DelConsumer(t, g, c))

Tick == now < MaxTime /\ now' = now + 1 /\ UNCHANGED <<s, r, drifted>>

Idles == 0 .. MaxTime

Next ==
  \/ \E id \in Ids, trim \in Trims \cup {NoTrim} : XAdd(id, trim)
  \/ \E trim \in Trims : XTrim(trim)
  \/ \E id \in Ids, trim \in Trims : XAddAbout(id, trim)
  \/ \E trim \in Trims : XTrimAbout(trim)
  \/ \E id \in Ids : XDel(id)
  \/ \E id \in Ids, mode \in Modes : XDelEx(id, mode)
  \/ \E g \in Groups, id \in 0 .. MaxId : XGroupCreate(g, id)
  \/ \E g \in Groups, id \in 0 .. MaxId : XGroupSetId(g, id)
  \/ \E g \in Groups : XGroupDestroy(g)
  \/ \E g \in Readers, c \in Consumers : XGroupCreateConsumer(g, c)
  \/ \E g \in Readers, c \in Consumers : XGroupDelConsumer(g, c)
  \/ \E g \in Readers, c \in Consumers, m \in Idles \cup {-1}, n \in {1, MaxId}, noack \in BOOLEAN :
       ReadGroup(g, c, m, n, noack)
  \/ \E g \in Readers, c \in Consumers, start \in Ids : ReadHistory(g, c, start)
  \/ \E g \in Readers, c \in Consumers, id \in Ids, force \in BOOLEAN, m \in Idles, time \in 0 .. now :
       XClaim(g, c, id, force, m, time)
  \/ \E g \in Readers, c \in Consumers, m \in Idles, start \in Ids, n \in {1, MaxId} :
       XAutoClaim(g, c, m, start, n)
  \/ \E g \in Readers, id \in Ids : XAck(g, id)
  \/ \E g \in Readers, id \in Ids, mode \in Modes : XAckDel(g, id, mode)
  \/ Tick

Spec == Init /\ [][Next]_vars

(***************************************************************************)
(* Correctness.                                                            *)
(***************************************************************************)
GroupType ==
  [on : BOOLEAN, last : 0 .. MaxId, read : Unknown .. MaxId,
   pel : [Ids -> Consumers \cup {None}], time : [Ids -> 0 .. MaxTime],
   list : UNION {[1 .. n -> Ids] : n \in 0 .. MaxId},
   consumers : SUBSET Consumers, cpel : [Consumers -> SUBSET Ids]]
StreamTypeOK(t) ==
  /\ t.entries \subseteq Ids
  /\ {t.last, t.first, t.max_deleted, t.added} \subseteq 0 .. MaxId
  /\ t.min \in 0 .. Top /\ t.min_valid \in BOOLEAN
  /\ t.refs \in [Ids -> SUBSET Groups]
  /\ \A g \in Groups : t.g[g] \in GroupType

\* The master, and the replica while it gets all.
Followed == IF drifted THEN {s} ELSE {s, r}

\* The variables have their types.
TypeOK == (\A t \in Followed : StreamTypeOK(t)) /\ now \in 0 .. MaxTime /\ drifted \in BOOLEAN

\* An entry that is pending is so in each of the four places that know of it
\* (streamNACK): the group's PEL, one consumer's PEL, the list by time and the
\* index of references that an ACKED deletion looks at.
PelsAgreeIn(t) ==
  \A g \in Groups, id \in Ids :
    LET q == t.g[g]
        pending == q.pel[id] # None
    IN /\ \A c \in Consumers : id \in q.cpel[c] <=> q.pel[id] = c
       /\ Cardinality({j \in DOMAIN q.list : q.list[j] = id}) = IF pending THEN 1 ELSE 0
       /\ g \in t.refs[id] <=> pending
       /\ pending => q.on /\ q.pel[id] \in q.consumers

PelsAgree == \A t \in Followed : PelsAgreeIn(t)

\* The list is in the order of the delivery times (t_stream.c:5234), for a
\* claim stops at the first entry that is not idle long enough.
ListSortedIn(t) ==
  \A g \in Groups :
    LET q == t.g[g] IN \A i, j \in DOMAIN q.list : i < j => q.time[q.list[i]] <= q.time[q.list[j]]

ListSorted == \A t \in Followed : ListSortedIn(t)

\* The cached minimum of the groups' last IDs, while it counts as valid, is
\* the minimum: streamEntryIsReferenced takes what is behind it for read.
MinCached == \A t \in Followed : t.min_valid /\ On(t) # {} => t.min = MinLast(t)

\* The lag that is reported for a group, if one is, is the number of entries
\* it has not been given (streamReplyWithCGLag), whatever was deleted and
\* trimmed and wherever the group was set to.
LagExact ==
  \A t \in Followed : \A g \in On(t) :
    Lag(t, g) # Unknown => Lag(t, g) = Cardinality({id \in t.entries : id > t.g[g].last})

\* The replica has the stream of its master, and every group with what it has
\* pending and with whom, though reads and claims reach it in pieces and trims
\* with another argument: unless an argument was rewritten to an entry that was
\* trimmed (2394), or references were dropped that no deletion propagates (4589).
Pending(t, g) == [on |-> t.g[g].on, last |-> t.g[g].last, read |-> t.g[g].read, pel |-> t.g[g].pel]
Stored(t) == <<t.entries, t.last, t.first, t.max_deleted, t.added, t.refs>>
ReplicaAgrees ==
  ~drifted => Stored(r) = Stored(s) /\ \A g \in Groups : Pending(r, g) = Pending(s, g)

\* Trimming is deterministic on replicas (t_stream.c:2392): the replica has the
\* entries of its master. It has not always.
TrimsAgree == r.entries = s.entries

AckedStep ==
  \/ \E id \in Ids : XDelEx(id, "ACKED")
  \/ \E g \in Readers, id \in Ids : XAckDel(g, id, "ACKED")
  \/ \E trim \in {x \in Trims : x.mode = "ACKED"} :
       XTrim(trim) \/ XTrimAbout(trim) \/ \E id \in Ids : XAdd(id, trim) \/ XAddAbout(id, trim)

\* A deletion or a trim with ACKED removes nothing that a group has pending or
\* has still to be given.
AckedSafe ==
  [][\/ \A id \in s.entries \ s'.entries, g \in On(s') :
          id <= s'.g[g].last /\ s'.g[g].pel[id] = None
     \/ ~AckedStep]_vars

\* The structures of the groups, at the master and, while it gets all, at the
\* replica: the four places of a pending entry, the order by time and the cached
\* minimum.
GroupsSound == TypeOK /\ PelsAgree /\ ListSorted /\ MinCached
=============================================================================
