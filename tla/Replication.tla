---------------------------- MODULE Replication ----------------------------
(***************************************************************************)
(* Replication of redis-stable/src/replication.c: replication IDs and      *)
(* offsets, the backlog, PSYNC with its partial and full resynchronisation,*)
(* the cached master, promotions and demotions, broken links, failed       *)
(* transfers and restarts from an RDB file.                                *)
(*                                                                         *)
(* The data of a server is the sequence of the writes it has applied; a    *)
(* write is one byte of the stream. A replica whose link is up reads its   *)
(* master's stream in order, at its own pace. A server is one thread, so a *)
(* command is a step; PSYNC is answered in the step that reads it, because *)
(* what would change the answer breaks the connection.                     *)
(***************************************************************************)
EXTENDS Integers, SequencesExt

CONSTANTS
  Servers, None,
  Primary,        \* the master at the start
  backlog_size,   \* repl_backlog_size, in writes
  MaxWrites, MaxEvents   \* bounds: events are switches, faults and saves

ASSUME ReplicationConstants ==
  /\ Primary \in Servers /\ None \notin Servers
  /\ backlog_size \in Nat \ {0}
  /\ {MaxWrites, MaxEvents} \subseteq Nat

VARIABLES
  srv,       \* srv[n]: the server, a record
  snap,      \* snap[n]: the RDB being transferred to n, with its FULLRESYNC reply
  nextId,    \* the next random replication ID
  writes, events   \* how many so far

counters == <<writes, events>>
vars == <<srv, snap, nextId, counters>>

NoId == 0
NoRdb == [data |-> <<>>, valid |-> FALSE, replid |-> NoId, offset |-> 0]

\* first: the offset of the first entry of the backlog log, 0 without backlog.
NewServer(id, m) ==
  [replid |-> id, replid2 |-> NoId, second |-> -1, offset |-> 0, data |-> <<>>,
   log |-> <<>>, first |-> 0, master |-> m, link |-> "none", cached |-> FALSE,
   rdb |-> NoRdb]

\* The replicas have never been synchronised: that their own random IDs differ
\* does not matter before they are masters.
Init ==
  /\ srv = [n \in Servers |-> IF n = Primary THEN NewServer(1, None) ELSE NewServer(2, Primary)]
  /\ snap = [n \in Servers |-> NoRdb]
  /\ nextId = 3
  /\ writes = 0 /\ events = 0

(***************************************************************************)
(* Parts of a step.                                                        *)
(***************************************************************************)
IsMaster(n) == srv[n].master = None
HasBacklog(s) == s.first # 0
\* listLength(server.slaves), those still waiting for a BGSAVE included.
Slaves(n) == {r \in Servers : srv[r].master = n /\ srv[r].link # "none"}

\* The connection to the master ends: replicationCacheMaster if it was up.
Unlinked(s) == [s EXCEPT !.link = "none", !.cached = @ \/ s.link = "up"]

\* f with the slaves of n disconnected.
DisconnectSlaves(f, n) == [r \in Servers |-> IF r \in Slaves(n) THEN Unlinked(f[r]) ELSE f[r]]

\* createReplicationBacklog
WithBacklog(s) == IF HasBacklog(s) THEN s ELSE [s EXCEPT !.log = <<>>, !.first = s.offset + 1]
\* freeReplicationBacklog
WithoutBacklog(s) == [s EXCEPT !.log = <<>>, !.first = 0]

\* As a mistake would have it: the ID stays.
SameHistory(s) == [s EXCEPT !.replid2 = NoId, !.second = -1]

\* changeReplicationId and clearReplicationId2.
NewHistory(s) == [s EXCEPT !.replid = nextId, !.replid2 = NoId, !.second = -1]

\* shiftReplicationId
ShiftedId(s) == [s EXCEPT !.replid2 = s.replid, !.second = s.offset + 1, !.replid = nextId]

\* What the slaves of n still have to read keeps its blocks referenced.
NextOffset(r) == IF srv[r].link = "transfer" THEN snap[r].offset + 1 ELSE srv[r].offset + 1
Referenced(n, o) == \E r \in Slaves(n) : srv[r].link \in {"transfer", "up"} /\ NextOffset(r) <= o

\* feedReplicationBuffer, then incrementalTrimReplicationBacklog, which trims
\* whole blocks and may leave more than backlog_size.
Fed(n, s, w) ==
  LET log == Append(s.log, w)
      kept == [s EXCEPT !.offset = @ + 1, !.log = log]
  IN IF ~HasBacklog(s) THEN {s}
     ELSE {kept} \cup
          (IF Len(log) > backlog_size /\ ~Referenced(n, s.first)
             THEN {[kept EXCEPT !.log = Tail(log), !.first = @ + 1]} ELSE {})

(***************************************************************************)
(* The stream.                                                             *)
(***************************************************************************)
\* A client's write at a master; without a backlog no offset counts it.
Write(n) ==
  /\ IsMaster(n) /\ writes < MaxWrites
  /\ writes' = writes + 1
  /\ \E s \in Fed(n, srv[n], writes + 1) :
       srv' = [srv EXCEPT ![n] = [s EXCEPT !.data = Append(@, writes + 1)]]
  /\ UNCHANGED <<snap, nextId, events>>

\* A replica applies the next write of its master's stream and proxies it to
\* its own replicas: replicationFeedStreamFromMasterStream.
Stream(r) ==
  LET m == srv[r].master IN
  /\ srv[r].link = "up" /\ srv[r].offset < srv[m].offset
  /\ LET w == srv[m].log[srv[r].offset + 2 - srv[m].first] IN
     \E s \in Fed(r, srv[r], w) :
       srv' = [srv EXCEPT ![r] = [s EXCEPT !.data = Append(@, w)]]
  /\ UNCHANGED <<snap, nextId, counters>>

(***************************************************************************)
(* PSYNC.                                                                  *)
(***************************************************************************)
\* As a mistake would have it: only masters serve.
MayServeMasters(m) == IsMaster(m)

\* syncCommand refuses while the server has no link to its own master.
MayServe(m) == IsMaster(m) \/ srv[m].link = "up"

\* As a mistake would have it: the second ID is valid for any offset.
AcceptsOldId(s, id, o) == id \in {s.replid, s.replid2}

\* masterTryPartialResynchronization, for a request of id and offset o.
AcceptsId(s, id, o) == id = s.replid \/ (id = s.replid2 /\ o <= s.second)
InBacklog(s, o) == HasBacklog(s) /\ o >= s.first /\ o <= s.first + Len(s.log)
Continues(m, r) ==
  /\ srv[r].cached
  /\ AcceptsId(srv[m], srv[r].replid, srv[r].offset + 1)
  /\ InBacklog(srv[m], srv[r].offset + 1)

Asks(r) == srv[r].link = "none" /\ ~IsMaster(r) /\ MayServe(srv[r].master)

\* Another ID in +CONTINUE: the old one stays valid up to here.
AdoptedId(s, id) ==
  IF id = s.replid THEN s ELSE [s EXCEPT !.replid2 = s.replid, !.second = s.offset + 1, !.replid = id]

\* +CONTINUE, read by slaveTryPartialResynchronization.
PartialSync(r) ==
  LET m == srv[r].master
      s == WithBacklog([AdoptedId(srv[r], srv[m].replid) EXCEPT !.link = "up", !.cached = FALSE])
      f == [srv EXCEPT ![r] = s]
  IN
  /\ Asks(r) /\ Continues(m, r)
  /\ srv' = IF srv[m].replid = srv[r].replid THEN f ELSE DisconnectSlaves(f, r)
  /\ UNCHANGED <<snap, nextId, counters>>

\* The replica is to wait for a BGSAVE; the first one makes a backlog, and with
\* it a history of its own.
AskFullSync(r) ==
  LET m == srv[r].master
      new == Slaves(m) = {} /\ ~HasBacklog(srv[m])
  IN
  /\ Asks(r) /\ ~Continues(m, r)
  /\ srv' = [srv EXCEPT ![r].link = "wait",
                        ![m] = IF new THEN WithBacklog(NewHistory(@)) ELSE @]
  /\ nextId' = IF new THEN nextId + 1 ELSE nextId
  /\ UNCHANGED <<snap, counters>>

SnapOf(m) == [data |-> srv[m].data, valid |-> TRUE, replid |-> srv[m].replid,
              offset |-> srv[m].offset]

\* startBgsaveForReplication, for all who wait: replicationSetupSlaveForFullResync.
StartBgsave(m) ==
  LET waiting == {r \in Slaves(m) : srv[r].link = "wait"} IN
  /\ waiting # {}
  /\ snap' = [r \in Servers |-> IF r \in waiting THEN SnapOf(m) ELSE snap[r]]
  /\ srv' = [r \in Servers |-> IF r \in waiting THEN [srv[r] EXCEPT !.link = "transfer"] ELSE srv[r]]
  /\ UNCHANGED <<nextId, counters>>

\* CASE 1 of syncCommand: the BGSAVE that runs for another replica serves this
\* one too, with the offset of then and the ID of now.
JoinBgsave(r, o) ==
  LET m == srv[r].master IN
  /\ Asks(r) /\ ~Continues(m, r)
  /\ o \in Slaves(m) /\ srv[o].link = "transfer"
  /\ snap' = [snap EXCEPT ![r] = [snap[o] EXCEPT !.replid = srv[m].replid]]
  /\ srv' = [srv EXCEPT ![r].link = "transfer"]
  /\ UNCHANGED <<nextId, counters>>

\* replicationAttachToNewMaster: from here the old data is gone.
Attached(s) == WithoutBacklog([s EXCEPT !.cached = FALSE])

\* readSyncBulkPayload: the RDB is loaded, from a file that stays, and the
\* stream follows.
FinishFullSync(r) ==
  LET s == [Attached(srv[r]) EXCEPT
              !.data = snap[r].data, !.replid = snap[r].replid, !.offset = snap[r].offset,
              !.replid2 = NoId, !.second = -1, !.link = "up"]
  IN
  /\ srv[r].link = "transfer"
  /\ srv' = DisconnectSlaves([srv EXCEPT ![r] = [WithBacklog(s) EXCEPT !.rdb = snap[r]]], r)
  /\ snap' = [snap EXCEPT ![r] = NoRdb]
  /\ UNCHANGED <<nextId, counters>>

(***************************************************************************)
(* Faults.                                                                 *)
(***************************************************************************)
Event == events < MaxEvents /\ events' = events + 1

Disconnect(r) ==
  /\ Event
  /\ srv[r].link # "none"
  /\ srv' = [srv EXCEPT ![r] = Unlinked(@)]
  /\ snap' = [snap EXCEPT ![r] = NoRdb]
  /\ UNCHANGED <<nextId, writes>>

\* The load fails after the old data was flushed.
FailFullSync(r) ==
  /\ Event
  /\ srv[r].link = "transfer"
  /\ srv' = DisconnectSlaves([srv EXCEPT ![r] = [Attached(@) EXCEPT !.link = "none", !.data = <<>>]], r)
  /\ snap' = [snap EXCEPT ![r] = NoRdb]
  /\ UNCHANGED <<nextId, writes>>

\* rdbPopulateSaveInfo: the ID and offset are in the file only if they mean
\* something.
Saved(s) ==
  [data |-> s.data, replid |-> s.replid, offset |-> s.offset,
   valid |-> IF s.master = None THEN HasBacklog(s) ELSE s.link = "up" \/ s.cached]

Save(n) ==
  /\ Event
  /\ srv[n].rdb # Saved(srv[n])
  /\ srv' = [srv EXCEPT ![n].rdb = Saved(srv[n])]
  /\ UNCHANGED <<snap, nextId, writes>>

\* loadDataFromDisk, after a crash: what was not saved is lost.
Reloaded(s) ==
  LET new == [NewServer(nextId, s.master) EXCEPT !.data = s.rdb.data, !.rdb = s.rdb]
      at == [new EXCEPT !.offset = s.rdb.offset]
  IN CASE ~s.rdb.valid -> new
       [] s.rdb.valid /\ s.master = None ->
            WithBacklog([at EXCEPT !.replid2 = s.rdb.replid, !.second = s.rdb.offset + 1])
       [] s.rdb.valid /\ s.master # None ->
            [at EXCEPT !.replid = s.rdb.replid, !.cached = TRUE]

Restart(n) ==
  /\ Event
  /\ srv' = DisconnectSlaves([srv EXCEPT ![n] = Reloaded(@)], n)
  /\ snap' = [r \in Servers |-> IF r = n \/ r \in Slaves(n) THEN NoRdb ELSE snap[r]]
  /\ nextId' = nextId + 1
  /\ UNCHANGED writes

(***************************************************************************)
(* The operator, or the sentinels, and the cron.                           *)
(***************************************************************************)
\* REPLICAOF: a master takes itself as the cached master.
ReplicaOf(n, m) ==
  /\ Event
  /\ m \notin {n, srv[n].master}
  /\ srv' = [srv EXCEPT ![n] = [Unlinked(srv[n]) EXCEPT !.master = m, !.cached = @ \/ IsMaster(n)]]
  /\ snap' = [snap EXCEPT ![n] = NoRdb]
  /\ UNCHANGED <<nextId, writes>>

\* REPLICAOF NO ONE: replicationUnsetMaster.
Promote(n) ==
  /\ Event
  /\ ~IsMaster(n)
  /\ srv' = DisconnectSlaves([srv EXCEPT ![n] =
              [ShiftedId(@) EXCEPT !.master = None, !.link = "none", !.cached = FALSE]], n)
  /\ snap' = [r \in Servers |-> IF r = n \/ r \in Slaves(n) THEN NoRdb ELSE snap[r]]
  /\ nextId' = nextId + 1
  /\ UNCHANGED writes

\* replicationCron, when no replica is connected for repl_backlog_time_limit.
ExpireBacklog(n) ==
  /\ IsMaster(n) /\ HasBacklog(srv[n]) /\ Slaves(n) = {}
  /\ srv' = [srv EXCEPT ![n] = WithoutBacklog(NewHistory(@))]
  /\ nextId' = nextId + 1
  /\ UNCHANGED <<snap, counters>>

Next ==
  \E n \in Servers :
    \/ Write(n) \/ Stream(n)
    \/ PartialSync(n) \/ AskFullSync(n) \/ StartBgsave(n) \/ FinishFullSync(n)
    \/ \E o \in Servers : JoinBgsave(n, o) \/ ReplicaOf(n, o)
    \/ Disconnect(n) \/ FailFullSync(n) \/ Save(n) \/ Restart(n)
    \/ Promote(n) \/ ExpireBacklog(n)

Spec == Init /\ [][Next]_vars

\* A replica without a link tries again every second, BGSAVEs start and end,
\* and the stream flows.
Fairness ==
  \A n \in Servers :
    /\ WF_vars(PartialSync(n)) /\ WF_vars(AskFullSync(n))
    /\ WF_vars(StartBgsave(n)) /\ WF_vars(FinishFullSync(n)) /\ WF_vars(Stream(n))

FairSpec == Spec /\ Fairness

(***************************************************************************)
(* Properties.                                                             *)
(***************************************************************************)
Rdb == [data : Seq(1 .. MaxWrites), valid : BOOLEAN, replid : Nat, offset : 0 .. MaxWrites]
Server ==
  [replid : Nat \ {NoId}, replid2 : Nat, second : -1 .. MaxWrites + 1, offset : 0 .. MaxWrites,
   data : Seq(1 .. MaxWrites), log : Seq(1 .. MaxWrites), first : 0 .. MaxWrites + 1,
   master : Servers \cup {None}, link : {"none", "wait", "transfer", "up"}, cached : BOOLEAN,
   rdb : Rdb]

TypeOK ==
  /\ srv \in [Servers -> Server] /\ snap \in [Servers -> Rdb] /\ nextId \in Nat
  /\ writes \in 0 .. MaxWrites /\ events \in 0 .. MaxEvents

\* What a linked replica has, followed by what it still has to read, is what
\* its master has: no partial resynchronisation joins two histories, and no
\* write of the stream is skipped or applied twice (replication.c:951).
StreamCompletes ==
  \A r \in Servers :
    srv[r].link = "up" =>
      LET m == srv[srv[r].master] IN
      /\ HasBacklog(m) /\ m.first <= srv[r].offset + 1 /\ srv[r].offset <= m.offset
      /\ m.data = srv[r].data \o SubSeq(m.log, srv[r].offset + 2 - m.first, Len(m.log))

\* A replication ID names one history: of two servers that could still use it
\* to resynchronise, the one with the lower offset has a prefix of the data of
\* the other (replication.c:5012).
Usable(s) == s.cached \/ HasBacklog(s)
OneHistoryPerId ==
  \A a, b \in Servers :
    /\ srv[a].replid = srv[b].replid /\ Usable(srv[a]) /\ Usable(srv[b])
    /\ srv[a].offset <= srv[b].offset
    => IsPrefix(srv[a].data, srv[b].data)

\* A replica of a master, or of a linked replica of one, ends up with its data
\* once events and writes are over (syncCommand, replicationCron).
\* Replicas of each other have nobody to wait for.
ReplicasEndEqual ==
  <>[](\A r \in Servers :
         LET m == srv[r].master IN
         /\ ~IsMaster(r)
         /\ IsMaster(m) \/ (srv[m].link = "up" /\ IsMaster(srv[m].master))
         => srv[r].data = srv[m].data)

\* IDs and offsets mean what a resynchronisation takes them for, in every
\* server, after promotions, broken links and restarts.
HistoriesSound == TypeOK /\ OneHistoryPerId
=============================================================================
