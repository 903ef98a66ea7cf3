---------------------------- MODULE Transaction ----------------------------
(***************************************************************************)
(* MULTI/EXEC and WATCH of redis-stable/src/multi.c, with the commands that*)
(* modify, expire, flush and swap the watched keys (db.c).                 *)
(*                                                                         *)
(* The server is one thread: a command is a step, and so is an EXEC with   *)
(* all it has queued. A key's value is the number of the write it is from, *)
(* and so is its time to live.                                            *)
(* Time passes between commands, never within one (commandTimeSnapshot).   *)
(***************************************************************************)
EXTENDS Integers, FiniteSets, SequencesExt

CONSTANTS
  Clients, Dbs, Keys,
  Files,                          \* what the database may be loaded with
  MaxWrites, MaxQueue, MaxMulti   \* bounds of a behaviour: the writes, the commands
                                  \* queued and the clients that queue at one time

\* The numbers of the writes up to the i-th. Those of before the server started
\* are below 0, and 0 is for no value and no time to live.
UpTo(i) == {j \in Int : j <= i}

ASSUME TransactionConstants ==
  /\ IsFiniteSet(Clients) /\ IsFiniteSet(Dbs)
  /\ Files \subseteq [Dbs \X Keys -> [val : UpTo(0), ttl : UpTo(0), expired : {FALSE}]]
  /\ {MaxWrites, MaxQueue, MaxMulti} \subseteq Nat

\* A key without a value has no time to live, and no two have one that is from
\* the same write.
ASSUME DistinctFiles ==
  \A file \in Files : \A m, n \in Dbs \X Keys :
    /\ file[n].val = 0 => file[n].ttl = 0
    /\ file[m].val = file[n].val => m = n \/ file[m].val = 0

VARIABLES
  s,       \* the server: db, watched_keys, the clients' states, and whether it
           \* is a replica, whose writes come from its master
  writes,  \* how many so far
  seen,    \* seen[c][n]: what n was when c began to watch it
  masked   \* keys of which a watcher had the expired flag while they were not
           \* expired, since they last had no watchers; no step reads these two

vars == <<s, writes, seen, masked>>

Names == Dbs \X Keys
None == [val |-> 0, ttl |-> 0, expired |-> FALSE]
Idle == [multi |-> FALSE, cas |-> FALSE, err |-> FALSE, queue |-> <<>>,
         watched |-> {}, stale |-> {}]

\* cas and err: CLIENT_DIRTY_CAS and CLIENT_DIRTY_EXEC. stale: the watched keys
\* with the expired flag.
Init ==
  /\ \E replica \in BOOLEAN, file \in Files :
       s = [db |-> file, watched_keys |-> [n \in Names |-> <<>>], watching_clients |-> 0,
            cl |-> [c \in Clients |-> Idle], replica |-> replica]
  /\ writes = 0
  /\ seen = [c \in Clients |-> [n \in Names |-> None]]
  /\ masked = {}

(***************************************************************************)
(* WATCH.                                                                  *)
(***************************************************************************)
\* keyIsExpired
Expired(t, n) == t.db[n].expired
\* What a reader gets.
Logical(t, n) == IF Expired(t, n) THEN None ELSE t.db[n]

UnwatchAllKeys(t, c) ==
  IF t.cl[c].watched = {} THEN t
  ELSE [t EXCEPT
          !.watched_keys = [n \in Names |-> IF n \in t.cl[c].watched THEN RemoveFirst(@[n], c) ELSE @[n]],
          !.cl[c].watched = {}, !.cl[c].stale = {},
          !.watching_clients = @ - 1]

WatchForKey(t, c, n) ==
  IF n \in t.cl[c].watched THEN t
  ELSE [t EXCEPT
          !.watched_keys[n] = Append(@, c),
          !.cl[c].watched = @ \cup {n},
          !.cl[c].stale = IF Expired(t, n) THEN @ \cup {n} ELSE @,
          !.watching_clients = IF t.cl[c].watched = {} THEN @ + 1 ELSE @]

\* As a mistake would have it: what is watched is forgotten at one end.
DiscardTransactionHere(t, c) == [t EXCEPT !.cl[c] = Idle]

DiscardTransaction(t, c) ==
  LET u == UnwatchAllKeys(t, c) IN [u EXCEPT !.cl[c] = Idle]

\* What happens to a client that is told of a change.
Touched(t, c) == UnwatchAllKeys([t EXCEPT !.cl[c].cas = TRUE], c)

\* As a mistake would have it: a key that was expired already is a key like others.
TouchWatchedKeyAlways(t, n) == FoldLeft(Touched, t, t.watched_keys[n])

\* The clients that touchWatchedKey reaches: it stops at the first for which the
\* key was expired already, and still is there.
TouchWatchedKey(t, n) ==
  LET Visit(acc, c) ==
        CASE acc.stop -> acc
          [] ~acc.stop /\ n \notin acc.t.cl[c].stale ->
               [acc EXCEPT !.t = Touched(@, c)]
          [] ~acc.stop /\ n \in acc.t.cl[c].stale ->
               IF t.db[n] = None THEN [acc EXCEPT !.t.cl[c].stale = @ \ {n}]
               ELSE [acc EXCEPT !.stop = TRUE]
  IN FoldLeft(Visit, [t |-> t, stop |-> FALSE], t.watched_keys[n]).t

\* touchAllWatchedKeysInDb for one watcher of a key of which old is to be
\* replaced with new: what becomes of it.
Verdict(old, new, stale) ==
  CASE old = None /\ new = None -> "same"
    [] stale /\ old # None /\ new = None -> "fresh"
    [] stale /\ new.expired -> "same"
    [] ~stale /\ old = None /\ new.expired -> "stale"
    [] OTHER -> "dirty"

\* Every key n of the databases ds is to become to[n].
TouchAllWatchedKeys(t, ds, to) ==
  [t EXCEPT !.cl = [c \in Clients |->
    LET of(v) == {n \in t.cl[c].watched : n[1] \in ds
                    /\ Verdict(t.db[n], to[n], n \in t.cl[c].stale) = v}
    IN [t.cl[c] EXCEPT !.cas = @ \/ of("dirty") # {},
                    !.stale = (@ \ of("fresh")) \cup of("stale")]]]

(***************************************************************************)
(* Commands.                                                               *)
(***************************************************************************)
Put(t, n, cell) == TouchWatchedKey([t EXCEPT !.db[n] = cell], n)

\* expireIfNeeded: a replica leaves it to its master.
ExpireIfNeeded(t, n) == IF Expired(t, n) /\ ~t.replica THEN Put(t, n, None) ELSE t

SetKey(t, n, v) == Put(ExpireIfNeeded(t, n), n, [None EXCEPT !.val = v])

\* EXPIRE and PEXPIREAT, with a time to come.
Expire(t, n, v) ==
  LET u == ExpireIfNeeded(t, n) IN
  IF u.db[n] = None THEN u ELSE Put(u, n, [u.db[n] EXCEPT !.ttl = v, !.expired = FALSE])

Del(t, n) ==
  LET u == ExpireIfNeeded(t, n) IN IF u.db[n] = None THEN u ELSE Put(u, n, None)

\* FLUSHDB
Flush(t, d) ==
  LET to == [n \in Names |-> IF n[1] = d THEN None ELSE t.db[n]]
      u == TouchAllWatchedKeys(t, {d}, to)
  IN [u EXCEPT !.db = to]

\* SWAPDB, the databases being two.
Swap(t) ==
  LET to == [n \in Names |-> t.db[<<CHOOSE d \in Dbs : d # n[1], n[2]>>]]
      u == TouchAllWatchedKeys(t, Dbs, to)
  IN [u EXCEPT !.db = to]

\* UNWATCH
UnwatchCommand(t, c) == [UnwatchAllKeys(t, c) EXCEPT !.cl[c].cas = FALSE]

Commands ==
  [op : {"get", "set", "expire", "del"}, on : Names]
    \cup (IF Cardinality(Dbs) = 2 THEN {[op |-> "swap"]} ELSE {})
    \cup [op : {"flush"}, on : Dbs] \cup {[op |-> "unwatch"]}

Writes(cmd) == cmd.op \in {"set", "expire"}

\* Client c runs cmd; v is the number of the write.
Call(t, c, cmd, v) ==
  CASE cmd.op = "get" -> ExpireIfNeeded(t, cmd.on)
    [] cmd.op = "set" -> SetKey(t, cmd.on, v)
    [] cmd.op = "expire" -> Expire(t, cmd.on, v)
    [] cmd.op = "del" -> Del(t, cmd.on)
    [] cmd.op = "flush" -> Flush(t, cmd.on)
    [] cmd.op = "swap" -> Swap(t)
    [] cmd.op = "unwatch" -> UnwatchCommand(t, c)

\* A client of a replica, which is read-only, can give these.
Allowed(cmd) == s.replica => cmd.op \in {"get", "unwatch"}

(***************************************************************************)
(* Steps.                                                                  *)
(***************************************************************************)
\* The keys of which a watcher has the expired flag, and which are not expired.
Mismarked(t) == {n \in Names : ~Expired(t, n) /\ \E c \in Clients : n \in t.cl[c].stale}
Masked == masked' = {n \in masked \cup Mismarked(s') : s'.watched_keys[n] # <<>>}

\* What is still watched.
Kept == [c \in Clients |->
           [n \in Names |-> IF n \in s'.cl[c].watched THEN seen[c][n] ELSE None]]

Count(cmd) == writes' = writes + (IF Writes(cmd) THEN 1 ELSE 0) /\ writes' <= MaxWrites

Run(c, cmd) ==
  /\ ~s.cl[c].multi /\ Allowed(cmd) /\ Count(cmd)
  /\ s' = Call(s, c, cmd, writes + 1)
  /\ seen' = Kept /\ Masked

Watch(c, n) ==
  /\ ~s.cl[c].multi /\ ~s.cl[c].cas
  /\ s' = WatchForKey(s, c, n)
  /\ n \notin s.cl[c].watched
  /\ seen' = [seen EXCEPT ![c][n] = Logical(s, n)] /\ Masked
  /\ UNCHANGED writes

Multi(c) ==
  /\ ~s.cl[c].multi
  /\ Cardinality({d \in Clients : s.cl[d].multi}) < MaxMulti
  /\ s' = [s EXCEPT !.cl[c].multi = TRUE]
  /\ UNCHANGED writes /\ seen' = Kept /\ Masked

\* queueMultiCommand keeps nothing of a transaction that is bound to fail.
Queue(c, cmd) ==
  /\ s.cl[c].multi /\ Allowed(cmd)
  /\ Len(s.cl[c].queue) < MaxQueue
  /\ s' = IF s.cl[c].cas \/ s.cl[c].err THEN s ELSE [s EXCEPT !.cl[c].queue = Append(@, cmd)]
  /\ UNCHANGED writes /\ seen' = Kept /\ Masked

\* A command that is refused when it is to be queued: flagTransaction.
Reject(c) ==
  /\ s.cl[c].multi
  /\ s' = [s EXCEPT !.cl[c].err = TRUE]
  /\ UNCHANGED writes /\ seen' = Kept /\ Masked

\* As a mistake would have it: only what was deleted counts.
IsWatchedKeyExpiredNever(t, c) == FALSE

\* isWatchedKeyExpired
IsWatchedKeyExpired(t, c) == \E n \in t.cl[c].watched \ t.cl[c].stale : Expired(t, n)

\* Whether EXEC would run what is queued.
WouldRun(t, c) == ~t.cl[c].cas /\ ~t.cl[c].err /\ ~IsWatchedKeyExpired(t, c)

\* The commands queued, one after the other; v is the number of the next write.
RunQueue(t, c, queue, v) ==
  LET Step(acc, cmd) == [t |-> Call(acc.t, c, cmd, acc.v), v |-> acc.v + (IF Writes(cmd) THEN 1 ELSE 0)]
  IN FoldLeft(Step, [t |-> t, v |-> v], queue)

Exec(c) ==
  LET run == WouldRun(s, c)
      done == RunQueue(UnwatchAllKeys(s, c), c, s.cl[c].queue, writes + 1)
  IN
  /\ s.cl[c].multi
  /\ writes' = IF run THEN done.v - 1 ELSE writes
  /\ writes' <= MaxWrites
  /\ s' = DiscardTransaction(IF run THEN done.t ELSE s, c)
  /\ seen' = Kept /\ Masked

\* DISCARD; RESET, and a connection that closes and one that takes its place.
Discard(c) ==
  /\ s.cl[c] # Idle
  /\ s' = DiscardTransaction(s, c)
  /\ UNCHANGED writes /\ seen' = Kept /\ Masked

\* A command of the master of a replica, for which no key is expired.
MasterRun(cmd) ==
  /\ s.replica /\ cmd.op \in {"set", "expire", "del"}
  /\ Count(cmd)
  /\ \E c \in Clients : s' = Call(s, c, cmd, writes + 1)
  /\ seen' = Kept /\ Masked

\* A key's time comes.
TimePasses(n) ==
  /\ s.db[n].ttl # 0 /\ ~Expired(s, n)
  /\ s' = [s EXCEPT !.db[n].expired = TRUE]
  /\ UNCHANGED writes /\ seen' = Kept /\ Masked

\* activeExpireCycle finds it.
ActiveExpire(n) ==
  /\ Expired(s, n) /\ ~s.replica
  /\ s' = ExpireIfNeeded(s, n)
  /\ UNCHANGED writes /\ seen' = Kept /\ Masked

Next ==
  \/ \E c \in Clients :
       \/ Multi(c) \/ Exec(c) \/ Discard(c) \/ Reject(c)
       \/ \E n \in Names : Watch(c, n)
       \/ \E cmd \in Commands : Run(c, cmd) \/ Queue(c, cmd)
  \/ \E cmd \in Commands : MasterRun(cmd)
  \/ \E n \in Names : TimePasses(n) \/ ActiveExpire(n)

Spec == Init /\ [][Next]_vars

(***************************************************************************)
(* Properties.                                                             *)
(***************************************************************************)
Cell == [val : UpTo(MaxWrites), ttl : UpTo(MaxWrites), expired : BOOLEAN]
Client == [multi : BOOLEAN, cas : BOOLEAN, err : BOOLEAN, queue : Seq(Commands),
           watched : SUBSET Names, stale : SUBSET Names]
Server == [db : [Names -> Cell], watched_keys : [Names -> Seq(Clients)],
           watching_clients : 0 .. Cardinality(Clients), cl : [Clients -> Client],
           replica : BOOLEAN]
TypeOK ==
  /\ s \in Server
  /\ \A c \in Clients : s.cl[c].stale \subseteq s.cl[c].watched /\ Len(s.cl[c].queue) <= MaxQueue
  /\ writes \in 0 .. MaxWrites
  /\ seen \in [Clients -> [Names -> Cell]] /\ masked \subseteq Names

\* An EXEC that would run finds every watched key, and its time to live, as it
\* was when the client began to watch it (multi.c:373). This does not hold of a
\* masked key: the loop of touchWatchedKey ends at the watcher with the flag
\* (multi.c:407), and those behind it are not told. On a replica the flag
\* outlives a write of the master, on a master a SWAPDB that brings another key.
RunsOnWhatWasSeen ==
  \A c \in Clients : WouldRun(s, c) =>
    \A n \in s.cl[c].watched : Logical(s, n) = seen[c][n] \/ n \in masked

\* The lists of the keys and of the clients agree, whichever end a watch is
\* removed from, and so does the count of watching clients.
ListsAgree ==
  /\ \A n \in Names :
       /\ IsInjective(s.watched_keys[n])
       /\ \A c \in Clients : n \in s.cl[c].watched <=> Contains(s.watched_keys[n], c)
  /\ s.watching_clients = Cardinality({c \in Clients : s.cl[c].watched # {}})

\* Only a change that a reader could see makes an EXEC fail: the deletion of a
\* key that was expired when the watch began does not (multi.c:402). Of what
\* the commands of one transaction undo, nothing is said.
NoFalseAlarm ==
  [][\A c \in Clients :
       /\ ~s.cl[c].cas /\ s'.cl[c].cas
       /\ \A d \in Clients : s.cl[d].multi = s'.cl[d].multi
       => \E n \in s.cl[c].watched : Logical(s', n) # seen[c][n]]_vars

\* Who watches what is known the same at both ends, whichever way a watch ends
\* (multi.c:272).
WatchersSound == TypeOK /\ ListsAgree
=============================================================================
