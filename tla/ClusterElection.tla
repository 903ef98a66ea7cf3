-------------------------- MODULE ClusterElection --------------------------
(***************************************************************************)
(* The election by which a replica of a failed master takes its slots:     *)
(* redis-stable/src/cluster_legacy.c. The voters are the other masters     *)
(* that serve slots, the candidates the replicas of the failed one, whose  *)
(* slots are one unit here. A node handles one event of its loop at a      *)
(* time and saves what the events changed once, before it sleeps; messages *)
(* wait in the network, outlive the election they belong to or never       *)
(* arrive; and a node may crash at any moment and go on with what          *)
(* nodes.conf has.                                                         *)
(*                                                                         *)
(* Time is left out: a wait may last as long as it pleases, and a voter    *)
(* may leave any request unanswered (the master not yet flagged FAIL in    *)
(* its view, or a vote about it less than two node timeouts ago).          *)
(***************************************************************************)
EXTENDS Integers, FiniteSets

CONSTANTS
  Voters, Candidates,
  Old,            \* the failed master
  MaxEpoch,       \* bound on the epochs an election may open
  MaxCrashes      \* bound on the crashes of a behaviour

ASSUME ElectionConstants ==
  /\ Voters \cap Candidates = {} /\ Old \notin Voters \cup Candidates
  /\ IsFiniteSet(Voters) /\ Voters # {}
  /\ MaxEpoch \in Nat \ {0} /\ MaxCrashes \in Nat

Nodes == Voters \cup Candidates

\* cluster->size counts the failed master too.
needed_quorum == (Cardinality(Voters) + 1) \div 2 + 1

VARIABLES
  currentEpoch,   \* of every node
  lastVoteEpoch,  \* of every voter
  owner,          \* the master of the slots, in a node's view
  ownerEpoch,     \* the configEpoch of that master, in a node's view
  disk,           \* the four as nodes.conf has them
  auth,           \* a candidate's election: [phase, epoch, count]
  msgs,           \* requests and votes in the network
  claims,         \* <<epoch, candidate>>: the PONGs of those who won, that
                  \* every later ping repeats
  votes,          \* history: <<voter, epoch, candidate>> of every vote cast
  unsaved,        \* history: <<voter, epoch>> of the votes since its last save
  forgot,         \* history: those of them that a crash made it forget
  strays,         \* history: candidates whose count has a vote for another
                  \* election than the one it is in
  strayWins,      \* history: the claims won with such a count
  crashes         \* crashes so far

view == <<currentEpoch, lastVoteEpoch, owner, ownerEpoch>>
history == <<votes, unsaved, forgot, strays, strayWins>>
vars == <<view, disk, auth, msgs, claims, history, crashes>>

MaxOf(a, b) == IF a >= b THEN a ELSE b
NoAuth == [phase |-> "none", epoch |-> 0, count |-> 0]

Request(c, v) == [type |-> "REQUEST", from |-> c, to |-> v, epoch |-> currentEpoch[c] + 1,
                  cfg |-> ownerEpoch[c]]
Ack(v, c, e) == [type |-> "ACK", from |-> v, to |-> c, epoch |-> e, cfg |-> 0]

\* As a mistake would have it: the save leaves lastVoteEpoch out.
SavedWithoutVote(n) == [current |-> currentEpoch[n], voted |-> disk[n].voted,
                        owner |-> owner[n], ownerEpoch |-> ownerEpoch[n]]

\* What clusterSaveConfig writes, to a file that then takes the old one's name.
Saved(n) == [current |-> currentEpoch[n],
             voted |-> IF n \in Voters THEN lastVoteEpoch[n] ELSE 0,
             owner |-> owner[n], ownerEpoch |-> ownerEpoch[n]]

Init ==
  /\ currentEpoch = [n \in Nodes |-> 1]
  /\ lastVoteEpoch = [v \in Voters |-> 0]
  /\ owner = [n \in Nodes |-> Old]
  /\ ownerEpoch = [n \in Nodes |-> 1]
  /\ disk = [n \in Nodes |-> [current |-> 1, voted |-> 0, owner |-> Old, ownerEpoch |-> 1]]
  /\ auth = [c \in Candidates |-> NoAuth]
  /\ msgs = {} /\ claims = {} /\ votes = {}
  /\ unsaved = {} /\ forgot = {} /\ strays = {} /\ strayWins = {}
  /\ crashes = 0

\* clusterHandleSlaveFailover acts only in a replica whose master failed.
MayFailover(c) == owner[c] = Old

\* failover_auth_epoch stays that of the last attempt, and so do the votes for
\* it that are still on their way.
Scheduled(a) == [a EXCEPT !.phase = "delay", !.count = 0]

\* auth_age > auth_retry_time: the last attempt, if any, is over and a new one
\* is set up.
ScheduleElection(c) ==
  /\ MayFailover(c)
  /\ auth[c].phase \in {"none", "asked"}
  /\ currentEpoch[c] < MaxEpoch
  /\ auth' = [auth EXCEPT ![c] = Scheduled(@)]
  /\ strays' = strays \ {c}
  /\ UNCHANGED <<view, disk, msgs, claims, votes, unsaved, forgot, strayWins, crashes>>

\* The delay is over and failover_auth_sent is 0: open an epoch and ask. The
\* count goes on from what arrived during the delay.
AskVotes(c) ==
  /\ MayFailover(c)
  /\ auth[c].phase = "delay"
  /\ currentEpoch[c] < MaxEpoch
  /\ currentEpoch' = [currentEpoch EXCEPT ![c] = @ + 1]
  /\ auth' = [auth EXCEPT ![c].phase = "asked", ![c].epoch = currentEpoch[c] + 1]
  /\ msgs' = msgs \cup {Request(c, v) : v \in Voters}
  /\ UNCHANGED <<lastVoteEpoch, owner, ownerEpoch, disk, claims, history, crashes>>

\* clusterProcessPacket first raises currentEpoch to the sender's.
Receive(n, m) ==
  /\ m.to = n
  /\ msgs' = msgs \ {m}
  /\ currentEpoch' = [currentEpoch EXCEPT ![n] = MaxOf(@, m.epoch)]

\* As a mistake would have it: a voter votes again in its epoch.
MayVoteAgain(v, m) == m.epoch >= currentEpoch[v] /\ ownerEpoch[v] <= m.cfg

\* The conditions of clusterSendFailoverAuthIfNeeded that are not about time,
\* read after currentEpoch was raised.
MayVote(v, m) ==
  /\ m.epoch >= currentEpoch[v]
  /\ lastVoteEpoch[v] # m.epoch
  /\ ownerEpoch[v] <= m.cfg

\* The save is left to beforeSleep, and the vote leaves first where its link
\* already has data to write. A request refused is one that stays where it is.
Vote(v, m) ==
  /\ m.type = "REQUEST" /\ m.to = v
  /\ MayVote(v, m)
  /\ currentEpoch' = [currentEpoch EXCEPT ![v] = MaxOf(@, m.epoch)]
  /\ lastVoteEpoch' = [lastVoteEpoch EXCEPT ![v] = m.epoch]
  /\ msgs' = (msgs \ {m}) \cup {Ack(v, m.from, m.epoch)}
  /\ votes' = votes \cup {<<v, m.epoch, m.from>>}
  /\ unsaved' = unsaved \cup {<<v, m.epoch>>}
  /\ UNCHANGED <<owner, ownerEpoch, disk, auth, claims, forgot, strays, strayWins, crashes>>

\* A vote does not say which request it answers: what counts is that the epoch
\* of its sender has reached that of the candidate's last election.
CountsVote(c, m) == m.epoch >= auth[c].epoch

\* The vote was given for the election that c is in.
InTime(c, m) == auth[c].phase = "asked" /\ m.epoch = auth[c].epoch

CountVote(c, m) ==
  /\ m.type = "ACK" /\ Receive(c, m)
  /\ auth' = IF CountsVote(c, m) THEN [auth EXCEPT ![c].count = @ + 1] ELSE auth
  /\ strays' = IF CountsVote(c, m) /\ ~InTime(c, m) THEN strays \cup {c} ELSE strays
  /\ UNCHANGED <<lastVoteEpoch, owner, ownerEpoch, disk, claims, votes, unsaved, forgot,
                 strayWins, crashes>>

WonEpoch(c) == auth[c].epoch

\* The quorum is reached: clusterFailoverReplaceYourMaster, saved with fsync
\* before the PONG that tells the others.
Win(c) ==
  /\ MayFailover(c)
  /\ auth[c].phase = "asked" /\ auth[c].count >= needed_quorum
  /\ owner' = [owner EXCEPT ![c] = c]
  /\ ownerEpoch' = [ownerEpoch EXCEPT ![c] = WonEpoch(c)]
  /\ claims' = claims \cup {<<WonEpoch(c), c>>}
  /\ disk' = [disk EXCEPT ![c] = [Saved(c) EXCEPT !.owner = c, !.ownerEpoch = WonEpoch(c)]]
  /\ strayWins' = IF c \in strays THEN strayWins \cup {<<WonEpoch(c), c>>} ELSE strayWins
  /\ UNCHANGED <<currentEpoch, lastVoteEpoch, auth, msgs, votes, unsaved, forgot, strays, crashes>>

\* As a mistake would have it: any other epoch wins the slots.
Differs(n, k) == ownerEpoch[n] # k[1]

\* clusterUpdateSlotsConfigWith gives the slots to a claim with a newer epoch.
Newer(n, k) == ownerEpoch[n] < k[1]

\* A node whose master lost its slots so follows the new one; the save is left
\* to beforeSleep.
Learn(n, k) ==
  /\ Newer(n, k)
  /\ owner' = [owner EXCEPT ![n] = k[2]]
  /\ ownerEpoch' = [ownerEpoch EXCEPT ![n] = k[1]]
  /\ currentEpoch' = [currentEpoch EXCEPT ![n] = MaxOf(@, k[1])]
  /\ UNCHANGED <<lastVoteEpoch, disk, auth, msgs, claims, history, crashes>>

\* The periodic pings carry the epoch of their sender.
Hear(n, o) ==
  /\ currentEpoch[o] > currentEpoch[n]
  /\ currentEpoch' = [currentEpoch EXCEPT ![n] = currentEpoch[o]]
  /\ UNCHANGED <<lastVoteEpoch, owner, ownerEpoch, disk, auth, msgs, claims, history, crashes>>

\* clusterBeforeSleep saves once for every event of the loop before it.
BeforeSleep(n) ==
  /\ disk[n] # Saved(n)
  /\ disk' = [disk EXCEPT ![n] = Saved(n)]
  /\ unsaved' = {x \in unsaved : x[1] # n}
  /\ UNCHANGED <<view, auth, msgs, claims, votes, forgot, strays, strayWins, crashes>>

\* clusterLoadConfig restores what the last save wrote, currentEpoch not below
\* the greatest configEpoch it reads. The state of the election is lost, and so
\* are the messages on the way to the node.
Restart(n) ==
  /\ crashes < MaxCrashes
  /\ crashes' = crashes + 1
  /\ currentEpoch' = [currentEpoch EXCEPT ![n] = MaxOf(disk[n].current, disk[n].ownerEpoch)]
  /\ lastVoteEpoch' = [v \in Voters |-> IF v = n THEN disk[v].voted ELSE lastVoteEpoch[v]]
  /\ owner' = [owner EXCEPT ![n] = disk[n].owner]
  /\ ownerEpoch' = [ownerEpoch EXCEPT ![n] = disk[n].ownerEpoch]
  /\ auth' = [c \in Candidates |-> IF c = n THEN NoAuth ELSE auth[c]]
  /\ msgs' = {m \in msgs : m.to # n}
  /\ forgot' = forgot \cup {x \in unsaved : x[1] = n}
  /\ unsaved' = {x \in unsaved : x[1] # n}
  /\ strays' = strays \ {n}
  /\ <<view, auth, msgs>>' # <<view, auth, msgs>>
  /\ UNCHANGED <<disk, claims, votes, strayWins>>

Next ==
  \/ \E c \in Candidates : \/ ScheduleElection(c) \/ AskVotes(c) \/ Win(c)
                           \/ \E m \in msgs : CountVote(c, m)
  \/ \E v \in Voters, m \in msgs : Vote(v, m)
  \/ \E n \in Nodes : \/ BeforeSleep(n) \/ Restart(n)
                      \/ \E k \in claims : Learn(n, k)
                      \/ \E o \in Nodes : Hear(n, o)

Spec == Init /\ [][Next]_vars

(***************************************************************************)
(* Properties.                                                             *)
(***************************************************************************)
Epochs == 0 .. MaxEpoch

TypeOK ==
  /\ currentEpoch \in [Nodes -> Epochs] /\ lastVoteEpoch \in [Voters -> Epochs]
  /\ owner \in [Nodes -> Candidates \cup {Old}] /\ ownerEpoch \in [Nodes -> Epochs]
  /\ disk \in [Nodes -> [current : Epochs, voted : Epochs,
                         owner : Candidates \cup {Old}, ownerEpoch : Epochs]]
  /\ auth \in [Candidates -> [phase : {"none", "delay", "asked"},
                              epoch : Epochs, count : Nat]]
  /\ msgs \subseteq [type : {"REQUEST", "ACK"}, from : Nodes, to : Nodes,
                     epoch : Epochs, cfg : Epochs]
  /\ crashes \in 0 .. MaxCrashes
  /\ votes \subseteq Voters \X Epochs \X Candidates
  /\ unsaved \subseteq Voters \X Epochs /\ forgot \subseteq Voters \X Epochs
  /\ claims \subseteq Epochs \X Candidates /\ strayWins \subseteq claims
  /\ strays \subseteq Candidates

\* No crash made a voter forget that it had voted in epoch e.
Remembered(e) == \A x \in forgot : x[2] # e

\* A voter votes once in an epoch, crashes included, unless it crashed between
\* the vote and the save that beforeSleep makes of it (cluster_legacy.c:4145).
VoterVotesOnce ==
  \A x, y \in votes :
    x[1] = y[1] /\ x[2] = y[2] /\ <<x[1], x[2]>> \notin forgot => x[3] = y[3]

\* "It is not possible that different slaves get the same config epoch during a
\* failover election, because the slaves need to get voted by a majority"
\* (cluster_legacy.c:1749): true of those who counted no vote for another
\* election, in an epoch of which no vote was forgotten.
OneWinnerPerEpoch ==
  \A x, y \in claims \ strayWins : x[1] = y[1] /\ Remembered(x[1]) => x[2] = y[2]

\* The same sentence as it stands, of every winner.
SingleWinner == \A x, y \in claims : x[1] = y[1] => x[2] = y[2]

\* Behind every such winner are the votes of most of the masters that serve
\* slots, the failed one counted, cast for it in that very epoch, however many
\* elections it lost before (cluster_legacy.c:4301).
WinnerHasQuorum ==
  \A x \in claims \ strayWins :
    Remembered(x[1]) =>
      2 * Cardinality({v \in Voters : <<v, x[1], x[2]>> \in votes}) > Cardinality(Voters) + 1

\* Two nodes that agree on the epoch under which the slots are served agree on
\* the master that serves them, unless one of the two won with such a count or
\* a vote of that epoch was forgotten.
OwnersAgree ==
  \A m, n \in Nodes :
    /\ ownerEpoch[m] = ownerEpoch[n] /\ Remembered(ownerEpoch[m])
    /\ {<<ownerEpoch[m], owner[m]>>, <<ownerEpoch[n], owner[n]>>} \cap strayWins = {}
    => owner[m] = owner[n]

\* Whoever told the others that it had won never believes less, crashes
\* included: the claim is on disk before the PONG (cluster_legacy.c:4277).
ClaimsKept ==
  \A k \in claims : ownerEpoch[k[2]] >= k[1] /\ disk[k[2]].ownerEpoch >= k[1]

\* The epoch under which a node believes the slots are served never goes back
\* and changes whenever the master does, late PONGs included, except in a crash:
\* then the node believes what it saved last. What it saved never goes back.
OwnerEpochGrows ==
  [][\A n \in Nodes :
       /\ \/ ownerEpoch'[n] > ownerEpoch[n]
          \/ ownerEpoch'[n] = ownerEpoch[n] /\ owner'[n] = owner[n]
          \/ /\ crashes' > crashes
             /\ ownerEpoch'[n] = disk[n].ownerEpoch /\ owner'[n] = disk[n].owner
       /\ \/ disk'[n].ownerEpoch > disk[n].ownerEpoch
          \/ disk'[n].ownerEpoch = disk[n].ownerEpoch /\ disk'[n].owner = disk[n].owner]_vars

\* What the elections rest on, through crashes and late votes: single votes, a
\* majority behind every winner, one master for an epoch in every view, and
\* winners that do not forget.
ElectionsSound == TypeOK /\ VoterVotesOnce /\ WinnerHasQuorum /\ OwnersAgree /\ ClaimsKept
=============================================================================
