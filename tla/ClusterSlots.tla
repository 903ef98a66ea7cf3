---------------------------- MODULE ClusterSlots ----------------------------
(***************************************************************************)
(* How the masters of a Redis cluster agree on who serves a hash slot      *)
(* (redis-stable/src/cluster_legacy.c): the configuration epochs, their    *)
(* collision resolution, the claims that PINGs carry, the UPDATE messages  *)
(* sent to a node with an old configuration; and the resharding that moves *)
(* the slot and its keys from Source to Target with SETSLOT and MIGRATE    *)
(* (redis-cli.c). Every master serves other slots too, that never move, so *)
(* none becomes a replica.                                                 *)
(*                                                                         *)
(* A master handles one event at a time. Between two masters there is at   *)
(* most one PING and one UPDATE on the way in each direction; the two go   *)
(* by different connections, in any order.                                 *)
(***************************************************************************)
EXTENDS Integers, FiniteSets

CONSTANTS
  Nodes,        \* the masters
  None,
  Rank,         \* the order of their names
  CreatedEpoch, \* the configEpoch redis-cli gives each when it creates a cluster
  Source, Target,
  Keys          \* the keys of the slot

ASSUME SlotsConstants ==
  /\ IsFiniteSet(Nodes) /\ {Source, Target} \subseteq Nodes /\ Source # Target /\ None \notin Nodes
  /\ Rank \in [Nodes -> Nat] /\ \A m, n \in Nodes : Rank[m] = Rank[n] => m = n
  /\ CreatedEpoch \in [Nodes -> Nat] /\ \A m, n \in Nodes : CreatedEpoch[m] = CreatedEpoch[n] => m = n

VARIABLES
  currentEpoch,  \* of each node
  configEpoch,   \* configEpoch[n][m]: that of m in the view of n
  slot,          \* slot[n]: the owner of the slot in the view of n
  unclaimed,     \* the owner_not_claiming_slot bit of the slot
  importing,     \* importing_slots_from the slot
  migrating,     \* migrating_slots_to the slot
  stored,        \* stored[n]: the keys of the slot that n holds
  net,           \* messages on the way
  admin,         \* how far the resharding is
  acked          \* history: keys whose write was acknowledged

cvars == <<currentEpoch, configEpoch, slot, unclaimed, stored>>
avars == <<importing, migrating, admin, acked>>
vars == <<cvars, avars, net>>

GreatestOf(S) == CHOOSE x \in S : \A y \in S : y <= x
MaxOf(a, b) == IF a >= b THEN a ELSE b

\* The masters have just started, with equal epochs and the keys as they are, or
\* redis-cli has created the cluster, which will be filled and resharded (a
\* bound: no resharding while the epochs still collide).
Init ==
  /\ \E start \in {[n \in Nodes |-> 0], CreatedEpoch} :
       /\ currentEpoch = [n \in Nodes |-> GreatestOf({start[m] : m \in Nodes})]
       /\ configEpoch = [n \in Nodes |-> start]
       /\ admin = IF start = CreatedEpoch THEN "idle" ELSE "none"
       /\ acked = IF start = CreatedEpoch THEN {} ELSE Keys
       /\ stored = [n \in Nodes |-> IF n = Source THEN acked ELSE {}]
  /\ slot = [n \in Nodes |-> Source]
  /\ unclaimed = [n \in Nodes |-> FALSE]
  /\ importing = [n \in Nodes |-> None] /\ migrating = [n \in Nodes |-> None]
  /\ net = {}

(***************************************************************************)
(* The cluster bus.                                                        *)
(***************************************************************************)
PingOf(n, m) == [type |-> "PING", from |-> n, to |-> m, current |-> currentEpoch[n],
                 about |-> n, config |-> configEpoch[n][n], claims |-> slot[n] = n]

\* clusterCron, or the PONG that answers a PING or tells a change.
SendPing(n, m) ==
  /\ n # m
  /\ ~\E x \in net : x.type = "PING" /\ x.from = n /\ x.to = m
  /\ net' = net \cup {PingOf(n, m)}
  /\ UNCHANGED <<cvars, avars>>

\* As a mistake would have it: only a slot given up is taken.
TakesGivenUp(n, cfg, epoch) == importing[n] = None /\ unclaimed[n]

\* A claim takes the slot from an owner that stopped claiming it, or from one
\* with a lower configEpoch.
TakesSlot(n, cfg, epoch) ==
  importing[n] = None /\ (unclaimed[n] \/ cfg[slot[n]] < epoch)

\* clusterUpdateSlotsConfigWith, for a claim of s heard by n, where cfg is the
\* view of n: a node that loses the slot deletes the keys it holds of it.
UpdateSlots(n, s, epoch, claims, cfg) ==
  LET taken == claims /\ slot[n] # s /\ TakesSlot(n, cfg, epoch) IN
  /\ slot' = IF taken THEN [slot EXCEPT ![n] = s] ELSE slot
  /\ unclaimed' = IF taken THEN [unclaimed EXCEPT ![n] = FALSE]
                  ELSE IF ~claims /\ slot[n] = s THEN [unclaimed EXCEPT ![n] = TRUE]
                  ELSE unclaimed
  /\ stored' = IF taken /\ slot[n] = n THEN [stored EXCEPT ![n] = {}] ELSE stored

\* clusterHandleConfigEpochCollision: the name that comes first moves on.
Collides(n, s, cfg) == cfg[s] = cfg[n] /\ Rank[s] > Rank[n]

\* clusterProcessPacket, of a PING.
ReceivePing(n, m) ==
  LET s == m.from
      heard == MaxOf(currentEpoch[n], m.current)
      cfg == [configEpoch[n] EXCEPT ![s] = MaxOf(@, m.config)]
      old == m.claims /\ slot'[n] # s /\ ~unclaimed'[n] /\ cfg[slot'[n]] > m.config
      update == [type |-> "UPDATE", from |-> n, to |-> s, current |-> heard,
                 about |-> slot'[n], config |-> cfg[slot'[n]], claims |-> TRUE]
      moves == m.config = cfg[n] /\ Collides(n, s, cfg)
  IN
  /\ m \in net /\ m.type = "PING" /\ m.to = n
  /\ IF (slot[n] = s) # m.claims THEN UpdateSlots(n, s, m.config, m.claims, cfg)
                                ELSE UNCHANGED <<slot, unclaimed, stored>>
  /\ net' = (net \ {m}) \cup
            (IF old /\ ~\E x \in net : x.type = "UPDATE" /\ x.from = n /\ x.to = s
               THEN {update} ELSE {})
  /\ currentEpoch' = [currentEpoch EXCEPT ![n] = IF moves THEN heard + 1 ELSE heard]
  /\ configEpoch' = [configEpoch EXCEPT ![n] =
                       IF moves THEN [cfg EXCEPT ![n] = heard + 1] ELSE cfg]
  /\ UNCHANGED avars

\* clusterProcessPacket, of an UPDATE.
ReceiveUpdate(n, m) ==
  LET cfg == [configEpoch[n] EXCEPT ![m.about] = m.config] IN
  /\ m \in net /\ m.type = "UPDATE" /\ m.to = n
  /\ net' = net \ {m}
  /\ currentEpoch' = [currentEpoch EXCEPT ![n] = MaxOf(@, m.current)]
  /\ IF configEpoch[n][m.about] < m.config
       THEN /\ configEpoch' = [configEpoch EXCEPT ![n] = cfg]
            /\ IF m.about # n THEN UpdateSlots(n, m.about, m.config, m.claims, cfg)
                              ELSE UNCHANGED <<slot, unclaimed, stored>>
       ELSE UNCHANGED <<configEpoch, slot, unclaimed, stored>>
  /\ UNCHANGED avars

(***************************************************************************)
(* The epochs taken without consensus.                                     *)
(***************************************************************************)
\* clusterGetMaxEpoch
MaxEpochKnown(n) == GreatestOf({configEpoch[n][m] : m \in Nodes} \cup {currentEpoch[n]})

\* clusterBumpConfigEpochWithoutConsensus
Bump(n) ==
  IF configEpoch[n][n] = 0 \/ configEpoch[n][n] # MaxEpochKnown(n)
    THEN /\ currentEpoch' = [currentEpoch EXCEPT ![n] = @ + 1]
         /\ configEpoch' = [configEpoch EXCEPT ![n][n] = currentEpoch[n] + 1]
    ELSE UNCHANGED <<currentEpoch, configEpoch>>

(***************************************************************************)
(* The resharding.                                                         *)
(***************************************************************************)
\* CLUSTER SETSLOT IMPORTING at the target.
SetImporting ==
  /\ admin = "idle" /\ admin' = "importing"
  /\ slot[Target] # Target
  /\ importing' = [importing EXCEPT ![Target] = Source]
  /\ UNCHANGED <<cvars, migrating, acked, net>>

\* CLUSTER SETSLOT MIGRATING at the source.
SetMigrating ==
  /\ admin = "importing" /\ admin' = "migrating"
  /\ slot[Source] = Source
  /\ migrating' = [migrating EXCEPT ![Source] = Target]
  /\ UNCHANGED <<cvars, importing, acked, net>>

\* MIGRATE: the source blocks until the target has the key; when the answer is
\* lost it keeps its copy too.
Migrate(k) ==
  /\ admin = "migrating" /\ k \in stored[Source]
  /\ slot[Target] = Target \/ importing[Target] # None
  /\ \E answered \in BOOLEAN :
       stored' = [stored EXCEPT ![Target] = @ \cup {k},
                                ![Source] = IF answered THEN @ \ {k} ELSE @]
  /\ UNCHANGED <<currentEpoch, configEpoch, slot, unclaimed, avars, net>>

\* CLUSTER SETSLOT NODE Target, at x.
SetSlotNode(x) ==
  /\ slot[x] = x /\ x # Target => stored[x] = {}
  /\ slot' = [slot EXCEPT ![x] = Target]
  /\ unclaimed' = [unclaimed EXCEPT ![x] = FALSE]
  /\ migrating' = [migrating EXCEPT ![x] = IF stored[x] = {} THEN None ELSE @]
  /\ IF x = Target /\ importing[x] # None
       THEN Bump(x) /\ importing' = [importing EXCEPT ![x] = None]
       ELSE UNCHANGED <<currentEpoch, configEpoch, importing>>
  /\ UNCHANGED <<stored, acked, net>>

\* redis-cli counts the keys left at the source, then tells the target first,
\* then the source, then the others.
TellTarget ==
  /\ admin = "migrating" /\ stored[Source] = {} /\ admin' = "told target"
  /\ SetSlotNode(Target)

TellSource ==
  /\ admin = "told target" /\ admin' = "told source"
  /\ SetSlotNode(Source)

TellOther(n) ==
  /\ admin = "told source" /\ n \notin {Source, Target} /\ slot[n] # Target
  /\ SetSlotNode(n) /\ UNCHANGED admin

(***************************************************************************)
(* The clients: getNodeByQuery.                                            *)
(***************************************************************************)
\* As a mistake would have it: the owner serves what it has sent away.
ServesAll(n, k) == slot[n] = n

Serves(n, k) == slot[n] = n /\ (migrating[n] # None => k \in stored[n])
\* An ASK redirection sends the client of n to its target with ASKING.
Asked(n, k) ==
  /\ importing[n] # None
  /\ \E o \in Nodes : slot[o] = o /\ migrating[o] = n /\ k \notin stored[o]

Write(n, k) ==
  /\ k \notin acked
  /\ Serves(n, k) \/ Asked(n, k)
  /\ stored' = [stored EXCEPT ![n] = @ \cup {k}]
  /\ acked' = acked \cup {k}
  /\ UNCHANGED <<currentEpoch, configEpoch, slot, unclaimed, importing, migrating, admin,
                 net>>

Receive(n) == \E m \in net : ReceivePing(n, m) \/ ReceiveUpdate(n, m)

Reshard ==
  \/ SetImporting \/ SetMigrating \/ TellTarget \/ TellSource
  \/ \E k \in Keys : Migrate(k)
  \/ \E n \in Nodes : TellOther(n)

Next ==
  \/ \E n \in Nodes : Receive(n)
  \/ \E n, m \in Nodes : SendPing(n, m)
  \/ \E n \in Nodes, k \in Keys : Write(n, k)
  \/ Reshard

Spec == Init /\ [][Next]_vars

\* clusterCron pings every node again and again, and what is sent arrives.
Fairness ==
  /\ \A n, m \in Nodes : WF_vars(SendPing(n, m))
  /\ \A n, o \in Nodes, t \in {"PING", "UPDATE"} :
       WF_vars(\E m \in net : m.from = o /\ m.type = t /\ (ReceivePing(n, m) \/ ReceiveUpdate(n, m)))

FairSpec == Spec /\ Fairness

(***************************************************************************)
(* Properties.                                                             *)
(***************************************************************************)
Message == [type : {"PING", "UPDATE"}, from : Nodes, to : Nodes, current : Nat,
            about : Nodes, config : Nat, claims : BOOLEAN]

TypeOK ==
  /\ currentEpoch \in [Nodes -> Nat] /\ configEpoch \in [Nodes -> [Nodes -> Nat]]
  /\ slot \in [Nodes -> Nodes] /\ unclaimed \in [Nodes -> BOOLEAN]
  /\ importing \in [Nodes -> Nodes \cup {None}] /\ migrating \in [Nodes -> Nodes \cup {None}]
  /\ stored \in [Nodes -> SUBSET Keys]
  /\ net \subseteq Message
  /\ admin \in {"none", "idle", "importing", "migrating", "told target", "told source"}
  /\ acked \subseteq Keys

\* No node knows more of another's configEpoch than that node itself, and no
\* configEpoch passes the currentEpoch of the node that reads it.
EpochsWellFounded ==
  \A n, m \in Nodes : configEpoch[n][m] <= configEpoch[m][m] /\ configEpoch[n][m] <= currentEpoch[n]

\* "a system that eventually always ends with different masters having different
\* configuration epochs whatever happened" (cluster_legacy.c:1774), as every
\* master sees it.
EpochsEndDistinct ==
  <>[](\A n, m, o \in Nodes : m # o => configEpoch[n][m] # configEpoch[n][o])

\* The masters end up with the same owner for the slot.
OwnersEndAgreed == <>[](\A n, m \in Nodes : slot[n] = slot[m])

\* A master that serves the slot as its own and is not migrating it holds every
\* key of it that was acknowledged, and its clients find them.
ServedKeysFound ==
  \A n \in Nodes :
    slot[n] = n /\ migrating[n] = None => acked \subseteq stored[n]

\* At every moment of a resharding: views of the epochs are of the past, and the
\* keys are where their clients are sent.
SlotsSound == TypeOK /\ EpochsWellFounded /\ ServedKeysFound

\* The masters converge, wherever the operator stops (clusterCron, redis-cli.c:5388).
MastersConverge == EpochsEndDistinct /\ OwnersEndAgreed
=============================================================================
