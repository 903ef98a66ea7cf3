------------------------ MODULE ClusterSlots_proofs ------------------------
(***************************************************************************)
(* ClusterSlots for every number of masters and keys, however the messages *)
(* of the bus interleave with a resharding: views of the epochs are of the *)
(* past, and a master that serves the slot as its own has every key of it  *)
(* that was acknowledged.                                                  *)
(***************************************************************************)
EXTENDS ClusterSlots, FiniteSetTheorems, TLAPS

(***************************************************************************)
(* The inductive invariant.                                                *)
(***************************************************************************)

\* No message is about its receiver, or from the future.
MsgInv ==
  \A m \in net :
    /\ m.about # m.to
    /\ m.type = "PING" => m.about = m.from
    /\ m.type = "UPDATE" => m.claims
    /\ m.config <= m.current
    /\ m.config <= configEpoch[m.about][m.about]

\* The target has not been told that the slot is its own.
Early == admin \in {"none", "idle", "importing", "migrating"}

\* Only the source, and then the target, claim the slot; the target does not
\* give it up.
OwnerInv ==
  /\ \A n \in Nodes : slot[n] \in {Source, Target}
  /\ \A m \in net : m.claims => m.about \in {Source, Target}
  /\ Early => /\ \A n \in Nodes : slot[n] = Source /\ unclaimed[n] = FALSE
              /\ \A m \in net : m.claims <=> m.about = Source
  /\ ~Early => slot[Target] = Target /\ unclaimed[Target] = FALSE
  /\ admin = "told source" => slot[Source] = Target

\* Where the resharding is.
MoveInv ==
  /\ \A n \in Nodes : /\ importing[n] # None <=> n = Target /\ admin \in {"importing", "migrating"}
                      /\ n # Source => migrating[n] = None
  /\ admin \in {"none", "idle", "importing"} => migrating[Source] = None
  /\ admin \in {"migrating", "told target"} => migrating[Source] = Target

\* A cluster that is being resharded has the epochs it was created with, but for
\* the one the target takes, which is above all others.
CreatedInv ==
  admin # "none" =>
    /\ \A n, m \in Nodes : m # Target => configEpoch[n][m] = CreatedEpoch[m]
    /\ \A n \in Nodes : configEpoch[n][Target] \in {CreatedEpoch[Target], configEpoch[Target][Target]}
    /\ \A m \in net : \/ m.config = CreatedEpoch[m.about]
                      \/ m.about = Target /\ m.config = configEpoch[Target][Target]
    /\ Early => /\ configEpoch[Target][Target] = CreatedEpoch[Target]
                /\ \A n, m \in Nodes : CreatedEpoch[m] <= currentEpoch[n]
    /\ ~Early => \A m \in Nodes \ {Target} : CreatedEpoch[m] < configEpoch[Target][Target]

\* Where the keys are.
KeyInv ==
  /\ admin \in {"none", "idle", "importing"} => acked \subseteq stored[Source]
  /\ admin = "migrating" => acked \subseteq stored[Source] \cup stored[Target]
  /\ ~Early => acked \subseteq stored[Target]
  /\ admin = "told target" => stored[Source] = {}

IInv == TypeOK /\ EpochsWellFounded /\ MsgInv /\ OwnerInv /\ MoveInv /\ CreatedInv /\ KeyInv

(***************************************************************************)
(* The greatest of finitely many epochs.                                   *)
(***************************************************************************)
LEMMA LeastElement ==
    ASSUME NEW S \in SUBSET Nat, S # {}
    PROVE  \E p \in S : \A q \in S : p <= q
<1>1. PICK p \in S : \A q \in S : ~ (<<q, p>> \in OpToRel(<, Nat))
  BY NatLessThanWellFounded, WFMin
<1>2. \A q \in S : ~ (q < p)
  BY <1>1 DEF OpToRel
<1> QED BY <1>2

LEMMA Greatest ==
    ASSUME NEW S \in SUBSET Nat, IsFiniteSet(S), S # {}
    PROVE  GreatestOf(S) \in S /\ \A y \in S : y <= GreatestOf(S)
<1> DEFINE Has(T) == \E x \in T : \A y \in T : y <= x
           Bad == {k \in Nat : \E T \in SUBSET S : T # {} /\ Cardinality(T) = k /\ ~Has(T)}
<1>1. Bad = {}
  <2> SUFFICES ASSUME Bad # {} PROVE FALSE
    OBVIOUS
  <2>1. PICK k \in Bad : \A j \in Bad : k <= j
    BY LeastElement
  <2>2. PICK T \in SUBSET S : T # {} /\ Cardinality(T) = k /\ ~Has(T)
    BY <2>1
  <2>3. IsFiniteSet(T)
    BY FS_Subset
  <2>4. PICK x \in T : TRUE
    BY <2>2
  <2> DEFINE U == T \ {x}
  <2>5. IsFiniteSet(U) /\ Cardinality(U) = k - 1 /\ Cardinality(U) \in Nat
    BY <2>2, <2>3, <2>4, FS_RemoveElement, FS_CardinalityType
  <2>6. Cardinality(U) \notin Bad
    <3>1. k \in Nat
      OBVIOUS
    <3> HIDE DEF Bad, U
    <3> QED BY <2>1, <2>5, <3>1
  <2>7. U = {} \/ Has(U)
    BY <2>5, <2>6
  <2>8. CASE U = {}
    <3>1. \A y \in T : y = x
      BY <2>8
    <3>2. x <= x
      BY <2>4
    <3> QED BY <2>2, <2>4, <3>1, <3>2
  <2>9. CASE Has(U)
    <3>1. PICK z \in U : \A y \in U : y <= z
      BY <2>9
    <3>2. x \in Nat /\ z \in Nat /\ \A y \in T : y \in Nat /\ (y = x \/ y <= z)
      BY <2>4, <3>1
    <3>3. CASE x <= z
      <4>1. \A y \in T : y <= z
        BY <3>2, <3>3
      <4> QED BY <2>2, <4>1
    <3>4. CASE ~(x <= z)
      <4>1. \A y \in T : y <= x
        BY <3>2, <3>4
      <4> QED BY <2>2, <2>4, <4>1
    <3> QED BY <3>3, <3>4
  <2> QED BY <2>7, <2>8, <2>9
<1>2. Cardinality(S) \in Nat
  BY FS_CardinalityType
<1>3. Has(S)
  BY <1>1, <1>2
<1> QED BY <1>3 DEF GreatestOf

LEMMA GreatestEpoch ==
    ASSUME NEW f \in [Nodes -> Nat]
    PROVE  LET g == GreatestOf({f[m] : m \in Nodes})
           IN  g \in Nat /\ \A m \in Nodes : f[m] <= g
<1> DEFINE T == {f[m] : m \in Nodes}
<1>1. T \in SUBSET Nat /\ f[Source] \in T
  BY SlotsConstants
<1>2. f \in Surjection(Nodes, T)
  BY DEF Surjection
<1>3. IsFiniteSet(T)
  BY <1>2, FS_Surjection, SlotsConstants
<1>4. GreatestOf(T) \in T /\ \A y \in T : y <= GreatestOf(T)
  BY <1>1, <1>3, Greatest
<1> QED BY <1>1, <1>4

LEMMA GreatestKnown ==
    ASSUME TypeOK, NEW n \in Nodes
    PROVE  MaxEpochKnown(n) \in Nat /\ currentEpoch[n] <= MaxEpochKnown(n)
<1> DEFINE T == {configEpoch[n][m] : m \in Nodes}
           S == T \cup {currentEpoch[n]}
<1>1. configEpoch[n] \in [Nodes -> Nat] /\ currentEpoch[n] \in Nat
  BY DEF TypeOK
<1>2. configEpoch[n] \in Surjection(Nodes, T)
  BY <1>1 DEF Surjection
<1>3. IsFiniteSet(T)
  BY <1>2, FS_Surjection, SlotsConstants
<1>4. IsFiniteSet(S) /\ S \in SUBSET Nat /\ S # {}
  BY <1>1, <1>3, FS_AddElement
<1>5. GreatestOf(S) \in S /\ \A y \in S : y <= GreatestOf(S)
  BY <1>4, Greatest
<1> QED BY <1>4, <1>5 DEF MaxEpochKnown

(***************************************************************************)
(* What a message of the bus does to its receiver.                         *)
(***************************************************************************)
LEMMA MaxOfTwo ==
    ASSUME NEW a \in Nat, NEW b \in Nat
    PROVE  MaxOf(a, b) \in {a, b} /\ MaxOf(a, b) \in Nat /\ MaxOf(a, b) >= a /\ MaxOf(a, b) >= b
BY DEF MaxOf

\* The slot stays where it is in the view of n, or goes to s.
Stays(n, s, claims) ==
  /\ UNCHANGED <<slot, stored>>
  /\ unclaimed' = unclaimed \/ (~claims /\ slot[n] = s /\ unclaimed' = [unclaimed EXCEPT ![n] = TRUE])

Taken(n, s, epoch, claims, cfg) ==
  /\ claims /\ slot[n] # s /\ TakesSlot(n, cfg, epoch)
  /\ slot' = [slot EXCEPT ![n] = s]
  /\ unclaimed' = [unclaimed EXCEPT ![n] = FALSE]
  /\ stored' = IF slot[n] = n THEN [stored EXCEPT ![n] = {}] ELSE stored

\* The answer to a claim that is old.
IsAnswer(u, n, m, cfg) ==
  /\ u \in Message /\ u.type = "UPDATE" /\ u.claims
  /\ u.about = slot'[n] /\ u.about # u.to
  /\ u.config = cfg[slot'[n]] /\ u.current = MaxOf(currentEpoch[n], m.current)

Received(n, m, cfg) ==
  /\ m \in net /\ m.to = n
  /\ cfg \in [Nodes -> Nat]
  /\ \A x \in Nodes : x # m.about => cfg[x] = configEpoch[n][x]
  /\ cfg[m.about] \in {configEpoch[n][m.about], m.config} /\ cfg[m.about] >= configEpoch[n][m.about]
  /\ Stays(n, m.about, m.claims) \/ Taken(n, m.about, m.config, m.claims, cfg)
  /\ LET heard == MaxOf(currentEpoch[n], m.current) IN
     \/ /\ currentEpoch' = [currentEpoch EXCEPT ![n] = heard]
        /\ configEpoch' = [configEpoch EXCEPT ![n] = cfg]
     \/ /\ Collides(n, m.about, cfg)
        /\ currentEpoch' = [currentEpoch EXCEPT ![n] = heard + 1]
        /\ configEpoch' = [configEpoch EXCEPT ![n] = [cfg EXCEPT ![n] = heard + 1]]
  /\ \A u \in net' : u \in net \/ IsAnswer(u, n, m, cfg)
  /\ UNCHANGED avars

LEMMA SlotsUpdated ==
    ASSUME NEW n, NEW s, NEW epoch, NEW claims \in BOOLEAN, NEW cfg, UpdateSlots(n, s, epoch, claims, cfg)
    PROVE  Stays(n, s, claims) \/ Taken(n, s, epoch, claims, cfg)
BY DEF UpdateSlots, Stays, Taken

LEMMA PingReceived ==
    ASSUME TypeOK, MsgInv, NEW n \in Nodes, NEW m \in net, ReceivePing(n, m)
    PROVE  Received(n, m, [configEpoch[n] EXCEPT ![m.from] = MaxOf(@, m.config)])
<1> DEFINE cfg == [configEpoch[n] EXCEPT ![m.from] = MaxOf(@, m.config)]
           heard == MaxOf(currentEpoch[n], m.current)
<1>1. /\ m.from \in Nodes /\ m.config \in Nat /\ m.current \in Nat /\ m.claims \in BOOLEAN
      /\ m.to = n /\ m.about = m.from /\ m.from # n
  BY DEF TypeOK, Message, MsgInv, ReceivePing
<1>2. configEpoch[n] \in [Nodes -> Nat] /\ currentEpoch[n] \in Nat
  BY DEF TypeOK
<1>3. /\ MaxOf(configEpoch[n][m.from], m.config) \in {configEpoch[n][m.from], m.config}
      /\ MaxOf(configEpoch[n][m.from], m.config) \in Nat
      /\ MaxOf(configEpoch[n][m.from], m.config) >= configEpoch[n][m.from]
      /\ heard \in Nat
  BY <1>1, <1>2, MaxOfTwo
<1>4. /\ cfg \in [Nodes -> Nat]
      /\ \A x \in Nodes : x # m.about => cfg[x] = configEpoch[n][x]
      /\ cfg[m.about] \in {configEpoch[n][m.about], m.config} /\ cfg[m.about] >= configEpoch[n][m.about]
  BY <1>1, <1>2, <1>3
<1>5. Stays(n, m.about, m.claims) \/ Taken(n, m.about, m.config, m.claims, cfg)
  <2>1. CASE (slot[n] = m.from) # m.claims
    <3>1. UpdateSlots(n, m.from, m.config, m.claims, cfg)
      BY <2>1 DEF ReceivePing
    <3> HIDE DEF cfg
    <3> QED BY <1>1, <3>1, SlotsUpdated
  <2>2. CASE ~((slot[n] = m.from) # m.claims)
    BY <2>2 DEF ReceivePing, Stays
  <2> QED BY <2>1, <2>2
<1>6. \/ /\ currentEpoch' = [currentEpoch EXCEPT ![n] = heard]
         /\ configEpoch' = [configEpoch EXCEPT ![n] = cfg]
      \/ /\ Collides(n, m.about, cfg)
         /\ currentEpoch' = [currentEpoch EXCEPT ![n] = heard + 1]
         /\ configEpoch' = [configEpoch EXCEPT ![n] = [cfg EXCEPT ![n] = heard + 1]]
  BY <1>1 DEF ReceivePing
<1>7. slot'[n] \in Nodes
  BY <1>1, <1>5 DEF Stays, Taken, TypeOK
<1>8. \A u \in net' : u \in net \/ IsAnswer(u, n, m, cfg)
  <2> DEFINE update == [type |-> "UPDATE", from |-> n, to |-> m.from, current |-> heard,
                        about |-> slot'[n], config |-> cfg[slot'[n]], claims |-> TRUE]
  <2>1. \A u \in net' : u \in net \/ (u = update /\ slot'[n] # m.from)
    BY DEF ReceivePing
  <2>2. cfg[slot'[n]] \in Nat
    BY <1>4, <1>7
  <2>3. update \in Message
    BY <1>1, <1>3, <1>7, <2>2 DEF Message
  <2> HIDE DEF cfg
  <2>4. slot'[n] # m.from => IsAnswer(update, n, m, cfg)
    BY <2>3 DEF IsAnswer
  <2> HIDE DEF update
  <2> QED BY <2>1, <2>4
<1>9. UNCHANGED avars
  BY DEF ReceivePing
<1> HIDE DEF cfg
<1>10. Received(n, m, cfg)
  BY <1>1, <1>4, <1>5, <1>6, <1>8, <1>9 DEF Received
<1> QED BY <1>10 DEF cfg

LEMMA UpdateReceived ==
    ASSUME TypeOK, MsgInv, NEW n \in Nodes, NEW m \in net, ReceiveUpdate(n, m)
    PROVE  \E cfg : Received(n, m, cfg)
<1>1. /\ m.about \in Nodes /\ m.config \in Nat /\ m.current \in Nat /\ m.claims \in BOOLEAN
      /\ m.to = n /\ m.about # n
  BY DEF TypeOK, Message, MsgInv, ReceiveUpdate
<1>2. configEpoch[n] \in [Nodes -> Nat] /\ currentEpoch[n] \in Nat
  BY DEF TypeOK
<1>3. /\ currentEpoch' = [currentEpoch EXCEPT ![n] = MaxOf(@, m.current)]
      /\ net' = net \ {m}
      /\ UNCHANGED avars
  BY DEF ReceiveUpdate
<1>4. CASE configEpoch[n][m.about] < m.config
  <2> DEFINE cfg == [configEpoch[n] EXCEPT ![m.about] = m.config]
  <2>1. UpdateSlots(n, m.about, m.config, m.claims, cfg) /\ configEpoch' = [configEpoch EXCEPT ![n] = cfg]
    BY <1>1, <1>4 DEF ReceiveUpdate
  <2>2. /\ cfg \in [Nodes -> Nat]
        /\ \A x \in Nodes : x # m.about => cfg[x] = configEpoch[n][x]
        /\ cfg[m.about] = m.config /\ cfg[m.about] >= configEpoch[n][m.about]
    BY <1>1, <1>2, <1>4
  <2> HIDE DEF cfg
  <2>3. Stays(n, m.about, m.claims) \/ Taken(n, m.about, m.config, m.claims, cfg)
    BY <1>1, <2>1, SlotsUpdated
  <2>4. Received(n, m, cfg)
    BY <1>1, <1>3, <2>1, <2>2, <2>3 DEF Received
  <2> QED BY <2>4
<1>5. CASE ~(configEpoch[n][m.about] < m.config)
  <2>1. UNCHANGED <<configEpoch, slot, unclaimed, stored>>
    BY <1>5 DEF ReceiveUpdate
  <2>2. configEpoch' = [configEpoch EXCEPT ![n] = configEpoch[n]]
    BY <2>1 DEF TypeOK
  <2>3. Stays(n, m.about, m.claims)
    BY <2>1 DEF Stays
  <2>4. Received(n, m, configEpoch[n])
    BY <1>1, <1>2, <1>3, <2>2, <2>3 DEF Received
  <2> QED BY <2>4
<1> QED BY <1>4, <1>5

(***************************************************************************)
(* Types and epochs.                                                       *)
(***************************************************************************)
LEMMA MessageFields ==
    ASSUME TypeOK, NEW m \in net
    PROVE  /\ m.from \in Nodes /\ m.to \in Nodes /\ m.about \in Nodes
           /\ m.config \in Nat /\ m.current \in Nat /\ m.claims \in BOOLEAN
           /\ m.type \in {"PING", "UPDATE"}
BY DEF TypeOK, Message

\* The views of the receiver after a message.
LEMMA ViewsAfter ==
    ASSUME TypeOK, MsgInv, EpochsWellFounded, NEW n \in Nodes, NEW m \in net, NEW cfg, Received(n, m, cfg)
    PROVE  /\ currentEpoch' \in [Nodes -> Nat] /\ configEpoch' \in [Nodes -> [Nodes -> Nat]]
           /\ \A x \in Nodes \ {n} : currentEpoch'[x] = currentEpoch[x] /\ configEpoch'[x] = configEpoch[x]
           /\ \A x \in Nodes \ {n} : configEpoch'[n][x] = cfg[x]
           /\ currentEpoch'[n] >= MaxOf(currentEpoch[n], m.current)
           /\ MaxOf(currentEpoch[n], m.current) \in Nat
           /\ cfg[n] = configEpoch[n][n]
           /\ \/ configEpoch'[n][n] = configEpoch[n][n]
              \/ Collides(n, m.about, cfg) /\ configEpoch'[n][n] = currentEpoch'[n]
           /\ \A x \in Nodes : cfg[x] <= configEpoch[x][x] /\ cfg[x] <= MaxOf(currentEpoch[n], m.current)
<1> DEFINE heard == MaxOf(currentEpoch[n], m.current)
<1>1. currentEpoch[n] \in Nat /\ m.current \in Nat /\ m.config \in Nat /\ m.about \in Nodes
  BY MessageFields DEF TypeOK
<1>2. heard \in Nat /\ heard >= currentEpoch[n] /\ heard >= m.current
  BY <1>1, MaxOfTwo
<1>3. /\ cfg \in [Nodes -> Nat]
      /\ \A x \in Nodes : x # m.about => cfg[x] = configEpoch[n][x]
      /\ cfg[m.about] \in {configEpoch[n][m.about], m.config}
      /\ m.about # n
  BY DEF Received, MsgInv
<1>4. \/ /\ currentEpoch' = [currentEpoch EXCEPT ![n] = heard]
         /\ configEpoch' = [configEpoch EXCEPT ![n] = cfg]
      \/ /\ Collides(n, m.about, cfg)
         /\ currentEpoch' = [currentEpoch EXCEPT ![n] = heard + 1]
         /\ configEpoch' = [configEpoch EXCEPT ![n] = [cfg EXCEPT ![n] = heard + 1]]
  BY DEF Received
<1> HIDE DEF heard
<1>5. PICK row \in [Nodes -> Nat], e \in Nat :
        /\ currentEpoch' = [currentEpoch EXCEPT ![n] = e] /\ configEpoch' = [configEpoch EXCEPT ![n] = row]
        /\ e >= heard
        /\ \A x \in Nodes \ {n} : row[x] = cfg[x]
        /\ row[n] = cfg[n] \/ (Collides(n, m.about, cfg) /\ row[n] = e)
  <2>1. CASE /\ currentEpoch' = [currentEpoch EXCEPT ![n] = heard]
             /\ configEpoch' = [configEpoch EXCEPT ![n] = cfg]
    <3> cfg \in [Nodes -> Nat] /\ heard \in Nat /\ heard >= heard
      BY <1>2, <1>3
    <3> WITNESS cfg \in [Nodes -> Nat], heard \in Nat
    <3> QED BY <2>1
  <2>2. CASE /\ Collides(n, m.about, cfg)
             /\ currentEpoch' = [currentEpoch EXCEPT ![n] = heard + 1]
             /\ configEpoch' = [configEpoch EXCEPT ![n] = [cfg EXCEPT ![n] = heard + 1]]
    <3> DEFINE row == [cfg EXCEPT ![n] = heard + 1]
    <3>1. /\ row \in [Nodes -> Nat] /\ row[n] = heard + 1 /\ heard + 1 \in Nat /\ heard + 1 >= heard
          /\ \A x \in Nodes \ {n} : row[x] = cfg[x]
      BY <1>2, <1>3
    <3>2. configEpoch' = [configEpoch EXCEPT ![n] = row]
      BY <2>2
    <3> HIDE DEF row
    <3> QED BY <2>2, <3>1, <3>2
  <2> QED BY <1>4, <2>1, <2>2
<1>6. /\ currentEpoch' \in [Nodes -> Nat] /\ configEpoch' \in [Nodes -> [Nodes -> Nat]]
      /\ \A x \in Nodes \ {n} : currentEpoch'[x] = currentEpoch[x] /\ configEpoch'[x] = configEpoch[x]
      /\ currentEpoch'[n] = e /\ configEpoch'[n] = row
  BY <1>5 DEF TypeOK
<1>7. cfg[n] = configEpoch[n][n]
  BY <1>3
<1>8. \/ configEpoch'[n][n] = configEpoch[n][n]
      \/ Collides(n, m.about, cfg) /\ configEpoch'[n][n] = currentEpoch'[n]
  BY <1>5, <1>6, <1>7
<1>9. ASSUME NEW x \in Nodes PROVE cfg[x] <= configEpoch[x][x] /\ cfg[x] <= heard
  <2>0. configEpoch[n][x] \in Nat /\ configEpoch[x][x] \in Nat
    BY DEF TypeOK
  <2>1. CASE cfg[x] = configEpoch[n][x]
    <3>1. configEpoch[n][x] <= configEpoch[x][x] /\ configEpoch[n][x] <= currentEpoch[n]
      BY DEF EpochsWellFounded
    <3> QED BY <1>1, <1>2, <2>0, <2>1, <3>1
  <2>2. CASE x = m.about /\ cfg[x] = m.config
    <3>1. m.config <= configEpoch[x][x] /\ m.config <= m.current
      BY <2>2 DEF MsgInv
    <3> QED BY <1>1, <1>2, <2>2, <3>1
  <2> QED BY <1>3, <2>1, <2>2
<1> QED BY <1>2, <1>5, <1>6, <1>7, <1>8, <1>9 DEF heard

LEMMA TypeOfReceived ==
    ASSUME TypeOK, MsgInv, EpochsWellFounded, NEW n \in Nodes, NEW m \in net, NEW cfg, Received(n, m, cfg)
    PROVE  TypeOK'
<1>1. currentEpoch' \in [Nodes -> Nat] /\ configEpoch' \in [Nodes -> [Nodes -> Nat]]
  BY ViewsAfter
<1>2. /\ slot' \in [Nodes -> Nodes] /\ unclaimed' \in [Nodes -> BOOLEAN]
      /\ stored' \in [Nodes -> SUBSET Keys]
  <2>1. m.about \in Nodes
    BY MessageFields
  <2>2. CASE Stays(n, m.about, m.claims)
    BY <2>1, <2>2 DEF TypeOK, Stays
  <2>3. CASE Taken(n, m.about, m.config, m.claims, cfg)
    BY <2>1, <2>3 DEF TypeOK, Taken
  <2> QED BY <2>2, <2>3 DEF Received
<1>3. net' \subseteq Message
  BY DEF Received, IsAnswer, TypeOK
<1>4. UNCHANGED <<importing, migrating, admin, acked>>
  BY DEF Received, avars
<1> QED BY <1>1, <1>2, <1>3, <1>4 DEF TypeOK

LEMMA EpochsOfReceived ==
    ASSUME TypeOK, MsgInv, EpochsWellFounded, NEW n \in Nodes, NEW m \in net, NEW cfg, Received(n, m, cfg)
    PROVE  EpochsWellFounded' /\ MsgInv'
<1> DEFINE heard == MaxOf(currentEpoch[n], m.current)
<1>1. /\ currentEpoch' \in [Nodes -> Nat] /\ configEpoch' \in [Nodes -> [Nodes -> Nat]]
      /\ \A x \in Nodes \ {n} : currentEpoch'[x] = currentEpoch[x] /\ configEpoch'[x] = configEpoch[x]
      /\ \A x \in Nodes \ {n} : configEpoch'[n][x] = cfg[x]
      /\ currentEpoch'[n] >= heard
      /\ heard \in Nat
      /\ cfg[n] = configEpoch[n][n]
      /\ \/ configEpoch'[n][n] = configEpoch[n][n]
         \/ configEpoch'[n][n] = currentEpoch'[n]
      /\ \A x \in Nodes : cfg[x] <= configEpoch[x][x] /\ cfg[x] <= heard
  BY ViewsAfter
<1>2. cfg \in [Nodes -> Nat]
  BY DEF Received
<1>3. \A x, y \in Nodes : currentEpoch[x] \in Nat /\ configEpoch[x][y] \in Nat /\ currentEpoch'[x] \in Nat
                          /\ configEpoch'[x][y] \in Nat /\ cfg[x] \in Nat
  BY <1>1, <1>2 DEF TypeOK
<1> HIDE DEF heard
<1>4. \A x \in Nodes : configEpoch'[x][x] >= configEpoch[x][x]
  <2> TAKE x \in Nodes
  <2>1. CASE x # n
    BY <1>1, <1>3, <2>1
  <2>2. CASE x = n
    BY <1>1, <1>3, <2>2
  <2> QED BY <2>1, <2>2
<1>5. EpochsWellFounded'
  <2> SUFFICES ASSUME NEW x \in Nodes, NEW y \in Nodes
               PROVE  configEpoch'[x][y] <= configEpoch'[y][y] /\ configEpoch'[x][y] <= currentEpoch'[x]
    BY DEF EpochsWellFounded
  <2>1. CASE x # n
    <3>1. configEpoch[x][y] <= configEpoch[y][y] /\ configEpoch[x][y] <= currentEpoch[x]
      BY DEF EpochsWellFounded
    <3>2. configEpoch'[x][y] = configEpoch[x][y] /\ currentEpoch'[x] = currentEpoch[x]
      BY <1>1, <2>1
    <3> QED BY <1>3, <1>4, <3>1, <3>2
  <2>2. CASE x = n /\ y # n
    <3>1. configEpoch'[x][y] = cfg[y] /\ configEpoch'[y][y] = configEpoch[y][y]
      BY <1>1, <2>2
    <3>2. cfg[y] <= configEpoch[y][y] /\ cfg[y] <= heard /\ heard <= currentEpoch'[x]
      BY <1>1, <1>3, <2>2
    <3> QED BY <1>1, <1>3, <3>1, <3>2
  <2>3. CASE x = n /\ y = n
    <3>1. configEpoch[n][n] <= heard
      BY <1>1
    <3> QED BY <1>1, <1>3, <2>3, <3>1
  <2> QED BY <2>1, <2>2, <2>3
<1>6. ASSUME NEW u \in net'
      PROVE  /\ u.about # u.to
             /\ u.type = "PING" => u.about = u.from
             /\ u.type = "UPDATE" => u.claims
             /\ u.config <= u.current
             /\ u.config <= configEpoch'[u.about][u.about]
  <2>1. CASE u \in net
    <3>1. u.about \in Nodes /\ u.config \in Nat
      BY <2>1, MessageFields
    <3>2. u.config <= configEpoch[u.about][u.about]
      BY <2>1 DEF MsgInv
    <3>3. u.config <= configEpoch'[u.about][u.about]
      BY <1>3, <1>4, <3>1, <3>2
    <3> QED BY <2>1, <3>3 DEF MsgInv
  <2>2. CASE IsAnswer(u, n, m, cfg)
    <3>1. u.about \in Nodes /\ u.config = cfg[u.about] /\ u.current = heard
      BY <2>2 DEF IsAnswer, Message, heard
    <3>2. cfg[u.about] <= configEpoch[u.about][u.about] /\ cfg[u.about] <= heard
      BY <1>1, <3>1
    <3>3. cfg[u.about] <= configEpoch'[u.about][u.about]
      BY <1>3, <1>4, <3>1, <3>2
    <3> QED BY <2>2, <3>1, <3>2, <3>3 DEF IsAnswer
  <2> QED BY <2>1, <2>2 DEF Received
<1> QED BY <1>5, <1>6 DEF MsgInv

(***************************************************************************)
(* Owners, epochs and keys after a message.                                *)
(***************************************************************************)

\* Epochs that are as they were created never collide.
LEMMA NoCollision ==
    ASSUME TypeOK, MsgInv, CreatedInv, admin # "none",
           NEW n \in Nodes, NEW m \in net, NEW cfg, Received(n, m, cfg)
    PROVE  ~Collides(n, m.about, cfg)
<1>1. m.about \in Nodes /\ m.about # n /\ n \in Nodes /\ m.config \in Nat
  BY MessageFields DEF MsgInv, Received
<1>2. cfg[n] = configEpoch[n][n] /\ cfg[m.about] \in {configEpoch[n][m.about], m.config}
  BY <1>1 DEF Received
<1>3. ASSUME NEW x \in Nodes \ {Target}
      PROVE  CreatedEpoch[x] # configEpoch[Target][Target] /\ CreatedEpoch[x] # CreatedEpoch[Target]
  <2>1. Target \in Nodes /\ CreatedEpoch[x] # CreatedEpoch[Target] /\ CreatedEpoch[x] \in Nat
    BY SlotsConstants
  <2>2. configEpoch[Target][Target] \in Nat
    BY <2>1 DEF TypeOK
  <2>3. CASE Early
    BY <2>1, <2>3 DEF CreatedInv
  <2>4. CASE ~Early
    <3>1. CreatedEpoch[x] < configEpoch[Target][Target]
      BY <2>4 DEF CreatedInv
    <3> QED BY <2>1, <2>2, <3>1
  <2> QED BY <2>1, <2>3, <2>4
<1>4. \A x \in Nodes \ {Target} : configEpoch[n][x] = CreatedEpoch[x]
  BY DEF CreatedInv
<1>5. /\ configEpoch[n][Target] \in {CreatedEpoch[Target], configEpoch[Target][Target]}
      /\ m.config = CreatedEpoch[m.about] \/ (m.about = Target /\ m.config = configEpoch[Target][Target])
  BY DEF CreatedInv
<1>6. cfg[m.about] # cfg[n]
  <2>1. CASE n = Target
    BY <1>1, <1>2, <1>3, <1>4, <1>5, <2>1
  <2>2. CASE n # Target /\ m.about = Target
    BY <1>1, <1>2, <1>3, <1>4, <1>5, <2>2
  <2>3. CASE n # Target /\ m.about # Target
    <3>1. CreatedEpoch[n] # CreatedEpoch[m.about]
      BY <1>1, SlotsConstants
    <3> QED BY <1>1, <1>2, <1>4, <1>5, <2>3, <3>1
  <2> QED BY <2>1, <2>2, <2>3
<1> QED BY <1>6 DEF Collides

LEMMA CreatedOfReceived ==
    ASSUME TypeOK, MsgInv, EpochsWellFounded, CreatedInv,
           NEW n \in Nodes, NEW m \in net, NEW cfg, Received(n, m, cfg)
    PROVE  CreatedInv'
<1>1. admin' = admin /\ (Early' <=> Early)
  BY DEF Received, avars, Early
<1> SUFFICES ASSUME admin # "none" PROVE CreatedInv'
  BY <1>1 DEF CreatedInv
<1>2. /\ currentEpoch' \in [Nodes -> Nat]
      /\ \A x \in Nodes \ {n} : currentEpoch'[x] = currentEpoch[x] /\ configEpoch'[x] = configEpoch[x]
      /\ \A x \in Nodes \ {n} : configEpoch'[n][x] = cfg[x]
      /\ currentEpoch'[n] >= MaxOf(currentEpoch[n], m.current)
      /\ MaxOf(currentEpoch[n], m.current) \in Nat
      /\ configEpoch'[n][n] = configEpoch[n][n]
  BY ViewsAfter, NoCollision
<1>3. \A x \in Nodes : currentEpoch[x] \in Nat /\ CreatedEpoch[x] \in Nat
  BY SlotsConstants DEF TypeOK
<1>4. \A x \in Nodes : currentEpoch'[x] >= currentEpoch[x]
  <2>1. currentEpoch'[n] >= currentEpoch[n]
    <3>1. m.current \in Nat
      BY MessageFields
    <3>2. MaxOf(currentEpoch[n], m.current) >= currentEpoch[n]
      BY <1>3, <3>1, MaxOfTwo
    <3> QED BY <1>2, <1>3, <3>2
  <2> QED BY <1>2, <1>3, <2>1
<1>5. m.about \in Nodes /\ m.about # n /\ Target \in Nodes
  BY MessageFields, SlotsConstants DEF MsgInv, Received
<1>6. /\ \A x \in Nodes : x # m.about => cfg[x] = configEpoch[n][x]
      /\ cfg[m.about] \in {configEpoch[n][m.about], m.config}
  BY DEF Received
<1>7. configEpoch'[Target][Target] = configEpoch[Target][Target]
  BY <1>2, <1>5
<1>8. \A x \in Nodes : /\ x # Target => cfg[x] = CreatedEpoch[x]
                       /\ x = Target => cfg[x] \in {CreatedEpoch[Target], configEpoch[Target][Target]}
  BY <1>5, <1>6 DEF CreatedInv
<1>9. ASSUME NEW x \in Nodes, NEW y \in Nodes, y # Target PROVE configEpoch'[x][y] = CreatedEpoch[y]
  <2>1. configEpoch[x][y] = CreatedEpoch[y]
    BY <1>9 DEF CreatedInv
  <2> QED BY <1>2, <1>8, <1>9, <2>1
<1>10. ASSUME NEW x \in Nodes
       PROVE  configEpoch'[x][Target] \in {CreatedEpoch[Target], configEpoch'[Target][Target]}
  <2>1. configEpoch[x][Target] \in {CreatedEpoch[Target], configEpoch[Target][Target]}
    BY DEF CreatedInv
  <2> QED BY <1>2, <1>5, <1>7, <1>8, <2>1
<1>11. ASSUME NEW u \in net'
       PROVE  u.config = CreatedEpoch[u.about] \/ (u.about = Target /\ u.config = configEpoch'[Target][Target])
  <2>1. CASE u \in net
    BY <1>7, <2>1 DEF CreatedInv
  <2>2. CASE IsAnswer(u, n, m, cfg)
    <3>1. u.about \in Nodes /\ u.config = cfg[u.about]
      BY <2>2 DEF IsAnswer, Message
    <3> QED BY <1>7, <1>8, <3>1
  <2> QED BY <2>1, <2>2 DEF Received
<1>12. Early => /\ configEpoch'[Target][Target] = CreatedEpoch[Target]
                /\ \A x, y \in Nodes : CreatedEpoch[y] <= currentEpoch'[x]
  <2> SUFFICES ASSUME Early, NEW x \in Nodes, NEW y \in Nodes PROVE CreatedEpoch[y] <= currentEpoch'[x]
    BY <1>7 DEF CreatedInv
  <2>1. CreatedEpoch[y] <= currentEpoch[x]
    BY DEF CreatedInv
  <2>2. currentEpoch'[x] >= currentEpoch[x] /\ currentEpoch'[x] \in Nat
    BY <1>2, <1>4
  <2> QED BY <1>3, <2>1, <2>2
<1>13. ~Early => \A x \in Nodes \ {Target} : CreatedEpoch[x] < configEpoch'[Target][Target]
  BY <1>7 DEF CreatedInv
<1> QED BY <1>1, <1>9, <1>10, <1>11, <1>12, <1>13 DEF CreatedInv

\* A claim takes the slot from nobody while the source owns it, and never from
\* the target.
LEMMA NotTaken ==
    ASSUME TypeOK, MsgInv, OwnerInv, MoveInv, CreatedInv,
           NEW n \in Nodes, NEW m \in net, NEW cfg, Received(n, m, cfg), Early \/ n = Target
    PROVE  ~Taken(n, m.about, m.config, m.claims, cfg)
<1>1. CASE Early
  BY <1>1 DEF Taken, OwnerInv
<1>2. CASE ~Early /\ n = Target
  <2> SUFFICES ASSUME Taken(n, m.about, m.config, m.claims, cfg) PROVE FALSE
    OBVIOUS
  <2>0. Target \in Nodes /\ Source \in Nodes /\ Source # Target
    BY SlotsConstants
  <2>1. m.about = Source /\ m.about # n
    BY <1>2 DEF Taken, OwnerInv, MsgInv, Received
  <2>2. slot[n] = n /\ unclaimed[n] = FALSE
    BY <1>2 DEF OwnerInv
  <2>3. cfg[n] < m.config
    BY <2>2 DEF Taken, TakesSlot
  <2>4. cfg[n] = configEpoch[Target][Target]
    BY <1>2, <2>1 DEF Received
  <2>5. admin # "none"
    BY <1>2 DEF Early
  <2>6. m.config = CreatedEpoch[Source] /\ CreatedEpoch[Source] < configEpoch[Target][Target]
    BY <1>2, <2>0, <2>1, <2>5 DEF CreatedInv
  <2>7. CreatedEpoch[Source] \in Nat
    BY <2>0, SlotsConstants
  <2>8. configEpoch[Target][Target] \in Nat
    BY <2>0 DEF TypeOK
  <2> QED BY <2>3, <2>4, <2>6, <2>7, <2>8
<1> QED BY <1>1, <1>2

LEMMA OwnersOfReceived ==
    ASSUME TypeOK, MsgInv, OwnerInv, MoveInv, CreatedInv, KeyInv,
           NEW n \in Nodes, NEW m \in net, NEW cfg, Received(n, m, cfg)
    PROVE  OwnerInv' /\ MoveInv' /\ KeyInv'
<1>0. Target \in Nodes /\ Source \in Nodes /\ Source # Target
  BY SlotsConstants
<1>1. UNCHANGED <<importing, migrating, admin, acked>> /\ (Early' <=> Early)
  BY DEF Received, avars, Early
<1>2. m.about \in Nodes /\ m.about # n /\ m.claims \in BOOLEAN
  BY MessageFields DEF MsgInv, Received
<1>3. \/ Stays(n, m.about, m.claims)
      \/ Taken(n, m.about, m.config, m.claims, cfg) /\ ~Early /\ n # Target
  BY NotTaken DEF Received
<1>4. \A x \in Nodes : \/ slot'[x] = slot[x]
                       \/ slot'[x] = m.about /\ m.about \in {Source, Target} /\ ~Early /\ x = n /\ x # Target
  <2>1. CASE Stays(n, m.about, m.claims)
    BY <2>1 DEF Stays
  <2>2. CASE Taken(n, m.about, m.config, m.claims, cfg) /\ ~Early /\ n # Target
    BY <2>2 DEF Taken, OwnerInv, TypeOK
  <2> QED BY <1>3, <2>1, <2>2
<1>5. \A x \in Nodes : stored'[x] = stored[x] \/ (stored'[x] = {} /\ ~Early /\ x # Target)
  <2>1. CASE Stays(n, m.about, m.claims)
    BY <2>1 DEF Stays
  <2>2. CASE Taken(n, m.about, m.config, m.claims, cfg) /\ ~Early /\ n # Target
    BY <2>2 DEF Taken, TypeOK
  <2> QED BY <1>3, <2>1, <2>2
<1>6. \A x \in Nodes : unclaimed[x] = FALSE =>
                         unclaimed'[x] = FALSE \/ (x = n /\ ~m.claims /\ slot[n] = m.about)
  <2>1. CASE Stays(n, m.about, m.claims)
    BY <2>1 DEF Stays, TypeOK
  <2>2. CASE Taken(n, m.about, m.config, m.claims, cfg) /\ ~Early /\ n # Target
    BY <2>2 DEF Taken, TypeOK
  <2> QED BY <1>3, <2>1, <2>2
<1>7. OwnerInv'
  <2>1. \A x \in Nodes : slot'[x] \in {Source, Target}
    BY <1>4 DEF OwnerInv
  <2>2. \A u \in net' : u.claims => u.about \in {Source, Target}
    BY <2>1 DEF OwnerInv, Received, IsAnswer
  <2>3. Early => /\ \A x \in Nodes : slot'[x] = Source /\ unclaimed'[x] = FALSE
                 /\ \A u \in net' : u.claims <=> u.about = Source
    <3> SUFFICES ASSUME Early
                 PROVE  /\ \A x \in Nodes : slot'[x] = Source /\ unclaimed'[x] = FALSE
                        /\ \A u \in net' : u.claims <=> u.about = Source
      OBVIOUS
    <3>1. \A x \in Nodes : slot'[x] = Source
      BY <1>4 DEF OwnerInv
    <3>2. m.claims <=> m.about = Source
      BY DEF OwnerInv
    <3>3. slot[n] = Source
      BY DEF OwnerInv
    <3>4. \A x \in Nodes : unclaimed'[x] = FALSE
      BY <1>6, <3>2, <3>3 DEF OwnerInv
    <3>5. \A u \in net' : u.claims <=> u.about = Source
      BY <3>1 DEF OwnerInv, Received, IsAnswer
    <3> QED BY <3>1, <3>4, <3>5
  <2>4. ~Early => slot'[Target] = Target /\ unclaimed'[Target] = FALSE
    BY <1>0, <1>2, <1>4, <1>6 DEF OwnerInv
  <2>5. admin = "told source" => slot'[Source] = Target
    BY <1>0, <1>2, <1>4 DEF OwnerInv
  <2> QED BY <1>1, <2>1, <2>2, <2>3, <2>4, <2>5 DEF OwnerInv
<1>8. MoveInv'
  BY <1>1 DEF MoveInv
<1>9. KeyInv'
  <2>1. Early => stored'[Source] = stored[Source] /\ stored'[Target] = stored[Target]
    BY <1>0, <1>5
  <2>2. stored'[Target] = stored[Target] /\ stored'[Source] \in {stored[Source], {}}
    BY <1>0, <1>5
  <2>3. admin \in {"none", "idle", "importing", "migrating"} => Early
    BY DEF Early
  <2> QED BY <1>1, <2>1, <2>2, <2>3 DEF KeyInv
<1> QED BY <1>7, <1>8, <1>9

LEMMA ReceiveStep == ASSUME IInv, NEW n \in Nodes, Receive(n) PROVE IInv'
<1>1. PICK m \in net : ReceivePing(n, m) \/ ReceiveUpdate(n, m)
  BY DEF Receive
<1>2. PICK cfg : Received(n, m, cfg)
  BY <1>1, PingReceived, UpdateReceived DEF IInv
<1> QED BY <1>2, TypeOfReceived, EpochsOfReceived, CreatedOfReceived, OwnersOfReceived DEF IInv

(***************************************************************************)
(* The other steps.                                                        *)
(***************************************************************************)
LEMMA PingStep == ASSUME IInv, NEW n \in Nodes, NEW m \in Nodes, SendPing(n, m) PROVE IInv'
<1>1. /\ net' = net \cup {PingOf(n, m)} /\ n # m
      /\ UNCHANGED <<currentEpoch, configEpoch, slot, unclaimed, stored, importing, migrating, admin, acked>>
  BY DEF SendPing, cvars, avars
<1>2. configEpoch[n][n] \in Nat /\ currentEpoch[n] \in Nat /\ configEpoch[n][n] <= currentEpoch[n]
  BY DEF IInv, TypeOK, EpochsWellFounded
<1>3. PingOf(n, m) \in Message
  BY <1>2 DEF PingOf, Message
<1>4. /\ PingOf(n, m).type = "PING" /\ PingOf(n, m).from = n /\ PingOf(n, m).to = m
      /\ PingOf(n, m).about = n /\ PingOf(n, m).config = configEpoch[n][n]
      /\ PingOf(n, m).current = currentEpoch[n]
      /\ PingOf(n, m).claims = (slot[n] = n)
  BY DEF PingOf
<1>5. TypeOK'
  BY <1>1, <1>3 DEF IInv, TypeOK
<1>6. EpochsWellFounded' /\ MoveInv' /\ KeyInv'
  BY <1>1 DEF IInv, EpochsWellFounded, MoveInv, KeyInv, Early
<1>7. MsgInv'
  <2> SUFFICES ASSUME NEW u \in net'
               PROVE  /\ u.about # u.to
                      /\ u.type = "PING" => u.about = u.from
                      /\ u.type = "UPDATE" => u.claims
                      /\ u.config <= u.current
                      /\ u.config <= configEpoch[u.about][u.about]
    BY <1>1 DEF MsgInv
  <2>1. CASE u \in net
    BY <2>1 DEF IInv, MsgInv
  <2>2. CASE u = PingOf(n, m)
    BY <1>1, <1>2, <1>4, <2>2
  <2> QED BY <1>1, <2>1, <2>2
<1>8. OwnerInv'
  <2>1. \A u \in net' : u.claims => u.about \in {Source, Target}
    BY <1>1, <1>4 DEF IInv, OwnerInv
  <2>2. Early => \A u \in net' : u.claims <=> u.about = Source
    <3> SUFFICES ASSUME Early, NEW u \in net' PROVE u.claims <=> u.about = Source
      OBVIOUS
    <3>1. CASE u \in net
      BY <3>1 DEF IInv, OwnerInv
    <3>2. CASE u = PingOf(n, m)
      <4>1. slot[n] = Source
        BY DEF IInv, OwnerInv
      <4> QED BY <1>4, <3>2, <4>1
    <3> QED BY <1>1, <3>1, <3>2
  <2> QED BY <1>1, <2>1, <2>2 DEF IInv, OwnerInv, Early
<1>9. CreatedInv'
  <2> SUFFICES ASSUME admin # "none", NEW u \in net'
               PROVE  u.config = CreatedEpoch[u.about] \/ (u.about = Target /\ u.config = configEpoch[Target][Target])
    BY <1>1 DEF IInv, CreatedInv, Early
  <2>1. CASE u \in net
    BY <2>1 DEF IInv, CreatedInv
  <2>2. CASE u = PingOf(n, m)
    BY <1>4, <2>2 DEF IInv, CreatedInv
  <2> QED BY <1>1, <2>1, <2>2
<1> QED BY <1>5, <1>6, <1>7, <1>8, <1>9 DEF IInv

\* A key goes to the source before the target took over, to either while they
\* are migrated, to the target afterwards.
LEMMA WriteStep == ASSUME IInv, NEW n \in Nodes, NEW k \in Keys, Write(n, k) PROVE IInv'
<1>0. Target \in Nodes /\ Source \in Nodes /\ Source # Target /\ None \notin Nodes
  BY SlotsConstants
<1>1. /\ UNCHANGED <<currentEpoch, configEpoch, slot, unclaimed, importing, migrating, admin, net>>
      /\ stored' = [stored EXCEPT ![n] = @ \cup {k}] /\ acked' = acked \cup {k}
      /\ Serves(n, k) \/ Asked(n, k)
  BY DEF Write
<1>2. TypeOK'
  BY <1>1 DEF IInv, TypeOK
<1>3. EpochsWellFounded' /\ MsgInv' /\ OwnerInv' /\ MoveInv' /\ CreatedInv'
  BY <1>1 DEF IInv, EpochsWellFounded, MsgInv, OwnerInv, MoveInv, CreatedInv, Early
<1>4. /\ stored'[n] = stored[n] \cup {k}
      /\ \A x \in Nodes : x # n => stored'[x] = stored[x]
  BY <1>1 DEF IInv, TypeOK
<1>5. slot[n] \in {Source, Target}
  BY DEF IInv, OwnerInv
<1>6. CASE admin \in {"none", "idle", "importing"}
  <2>1. slot[n] = Source /\ \A o \in Nodes : migrating[o] = None
    BY <1>0, <1>6 DEF IInv, OwnerInv, MoveInv, Early
  <2>2. n = Source
    BY <1>0, <1>1, <2>1 DEF Serves, Asked
  <2> QED BY <1>1, <1>2, <1>3, <1>4, <1>6, <2>2 DEF IInv, KeyInv, Early
<1>7. CASE admin = "migrating"
  <2>1. slot[n] = Source
    BY <1>7 DEF IInv, OwnerInv, Early
  <2>2. n \in {Source, Target}
    BY <1>0, <1>1, <2>1 DEF Serves, Asked, IInv, MoveInv
  <2>3. acked \cup {k} \subseteq stored'[Source] \cup stored'[Target]
    BY <1>0, <1>4, <1>7, <2>2 DEF IInv, KeyInv
  <2> QED BY <1>1, <1>2, <1>3, <1>7, <2>3 DEF IInv, KeyInv, Early
<1>8. CASE ~Early
  <2>1. importing[n] = None
    BY <1>8 DEF IInv, MoveInv, Early
  <2>2. slot[n] = n /\ (migrating[n] # None => k \in stored[n])
    BY <1>1, <2>1 DEF Serves, Asked
  <2>3. n = Target
    <3> SUFFICES ASSUME n = Source PROVE FALSE
      BY <1>5, <2>2
    <3>1. admin = "told target"
      BY <1>0, <1>8, <2>2 DEF IInv, OwnerInv, Early, TypeOK
    <3>2. migrating[n] = Target /\ stored[n] = {}
      BY <3>1 DEF IInv, MoveInv, KeyInv
    <3> QED BY <1>0, <2>2, <3>2
  <2>4. acked \cup {k} \subseteq stored'[Target] /\ stored'[Source] = stored[Source]
    BY <1>0, <1>4, <1>8, <2>3 DEF IInv, KeyInv
  <2> QED BY <1>1, <1>2, <1>3, <1>8, <2>4 DEF IInv, KeyInv, Early
<1> QED BY <1>6, <1>7, <1>8 DEF Early

LEMMA ReshardStep == ASSUME IInv, Reshard PROVE IInv'
<1>0. Target \in Nodes /\ Source \in Nodes /\ Source # Target /\ None \notin Nodes
  BY SlotsConstants
<1>1. CASE SetImporting
  <2>1. /\ UNCHANGED <<currentEpoch, configEpoch, slot, unclaimed, stored, migrating, acked, net>>
        /\ admin = "idle" /\ admin' = "importing" /\ importing' = [importing EXCEPT ![Target] = Source]
    BY <1>1 DEF SetImporting, cvars
  <2>2. TypeOK'
    BY <1>0, <2>1 DEF IInv, TypeOK
  <2>3. EpochsWellFounded' /\ MsgInv' /\ OwnerInv' /\ CreatedInv' /\ KeyInv'
    BY <2>1 DEF IInv, EpochsWellFounded, MsgInv, OwnerInv, CreatedInv, KeyInv, Early
  <2>4. MoveInv'
    BY <1>0, <2>1 DEF IInv, TypeOK, MoveInv
  <2> QED BY <2>2, <2>3, <2>4 DEF IInv
<1>2. CASE SetMigrating
  <2>1. /\ UNCHANGED <<currentEpoch, configEpoch, slot, unclaimed, stored, importing, acked, net>>
        /\ admin = "importing" /\ admin' = "migrating" /\ migrating' = [migrating EXCEPT ![Source] = Target]
    BY <1>2 DEF SetMigrating, cvars
  <2>2. TypeOK'
    BY <1>0, <2>1 DEF IInv, TypeOK
  <2>3. EpochsWellFounded' /\ MsgInv' /\ OwnerInv' /\ CreatedInv' /\ KeyInv'
    BY <2>1 DEF IInv, EpochsWellFounded, MsgInv, OwnerInv, CreatedInv, KeyInv, Early
  <2>4. MoveInv'
    BY <1>0, <2>1 DEF IInv, TypeOK, MoveInv
  <2> QED BY <2>2, <2>3, <2>4 DEF IInv
<1>3. ASSUME NEW k \in Keys, Migrate(k) PROVE IInv'
  <2>1. /\ UNCHANGED <<currentEpoch, configEpoch, slot, unclaimed, importing, migrating, admin, acked, net>>
        /\ admin = "migrating" /\ k \in stored[Source]
    BY <1>3 DEF Migrate, avars
  <2>2. /\ stored' \in [Nodes -> SUBSET Keys]
        /\ stored'[Target] = stored[Target] \cup {k} /\ stored'[Source] \in {stored[Source], stored[Source] \ {k}}
    <3>1. PICK answered \in BOOLEAN :
            stored' = [stored EXCEPT ![Target] = @ \cup {k},
                                     ![Source] = IF answered THEN @ \ {k} ELSE @]
      BY <1>3 DEF Migrate
    <3> DEFINE left == IF answered THEN stored[Source] \ {k} ELSE stored[Source]
               come == stored[Target] \cup {k}
    <3>2. stored \in [Nodes -> SUBSET Keys]
      BY DEF IInv, TypeOK
    <3>3. left \in {stored[Source], stored[Source] \ {k}} /\ left \subseteq Keys /\ come \subseteq Keys
      <4>1. stored[Source] \subseteq Keys /\ stored[Target] \subseteq Keys
        BY <1>0, <3>2
      <4> QED BY <4>1
    <3>4. stored' = [[stored EXCEPT ![Target] = come] EXCEPT ![Source] = left]
      BY <1>0, <3>1, <3>2
    <3> HIDE DEF left, come
    <3>5. /\ stored' \in [Nodes -> SUBSET Keys]
          /\ stored'[Source] = left /\ stored'[Target] = come
      BY <1>0, <3>2, <3>3, <3>4
    <3> QED BY <3>3, <3>5 DEF come
  <2>3. TypeOK'
    BY <2>1, <2>2 DEF IInv, TypeOK
  <2>4. EpochsWellFounded' /\ MsgInv' /\ OwnerInv' /\ MoveInv' /\ CreatedInv'
    BY <2>1 DEF IInv, EpochsWellFounded, MsgInv, OwnerInv, MoveInv, CreatedInv, Early
  <2>5. KeyInv'
    BY <2>1, <2>2 DEF IInv, KeyInv, Early
  <2> QED BY <2>3, <2>4, <2>5 DEF IInv
<1>4. CASE TellTarget
  <2>1. /\ admin = "migrating" /\ admin' = "told target" /\ stored[Source] = {}
        /\ UNCHANGED <<stored, acked, net>>
        /\ slot' = [slot EXCEPT ![Target] = Target]
        /\ unclaimed' = [unclaimed EXCEPT ![Target] = FALSE]
        /\ migrating' = [migrating EXCEPT ![Target] = IF stored[Target] = {} THEN None ELSE @]
    BY <1>4 DEF TellTarget, SetSlotNode
  <2>2. importing[Target] # None
    BY <1>0, <2>1 DEF IInv, MoveInv
  <2>3. Bump(Target) /\ importing' = [importing EXCEPT ![Target] = None]
    BY <1>4, <2>2 DEF TellTarget, SetSlotNode
  <2>4. /\ currentEpoch[Target] \in Nat /\ \A x, y \in Nodes : configEpoch[x][y] \in Nat
        /\ \A x \in Nodes : CreatedEpoch[x] \in Nat
    <3>1. currentEpoch[Target] \in Nat /\ \A x, y \in Nodes : configEpoch[x][y] \in Nat
      <4>1. currentEpoch \in [Nodes -> Nat] /\ configEpoch \in [Nodes -> [Nodes -> Nat]]
        BY DEF IInv, TypeOK
      <4>2. currentEpoch[Target] \in Nat
        BY <1>0, <4>1
      <4>3. \A x, y \in Nodes : configEpoch[x][y] \in Nat
        BY <4>1
      <4> QED BY <4>2, <4>3
    <3>2. \A x \in Nodes : CreatedEpoch[x] \in Nat
      BY SlotsConstants
    <3> QED BY <3>1, <3>2
  <2>5. /\ \A x \in Nodes : configEpoch[x][Target] = CreatedEpoch[Target]
        /\ \A x \in Nodes : CreatedEpoch[x] <= currentEpoch[Target]
    BY <1>0, <2>1 DEF IInv, CreatedInv, Early
  <2>6. PICK e \in Nat :
          /\ configEpoch' = [configEpoch EXCEPT ![Target][Target] = e]
          /\ e >= configEpoch[Target][Target]
          /\ \A x \in Nodes \ {Target} : CreatedEpoch[x] < e
          /\ currentEpoch' \in [Nodes -> Nat]
          /\ \A x \in Nodes : currentEpoch'[x] >= currentEpoch[x]
          /\ currentEpoch'[Target] >= e
    <3>1. \A x \in Nodes \ {Target} : CreatedEpoch[x] # CreatedEpoch[Target]
      BY <1>0, SlotsConstants
    <3>2. CASE configEpoch[Target][Target] = 0 \/ configEpoch[Target][Target] # MaxEpochKnown(Target)
      <4> DEFINE e == currentEpoch[Target] + 1
      <4>1. /\ currentEpoch' = [currentEpoch EXCEPT ![Target] = e]
            /\ configEpoch' = [configEpoch EXCEPT ![Target][Target] = e]
        BY <2>3, <3>2 DEF Bump
      <4>2. e \in Nat /\ e >= configEpoch[Target][Target] /\ \A x \in Nodes \ {Target} : CreatedEpoch[x] < e
        BY <1>0, <2>4, <2>5
      <4>3. /\ currentEpoch' \in [Nodes -> Nat] /\ currentEpoch'[Target] >= e
            /\ \A x \in Nodes : currentEpoch'[x] >= currentEpoch[x]
        <5>0. currentEpoch \in [Nodes -> Nat]
          BY DEF IInv, TypeOK
        <5>1. e >= currentEpoch[Target] /\ e \in Nat /\ e >= e
          BY <2>4
        <5> HIDE DEF e
        <5>2. /\ currentEpoch' \in [Nodes -> Nat] /\ currentEpoch'[Target] = e
              /\ \A x \in Nodes : x # Target => currentEpoch'[x] = currentEpoch[x]
          BY <1>0, <4>1, <5>0, <5>1
        <5>3. \A x \in Nodes : currentEpoch[x] \in Nat /\ currentEpoch[x] >= currentEpoch[x]
          BY <5>0
        <5> QED BY <5>1, <5>2, <5>3
      <4> HIDE DEF e
      <4> QED BY <4>1, <4>2, <4>3
    <3>3. CASE ~(configEpoch[Target][Target] = 0 \/ configEpoch[Target][Target] # MaxEpochKnown(Target))
      <4> DEFINE e == configEpoch[Target][Target]
      <4>1. UNCHANGED <<currentEpoch, configEpoch>>
        BY <2>3, <3>3 DEF Bump
      <4>2. configEpoch' = [configEpoch EXCEPT ![Target][Target] = e]
        BY <1>0, <4>1 DEF IInv, TypeOK
      <4>3. currentEpoch[Target] <= e /\ e \in Nat /\ e = CreatedEpoch[Target]
        BY <1>0, <2>4, <2>5, <3>3, GreatestKnown DEF IInv
      <4>4. \A x \in Nodes \ {Target} : CreatedEpoch[x] < e
        BY <2>4, <2>5, <3>1, <4>3
      <4>5. currentEpoch'[Target] >= e
        <5>1. configEpoch[Target][Target] <= currentEpoch[Target]
          BY <1>0 DEF IInv, EpochsWellFounded
        <5> QED BY <2>4, <4>1, <5>1
      <4>6. /\ currentEpoch' \in [Nodes -> Nat] /\ e >= configEpoch[Target][Target]
            /\ \A x \in Nodes : currentEpoch'[x] >= currentEpoch[x]
        <5>1. currentEpoch' = currentEpoch /\ currentEpoch \in [Nodes -> Nat]
          BY <4>1 DEF IInv, TypeOK
        <5>2. \A x \in Nodes : currentEpoch[x] \in Nat /\ currentEpoch[x] >= currentEpoch[x]
          BY <5>1
        <5>3. e >= e
          BY <4>3
        <5> QED BY <5>1, <5>2, <5>3
      <4> QED BY <4>2, <4>3, <4>4, <4>5, <4>6
    <3> QED BY <3>2, <3>3
  <2>7. /\ configEpoch' \in [Nodes -> [Nodes -> Nat]] /\ configEpoch'[Target][Target] = e
        /\ \A x, y \in Nodes : x # Target \/ y # Target => configEpoch'[x][y] = configEpoch[x][y]
    BY <1>0, <2>6 DEF IInv, TypeOK
  <2>8. TypeOK'
    BY <1>0, <2>1, <2>3, <2>6, <2>7 DEF IInv, TypeOK
  <2>9. \A x, y \in Nodes : currentEpoch[x] \in Nat /\ currentEpoch'[x] \in Nat /\ configEpoch[x][y] \in Nat
    BY <2>6 DEF IInv, TypeOK
  <2>10. \A x \in Nodes : configEpoch'[x][x] >= configEpoch[x][x]
    BY <1>0, <2>6, <2>7, <2>9
  <2>11. EpochsWellFounded'
    <3> SUFFICES ASSUME NEW x \in Nodes, NEW y \in Nodes
                 PROVE  configEpoch'[x][y] <= configEpoch'[y][y] /\ configEpoch'[x][y] <= currentEpoch'[x]
      BY DEF EpochsWellFounded
    <3>1. CASE x = Target /\ y = Target
      BY <2>6, <2>7, <3>1
    <3>2. CASE x # Target \/ y # Target
      <4>1. configEpoch[x][y] <= configEpoch[y][y] /\ configEpoch[x][y] <= currentEpoch[x]
        BY DEF IInv, EpochsWellFounded
      <4>2. configEpoch'[x][y] = configEpoch[x][y] /\ configEpoch'[y][y] \in Nat
        BY <2>7, <3>2
      <4>3. configEpoch'[y][y] >= configEpoch[y][y] /\ currentEpoch'[x] >= currentEpoch[x]
        BY <2>6, <2>10
      <4> QED BY <2>9, <4>1, <4>2, <4>3
    <3> QED BY <3>1, <3>2
  <2>12. MsgInv'
    <3> SUFFICES ASSUME NEW u \in net
                 PROVE  u.config <= configEpoch'[u.about][u.about]
      BY <2>1 DEF IInv, MsgInv
    <3>1. u.about \in Nodes /\ u.config \in Nat
      BY MessageFields DEF IInv
    <3>2. u.config <= configEpoch[u.about][u.about]
      BY DEF IInv, MsgInv
    <3>3. configEpoch'[u.about][u.about] \in Nat
      BY <2>7, <3>1
    <3> QED BY <2>9, <2>10, <3>1, <3>2, <3>3
  <2>13. OwnerInv'
    <3>1. \A x \in Nodes : slot'[x] = IF x = Target THEN Target ELSE slot[x]
      BY <2>1 DEF IInv, TypeOK
    <3>2. unclaimed'[Target] = FALSE
      BY <1>0, <2>1 DEF IInv, TypeOK
    <3> QED BY <1>0, <2>1, <3>1, <3>2 DEF IInv, OwnerInv, Early
  <2>14. MoveInv'
    BY <1>0, <2>1, <2>3 DEF IInv, TypeOK, MoveInv
  <2>15. CreatedInv'
    <3>1. ~Early' /\ admin' # "none"
      BY <2>1 DEF Early
    <3>2. \A n, m \in Nodes : m # Target => configEpoch'[n][m] = CreatedEpoch[m]
      <4>1. \A n, m \in Nodes : m # Target => configEpoch[n][m] = CreatedEpoch[m]
        BY <2>1 DEF IInv, CreatedInv
      <4> QED BY <2>7, <4>1
    <3>3. \A n \in Nodes : configEpoch'[n][Target] \in {CreatedEpoch[Target], configEpoch'[Target][Target]}
      BY <1>0, <2>5, <2>7
    <3>4. \A m \in net : m.config = CreatedEpoch[m.about]
      BY <1>0, <2>1, <2>5 DEF IInv, CreatedInv
    <3>5. \A m \in Nodes \ {Target} : CreatedEpoch[m] < configEpoch'[Target][Target]
      BY <2>6, <2>7
    <3>6. net' = net
      BY <2>1
    <3> QED BY <3>1, <3>2, <3>3, <3>4, <3>5, <3>6 DEF CreatedInv
  <2>16. KeyInv'
    BY <2>1 DEF IInv, KeyInv, Early
  <2> QED BY <2>8, <2>11, <2>12, <2>13, <2>14, <2>15, <2>16 DEF IInv
<1>5. ASSUME NEW x \in Nodes \ {Target}, SetSlotNode(x),
             \/ x = Source /\ admin = "told target" /\ admin' = "told source"
             \/ x # Source /\ admin = "told source" /\ admin' = "told source"
      PROVE  IInv'
  <2>1. /\ slot' = [slot EXCEPT ![x] = Target]
        /\ unclaimed' = [unclaimed EXCEPT ![x] = FALSE]
        /\ migrating' = [migrating EXCEPT ![x] = IF stored[x] = {} THEN None ELSE @]
        /\ UNCHANGED <<currentEpoch, configEpoch, importing, stored, acked, net>>
    BY <1>5 DEF SetSlotNode
  <2>2. ~Early /\ ~Early'
    BY <1>5 DEF Early
  <2>3. TypeOK'
    BY <1>0, <1>5, <2>1 DEF IInv, TypeOK
  <2>4. EpochsWellFounded' /\ MsgInv' /\ CreatedInv' /\ KeyInv'
    BY <1>5, <2>1, <2>2 DEF IInv, EpochsWellFounded, MsgInv, CreatedInv, KeyInv, Early
  <2>5. \A y \in Nodes : /\ slot'[y] = IF y = x THEN Target ELSE slot[y]
                         /\ y # x => unclaimed'[y] = unclaimed[y] /\ migrating'[y] = migrating[y]
                         /\ migrating'[y] \in {None, migrating[y]}
    BY <2>1 DEF IInv, TypeOK
  <2>6. OwnerInv'
    BY <1>0, <1>5, <2>1, <2>2, <2>5 DEF IInv, OwnerInv
  <2>7. MoveInv'
    BY <1>0, <1>5, <2>1, <2>5 DEF IInv, MoveInv
  <2> QED BY <2>3, <2>4, <2>6, <2>7 DEF IInv
<1>6. CASE TellSource
  BY <1>0, <1>5, <1>6 DEF TellSource
<1>7. ASSUME NEW n \in Nodes, TellOther(n) PROVE IInv'
  BY <1>5, <1>7 DEF TellOther
<1> QED BY <1>1, <1>2, <1>3, <1>4, <1>6, <1>7 DEF Reshard

(***************************************************************************)
(* The theorem.                                                            *)
(***************************************************************************)
LEMMA InitInv == Init => IInv
<1> SUFFICES ASSUME Init PROVE IInv
  OBVIOUS
<1>0. Target \in Nodes /\ Source \in Nodes /\ Source # Target /\ None \notin Nodes
  BY SlotsConstants
<1> DEFINE zero == [n \in Nodes |-> 0]
<1>1. PICK start \in {zero, CreatedEpoch} :
        /\ currentEpoch = [n \in Nodes |-> GreatestOf({start[m] : m \in Nodes})]
        /\ configEpoch = [n \in Nodes |-> start]
        /\ admin = IF start = CreatedEpoch THEN "idle" ELSE "none"
        /\ acked = IF start = CreatedEpoch THEN {} ELSE Keys
        /\ stored = [n \in Nodes |-> IF n = Source THEN acked ELSE {}]
  BY DEF Init
<1>2. start \in [Nodes -> Nat]
  BY SlotsConstants
<1> DEFINE g == GreatestOf({start[m] : m \in Nodes})
<1>3. g \in Nat /\ \A m \in Nodes : start[m] <= g
  BY <1>2, GreatestEpoch
<1>4. /\ slot = [n \in Nodes |-> Source] /\ unclaimed = [n \in Nodes |-> FALSE]
      /\ importing = [n \in Nodes |-> None] /\ migrating = [n \in Nodes |-> None]
      /\ net = {}
  BY DEF Init
<1>5. /\ currentEpoch \in [Nodes -> Nat] /\ configEpoch \in [Nodes -> [Nodes -> Nat]]
      /\ \A n \in Nodes : currentEpoch[n] = g /\ configEpoch[n] = start
  BY <1>1, <1>2, <1>3
<1> HIDE DEF g
<1>6. acked \subseteq Keys /\ stored \in [Nodes -> SUBSET Keys] /\ acked \subseteq stored[Source]
  BY <1>0, <1>1
<1>7. admin \in {"none", "idle"} /\ (admin # "none" => start = CreatedEpoch)
  BY <1>1
<1>8. TypeOK
  BY <1>0, <1>4, <1>5, <1>6, <1>7 DEF TypeOK
<1>9. EpochsWellFounded
  <2>1. \A m \in Nodes : start[m] <= start[m]
    BY <1>2
  <2> QED BY <1>3, <1>5, <2>1 DEF EpochsWellFounded
<1>10. MsgInv /\ OwnerInv /\ MoveInv
  BY <1>0, <1>4, <1>7 DEF MsgInv, OwnerInv, MoveInv, Early
<1>11. CreatedInv
  BY <1>0, <1>3, <1>4, <1>5, <1>7 DEF CreatedInv, Early
<1>12. KeyInv
  BY <1>6, <1>7 DEF KeyInv, Early
<1> QED BY <1>8, <1>9, <1>10, <1>11, <1>12 DEF IInv

\* Views of the epochs are of the past, and a master that serves the slot as its
\* own and is not migrating it has every key of it that was acknowledged, at any
\* moment of a resharding (clusterProcessPacket, SETSLOT, MIGRATE, getNodeByQuery).
THEOREM SlotsAreSound == Spec => []SlotsSound
<1>1. IInv /\ [Next]_vars => IInv'
  <2> SUFFICES ASSUME IInv, [Next]_vars PROVE IInv'
    OBVIOUS
  <2>1. CASE UNCHANGED vars
    BY <2>1 DEF IInv, TypeOK, EpochsWellFounded, MsgInv, OwnerInv, MoveInv, CreatedInv, KeyInv, Early,
                vars, cvars, avars
  <2> QED BY <2>1, ReceiveStep, PingStep, WriteStep, ReshardStep DEF Next
<1>2. IInv => SlotsSound
  <2> SUFFICES ASSUME IInv, NEW n \in Nodes, slot[n] = n, migrating[n] = None PROVE acked \subseteq stored[n]
    BY DEF IInv, SlotsSound, ServedKeysFound
  <2>0. Target \in Nodes /\ Source \in Nodes /\ Source # Target /\ None \notin Nodes
    BY SlotsConstants
  <2>1. CASE Early
    <3>1. n = Source
      BY <2>1 DEF IInv, OwnerInv
    <3>2. admin \in {"none", "idle", "importing"}
      BY <2>0, <2>1, <3>1 DEF IInv, MoveInv, Early
    <3> QED BY <3>1, <3>2 DEF IInv, KeyInv
  <2>2. CASE ~Early
    <3>1. n = Target
      <4> SUFFICES ASSUME n = Source PROVE FALSE
        BY DEF IInv, OwnerInv
      <4>1. admin \in {"told target", "told source"}
        BY <2>2 DEF IInv, TypeOK, Early
      <4>2. admin # "told source"
        BY <2>0 DEF IInv, OwnerInv
      <4> QED BY <2>0, <4>1, <4>2 DEF IInv, MoveInv
    <3> QED BY <2>2, <3>1 DEF IInv, KeyInv
  <2> QED BY <2>1, <2>2
<1> QED BY InitInv, <1>1, <1>2, PTL DEF Spec
=============================================================================
