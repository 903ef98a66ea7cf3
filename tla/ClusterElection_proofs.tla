----------------------- MODULE ClusterElection_proofs -----------------------
(***************************************************************************)
(* ClusterElection for every set of voters and candidates, every bound on  *)
(* the epochs and on the crashes: single votes, a majority behind every    *)
(* winner, one winner in an epoch and one master for an epoch in every     *)
(* view, as far as no count took a vote of another election and no crash   *)
(* made a voter forget; views that go back only to what was saved, and     *)
(* winners that keep what they claimed.                                    *)
(***************************************************************************)
EXTENDS ClusterElection, FiniteSetTheorems, TLAPS

(***************************************************************************)
(* What the messages say.                                                  *)
(***************************************************************************)

\* Who sends to whom, and what a vote in the network has behind it.
MsgInv ==
  \A m \in msgs :
    /\ m.type = "REQUEST" => m.from \in Candidates /\ m.to \in Voters
    /\ m.type = "ACK" => /\ m.from \in Voters /\ m.to \in Candidates /\ m.cfg = 0
                         /\ <<m.from, m.epoch, m.to>> \in votes

\* What a voter remembers of its votes: all of them but those that a crash made
\* it forget, and on disk all but those and the ones it has not saved yet.
VoteKept(x) ==
  \/ <<x[1], x[2]>> \in forgot
  \/ /\ x[2] <= lastVoteEpoch[x[1]]
     /\ x[2] <= disk[x[1]].voted \/ <<x[1], x[2]>> \in unsaved

VoterInv ==
  /\ \A v \in Voters : /\ lastVoteEpoch[v] <= currentEpoch[v]
                       /\ disk[v].voted <= lastVoteEpoch[v]
                       /\ disk[v].voted <= disk[v].current
  /\ \A x \in votes : VoteKept(x)
  /\ VoterVotesOnce

\* The voters whose votes for c in its last election were counted.
Tallied(c, S) ==
  /\ S \subseteq Voters
  /\ auth[c].count = Cardinality(S)
  /\ \A v \in S : /\ <<v, auth[c].epoch, c>> \in votes
                  /\ Ack(v, c, auth[c].epoch) \notin msgs

Counted(c) ==
  /\ auth[c].phase = "delay" => auth[c].count = 0
  /\ auth[c].phase = "asked" /\ Remembered(auth[c].epoch) => \E S \in SUBSET Voters : Tallied(c, S)

TallyInv == \A c \in Candidates : c \notin strays => Counted(c)

\* Where a view comes from: the start or a claim.
From(o, e) == (o = Old /\ e = 1) \/ <<e, o>> \in claims

\* What is on disk is the view in memory or an older one.
Behind(n) == \/ disk[n].ownerEpoch < ownerEpoch[n]
             \/ disk[n].ownerEpoch = ownerEpoch[n] /\ disk[n].owner = owner[n]

Viewed(n) ==
  /\ currentEpoch[n] >= 1 /\ ownerEpoch[n] >= 1
  /\ disk[n].current >= 1 /\ disk[n].ownerEpoch >= 1
  /\ From(owner[n], ownerEpoch[n]) /\ From(disk[n].owner, disk[n].ownerEpoch)
  /\ Behind(n)

ViewInv ==
  /\ \A n \in Nodes : Viewed(n)
  /\ \A k \in claims : k[1] >= 2
  /\ \A c \in Candidates : auth[c].phase = "asked" => auth[c].epoch >= 2

IInv == TypeOK /\ MsgInv /\ VoterInv /\ TallyInv /\ ViewInv /\ ClaimsKept /\ WinnerHasQuorum

(***************************************************************************)
(* Types.                                                                  *)
(***************************************************************************)
LEMMA MaxOfTwo ==
    ASSUME NEW a \in Int, NEW b \in Int
    PROVE  MaxOf(a, b) \in {a, b} /\ MaxOf(a, b) >= a /\ MaxOf(a, b) >= b
BY DEF MaxOf

LEMMA MaxOfEpochs == ASSUME NEW a \in Epochs, NEW b \in Epochs PROVE MaxOf(a, b) \in Epochs
BY DEF MaxOf

LEMMA TypeInit == Init => TypeOK
BY ElectionConstants DEF Init, TypeOK, Nodes, NoAuth, Epochs

LEMMA SavedType ==
    ASSUME TypeOK, NEW n \in Nodes
    PROVE  Saved(n) \in [current : Epochs, voted : Epochs,
                         owner : Candidates \cup {Old}, ownerEpoch : Epochs]
BY ElectionConstants DEF TypeOK, Saved, Epochs

LEMMA TypeStep == TypeOK /\ MsgInv /\ [Next]_vars => TypeOK'
<1> SUFFICES ASSUME TypeOK, MsgInv, [Next]_vars PROVE TypeOK'
  OBVIOUS
<1> USE ElectionConstants DEF Nodes
<1>1. ASSUME NEW c \in Candidates, ScheduleElection(c) PROVE TypeOK'
  BY <1>1 DEF TypeOK, ScheduleElection, Scheduled, view
<1>2. ASSUME NEW c \in Candidates, AskVotes(c) PROVE TypeOK'
  <2>1. currentEpoch[c] + 1 \in Epochs /\ ownerEpoch[c] \in Epochs
    BY <1>2 DEF TypeOK, AskVotes, Epochs
  <2>2. \A v \in Voters : Request(c, v) \in [type : {"REQUEST", "ACK"}, from : Nodes, to : Nodes,
                                            epoch : Epochs, cfg : Epochs]
    BY <2>1 DEF Request
  <2>3. msgs' \subseteq [type : {"REQUEST", "ACK"}, from : Nodes, to : Nodes,
                         epoch : Epochs, cfg : Epochs]
    BY <1>2, <2>2 DEF TypeOK, AskVotes
  <2>4. auth' \in [Candidates -> [phase : {"none", "delay", "asked"},
                                  epoch : Epochs, count : Nat]]
    BY <1>2, <2>1 DEF TypeOK, AskVotes
  <2>5. currentEpoch' \in [Nodes -> Epochs]
    BY <1>2, <2>1 DEF TypeOK, AskVotes
  <2> QED BY <1>2, <2>3, <2>4, <2>5 DEF TypeOK, AskVotes, history
<1>3. ASSUME NEW c \in Candidates, Win(c) PROVE TypeOK'
  <2>1. [Saved(c) EXCEPT !.owner = c, !.ownerEpoch = WonEpoch(c)] \in
          [current : Epochs, voted : Epochs, owner : Candidates \cup {Old}, ownerEpoch : Epochs]
    <3>1. WonEpoch(c) \in Epochs
      BY DEF TypeOK, WonEpoch
    <3>2. Saved(c) \in [current : Epochs, voted : Epochs,
                        owner : Candidates \cup {Old}, ownerEpoch : Epochs]
      BY SavedType
    <3> QED BY ONLY <3>1, <3>2, c \in Candidates
  <2>2. strayWins' \subseteq claims' /\ claims' \subseteq Epochs \X Candidates
    BY <1>3 DEF TypeOK, Win, WonEpoch
  <2> QED BY <1>3, <2>1, <2>2 DEF TypeOK, Win, WonEpoch
<1>4. ASSUME NEW c \in Candidates, NEW m \in msgs, CountVote(c, m) PROVE TypeOK'
  <2>1. MaxOf(currentEpoch[c], m.epoch) \in Epochs
    BY MaxOfEpochs DEF TypeOK
  <2>2. auth' \in [Candidates -> [phase : {"none", "delay", "asked"},
                                  epoch : Epochs, count : Nat]]
    <3>1. auth[c] \in [phase : {"none", "delay", "asked"}, epoch : Epochs, count : Nat]
      BY DEF TypeOK
    <3>2. [auth[c] EXCEPT !.count = @ + 1] \in [phase : {"none", "delay", "asked"},
                                                epoch : Epochs, count : Nat]
      BY <3>1
    <3> QED BY <1>4, <3>2 DEF TypeOK, CountVote
  <2>3. currentEpoch' \in [Nodes -> Epochs]
    BY <1>4, <2>1 DEF TypeOK, CountVote, Receive
  <2> QED BY <1>4, <2>2, <2>3 DEF TypeOK, CountVote, Receive
<1>5. ASSUME NEW v \in Voters, NEW m \in msgs, Vote(v, m) PROVE TypeOK'
  <2> m.from \in Candidates
    BY <1>5 DEF Vote, MsgInv
  <2>1. MaxOf(currentEpoch[v], m.epoch) \in Epochs
    BY MaxOfEpochs DEF TypeOK
  <2>2. Ack(v, m.from, m.epoch) \in [type : {"REQUEST", "ACK"}, from : Nodes, to : Nodes,
                                     epoch : Epochs, cfg : Epochs]
    BY DEF TypeOK, Ack, Epochs
  <2> QED BY <1>5, <2>1, <2>2 DEF TypeOK, Vote
<1>6. ASSUME NEW n \in Nodes, Restart(n) PROVE TypeOK'
  <2>1. MaxOf(disk[n].current, disk[n].ownerEpoch) \in Epochs
    BY MaxOfEpochs DEF TypeOK
  <2> QED BY <1>6, <2>1 DEF TypeOK, Restart, NoAuth, Epochs
<1>61. ASSUME NEW n \in Nodes, BeforeSleep(n) PROVE TypeOK'
  BY <1>61, SavedType DEF TypeOK, BeforeSleep, view
<1>7. ASSUME NEW n \in Nodes, NEW k \in claims, Learn(n, k) PROVE TypeOK'
  <2>1. MaxOf(currentEpoch[n], k[1]) \in Epochs
    BY MaxOfEpochs DEF TypeOK
  <2> QED BY <1>7, <2>1 DEF TypeOK, Learn, Epochs, history
<1>8. ASSUME NEW n \in Nodes, NEW o \in Nodes, Hear(n, o) PROVE TypeOK'
  BY <1>8 DEF TypeOK, Hear, history
<1>9. CASE UNCHANGED vars
  BY <1>9 DEF TypeOK, vars, view, history
<1> QED BY <1>1, <1>2, <1>3, <1>4, <1>5, <1>6, <1>61, <1>7, <1>8, <1>9 DEF Next

(***************************************************************************)
(* Messages.                                                               *)
(***************************************************************************)
LEMMA MsgStep == TypeOK /\ MsgInv /\ [Next]_vars => MsgInv'
<1> SUFFICES ASSUME TypeOK, MsgInv, [Next]_vars PROVE MsgInv'
  OBVIOUS
<1>1. ASSUME NEW c \in Candidates, AskVotes(c) PROVE MsgInv'
  <2>1. \A m \in msgs' : m \in msgs \/ (m.type = "REQUEST" /\ m.from = c /\ m.to \in Voters)
    BY <1>1 DEF AskVotes, Request
  <2> QED BY <1>1, <2>1 DEF MsgInv, AskVotes, history
<1>2. ASSUME NEW v \in Voters, NEW m \in msgs, Vote(v, m) PROVE MsgInv'
  <2>1. m.from \in Candidates
    BY <1>2 DEF Vote, MsgInv
  <2>2. \A x \in msgs' : \/ x \in msgs
                         \/ /\ x.type = "ACK" /\ x.from = v /\ x.to = m.from
                            /\ x.epoch = m.epoch /\ x.cfg = 0
    BY <1>2 DEF Vote, Ack
  <2>3. <<v, m.epoch, m.from>> \in votes' /\ votes \subseteq votes'
    BY <1>2 DEF Vote
  <2> QED BY <2>1, <2>2, <2>3 DEF MsgInv
<1>3. ASSUME msgs' \subseteq msgs, votes' = votes PROVE MsgInv'
  BY <1>3 DEF MsgInv
<1>4. ASSUME NEW c \in Candidates, \/ ScheduleElection(c) \/ Win(c)
                                   \/ \E m \in msgs : CountVote(c, m)
      PROVE MsgInv'
  BY <1>3, <1>4 DEF ScheduleElection, Win, CountVote, Receive
<1>5. ASSUME NEW n \in Nodes, \/ BeforeSleep(n) \/ Restart(n)
                              \/ \E k \in claims : Learn(n, k)
                              \/ \E o \in Nodes : Hear(n, o)
      PROVE MsgInv'
  BY <1>3, <1>5 DEF BeforeSleep, Restart, Learn, Hear, history
<1>6. CASE UNCHANGED vars
  BY <1>3, <1>6 DEF vars, history
<1> QED BY <1>1, <1>2, <1>4, <1>5, <1>6 DEF Next

(***************************************************************************)
(* Votes.                                                                  *)
(***************************************************************************)

\* A voter that gives its vote has no vote of that epoch but those forgotten.
LEMMA FirstVote ==
    ASSUME TypeOK, VoterInv, NEW v \in Voters, NEW m \in msgs, Vote(v, m)
    PROVE  /\ m.epoch \in Nat /\ lastVoteEpoch[v] < m.epoch
           /\ MaxOf(currentEpoch[v], m.epoch) = m.epoch
           /\ \A x \in votes : x[1] = v /\ <<x[1], x[2]>> \notin forgot => x[2] < m.epoch
<1>1. m.epoch \in Nat /\ currentEpoch[v] \in Nat /\ lastVoteEpoch[v] \in Nat
  BY DEF TypeOK, Epochs, Nodes
<1>2. currentEpoch[v] <= m.epoch /\ lastVoteEpoch[v] # m.epoch /\ lastVoteEpoch[v] <= currentEpoch[v]
  BY DEF Vote, MayVote, VoterInv
<1>3. lastVoteEpoch[v] < m.epoch /\ MaxOf(currentEpoch[v], m.epoch) = m.epoch
  BY <1>1, <1>2 DEF MaxOf
<1>4. ASSUME NEW x \in votes, x[1] = v, <<x[1], x[2]>> \notin forgot PROVE x[2] < m.epoch
  <2>1. x[2] \in Nat /\ x[2] <= lastVoteEpoch[v]
    BY <1>4 DEF TypeOK, VoterInv, VoteKept, Epochs
  <2> QED BY <1>1, <1>3, <2>1
<1> QED BY <1>1, <1>3, <1>4

LEMMA VoterStep == TypeOK /\ VoterInv /\ [Next]_vars => VoterInv'
<1> SUFFICES ASSUME TypeOK, VoterInv, [Next]_vars PROVE VoterInv'
  OBVIOUS
<1> USE ElectionConstants DEF Nodes
<1>0. /\ \A n \in Nodes : /\ currentEpoch[n] \in Nat /\ disk[n].current \in Nat
                          /\ disk[n].voted \in Nat /\ disk[n].ownerEpoch \in Nat
      /\ \A v \in Voters : lastVoteEpoch[v] \in Nat
      /\ \A x \in votes : x[1] \in Voters /\ x[2] \in Nat
  BY DEF TypeOK, Epochs
<1>1. ASSUME UNCHANGED <<lastVoteEpoch, votes, unsaved, forgot>>,
             \A v \in Voters : /\ currentEpoch'[v] >= currentEpoch[v] /\ currentEpoch'[v] \in Nat
                               /\ disk'[v] = disk[v]
      PROVE  VoterInv'
  BY <1>0, <1>1 DEF VoterInv, VoterVotesOnce, VoteKept
<1>2. ASSUME NEW c \in Candidates, ScheduleElection(c) \/ AskVotes(c) \/ Win(c) PROVE VoterInv'
  <2>1. \A v \in Voters : v # c
    OBVIOUS
  <2>2. UNCHANGED <<lastVoteEpoch, votes, unsaved, forgot>>
    BY <1>2 DEF ScheduleElection, AskVotes, Win, view, history
  <2>3. \A v \in Voters : currentEpoch'[v] = currentEpoch[v] /\ disk'[v] = disk[v]
    BY <1>2, <2>1 DEF ScheduleElection, AskVotes, Win, TypeOK, view
  <2> QED BY <1>0, <1>1, <2>2, <2>3
<1>3. ASSUME NEW c \in Candidates, NEW m \in msgs, CountVote(c, m) PROVE VoterInv'
  <2>1. \A v \in Voters : v # c
    OBVIOUS
  <2> QED BY <1>0, <1>1, <1>3, <2>1 DEF CountVote, Receive, TypeOK
<1>4. ASSUME NEW v \in Voters, NEW m \in msgs, Vote(v, m) PROVE VoterInv'
  <2>1. /\ m.epoch \in Nat /\ lastVoteEpoch[v] < m.epoch
        /\ MaxOf(currentEpoch[v], m.epoch) = m.epoch
        /\ \A x \in votes : x[1] = v /\ <<x[1], x[2]>> \notin forgot => x[2] < m.epoch
    BY <1>4, FirstVote
  <2>2. /\ \A w \in Voters : /\ w # v => /\ lastVoteEpoch'[w] = lastVoteEpoch[w]
                                         /\ currentEpoch'[w] = currentEpoch[w]
                             /\ w = v => lastVoteEpoch'[w] = m.epoch /\ currentEpoch'[w] = m.epoch
        /\ UNCHANGED <<disk, forgot>>
    BY <1>4, <2>1 DEF Vote, TypeOK
  <2>3. votes' = votes \cup {<<v, m.epoch, m.from>>} /\ unsaved' = unsaved \cup {<<v, m.epoch>>}
    BY <1>4 DEF Vote
  <2>4. \A w \in Voters : /\ lastVoteEpoch'[w] <= currentEpoch'[w]
                          /\ disk'[w].voted <= lastVoteEpoch'[w]
                          /\ disk'[w].voted <= disk'[w].current
    BY <1>0, <2>1, <2>2 DEF VoterInv
  <2>5. ASSUME NEW x \in votes' PROVE VoteKept(x)'
    <3>1. CASE x \in votes
      BY <1>0, <2>1, <2>2, <2>3, <3>1 DEF VoterInv, VoteKept
    <3>2. CASE x = <<v, m.epoch, m.from>>
      BY <2>1, <2>2, <2>3, <3>2 DEF VoteKept
    <3> QED BY <2>3, <3>1, <3>2
  <2>6. VoterVotesOnce'
    BY <1>0, <2>1, <2>2, <2>3 DEF VoterInv, VoterVotesOnce
  <2> QED BY <2>4, <2>5, <2>6 DEF VoterInv
<1>5. ASSUME NEW n \in Nodes, BeforeSleep(n) PROVE VoterInv'
  <2>1. /\ \A v \in Voters : /\ v # n => disk'[v] = disk[v]
                             /\ v = n => /\ disk'[v].voted = lastVoteEpoch[v]
                                         /\ disk'[v].current = currentEpoch[v]
        /\ UNCHANGED <<lastVoteEpoch, currentEpoch, votes, forgot>>
        /\ \A x \in unsaved : x[1] # n => x \in unsaved'
    BY <1>5 DEF BeforeSleep, Saved, view, TypeOK
  <2>2. \A x \in votes : VoteKept(x)'
    BY <1>0, <2>1 DEF VoterInv, VoteKept
  <2>3. \A v \in Voters : /\ lastVoteEpoch'[v] <= currentEpoch'[v]
                          /\ disk'[v].voted <= lastVoteEpoch'[v]
                          /\ disk'[v].voted <= disk'[v].current
    BY <1>0, <2>1 DEF VoterInv
  <2> QED BY <2>1, <2>2, <2>3 DEF VoterInv, VoterVotesOnce
<1>6. ASSUME NEW n \in Nodes, Restart(n) PROVE VoterInv'
  <2>1. /\ \A v \in Voters : /\ v # n => /\ lastVoteEpoch'[v] = lastVoteEpoch[v]
                                         /\ currentEpoch'[v] = currentEpoch[v]
                             /\ v = n => /\ lastVoteEpoch'[v] = disk[v].voted
                                         /\ currentEpoch'[v] = MaxOf(disk[v].current, disk[v].ownerEpoch)
        /\ UNCHANGED <<disk, votes>>
        /\ forgot \subseteq forgot'
        /\ \A x \in unsaved : IF x[1] = n THEN x \in forgot' ELSE x \in unsaved'
    BY <1>6 DEF Restart, TypeOK
  <2>2. \A x \in votes : VoteKept(x)'
    BY <1>0, <2>1 DEF VoterInv, VoteKept
  <2>3. \A v \in Voters : MaxOf(disk[v].current, disk[v].ownerEpoch) >= disk[v].current
    BY <1>0, MaxOfTwo
  <2>4. \A v \in Voters : MaxOf(disk[v].current, disk[v].ownerEpoch) \in Nat
    BY <1>0 DEF MaxOf
  <2>5. \A v \in Voters : /\ lastVoteEpoch'[v] <= currentEpoch'[v]
                          /\ disk'[v].voted <= lastVoteEpoch'[v]
                          /\ disk'[v].voted <= disk'[v].current
    BY <1>0, <2>1, <2>3, <2>4 DEF VoterInv
  <2> QED BY <2>1, <2>2, <2>5 DEF VoterInv, VoterVotesOnce
<1>7. ASSUME NEW n \in Nodes, NEW k \in claims, Learn(n, k) PROVE VoterInv'
  <2>1. k[1] \in Nat
    BY DEF TypeOK, Epochs
  <2>2. MaxOf(currentEpoch[n], k[1]) >= currentEpoch[n] /\ MaxOf(currentEpoch[n], k[1]) \in Nat
    BY <1>0, <2>1, MaxOfTwo
  <2> QED BY <1>0, <1>1, <1>7, <2>2 DEF Learn, TypeOK, history
<1>8. ASSUME NEW n \in Nodes, NEW o \in Nodes, Hear(n, o) PROVE VoterInv'
  BY <1>0, <1>1, <1>8 DEF Hear, TypeOK, history
<1>9. CASE UNCHANGED vars
  BY <1>0, <1>1, <1>9 DEF vars, view, history
<1> QED BY <1>2, <1>3, <1>4, <1>5, <1>6, <1>7, <1>8, <1>9 DEF Next

\* A step that neither counts a vote for c nor sends one to it leaves its tally
\* alone.
LEMMA TallyQuiet ==
    ASSUME NEW c \in Candidates, TypeOK, auth'[c] = auth[c], votes \subseteq votes',
           \A m \in msgs' : m \in msgs \/ m.to # c,
           NEW S, Tallied(c, S)
    PROVE  Tallied(c, S)'
<1>1. \A v \in S : Ack(v, c, auth[c].epoch).to = c
  BY DEF Ack
<1> QED BY <1>1 DEF Tallied, Ack

LEMMA TallyStep ==
    TypeOK /\ MsgInv /\ VoterInv /\ TallyInv /\ [Next]_vars => TallyInv'
<1> SUFFICES ASSUME TypeOK, MsgInv, VoterInv, TallyInv, [Next]_vars,
                    NEW c \in Candidates, c \notin strays'
             PROVE  Counted(c)'
  BY DEF TallyInv
<1>0. votes \subseteq votes' /\ forgot \subseteq forgot'
  BY DEF Next, ScheduleElection, AskVotes, Win, CountVote, Vote, BeforeSleep, Restart, Learn, Hear,
         vars, history
<1>1. ASSUME auth'[c] = auth[c], c \notin strays, \A m \in msgs' : m \in msgs \/ m.to # c
      PROVE  Counted(c)'
  <2>0. Counted(c)
    BY <1>1 DEF TallyInv
  <2>1. ASSUME auth'[c].phase = "asked", Remembered(auth[c].epoch)'
        PROVE  \E S \in SUBSET Voters : Tallied(c, S)'
    <3>0. Remembered(auth[c].epoch)
      BY <1>0, <1>1, <2>1 DEF Remembered
    <3>1. PICK S \in SUBSET Voters : Tallied(c, S)
      BY <1>1, <2>0, <2>1, <3>0 DEF Counted
    <3>2. Tallied(c, S)'
      BY <1>0, <1>1, <3>1, TallyQuiet
    <3> QED BY <3>2
  <2> QED BY <1>1, <2>0, <2>1 DEF Counted
<1>2. ASSUME NEW d \in Candidates, ScheduleElection(d) PROVE Counted(c)'
  <2>1. CASE d = c
    BY <1>2, <2>1 DEF ScheduleElection, Scheduled, TypeOK, Counted
  <2>2. CASE d # c
    BY <1>1, <1>2, <2>2 DEF ScheduleElection, TypeOK
  <2> QED BY <2>1, <2>2
<1>3. ASSUME NEW d \in Candidates, AskVotes(d) PROVE Counted(c)'
  <2>1. \A m \in msgs' : m \in msgs \/ m.to # c
    BY <1>3, ElectionConstants DEF AskVotes, Request
  <2>2. c \notin strays
    BY <1>3 DEF AskVotes, history
  <2>3. CASE d = c
    <3>1. auth'[c].phase = "asked" /\ auth'[c].count = 0
      BY <1>3, <2>2, <2>3 DEF AskVotes, TypeOK, TallyInv, Counted
    <3>2. Tallied(c, {})'
      BY <3>1, FS_EmptySet DEF Tallied
    <3> QED BY <3>1, <3>2 DEF Counted
  <2>4. CASE d # c
    BY <1>1, <1>3, <2>1, <2>2, <2>4 DEF AskVotes, TypeOK
  <2> QED BY <2>3, <2>4
<1>4. ASSUME NEW d \in Candidates, Win(d) PROVE Counted(c)'
  BY <1>1, <1>4 DEF Win
<1>5. ASSUME NEW d \in Candidates, NEW m \in msgs, CountVote(d, m) PROVE Counted(c)'
  <2>1. CASE d # c \/ ~CountsVote(d, m)
    BY <1>1, <1>5, <2>1 DEF CountVote, Receive, TypeOK
  <2>2. CASE d = c /\ CountsVote(d, m)
    <3>1. /\ auth'[c].phase = auth[c].phase /\ auth'[c].epoch = auth[c].epoch
          /\ auth'[c].count = auth[c].count + 1
      BY <1>5, <2>2 DEF CountVote, TypeOK
    <3>2. m.type = "ACK" /\ m.to = c /\ msgs' = msgs \ {m} /\ votes' = votes /\ forgot' = forgot
      BY <1>5, <2>2 DEF CountVote, Receive
    <3>3. auth[c].phase = "asked" /\ m.epoch = auth[c].epoch /\ c \notin strays
      BY <1>5, <2>2 DEF CountVote, InTime
    <3>4. ASSUME Remembered(auth[c].epoch) PROVE \E S \in SUBSET Voters : Tallied(c, S)'
      <4>1. m.from \in Voters /\ <<m.from, auth[c].epoch, c>> \in votes /\ m.cfg = 0
        BY <3>2, <3>3 DEF MsgInv
      <4>2. m = Ack(m.from, c, auth[c].epoch)
        BY <3>2, <3>3, <4>1 DEF Ack, TypeOK
      <4>3. PICK S \in SUBSET Voters : Tallied(c, S)
        BY <3>3, <3>4 DEF TallyInv, Counted
      <4>4. m.from \notin S
        BY <4>2, <4>3 DEF Tallied
      <4>5. Cardinality(S \cup {m.from}) = Cardinality(S) + 1
        BY <4>4, FS_Subset, FS_AddElement, ElectionConstants
      <4>6. \A v \in S : Ack(v, c, auth[c].epoch) \notin msgs'
        BY <3>2, <4>3 DEF Tallied
      <4>7. Ack(m.from, c, auth[c].epoch) \notin msgs'
        BY <3>2, <4>2
      <4>8. Tallied(c, S \cup {m.from})'
        BY <3>1, <3>2, <4>1, <4>3, <4>5, <4>6, <4>7 DEF Tallied, Ack
      <4> QED BY <4>1, <4>8
    <3>5. Remembered(auth[c].epoch)' => Remembered(auth[c].epoch)
      BY <3>1, <3>2 DEF Remembered
    <3> QED BY <3>1, <3>3, <3>4, <3>5 DEF Counted
  <2> QED BY <2>1, <2>2
<1>6. ASSUME NEW v \in Voters, NEW m \in msgs, Vote(v, m) PROVE Counted(c)'
  <2>0. c \notin strays
    BY <1>6 DEF Vote
  <2>1. CASE m.from # c
    BY <1>1, <1>6, <2>0, <2>1 DEF Vote, Ack
  <2>2. CASE m.from = c
    <3>1. auth' = auth /\ forgot' = forgot /\ msgs' \subseteq msgs \cup {Ack(v, c, m.epoch)}
      BY <1>6, <2>2 DEF Vote
    <3>2. ASSUME auth[c].phase = "asked", Remembered(auth[c].epoch)
          PROVE  \E S \in SUBSET Voters : Tallied(c, S)'
      <4>1. PICK S \in SUBSET Voters : Tallied(c, S)
        BY <2>0, <3>2 DEF TallyInv, Counted
      <4>2. m.epoch \in Nat
            /\ \A x \in votes : x[1] = v /\ <<x[1], x[2]>> \notin forgot => x[2] < m.epoch
        BY <1>6, FirstVote
      <4>3. \A w \in S : Ack(w, c, auth[c].epoch) # Ack(v, c, m.epoch)
        <5> SUFFICES ASSUME NEW w \in S, Ack(w, c, auth[c].epoch) = Ack(v, c, m.epoch) PROVE FALSE
          OBVIOUS
        <5>1. w = v /\ m.epoch = auth[c].epoch
          BY DEF Ack
        <5>2. <<v, m.epoch, c>> \in votes
          BY <4>1, <5>1 DEF Tallied
        <5>3. <<v, m.epoch>> \notin forgot
          BY <3>2, <5>1 DEF Remembered
        <5> QED BY <4>2, <5>2, <5>3
      <4>4. \A w \in S : Ack(w, c, auth[c].epoch) \notin msgs'
        BY <3>1, <4>1, <4>3 DEF Tallied
      <4>5. Tallied(c, S)'
        BY <1>0, <3>1, <4>1, <4>4 DEF Tallied, Ack
      <4> QED BY <4>5
    <3>3. auth[c].phase = "delay" => auth[c].count = 0
      BY <2>0 DEF TallyInv, Counted
    <3> QED BY <3>1, <3>2, <3>3 DEF Counted, Remembered
  <2> QED BY <2>1, <2>2
<1>7. ASSUME NEW n \in Nodes, Restart(n) PROVE Counted(c)'
  <2>1. CASE n = c
    BY <1>7, <2>1 DEF Restart, NoAuth, Counted
  <2>2. CASE n # c
    BY <1>1, <1>7, <2>2 DEF Restart
  <2> QED BY <2>1, <2>2
<1>8. ASSUME NEW n \in Nodes, \/ BeforeSleep(n)
                              \/ \E k \in claims : Learn(n, k)
                              \/ \E o \in Nodes : Hear(n, o)
      PROVE Counted(c)'
  BY <1>1, <1>8 DEF BeforeSleep, Learn, Hear, history
<1>9. CASE UNCHANGED vars
  BY <1>1, <1>9 DEF vars, history
<1> QED BY <1>2, <1>3, <1>4, <1>5, <1>6, <1>7, <1>8, <1>9 DEF Next

(***************************************************************************)
(* Views.                                                                  *)
(***************************************************************************)
LEMMA MaxOfPositive ==
    ASSUME NEW a \in Nat, NEW b \in Nat, a >= 1 \/ b >= 1 PROVE MaxOf(a, b) >= 1
BY DEF MaxOf

\* A candidate still without its master's slots has not won.
LEMMA NotYetWon ==
    ASSUME TypeOK, ViewInv, ClaimsKept, NEW c \in Candidates, owner[c] = Old
    PROVE  ownerEpoch[c] = 1 /\ \A k \in claims : k[2] # c
<1>1. <<ownerEpoch[c], Old>> \notin claims
  BY ElectionConstants DEF TypeOK
<1>2. ownerEpoch[c] = 1
  BY <1>1 DEF ViewInv, Viewed, From, Nodes
<1>3. \A k \in claims : k[1] \in Nat /\ k[1] >= 2 /\ ownerEpoch[k[2]] >= k[1]
  BY DEF TypeOK, Epochs, ViewInv, ClaimsKept
<1> QED BY <1>2, <1>3

\* A step that leaves a node's view alone, in memory and on disk.
LEMMA ViewQuiet ==
    ASSUME NEW n \in Nodes, Viewed(n), claims \subseteq claims', currentEpoch'[n] >= 1,
           owner'[n] = owner[n], ownerEpoch'[n] = ownerEpoch[n], disk'[n] = disk[n]
    PROVE  Viewed(n)'
BY DEF Viewed, From, Behind

LEMMA ViewStep == TypeOK /\ ViewInv /\ ClaimsKept /\ [Next]_vars => ViewInv' /\ ClaimsKept'
<1> SUFFICES ASSUME TypeOK, ViewInv, ClaimsKept, [Next]_vars PROVE ViewInv' /\ ClaimsKept'
  OBVIOUS
<1> USE ElectionConstants DEF Nodes
<1>0. /\ \A n \in Nodes : /\ currentEpoch[n] \in Nat /\ ownerEpoch[n] \in Nat
                          /\ disk[n].current \in Nat /\ disk[n].ownerEpoch \in Nat
      /\ \A k \in claims : k[1] \in Nat /\ k[2] \in Candidates /\ k = <<k[1], k[2]>>
      /\ \A m \in msgs : m.epoch \in Nat
      /\ \A c \in Candidates : auth[c].epoch \in Nat
  BY DEF TypeOK, Epochs
<1>01. \A n \in Nodes : /\ currentEpoch[n] >= 1 /\ ownerEpoch[n] >= 1
                        /\ disk[n].current >= 1 /\ disk[n].ownerEpoch >= 1
  BY DEF ViewInv, Viewed
<1>1. ASSUME UNCHANGED <<owner, ownerEpoch, disk, claims>>,
             \A n \in Nodes : currentEpoch'[n] >= 1,
             \A c \in Candidates : auth'[c].phase = "asked" =>
                                     auth[c].phase = "asked" /\ auth'[c].epoch = auth[c].epoch
      PROVE  ViewInv' /\ ClaimsKept'
  <2>1. \A n \in Nodes : Viewed(n)'
    BY <1>1, ViewQuiet DEF ViewInv
  <2> QED BY <1>1, <2>1 DEF ViewInv, ClaimsKept
<1>2. ASSUME NEW c \in Candidates, ScheduleElection(c) PROVE ViewInv' /\ ClaimsKept'
  BY <1>01, <1>1, <1>2 DEF ScheduleElection, Scheduled, TypeOK, view
<1>3. ASSUME NEW c \in Candidates, AskVotes(c) PROVE ViewInv' /\ ClaimsKept'
  <2>1. \A d \in Candidates : /\ d = c => auth'[d].epoch = currentEpoch[c] + 1
                              /\ d # c => auth'[d] = auth[d]
    BY <1>3 DEF AskVotes, TypeOK
  <2>2. currentEpoch[c] \in Nat /\ currentEpoch[c] >= 1
    BY <1>0, <1>01
  <2>3. \A n \in Nodes : currentEpoch'[n] = IF n = c THEN currentEpoch[c] + 1 ELSE currentEpoch[n]
    BY <1>3 DEF AskVotes, TypeOK
  <2>4. \A n \in Nodes : currentEpoch'[n] >= 1
    BY <1>01, <2>2, <2>3
  <2>5. \A d \in Candidates : auth'[d].phase = "asked" => auth'[d].epoch >= 2
    BY <2>1, <2>2 DEF ViewInv
  <2>6. UNCHANGED <<owner, ownerEpoch, disk, claims>>
    BY <1>3 DEF AskVotes
  <2>7. \A n \in Nodes : Viewed(n)'
    BY <2>4, <2>6, ViewQuiet DEF ViewInv
  <2> QED BY <2>5, <2>6, <2>7 DEF ViewInv, ClaimsKept
<1>4. ASSUME NEW c \in Candidates, Win(c) PROVE ViewInv' /\ ClaimsKept'
  <2>1. auth[c].epoch >= 2 /\ auth[c].epoch \in Nat
    BY <1>0, <1>4 DEF Win, ViewInv
  <2>2. UNCHANGED <<auth, currentEpoch>> /\ claims' = claims \cup {<<auth[c].epoch, c>>}
    BY <1>4 DEF Win, WonEpoch
  <2>3. \A n \in Nodes : n # c => /\ owner'[n] = owner[n] /\ ownerEpoch'[n] = ownerEpoch[n]
                                  /\ disk'[n] = disk[n]
    BY <1>4 DEF Win, TypeOK
  <2>4. owner'[c] = c /\ ownerEpoch'[c] = auth[c].epoch
    BY <1>4 DEF Win, WonEpoch, TypeOK
  <2>5. /\ disk'[c].current = currentEpoch[c]
        /\ disk'[c].owner = c /\ disk'[c].ownerEpoch = auth[c].epoch
    BY <1>4 DEF Win, WonEpoch, Saved, TypeOK
  <2>6. Viewed(c)'
    BY <1>01, <2>1, <2>2, <2>4, <2>5 DEF Viewed, From, Behind
  <2>7. ASSUME NEW n \in Nodes, n # c PROVE Viewed(n)'
    BY <1>01, <2>2, <2>3, <2>7, ViewQuiet DEF ViewInv
  <2>8. \A k \in claims' : k[1] >= 2
    BY <2>1, <2>2 DEF ViewInv
  <2>9. \A k \in claims : k[2] # c
    BY <1>4, NotYetWon DEF Win, MayFailover
  <2>10. ClaimsKept'
    BY <1>0, <2>1, <2>2, <2>3, <2>4, <2>5, <2>9 DEF ClaimsKept
  <2> QED BY <2>2, <2>6, <2>7, <2>8, <2>10 DEF ViewInv
<1>5. ASSUME NEW c \in Candidates, NEW m \in msgs, CountVote(c, m) PROVE ViewInv' /\ ClaimsKept'
  <2>1. MaxOf(currentEpoch[c], m.epoch) >= 1
    BY <1>0, <1>01, MaxOfPositive
  <2>2. \A n \in Nodes : currentEpoch'[n] >= 1
    BY <1>01, <1>5, <2>1 DEF CountVote, Receive, TypeOK
  <2>3. \A d \in Candidates : auth'[d].phase = auth[d].phase /\ auth'[d].epoch = auth[d].epoch
    BY <1>5 DEF CountVote, TypeOK
  <2> QED BY <1>1, <1>5, <2>2, <2>3 DEF CountVote
<1>6. ASSUME NEW v \in Voters, NEW m \in msgs, Vote(v, m) PROVE ViewInv' /\ ClaimsKept'
  <2>1. MaxOf(currentEpoch[v], m.epoch) >= 1
    BY <1>0, <1>01, MaxOfPositive
  <2>2. \A n \in Nodes : currentEpoch'[n] >= 1
    BY <1>01, <1>6, <2>1 DEF Vote, TypeOK
  <2> QED BY <1>1, <1>6, <2>2 DEF Vote
<1>7. ASSUME NEW n \in Nodes, Restart(n) PROVE ViewInv' /\ ClaimsKept'
  <2>1. MaxOf(disk[n].current, disk[n].ownerEpoch) >= 1
    BY <1>0, <1>01, MaxOfPositive
  <2>2. /\ currentEpoch'[n] = MaxOf(disk[n].current, disk[n].ownerEpoch)
        /\ owner'[n] = disk[n].owner /\ ownerEpoch'[n] = disk[n].ownerEpoch
        /\ UNCHANGED <<disk, claims>>
    BY <1>7 DEF Restart, TypeOK
  <2>3. \A o \in Nodes : o # n => /\ currentEpoch'[o] = currentEpoch[o]
                                  /\ owner'[o] = owner[o] /\ ownerEpoch'[o] = ownerEpoch[o]
    BY <1>7 DEF Restart, TypeOK
  <2>4. Viewed(n)'
    BY <1>01, <2>1, <2>2 DEF ViewInv, Viewed, From, Behind
  <2>5. ASSUME NEW o \in Nodes, o # n PROVE Viewed(o)'
    BY <1>01, <2>2, <2>3, <2>5, ViewQuiet DEF ViewInv
  <2>6. \A c \in Candidates : auth'[c] = auth[c] \/ auth'[c].phase = "none"
    BY <1>7 DEF Restart, NoAuth
  <2>7. ClaimsKept'
    BY <1>0, <2>2, <2>3 DEF ClaimsKept
  <2> QED BY <2>2, <2>4, <2>5, <2>6, <2>7 DEF ViewInv
<1>8. ASSUME NEW n \in Nodes, BeforeSleep(n) PROVE ViewInv' /\ ClaimsKept'
  <2>1. /\ disk'[n].current = currentEpoch[n]
        /\ disk'[n].owner = owner[n] /\ disk'[n].ownerEpoch = ownerEpoch[n]
    BY <1>8 DEF BeforeSleep, Saved, TypeOK
  <2>2. /\ \A o \in Nodes : o # n => disk'[o] = disk[o]
        /\ UNCHANGED <<currentEpoch, owner, ownerEpoch, claims, auth>>
    BY <1>8 DEF BeforeSleep, view, TypeOK
  <2>3. Viewed(n)'
    BY <1>01, <2>1, <2>2 DEF ViewInv, Viewed, From, Behind
  <2>4. ASSUME NEW o \in Nodes, o # n PROVE Viewed(o)'
    BY <1>01, <2>2, <2>4, ViewQuiet DEF ViewInv
  <2>5. ClaimsKept'
    BY <1>0, <2>1, <2>2 DEF ClaimsKept
  <2> QED BY <2>2, <2>3, <2>4, <2>5 DEF ViewInv
<1>9. ASSUME NEW n \in Nodes, NEW k \in claims, Learn(n, k) PROVE ViewInv' /\ ClaimsKept'
  <2>1. MaxOf(currentEpoch[n], k[1]) >= 1
    BY <1>0, <1>01, MaxOfPositive
  <2>2. /\ currentEpoch'[n] = MaxOf(currentEpoch[n], k[1])
        /\ owner'[n] = k[2] /\ ownerEpoch'[n] = k[1]
        /\ UNCHANGED <<disk, claims, auth>> /\ ownerEpoch[n] < k[1]
    BY <1>9 DEF Learn, Newer, TypeOK
  <2>3. \A o \in Nodes : o # n => /\ currentEpoch'[o] = currentEpoch[o]
                                  /\ owner'[o] = owner[o] /\ ownerEpoch'[o] = ownerEpoch[o]
    BY <1>9 DEF Learn, TypeOK
  <2>4. k[1] \in Nat /\ <<k[1], k[2]>> \in claims
    BY <1>0
  <2>5. Viewed(n)'
    <3>1. disk[n].ownerEpoch < k[1]
      BY <1>0, <2>2, <2>4 DEF ViewInv, Viewed, Behind
    <3>2. k[1] >= 1
      BY <2>4 DEF ViewInv
    <3> QED BY <1>01, <2>1, <2>2, <2>4, <3>1, <3>2 DEF ViewInv, Viewed, From, Behind
  <2>6. ASSUME NEW o \in Nodes, o # n PROVE Viewed(o)'
    BY <1>01, <2>2, <2>3, <2>6, ViewQuiet DEF ViewInv
  <2>7. ClaimsKept'
    BY <1>0, <2>2, <2>3, <2>4 DEF ClaimsKept
  <2> QED BY <2>2, <2>5, <2>6, <2>7 DEF ViewInv
<1>10. ASSUME NEW n \in Nodes, NEW o \in Nodes, Hear(n, o) PROVE ViewInv' /\ ClaimsKept'
  BY <1>01, <1>1, <1>10 DEF Hear, TypeOK
<1>11. CASE UNCHANGED vars
  BY <1>01, <1>1, <1>11 DEF vars, view
<1> QED BY <1>2, <1>3, <1>4, <1>5, <1>6, <1>7, <1>8, <1>9, <1>10, <1>11 DEF Next

(***************************************************************************)
(* Majorities.                                                             *)
(***************************************************************************)
VotersFor(x) == {v \in Voters : <<v, x[1], x[2]>> \in votes}

LEMMA QuorumStep == TypeOK /\ TallyInv /\ WinnerHasQuorum /\ [Next]_vars => WinnerHasQuorum'
<1> SUFFICES ASSUME TypeOK, TallyInv, WinnerHasQuorum, [Next]_vars,
                    NEW x \in claims', x \notin strayWins', Remembered(x[1])'
             PROVE  2 * Cardinality(VotersFor(x)') > Cardinality(Voters) + 1
  BY DEF WinnerHasQuorum, VotersFor
<1>1. votes \subseteq votes' /\ forgot \subseteq forgot' /\ strayWins \subseteq strayWins'
  BY DEF Next, ScheduleElection, AskVotes, Win, CountVote, Vote, BeforeSleep, Restart, Learn, Hear,
         vars, history
<1>2. Cardinality(Voters) \in Nat /\ Remembered(x[1]) /\ x \notin strayWins
  BY <1>1, FS_CardinalityType, ElectionConstants DEF Remembered
<1>3. ASSUME NEW S \in SUBSET VotersFor(x)', 2 * Cardinality(S) > Cardinality(Voters) + 1
      PROVE  2 * Cardinality(VotersFor(x)') > Cardinality(Voters) + 1
  <2>1. VotersFor(x)' \subseteq Voters
    BY DEF VotersFor
  <2>2. IsFiniteSet(VotersFor(x)')
    BY <2>1, FS_Subset, ElectionConstants
  <2>3. IsFiniteSet(S) /\ Cardinality(S) <= Cardinality(VotersFor(x)')
    BY <2>2, FS_Subset
  <2>4. Cardinality(S) \in Nat /\ Cardinality(VotersFor(x)') \in Nat
    BY <2>2, <2>3, FS_CardinalityType
  <2> QED BY <1>2, <1>3, <2>3, <2>4
<1>4. CASE x \in claims
  <2>1. 2 * Cardinality(VotersFor(x)) > Cardinality(Voters) + 1
    BY <1>2, <1>4 DEF WinnerHasQuorum, VotersFor
  <2>2. VotersFor(x) \subseteq VotersFor(x)'
    BY <1>1 DEF VotersFor
  <2> QED BY <1>3, <2>1, <2>2
<1>5. CASE x \notin claims
  <2>1. PICK c \in Candidates : Win(c)
    BY <1>5 DEF Next, ScheduleElection, AskVotes, CountVote, Vote, BeforeSleep, Restart, Learn, Hear, vars
  <2>2. x = <<auth[c].epoch, c>> /\ auth[c].phase = "asked" /\ auth[c].count >= needed_quorum
    BY <1>5, <2>1 DEF Win, WonEpoch
  <2>3. c \notin strays
    BY <2>1, <2>2 DEF Win, WonEpoch
  <2>4. PICK S \in SUBSET Voters : Tallied(c, S)
    BY <1>2, <2>2, <2>3 DEF TallyInv, Counted
  <2>5. S \in SUBSET VotersFor(x)'
    BY <1>1, <2>2, <2>4 DEF Tallied, VotersFor
  <2>6. Cardinality(S) \in Nat
    BY FS_Subset, FS_CardinalityType, ElectionConstants
  <2>7. 2 * Cardinality(S) > Cardinality(Voters) + 1
    BY <1>2, <2>2, <2>4, <2>6 DEF Tallied, needed_quorum
  <2> QED BY <1>3, <2>5, <2>7
<1> QED BY <1>4, <1>5

\* Two winners of an epoch have a voter in common, who voted once.
LEMMA OneWinner ==
    ASSUME TypeOK, VoterVotesOnce, WinnerHasQuorum, NEW x \in claims, NEW y \in claims,
           x \notin strayWins, y \notin strayWins, x[1] = y[1], Remembered(x[1])
    PROVE  x[2] = y[2]
<1>1. VotersFor(x) \subseteq Voters /\ VotersFor(y) \subseteq Voters
  BY DEF VotersFor
<1>2. 2 * Cardinality(VotersFor(x)) > Cardinality(Voters) + 1 /\ 2 * Cardinality(VotersFor(y)) > Cardinality(Voters) + 1
  BY DEF WinnerHasQuorum, VotersFor
<1>3. IsFiniteSet(VotersFor(x)) /\ IsFiniteSet(VotersFor(y))
  BY <1>1, FS_Subset, ElectionConstants
<1>4. /\ Cardinality(Voters) \in Nat
      /\ Cardinality(VotersFor(x)) \in Nat /\ Cardinality(VotersFor(y)) \in Nat
  BY <1>3, FS_CardinalityType, ElectionConstants
<1>5. Cardinality(VotersFor(x)) + Cardinality(VotersFor(y)) > Cardinality(Voters)
  BY <1>2, <1>4
<1>6. VotersFor(x) \cap VotersFor(y) # {}
  BY <1>1, <1>5, FS_MajoritiesIntersect, ElectionConstants
<1>7. PICK v \in Voters : <<v, x[1], x[2]>> \in votes /\ <<v, y[1], y[2]>> \in votes
  BY <1>6 DEF VotersFor
<1> QED BY <1>7 DEF VoterVotesOnce, Remembered

(***************************************************************************)
(* The theorems.                                                           *)
(***************************************************************************)
LEMMA InitInv == Init => IInv
<1> SUFFICES ASSUME Init PROVE IInv
  OBVIOUS
<1>1. MsgInv /\ WinnerHasQuorum /\ ClaimsKept
  BY DEF Init, MsgInv, WinnerHasQuorum, ClaimsKept
<1>2. VoterInv
  BY DEF Init, VoterInv, VoterVotesOnce, Nodes
<1>3. TallyInv
  BY DEF Init, TallyInv, Counted, NoAuth
<1>4. ViewInv
  BY DEF Init, ViewInv, Viewed, From, Behind, NoAuth
<1> QED BY <1>1, <1>2, <1>3, <1>4, TypeInit DEF IInv

LEMMA NextInv == IInv /\ [Next]_vars => IInv'
BY TypeStep, MsgStep, VoterStep, TallyStep, ViewStep, QuorumStep DEF IInv

LEMMA InvCorrect == Spec => []IInv
BY InitInv, NextInv, PTL DEF Spec

\* "It is not possible that different slaves get the same config epoch during a
\* failover election" (cluster_legacy.c:1749), for any number of masters and
\* replicas, of the winners that counted no vote for another election, in an
\* epoch of which no vote was forgotten.
THEOREM EpochHasOneWinner == Spec => []OneWinnerPerEpoch
<1>1. IInv => OneWinnerPerEpoch
  BY OneWinner DEF IInv, VoterInv, OneWinnerPerEpoch
<1> QED BY <1>1, InvCorrect, PTL

\* Single votes, a majority behind every winner, one master for an epoch in
\* every view, each where no vote was late or forgotten, and winners that keep
\* what they claimed whatever is late or forgotten.
THEOREM ElectionsAreSound == Spec => []ElectionsSound
<1>1. IInv => OwnersAgree
  <2> SUFFICES ASSUME IInv, NEW m \in Nodes, NEW n \in Nodes, ownerEpoch[m] = ownerEpoch[n],
                      Remembered(ownerEpoch[m]),
                      <<ownerEpoch[m], owner[m]>> \notin strayWins,
                      <<ownerEpoch[n], owner[n]>> \notin strayWins
               PROVE  owner[m] = owner[n]
    BY DEF OwnersAgree
  <2>1. From(owner[m], ownerEpoch[m]) /\ From(owner[n], ownerEpoch[n])
    BY DEF IInv, ViewInv, Viewed
  <2>2. CASE ownerEpoch[m] = 1
    <3>1. \A k \in claims : k[1] # 1
      BY DEF IInv, ViewInv
    <3> QED BY <2>1, <2>2, <3>1 DEF From
  <2>3. CASE ownerEpoch[m] # 1
    <3>1. <<ownerEpoch[m], owner[m]>> \in claims /\ <<ownerEpoch[n], owner[n]>> \in claims
      BY <2>1, <2>3 DEF From
    <3> QED BY <3>1, OneWinner DEF IInv, VoterInv
  <2> QED BY <2>2, <2>3
<1>2. IInv => ElectionsSound
  BY <1>1 DEF IInv, VoterInv, ElectionsSound
<1> QED BY <1>2, InvCorrect, PTL

\* The epoch of the owner in every node's view grows with every change of the
\* owner (clusterUpdateSlotsConfigWith, clusterFailoverReplaceYourMaster); only
\* a crash takes it back, to what was saved last, and that never goes back.
THEOREM EpochOfOwnerGrows == Spec => OwnerEpochGrows
<1> DEFINE Grows(n) ==
       /\ \/ ownerEpoch'[n] > ownerEpoch[n]
          \/ ownerEpoch'[n] = ownerEpoch[n] /\ owner'[n] = owner[n]
          \/ /\ crashes' > crashes
             /\ ownerEpoch'[n] = disk[n].ownerEpoch /\ owner'[n] = disk[n].owner
       /\ \/ disk'[n].ownerEpoch > disk[n].ownerEpoch
          \/ disk'[n].ownerEpoch = disk[n].ownerEpoch /\ disk'[n].owner = disk[n].owner
<1>1. ASSUME IInv, [Next]_vars, NEW n \in Nodes PROVE Grows(n)
  <2>0. /\ \A o \in Nodes : ownerEpoch[o] \in Nat /\ disk[o].ownerEpoch \in Nat
        /\ \A k \in claims : k[1] \in Nat
        /\ \A c \in Candidates : auth[c].epoch \in Nat
        /\ crashes \in Nat
    BY <1>1 DEF IInv, TypeOK, Epochs
  <2>1. ASSUME NEW c \in Candidates, Win(c) PROVE Grows(n)
    <3>1. auth[c].epoch >= 2
      BY <1>1, <2>1 DEF Win, IInv, ViewInv
    <3>2. ownerEpoch[c] = 1
      BY <1>1, <2>1, NotYetWon DEF IInv, Win, MayFailover
    <3>3. disk[c].ownerEpoch <= 1
      BY <1>1, <2>0, <3>2 DEF IInv, ViewInv, Viewed, Behind, Nodes
    <3>4. n # c => owner'[n] = owner[n] /\ ownerEpoch'[n] = ownerEpoch[n] /\ disk'[n] = disk[n]
      BY <1>1, <2>1 DEF Win, IInv, TypeOK
    <3>5. n = c => ownerEpoch'[n] = auth[c].epoch /\ disk'[n].ownerEpoch = auth[c].epoch
      BY <1>1, <2>1 DEF Win, WonEpoch, Saved, IInv, TypeOK
    <3> QED BY <2>0, <3>1, <3>2, <3>3, <3>4, <3>5
  <2>2. ASSUME NEW o \in Nodes, NEW k \in claims, Learn(o, k) PROVE Grows(n)
    BY <1>1, <2>0, <2>2 DEF Learn, Newer, IInv, TypeOK
  <2>3. ASSUME NEW o \in Nodes, Restart(o) PROVE Grows(n)
    BY <1>1, <2>0, <2>3 DEF Restart, IInv, TypeOK
  <2>4. ASSUME NEW o \in Nodes, BeforeSleep(o) PROVE Grows(n)
    <3>1. UNCHANGED <<owner, ownerEpoch>> /\ (n # o => disk'[n] = disk[n])
      BY <1>1, <2>4 DEF BeforeSleep, view, IInv, TypeOK
    <3>2. n = o => disk'[n].ownerEpoch = ownerEpoch[n] /\ disk'[n].owner = owner[n]
      BY <1>1, <2>4 DEF BeforeSleep, Saved, IInv, TypeOK
    <3>3. Behind(n)
      BY <1>1 DEF IInv, ViewInv, Viewed
    <3> QED BY <2>0, <3>1, <3>2, <3>3 DEF Behind
  <2>5. CASE UNCHANGED <<owner, ownerEpoch, disk>>
    BY <2>5
  <2>6. \/ UNCHANGED <<owner, ownerEpoch, disk>>
        \/ \E c \in Candidates : Win(c)
        \/ \E o \in Nodes : BeforeSleep(o) \/ Restart(o) \/ \E k \in claims : Learn(o, k)
    BY <1>1 DEF Next, ScheduleElection, AskVotes, CountVote, Vote, Hear, vars, view
  <2> QED BY <2>1, <2>2, <2>3, <2>4, <2>5, <2>6
<1> HIDE DEF Grows
<1>2. IInv /\ [Next]_vars => [\A n \in Nodes : Grows(n)]_vars
  BY <1>1
<1>3. Spec => [][\A n \in Nodes : Grows(n)]_vars
  BY <1>2, InitInv, NextInv, PTL DEF Spec
<1> USE DEF Grows
<1> QED BY <1>3 DEF OwnerEpochGrows
=============================================================================
