----------------------------- MODULE DirectChat -----------------------------
(***************************************************************************)
(* The direct conversation of two users, and what they send in it:         *)
(* createDMConversation, sendMessage with updateConversationIndex, and     *)
(* deleteMessageForMe of services/messageService.js.  Every await is a     *)
(* step.  A message is its place in the order of insertion.  Init, Next    *)
(* and Spec have the prefix DM, for Messaging_proofs takes GroupChat too.  *)
(***************************************************************************)
EXTENDS Integers, FiniteSets

CONSTANTS
  Pair,      \* the two of them
  Convs,      \* the conversations that may come to be
  None,
  MaxMsgs, MaxFails   \* bounds

\* What a user may have under way: the step that comes next, and what the
\* operation has read so far.
Doing ==
  [step : {"search", "insert"}, candidates : SUBSET Convs]
    \cup [step : {"members"}, c : Convs]
    \cup [step : {"index"}, m : 1 .. MaxMsgs]
    \cup [step : {"delete"}, m : 1 .. MaxMsgs, deletedFor : SUBSET Pair]

ASSUME DirectChatConstants ==
  /\ MaxMsgs \in Nat /\ MaxFails \in Nat
  /\ Pair # {} /\ None \notin Doing

VARIABLES
  inserted,   \* the conversations of type dm
  members,    \* of each
  msgs,       \* how many messages were inserted in the first of them
  index,      \* the last message the conversation's index shows
  deletedFor, \* messages.deleted_for of each message
  hidden,     \* the deletions that were answered: <<message, user>>
  doing,      \* what each user has under way
  disturbed,  \* history: the operations that began while the other user's call
              \*   of the same operation was under way, or whose read failed
  fails

dmVars == <<inserted, members, msgs, index, deletedFor, hidden, doing, disturbed, fails>>
convVars == <<inserted, members>>
msgVars == <<msgs, index, deletedFor, hidden>>

DMInit ==
  /\ inserted = {}
  /\ members = [c \in Convs |-> {}]
  /\ msgs = 0 /\ index = 0
  /\ deletedFor = [m \in 1 .. MaxMsgs |-> {}]
  /\ hidden = {}
  /\ doing = [u \in Pair |-> None]
  /\ disturbed = {}
  /\ fails = 0

In(u, step) == doing[u] # None /\ doing[u].step = step
Goes(u, next) == doing' = [doing EXCEPT ![u] = next] /\ UNCHANGED disturbed

\* The steps of each operation: one call after the other.
Steps == [create |-> {"search", "insert", "members"}, send |-> {"index"}, delete |-> {"delete"}]

Starts(u, op, first) ==
  /\ doing[u] = None
  /\ doing' = [doing EXCEPT ![u] = first]
  /\ disturbed' = IF \E v \in Pair, step \in Steps[op] : In(v, step)
                  THEN disturbed \cup {op} ELSE disturbed

(***************************************************************************)
(* createDMConversation                                                    *)
(***************************************************************************)
BeginCreate(u) ==
  /\ inserted # Convs
  /\ Starts(u, "create", [step |-> "search", candidates |-> {c \in inserted : u \in members[c]}])
  /\ UNCHANGED <<convVars, msgVars, fails>>

Direct == {c \in inserted : members[c] = Pair}

\* As a mistake would have it: a conversation that exists is not returned.
FoundNever(u) == FALSE

\* maybeSingle() returns a row if there is one, and an error if there are more,
\* which is not looked at.
Found(u) == Cardinality(doing[u].candidates \cap Direct) = 1

Search(u) ==
  /\ In(u, "search")
  /\ Goes(u, IF Found(u) THEN None ELSE [step |-> "insert", candidates |-> doing[u].candidates])
  /\ UNCHANGED <<convVars, msgVars, fails>>

\* The errors of the two reads are not looked at: nothing was found.
SearchFails(u) ==
  /\ In(u, "search")
  /\ fails < MaxFails
  /\ fails' = fails + 1
  /\ doing' = [doing EXCEPT ![u] = [step |-> "insert", candidates |-> {}]]
  /\ disturbed' = disturbed \cup {"create"}
  /\ UNCHANGED <<convVars, msgVars>>

InsertConversation(u, c) ==
  /\ In(u, "insert")
  /\ c \notin inserted
  /\ inserted' = inserted \cup {c}
  /\ Goes(u, [step |-> "members", c |-> c])
  /\ UNCHANGED <<members, msgVars, fails>>

AddMembers(u) ==
  /\ In(u, "members")
  /\ members' = [members EXCEPT ![doing[u].c] = Pair]
  /\ Goes(u, None)
  /\ UNCHANGED <<inserted, msgVars, fails>>

\* The conversation stays without members, found by nobody.
AddMembersFails(u) ==
  /\ In(u, "members")
  /\ fails < MaxFails
  /\ fails' = fails + 1
  /\ Goes(u, None)
  /\ UNCHANGED <<convVars, msgVars>>

(***************************************************************************)
(* sendMessage                                                             *)
(***************************************************************************)
InsertMessage(u) ==
  /\ Direct # {}
  /\ msgs < MaxMsgs
  /\ msgs' = msgs + 1
  /\ Starts(u, "send", [step |-> "index", m |-> msgs + 1])
  /\ UNCHANGED <<convVars, index, deletedFor, hidden, fails>>

\* updateConversationIndex: an upsert.
UpdateIndex(u) ==
  /\ In(u, "index")
  /\ index' = doing[u].m
  /\ Goes(u, None)
  /\ UNCHANGED <<convVars, msgs, deletedFor, hidden, fails>>

UpdateIndexFails(u) ==
  /\ In(u, "index")
  /\ fails < MaxFails
  /\ fails' = fails + 1
  /\ Goes(u, None)
  /\ UNCHANGED <<convVars, msgVars>>

(***************************************************************************)
(* deleteMessageForMe                                                      *)
(***************************************************************************)
ReadDeletedFor(u, m) ==
  /\ m <= msgs
  /\ Starts(u, "delete", [step |-> "delete", m |-> m, deletedFor |-> deletedFor[m]])
  /\ UNCHANGED <<convVars, msgVars, fails>>

\* The error of the read is not looked at: the list is taken to be empty.
ReadDeletedForFails(u) ==
  /\ In(u, "delete")
  /\ fails < MaxFails
  /\ fails' = fails + 1
  /\ doing' = [doing EXCEPT ![u].deletedFor = {}]
  /\ disturbed' = disturbed \cup {"delete"}
  /\ UNCHANGED <<convVars, msgVars>>

\* As a mistake would have it: the list is begun again.
WithUserOnly(u) == {u}

WithUser(u) == doing[u].deletedFor \cup {u}

WriteDeletedFor(u) ==
  /\ In(u, "delete")
  /\ deletedFor' = IF u \in doing[u].deletedFor THEN deletedFor
                   ELSE [deletedFor EXCEPT ![doing[u].m] = WithUser(u)]
  /\ hidden' = hidden \cup {<<doing[u].m, u>>}
  /\ Goes(u, None)
  /\ UNCHANGED <<convVars, msgs, index, fails>>

DMNext ==
  \E u \in Pair :
    \/ BeginCreate(u) \/ Search(u) \/ SearchFails(u)
    \/ \E c \in Convs : InsertConversation(u, c)
    \/ AddMembers(u) \/ AddMembersFails(u)
    \/ InsertMessage(u) \/ UpdateIndex(u) \/ UpdateIndexFails(u)
    \/ \E m \in 1 .. MaxMsgs : ReadDeletedFor(u, m)
    \/ ReadDeletedForFails(u) \/ WriteDeletedFor(u)

DMSpec == DMInit /\ [][DMNext]_dmVars

(***************************************************************************)
(* Correctness.                                                            *)
(***************************************************************************)
\* What an index, a member list or a call names is there.
DMTypeOK ==
  /\ inserted \subseteq Convs
  /\ members \in [Convs -> SUBSET Pair] /\ \A c \in Convs : members[c] # {} => c \in inserted
  /\ msgs \in 0 .. MaxMsgs /\ index \in 0 .. msgs
  /\ deletedFor \in [1 .. MaxMsgs -> SUBSET Pair]
  /\ \A m \in 1 .. MaxMsgs : deletedFor[m] # {} => m <= msgs
  /\ hidden \subseteq (1 .. MaxMsgs) \X Pair
  /\ doing \in [Pair -> {None} \cup Doing]
  /\ \A u \in Pair :
       /\ In(u, "members") => doing[u].c \in inserted
       /\ In(u, "index") \/ In(u, "delete") => doing[u].m \in 1 .. msgs
  /\ disturbed \subseteq DOMAIN Steps
  /\ fails \in 0 .. MaxFails

\* Two users have one conversation: who asks for one finds the one there is
\* (messageService.js:354), whatever calls failed half way before.  The search
\* and the insert are two calls: not so if both users ask at once, or the search
\* failed, which is taken for "none".
OneDirect == "create" \notin disturbed => Cardinality(Direct) <= 1

\* When nobody is sending, the index shows the last message, unless a call
\* failed (line 317) or two messages crossed.
IndexLatest ==
  fails = 0 /\ "send" \notin disturbed /\ (\A u \in Pair : ~In(u, "index")) => index = msgs

\* A message stays hidden from who deleted it for himself (line 1143), unless two
\* such deletions crossed, or a read failed: each writes the list it read.
HiddenStays == "delete" \notin disturbed => \A h \in hidden : h[2] \in deletedFor[h[1]]

\* What the users see of their messages: all references hold, the index shows
\* the last message and the hidden ones stay hidden.
MessagesSound == DMTypeOK /\ IndexLatest /\ HiddenStays
=============================================================================
