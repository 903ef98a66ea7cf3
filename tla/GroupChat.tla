----------------------------- MODULE GroupChat -----------------------------
(***************************************************************************)
(* Membership of one team conversation (services/messageService.js, driven *)
(* by MessagingHub.jsx): creation, adding, removing, promoting, demoting,  *)
(* leaving and deleting.                                                   *)
(*                                                                         *)
(* Each operation is a series of separate database calls made from a       *)
(* browser: a check of the caller's row, sometimes a second look, then the *)
(* write.  Nothing holds the rows in between, and conversation_members has *)
(* no uniqueness constraint.  The list of members and the admin flag that  *)
(* show the controls are copies of any age, even of another group while    *)
(* this one loads (246-278), so they keep nobody who has the group open    *)
(* from calling any of the operations.                                     *)
(***************************************************************************)
EXTENDS Naturals

CONSTANTS
    Users,
    Nobody,
    Calls,      \* places for operations in progress, of any tab of any user
    OwnRow,     \* whether the list shows controls on the user's own row; it
                \* does not (MembersModal 41), the service still guards it
    Lossy,      \* whether a call to the database may fail
    MaxCalls    \* bound: operations started, over a behaviour

ASSUME UsersAssumption == Nobody \notin Users /\ Calls # {}
ASSUME FlagsAssumption ==
    OwnRow \in BOOLEAN /\ Lossy \in BOOLEAN /\ MaxCalls \in Nat

VARIABLES
    conv,       \* the conversations row: "none" yet, "live" or "deleted"
    rows,       \* conversation_members: how many rows of a user have is_admin
                \* FALSE and TRUE
    messages,   \* whether the messages table has any of this conversation
    call,       \* the operations in progress
    seen,       \* users who were members once and may have the group open
    wasAdmin,   \* history: users who had an admin row once
    raced,      \* history: two operations that bear on one another overlapped
    blind,      \* history: a guard went on although its read failed
    started     \* number of operations started, for the bound

vars == <<conv, rows, messages, call, seen, wasAdmin, raced, blind, started>>
history == <<seen, wasAdmin, raced, blind>>

NoRow == [plain |-> 0, admin |-> 0]
AdminRow == [plain |-> 0, admin |-> 1]
PlainRow == [plain |-> 1, admin |-> 0]

Total(r) == r.plain + r.admin
IsMember(u) == Total(rows[u]) > 0

Ops == {"create", "add", "remove", "promote", "demote", "leave", "delete"}
Stages == {"lookup", "count", "write", "enroll", "find", "purge", "members",
           "conversation"}
Idle == [op |-> "none", by |-> Nobody, on |-> Nobody, at |-> "none"]

Reply == IF Lossy THEN BOOLEAN ELSE {TRUE}

(***************************************************************************)
(* What the reads answer.                                                  *)
(***************************************************************************)
\* isConversationAdmin: .single() answers only when exactly one row matches.
IsAdmin_AnyMember(u) == Total(rows[u]) = 1
IsAdmin(u) == rows[u] = AdminRow

\* The look before an insert: .maybeSingle() answers null on two rows as well.
AlreadyMember_Plain(u) == rows[u] = PlainRow
AlreadyMember(u) == Total(rows[u]) = 1

\* admins.length === 1
OneAdminRow_None == \A u \in Users : rows[u].admin = 0
OneAdminRow ==
    \E u \in Users : /\ rows[u].admin = 1
                     /\ \A v \in Users \ {u} : rows[v].admin = 0

\* An update of is_admin by user id reaches every row of the user.
Demoted_OneRow(r) == [plain |-> r.plain + 1, admin |-> r.admin - 1]
Demoted(r) == [plain |-> Total(r), admin |-> 0]
Promoted(r) == [plain |-> 0, admin |-> Total(r)]

(***************************************************************************)
(* Operations in progress.                                                 *)
(***************************************************************************)
\* Taking rights away; what bears on what.
Reducing(k) == k.op \in {"remove", "demote", "leave", "delete"}
Overlap(k, l) ==
    \/ Reducing(k) /\ Reducing(l)
    \/ k.op = "add" /\ l.op = "add" /\ k.on = l.on
    \/ {k.op, l.op} = {"add", "delete"}

Begin(c, op, u, v, stage) ==
    LET k == [op |-> op, by |-> u, on |-> v, at |-> stage]
    IN
    /\ call[c] = Idle /\ started < MaxCalls
    /\ started' = started + 1
    /\ call' = [call EXCEPT ![c] = k]
    /\ raced' = (raced \/ \E d \in Calls : Overlap(k, call[d]))

At(c, op, stage) == call[c].op = op /\ call[c].at = stage
Go(c, stage) == call' = [call EXCEPT ![c].at = stage]
Return(c) == call' = [call EXCEPT ![c] = Idle]

\* The write of a call on the rows of one user, if the database takes it.
SetRow(c, row) ==
    /\ \E ok \in Reply : rows' = IF ok THEN [rows EXCEPT ![call[c].on] = row]
                                 ELSE rows
    /\ Return(c)

(***************************************************************************)
(* createTeamConversation: the conversation, then its members at once.     *)
(***************************************************************************)
CreateTeam(c, u) ==
    /\ conv = "none"
    /\ Begin(c, "create", u, u, "enroll")
    /\ conv' = "live"
    /\ UNCHANGED <<rows, messages, seen, wasAdmin, blind>>

Enroll(c, others) ==
    /\ At(c, "create", "enroll")
    /\ \E ok \in Reply :
          /\ rows' = IF ok THEN [u \in Users |->
                                   IF u = call[c].by THEN AdminRow
                                   ELSE IF u \in others THEN PlainRow
                                   ELSE NoRow]
                     ELSE rows
          /\ seen' = IF ok THEN seen \cup others \cup {call[c].by} ELSE seen
          /\ wasAdmin' = IF ok THEN wasAdmin \cup {call[c].by} ELSE wasAdmin
    /\ Return(c)
    /\ UNCHANGED <<conv, messages, raced, blind, started>>

(***************************************************************************)
(* The operations of an admin begin with isConversationAdmin.  A check that*)
(* fails throws and changes nothing, so an operation starts when it passes.*)
(***************************************************************************)
AskAdd(c, u, v) ==
    /\ u \in seen /\ IsAdmin(u)
    /\ Begin(c, "add", u, v, "lookup")
    /\ UNCHANGED <<conv, rows, messages, seen, wasAdmin, blind>>

LookupMember(c) ==
    /\ At(c, "add", "lookup")
    /\ \E ok \in Reply :
          /\ IF ok /\ AlreadyMember(call[c].on) THEN Return(c) ELSE Go(c, "write")
          /\ blind' = (blind \/ ~ok)
    /\ UNCHANGED <<conv, rows, messages, seen, wasAdmin, raced, started>>

\* The insert needs the conversation (a foreign key).
InsertMember(c) ==
    LET v == call[c].on
    IN
    /\ At(c, "add", "write")
    /\ \E ok \in Reply :
          LET done == ok /\ conv = "live"
          IN  /\ rows' = IF done THEN [rows EXCEPT ![v].plain = @ + 1] ELSE rows
              /\ seen' = IF done THEN seen \cup {v} ELSE seen
    /\ Return(c)
    /\ UNCHANGED <<conv, messages, wasAdmin, raced, blind, started>>

AskPromote(c, u, v) ==
    /\ u \in seen /\ IsAdmin(u)
    /\ v # u \/ OwnRow
    /\ Begin(c, "promote", u, v, "write")
    /\ UNCHANGED <<conv, rows, messages, seen, wasAdmin, blind>>

Promote(c) ==
    LET v == call[c].on
    IN
    /\ At(c, "promote", "write")
    /\ SetRow(c, Promoted(rows[v]))
    /\ wasAdmin' = IF rows'[v].admin > 0 THEN wasAdmin \cup {v} ELSE wasAdmin
    /\ UNCHANGED <<conv, messages, seen, raced, blind, started>>

\* Removing or demoting oneself counts the admins first.
AskReduce(c, op, u, v) ==
    /\ u \in seen /\ IsAdmin(u)
    /\ v # u \/ OwnRow
    /\ Begin(c, op, u, v, IF v = u THEN "count" ELSE "write")
    /\ UNCHANGED <<conv, rows, messages, seen, wasAdmin, blind>>
AskRemove(c, u, v) == AskReduce(c, "remove", u, v)
AskDemote(c, u, v) == AskReduce(c, "demote", u, v)

\* leaveConversation counts only for an admin, and takes a failed check for no.
LeaveStage_NoCount(u) == "write"
LeaveStage(u) == IF IsAdmin(u) THEN "count" ELSE "write"
AskLeave(c, u) ==
    /\ u \in seen
    /\ \E ok \in Reply :
          /\ Begin(c, "leave", u, u, IF ok THEN LeaveStage(u) ELSE "write")
          /\ blind' = (blind \/ ~ok)
    /\ UNCHANGED <<conv, rows, messages, seen, wasAdmin>>

\* A count that fails answers no list, and the guard passes (801-811, 1036-1043).
CountAdmins(c) ==
    /\ call[c].at = "count"
    /\ \E ok \in Reply :
          /\ IF ok /\ OneAdminRow THEN Return(c) ELSE Go(c, "write")
          /\ blind' = (blind \/ ~ok)
    /\ UNCHANGED <<conv, rows, messages, seen, wasAdmin, raced, started>>

RemoveOrLeave(c) ==
    /\ At(c, "remove", "write") \/ At(c, "leave", "write")
    /\ SetRow(c, NoRow)
    /\ UNCHANGED <<conv, messages, history, started>>

Demote(c) ==
    /\ At(c, "demote", "write")
    /\ SetRow(c, Demoted(rows[call[c].on]))
    /\ UNCHANGED <<conv, messages, history, started>>

(***************************************************************************)
(* deleteConversation: the messages if it found any, the members, then the *)
(* conversation.  An answer that reports an error ends it there, whether   *)
(* or not the write was done.                                              *)
(***************************************************************************)
AskDelete(c, u) ==
    /\ u \in seen /\ IsAdmin(u)
    /\ Begin(c, "delete", u, u, "find")
    /\ UNCHANGED <<conv, rows, messages, seen, wasAdmin, blind>>

FindMessages(c) ==
    /\ At(c, "delete", "find")
    /\ \E ok \in Reply :
          IF ~ok THEN Return(c)
          ELSE Go(c, IF messages THEN "purge" ELSE "members")
    /\ UNCHANGED <<conv, rows, messages, history, started>>

DeleteMessages(c) ==
    /\ At(c, "delete", "purge")
    /\ \E done, heard \in Reply :
          /\ messages' = (messages /\ ~done)
          /\ IF done /\ heard THEN Go(c, "members") ELSE Return(c)
    /\ UNCHANGED <<conv, rows, history, started>>

DeleteMembers(c) ==
    /\ At(c, "delete", "members")
    /\ \E done, heard \in Reply :
          /\ rows' = IF done THEN [u \in Users |-> NoRow] ELSE rows
          /\ IF done /\ heard THEN Go(c, "conversation") ELSE Return(c)
    /\ UNCHANGED <<conv, messages, history, started>>

\* Messages or members that still refer to the conversation keep it.
DeleteConversation(c) ==
    /\ At(c, "delete", "conversation")
    /\ \E ok \in Reply :
          conv' = IF ok /\ ~messages /\ \A u \in Users : ~IsMember(u)
                  THEN "deleted" ELSE conv
    /\ Return(c)
    /\ UNCHANGED <<rows, messages, history, started>>

\* sendMessageWithReply, from any tab that has the group open.
SendMessage(u) ==
    /\ u \in seen /\ conv = "live" /\ ~messages
    /\ messages' = TRUE
    /\ UNCHANGED <<conv, rows, call, history, started>>

(***************************************************************************)
Init ==
    /\ conv = "none"
    /\ rows = [u \in Users |-> NoRow]
    /\ messages = FALSE
    /\ call = [c \in Calls |-> Idle]
    /\ seen = {} /\ wasAdmin = {}
    /\ raced = FALSE /\ blind = FALSE
    /\ started = 0

\* The step an operation takes when its pending call answers.
Continue(c) ==
    \/ \E others \in SUBSET Users : Enroll(c, others)
    \/ LookupMember(c)
    \/ InsertMember(c)
    \/ Promote(c)
    \/ CountAdmins(c)
    \/ RemoveOrLeave(c)
    \/ Demote(c)
    \/ FindMessages(c)
    \/ DeleteMessages(c)
    \/ DeleteMembers(c)
    \/ DeleteConversation(c)

Next ==
    \/ \E c \in Calls, u \in Users :
          \/ CreateTeam(c, u)
          \/ \E v \in Users : AskAdd(c, u, v)
          \/ \E v \in Users : AskPromote(c, u, v)
          \/ \E v \in Users : AskRemove(c, u, v)
          \/ \E v \in Users : AskDemote(c, u, v)
          \/ AskLeave(c, u)
          \/ AskDelete(c, u)
    \/ \E c \in Calls : Continue(c)
    \/ \E u \in Users : SendMessage(u)

Spec == Init /\ [][Next]_vars

(***************************************************************************)
(* Properties.                                                             *)
(***************************************************************************)
Row == [plain : Nat, admin : Nat]
Call == [op : Ops, by : Users, on : Users, at : Stages] \cup {Idle}

TypeOK ==
    /\ conv \in {"none", "live", "deleted"}
    /\ rows \in [Users -> Row]
    /\ messages \in BOOLEAN
    /\ call \in [Calls -> Call]
    /\ seen \subseteq Users /\ wasAdmin \subseteq Users
    /\ raced \in BOOLEAN /\ blind \in BOOLEAN
    /\ started \in Nat

HasAdmin == (\E u \in Users : IsMember(u)) => \E u \in Users : IsAdmin(u)
MemberOnce == \A u \in Users : Total(rows[u]) <= 1

\* Adding, promoting and messaging may interleave with everything, writes may
\* fail anywhere, and a deletion may stop half-way: as long as no two calls that
\* take rights away overlap and no guard's read fails, a group with members has
\* an admin the service recognises, so somebody can still govern it
\* (messageService.js 801-811, 869-879, 1033-1043).
KeepsAdmin == ~raced /\ ~blind => HasAdmin

\* Under the same condition the look before the insert, and not a constraint
\* of the table, keeps the members distinct (754-764).
DistinctMembers == ~raced /\ ~blind => MemberOnce

\* What the checks leave true until the write they guard is done: a member about
\* to be added is still absent, an admin counting admins still is one, and one
\* about to lose rights still leaves another admin behind.
PendingSound ==
    ~raced /\ ~blind =>
        \A c \in Calls :
            /\ At(c, "add", "write") => ~IsMember(call[c].on)
            /\ call[c].at = "count" => IsAdmin(call[c].on)
            /\ Reducing(call[c]) /\ call[c].at = "write"
                  /\ (\E u \in Users : IsMember(u))
                     => \E w \in Users \ {call[c].on} : IsAdmin(w)

\* In every race and failure: nobody but the creator, or someone an admin once
\* made an admin, ever changes another user's membership; the check may be old
\* when the write is done but it was passed (748-751, 794-797, 835-838, 863-866).
ByAnAdmin ==
    \A u \in Users :
       rows'[u] # rows[u] =>
          \E c \in Calls : /\ call'[c] # call[c]
                           /\ \/ call[c].by = u
                              \/ call[c].by \in wasAdmin
                              \/ call[c].op = "create"
OnlyAdminsGovern == [][ByAnAdmin]_vars
=============================================================================
