-------------------------- MODULE Messaging_proofs --------------------------
(***************************************************************************)
(* The two parts of the messaging service.  Team conversations: what the   *)
(* guards keep when their reads answer and no two operations that bear on  *)
(* one another overlap.  The direct conversation of two users: what its    *)
(* three operations keep although each is a series of calls, any of which  *)
(* may fail.                                                               *)
(***************************************************************************)
EXTENDS GroupChat, DirectChat, FiniteSetTheorems, TLAPS

(***************************************************************************)
(* Team conversations.                                                     *)
(***************************************************************************)
LEMMA RowTypes ==
    ASSUME NEW r \in Row
    PROVE  /\ NoRow \in Row /\ AdminRow \in Row /\ PlainRow \in Row
           /\ Demoted(r) \in Row /\ Promoted(r) \in Row
           /\ [r EXCEPT !.plain = @ + 1] \in Row
           /\ Total(r) \in Nat /\ r.plain \in Nat /\ r.admin \in Nat
BY DEF Row, NoRow, AdminRow, PlainRow, Demoted, Promoted, Total

\* The three things a step does to the operations in progress.
LEMMA BeginType ==
    ASSUME TypeOK, NEW c \in Calls, NEW op \in Ops, NEW u \in Users,
           NEW v \in Users, NEW stage \in Stages, Begin(c, op, u, v, stage)
    PROVE  call' \in [Calls -> Call] /\ raced' \in BOOLEAN /\ started' \in Nat
<1>1. [op |-> op, by |-> u, on |-> v, at |-> stage] \in Call
  BY DEF Call
<1>2. raced' \in BOOLEAN
  BY DEF Begin
<1> QED BY <1>1, <1>2 DEF Begin, TypeOK

LEMMA GoType ==
    ASSUME TypeOK, NEW c \in Calls, NEW stage \in Stages,
           call[c].at \in Stages, Go(c, stage)
    PROVE  call' \in [Calls -> Call]
<1>1. call[c] \in [op : Ops, by : Users, on : Users, at : Stages]
  BY DEF TypeOK, Call, Idle, Stages
<1>2. [call[c] EXCEPT !.at = stage] \in Call
  BY <1>1 DEF Call
<1> QED BY <1>2 DEF Go, TypeOK

LEMMA ReturnType ==
    ASSUME TypeOK, NEW c \in Calls, Return(c)
    PROVE  call' \in [Calls -> Call]
BY DEF Return, TypeOK, Call

LEMMA SetRowType ==
    ASSUME TypeOK, NEW c \in Calls, NEW row \in Row, SetRow(c, row)
    PROVE  rows' \in [Users -> Row] /\ call' \in [Calls -> Call]
BY ReturnType DEF SetRow, TypeOK

\* An operation in progress is somebody's, about somebody.
LEMMA CallType ==
    ASSUME TypeOK, NEW c \in Calls, call[c].at \in Stages
    PROVE  /\ call[c].op \in Ops /\ call[c].by \in Users /\ call[c].on \in Users
           /\ rows[call[c].on] \in Row
BY DEF TypeOK, Call, Idle, Stages

LEMMA TypeInit == Init => TypeOK
<1> SUFFICES ASSUME Init PROVE TypeOK
  OBVIOUS
<1>1. rows \in [Users -> Row]
  BY DEF Init, Row, NoRow
<1>2. call \in [Calls -> Call]
  BY DEF Init, Call
<1> QED BY <1>1, <1>2 DEF Init, TypeOK

LEMMA TypeStep == TypeOK /\ [Next]_vars => TypeOK'
<1> SUFFICES ASSUME TypeOK, [Next]_vars PROVE TypeOK'
  OBVIOUS
<1> USE DEF history
<1>1. ASSUME NEW c \in Calls, NEW u \in Users, CreateTeam(c, u)
      PROVE  TypeOK'
  BY <1>1, BeginType DEF CreateTeam, TypeOK, Ops, Stages
<1>2. ASSUME NEW c \in Calls, NEW others \in SUBSET Users, Enroll(c, others)
      PROVE  TypeOK'
  <2>1. call' \in [Calls -> Call] /\ call[c].by \in Users
    BY <1>2, ReturnType, CallType DEF Enroll, At, Stages
  <2>2. rows' \in [Users -> Row]
    BY <1>2 DEF Enroll, TypeOK, Row, AdminRow, PlainRow, NoRow
  <2> QED BY <1>2, <2>1, <2>2 DEF Enroll, TypeOK
<1>3. ASSUME NEW c \in Calls, NEW u \in Users, NEW v \in Users, AskAdd(c, u, v)
      PROVE  TypeOK'
  BY <1>3, BeginType DEF AskAdd, TypeOK, Ops, Stages
<1>4. ASSUME NEW c \in Calls, LookupMember(c)
      PROVE  TypeOK'
  <2>1. call' \in [Calls -> Call]
    BY <1>4, ReturnType, GoType DEF LookupMember, At, Stages
  <2> QED BY <1>4, <2>1 DEF LookupMember, TypeOK
<1>5. ASSUME NEW c \in Calls, InsertMember(c)
      PROVE  TypeOK'
  <2>1. call' \in [Calls -> Call] /\ call[c].on \in Users /\ rows[call[c].on] \in Row
    BY <1>5, ReturnType, CallType DEF InsertMember, At, Stages
  <2>2. rows' \in [Users -> Row] /\ seen' \subseteq Users
    BY <1>5, <2>1, RowTypes DEF InsertMember, TypeOK
  <2> QED BY <1>5, <2>1, <2>2 DEF InsertMember, TypeOK
<1>6. ASSUME NEW c \in Calls, NEW u \in Users, NEW v \in Users, AskPromote(c, u, v)
      PROVE  TypeOK'
  BY <1>6, BeginType DEF AskPromote, TypeOK, Ops, Stages
<1>7. ASSUME NEW c \in Calls, Promote(c)
      PROVE  TypeOK'
  <2>1. call[c].on \in Users /\ Promoted(rows[call[c].on]) \in Row
    BY <1>7, CallType, RowTypes DEF Promote, At, Stages
  <2>2. rows' \in [Users -> Row] /\ call' \in [Calls -> Call]
    BY <1>7, <2>1, SetRowType DEF Promote
  <2> QED BY <1>7, <2>1, <2>2 DEF Promote, TypeOK
<1>8. ASSUME NEW c \in Calls, NEW op \in {"remove", "demote"}, NEW u \in Users,
             NEW v \in Users, AskReduce(c, op, u, v)
      PROVE  TypeOK'
  BY <1>8, BeginType DEF AskReduce, TypeOK, Ops, Stages
<1>9. ASSUME NEW c \in Calls, NEW u \in Users, AskLeave(c, u)
      PROVE  TypeOK'
  BY <1>9, BeginType DEF AskLeave, LeaveStage, TypeOK, Ops, Stages
<1>10. ASSUME NEW c \in Calls, CountAdmins(c)
       PROVE  TypeOK'
  <2>1. call' \in [Calls -> Call]
    BY <1>10, ReturnType, GoType DEF CountAdmins, Stages
  <2> QED BY <1>10, <2>1 DEF CountAdmins, TypeOK
<1>11. ASSUME NEW c \in Calls, RemoveOrLeave(c)
       PROVE  TypeOK'
  <2>1. rows' \in [Users -> Row] /\ call' \in [Calls -> Call]
    BY <1>11, SetRowType, RowTypes DEF RemoveOrLeave, Row, NoRow
  <2> QED BY <1>11, <2>1 DEF RemoveOrLeave, TypeOK
<1>12. ASSUME NEW c \in Calls, Demote(c)
       PROVE  TypeOK'
  <2>1. Demoted(rows[call[c].on]) \in Row
    BY <1>12, CallType, RowTypes DEF Demote, At, Stages
  <2>2. rows' \in [Users -> Row] /\ call' \in [Calls -> Call]
    BY <1>12, <2>1, SetRowType DEF Demote
  <2> QED BY <1>12, <2>2 DEF Demote, TypeOK
<1>13. ASSUME NEW c \in Calls, NEW u \in Users, AskDelete(c, u)
       PROVE  TypeOK'
  BY <1>13, BeginType DEF AskDelete, TypeOK, Ops, Stages
<1>14. ASSUME NEW c \in Calls, FindMessages(c)
       PROVE  TypeOK'
  <2>1. call' \in [Calls -> Call]
    BY <1>14, ReturnType, GoType DEF FindMessages, At, Stages
  <2> QED BY <1>14, <2>1 DEF FindMessages, TypeOK
<1>15. ASSUME NEW c \in Calls, DeleteMessages(c)
       PROVE  TypeOK'
  <2>1. call' \in [Calls -> Call]
    BY <1>15, ReturnType, GoType DEF DeleteMessages, At, Stages
  <2>2. messages' \in BOOLEAN
    BY <1>15 DEF DeleteMessages
  <2> QED BY <1>15, <2>1, <2>2 DEF DeleteMessages, TypeOK
<1>16. ASSUME NEW c \in Calls, DeleteMembers(c)
       PROVE  TypeOK'
  <2>1. call' \in [Calls -> Call]
    BY <1>16, ReturnType, GoType DEF DeleteMembers, At, Stages
  <2>2. rows' \in [Users -> Row]
    BY <1>16 DEF DeleteMembers, TypeOK, Row, NoRow
  <2> QED BY <1>16, <2>1, <2>2 DEF DeleteMembers, TypeOK
<1>17. ASSUME NEW c \in Calls, DeleteConversation(c)
       PROVE  TypeOK'
  BY <1>17, ReturnType DEF DeleteConversation, TypeOK
<1>18. ASSUME NEW u \in Users, SendMessage(u)
       PROVE  TypeOK'
  BY <1>18 DEF SendMessage, TypeOK
<1>19. CASE UNCHANGED vars
  BY <1>19 DEF vars, TypeOK
<1> QED BY <1>1, <1>2, <1>3, <1>4, <1>5, <1>6, <1>7, <1>8, <1>9, <1>10, <1>11,
           <1>12, <1>13, <1>14, <1>15, <1>16, <1>17, <1>18, <1>19
           DEF Next, Continue, AskRemove, AskDemote

\* Every row, operation and stage keeps its type, for any users and any number
\* of operations at once: a demotion never takes what is not there (896-900).
THEOREM TypeCorrect == Spec => []TypeOK
<1> QED BY TypeInit, TypeStep, PTL DEF Spec

(***************************************************************************)
(* The inductive invariant.                                                *)
(***************************************************************************)
\* The stages of each operation.
CallShape(k) ==
    /\ k.at \in Stages <=> k.op \in Ops
    /\ k.op = "create" <=> k.at = "enroll"
    /\ k.op = "add" => k.at \in {"lookup", "write"}
    /\ k.op = "promote" => k.at = "write"
    /\ k.op \in {"remove", "demote", "leave"} => k.at \in {"count", "write"}
    /\ k.op = "delete" => k.at \in {"find", "purge", "members", "conversation"}
    /\ k.op = "leave" \/ k.at = "count" => k.on = k.by
Shapes == \A c \in Calls : CallShape(call[c])

\* Until the group has members there is nothing but its creation.
Blank == seen = {} /\ \A u \in Users : rows[u] = NoRow
Founding ==
    /\ conv = "none" => Blank /\ \A c \in Calls : call[c] = Idle
    /\ \A c \in Calls : call[c].op = "create" =>
          Blank /\ \A d \in Calls \ {c} : call[d] = Idle

\* Admin rows belong to those who were made admins, and only they act on others.
Authority ==
    /\ \A u \in Users : rows[u].admin > 0 => u \in wasAdmin
    /\ \A c \in Calls :
          call[c].op \in {"add", "remove", "promote", "demote", "delete"}
              => call[c].by \in wasAdmin

\* What raced stands for.
Apart == ~raced => \A c, d \in Calls : c # d => ~Overlap(call[c], call[d])

\* What holds while nothing raced and no guard went on blindly.
SomeAdmin == \E w \in Users : IsAdmin(w)
AdminBut(v) == \E w \in Users \ {v} : IsAdmin(w)
SomeMember == \E u \in Users : IsMember(u)
CallSafe(c) ==
    /\ call[c].op = "add" => SomeAdmin
    /\ At(c, "add", "write") => ~IsMember(call[c].on)
    /\ call[c].at = "count" => IsAdmin(call[c].on)
    /\ Reducing(call[c]) /\ call[c].at = "write" /\ SomeMember
          => AdminBut(call[c].on)
Governed == HasAdmin /\ MemberOnce /\ \A c \in Calls : CallSafe(c)

Safe == ~raced /\ ~blind => Governed
IInv ==
    /\ TypeOK
    /\ Shapes /\ Apart
    /\ Founding /\ Authority
    /\ Safe

\* An admin has one row, so is a member; rows that are equal answer alike.
LEMMA AdminRows ==
    ASSUME TypeOK, NEW u \in Users
    PROVE  /\ rows[u] \in Row /\ Total(rows[u]) \in Nat
           /\ IsAdmin(u) => IsMember(u) /\ rows[u].admin > 0
           /\ ~IsMember(u) => rows[u] = NoRow
           /\ rows[u] = NoRow => ~IsMember(u) /\ ~IsAdmin(u)
BY DEF TypeOK, IsAdmin, IsMember, Total, AdminRow, NoRow, Row

LEMMA IdleShape ==
    /\ CallShape(Idle)
    /\ \A k : ~Overlap(Idle, k) /\ ~Overlap(k, Idle)
    /\ Idle.at \notin Stages
BY DEF CallShape, Idle, Stages, Ops, Overlap, Reducing

(***************************************************************************)
(* Steps on the operations keep Shapes and Apart.                          *)
(***************************************************************************)
LEMMA BeginKeeps ==
    ASSUME TypeOK, Shapes, Apart, NEW c \in Calls, NEW op, NEW u, NEW v, NEW stage,
           Begin(c, op, u, v, stage),
           CallShape([op |-> op, by |-> u, on |-> v, at |-> stage])
    PROVE  Shapes' /\ Apart'
<1> DEFINE k == [op |-> op, by |-> u, on |-> v, at |-> stage]
<1>1. /\ \A d \in Calls : call'[d] = IF d = c THEN k ELSE call[d]
      /\ ~raced' => ~raced /\ \A d \in Calls : ~Overlap(k, call[d])
  BY DEF Begin, TypeOK
<1>2. \A l : Overlap(k, l) <=> Overlap(l, k)
  BY DEF Overlap
<1> HIDE DEF k
<1>3. Shapes'
  BY <1>1 DEF Shapes, k
<1>4. Apart'
  BY <1>1, <1>2 DEF Apart
<1> QED BY <1>3, <1>4

LEMMA GoKeeps ==
    ASSUME TypeOK, Shapes, Apart, NEW c \in Calls, NEW stage, Go(c, stage),
           UNCHANGED raced, call[c].at \in Stages,
           CallShape([call[c] EXCEPT !.at = stage])
    PROVE  /\ Shapes' /\ Apart'
           /\ call'[c] = [call[c] EXCEPT !.at = stage]
           /\ \A d \in Calls : /\ call'[d].op = call[d].op
                               /\ call'[d].on = call[d].on
                               /\ call'[d].by = call[d].by
                               /\ d # c => call'[d] = call[d]
<1> DEFINE k == [call[c] EXCEPT !.at = stage]
<1>1. call[c] \in [op : Ops, by : Users, on : Users, at : Stages]
  BY DEF TypeOK, Call, Idle, Stages
<1>2. k.op = call[c].op /\ k.on = call[c].on /\ k.by = call[c].by
  BY <1>1
<1>3. \A d \in Calls : call'[d] = IF d = c THEN k ELSE call[d]
  BY DEF Go, TypeOK
<1> HIDE DEF k
<1>4. Shapes'
  BY <1>3 DEF Shapes, k
<1>5. \A d \in Calls : /\ call'[d].op = call[d].op /\ call'[d].on = call[d].on
                       /\ call'[d].by = call[d].by
  BY <1>2, <1>3
<1>6. Apart'
  BY <1>5 DEF Apart, Overlap, Reducing
<1> QED BY <1>3, <1>4, <1>5, <1>6 DEF k

LEMMA ReturnKeeps ==
    ASSUME TypeOK, Shapes, Apart, NEW c \in Calls, Return(c), UNCHANGED raced
    PROVE  /\ Shapes' /\ Apart'
           /\ \A d \in Calls : call'[d] = IF d = c THEN Idle ELSE call[d]
<1>1. \A d \in Calls : call'[d] = IF d = c THEN Idle ELSE call[d]
  BY DEF Return, TypeOK
<1> QED BY <1>1, IdleShape DEF Shapes, Apart

\* Once somebody has been a member, or an operation other than the creation is
\* in progress, the founding is over for good.
LEMMA Founded ==
    ASSUME Founding, Shapes,
           \/ seen # {}
           \/ \E c \in Calls : call[c].at \in Stages /\ call[c].op # "create"
    PROVE  conv # "none" /\ \A c \in Calls : call[c].op # "create"
<1>1. CASE seen # {}
  BY <1>1 DEF Founding, Blank
<1>2. ASSUME NEW c \in Calls, call[c].at \in Stages, call[c].op # "create"
      PROVE  conv # "none" /\ \A d \in Calls : call[d].op # "create"
  BY <1>2, IdleShape DEF Founding
<1> QED BY <1>1, <1>2

LEMMA FoundedStays ==
    ASSUME conv' # "none", \A c \in Calls : call'[c].op # "create"
    PROVE  Founding'
BY DEF Founding

(***************************************************************************)
(* Steps keep what the guards are for.                                     *)
(***************************************************************************)
\* No row changes: only the call that moved has something to show.
LEMMA QuietStep ==
    ASSUME Governed, UNCHANGED rows, NEW c \in Calls,
           \A d \in Calls : d # c => call'[d] = call[d],
           CallSafe(c)'
    PROVE  Governed'
<1>1. UNCHANGED <<HasAdmin, MemberOnce, SomeAdmin, SomeMember>>
  BY DEF HasAdmin, MemberOnce, SomeAdmin, SomeMember, IsAdmin, IsMember
<1>2. \A u : UNCHANGED <<IsMember(u), IsAdmin(u), AdminBut(u)>>
  BY DEF IsMember, IsAdmin, AdminBut
<1>3. \A d \in Calls : d # c => (CallSafe(d) <=> CallSafe(d)')
  BY <1>1, <1>2 DEF CallSafe, At, Reducing
<1> QED BY <1>1, <1>3 DEF Governed

\* A write on the rows of one user ends the call that made it.
LEMMA AddStep ==
    ASSUME TypeOK, Apart, ~raced, Governed, NEW c \in Calls,
           At(c, "add", "write"),
           rows' = [rows EXCEPT ![call[c].on].plain = @ + 1],
           \A d \in Calls : call'[d] = IF d = c THEN Idle ELSE call[d]
    PROVE  Governed'
<1> DEFINE v == call[c].on
<1>1. v \in Users /\ ~IsMember(v) /\ rows[v] = NoRow /\ SomeAdmin
  BY CallType, AdminRows DEF Governed, CallSafe, At, Stages
<1>2. /\ \A u \in Users : u # v => rows'[u] = rows[u]
      /\ rows'[v] = PlainRow
  BY <1>1 DEF TypeOK, NoRow, PlainRow
<1> HIDE DEF v
<1>3. \A u \in Users : u # v => /\ IsMember(u)' <=> IsMember(u)
                                /\ IsAdmin(u)' <=> IsAdmin(u)
  BY <1>2 DEF IsMember, IsAdmin
<1>4. \A u \in Users : IsAdmin(u) => u # v /\ IsAdmin(u)'
  BY <1>1, <1>3, AdminRows
<1>5. SomeAdmin' /\ SomeMember
  BY <1>1, <1>4, AdminRows DEF SomeAdmin, SomeMember
<1>6. HasAdmin'
  BY <1>5 DEF HasAdmin, SomeAdmin
<1>7. MemberOnce'
  <2>1. Total(PlainRow) = 1
    BY DEF Total, PlainRow
  <2>2. \A u \in Users : Total(rows'[u]) <= 1
    BY <1>2, <2>1 DEF Governed, MemberOnce
  <2> QED BY <2>2 DEF MemberOnce
<1>8. ASSUME NEW d \in Calls
      PROVE  CallSafe(d)'
  <2>1. CASE d = c
    BY <2>1 DEF CallSafe, At, Idle, Reducing
  <2>2. CASE d # c
    <3>1. call'[d] = call[d] /\ CallSafe(d) /\ ~Overlap(call[c], call[d])
      BY <2>2 DEF Governed, Apart
    <3>2. call[d].at \in {"count", "write"} => call[d].on \in Users
      BY CallType DEF Stages
    <3>3. At(d, "add", "write") => ~IsMember(call[d].on)'
      <4>1. call[d].op = "add" => call[d].on # v
        BY <3>1 DEF Overlap, At, v
      <4> QED BY <1>3, <3>1, <3>2, <4>1 DEF CallSafe, At
    <3>4. call[d].at = "count" => IsAdmin(call[d].on)'
      <4>1. call[d].at = "count" => IsAdmin(call[d].on)
        BY <3>1 DEF CallSafe
      <4> QED BY <1>4, <3>1, <3>2, <4>1 DEF IsAdmin
    <3>5. Reducing(call[d]) /\ call[d].at = "write" => AdminBut(call[d].on)'
      <4>1. Reducing(call[d]) /\ call[d].at = "write" => AdminBut(call[d].on)
        BY <1>5, <3>1 DEF CallSafe
      <4> QED BY <1>4, <3>1, <4>1 DEF AdminBut
    <3>6. UNCHANGED <<At(d, "add", "write"), Reducing(call[d])>>
      BY <3>1 DEF At, Reducing
    <3> QED BY <1>5, <3>1, <3>3, <3>4, <3>5, <3>6 DEF CallSafe
  <2> QED BY <2>1, <2>2
<1> QED BY <1>6, <1>7, <1>8 DEF Governed

LEMMA PromoteStep ==
    ASSUME TypeOK, Governed, NEW c \in Calls,
           At(c, "promote", "write"),
           rows' = [rows EXCEPT ![call[c].on] = Promoted(rows[call[c].on])],
           \A d \in Calls : call'[d] = IF d = c THEN Idle ELSE call[d]
    PROVE  Governed'
<1> DEFINE v == call[c].on
<1>1. v \in Users
  BY CallType DEF At, Stages
<1>2. /\ \A u \in Users : u # v => rows'[u] = rows[u]
      /\ rows'[v] = Promoted(rows[v])
  BY <1>1 DEF TypeOK
<1> HIDE DEF v
<1>3. \A u \in Users : Total(rows'[u]) = Total(rows[u])
  BY <1>1, <1>2, AdminRows DEF Promoted, Total, Row
<1>4. \A u \in Users : IsMember(u)' <=> IsMember(u)
  BY <1>3 DEF IsMember
<1>5. \A u \in Users : IsAdmin(u) => IsAdmin(u)'
  BY <1>1, <1>2 DEF IsAdmin, AdminRow, Promoted, Total
<1>6. HasAdmin' /\ MemberOnce' /\ (SomeAdmin => SomeAdmin')
  BY <1>3, <1>4, <1>5 DEF Governed, HasAdmin, MemberOnce, SomeAdmin
<1>7. (SomeMember' => SomeMember) /\ \A u : AdminBut(u) => AdminBut(u)'
  BY <1>4, <1>5 DEF SomeMember, AdminBut
<1>8. ASSUME NEW d \in Calls
      PROVE  CallSafe(d)'
  <2>1. CASE d = c
    BY <2>1 DEF CallSafe, At, Idle, Reducing
  <2>2. CASE d # c
    <3>1. call'[d] = call[d] /\ CallSafe(d)
      BY <2>2 DEF Governed
    <3>2. call[d].at \in Stages => call[d].on \in Users
      BY CallType
    <3> QED BY <1>4, <1>5, <1>6, <1>7, <3>1, <3>2
            DEF CallSafe, At, Stages
  <2> QED BY <2>1, <2>2
<1> QED BY <1>6, <1>8 DEF Governed

LEMMA ReduceStep ==
    ASSUME TypeOK, Shapes, Apart, ~raced, Governed, NEW c \in Calls,
           Reducing(call[c]), call[c].at = "write",
           NEW r \in {NoRow, Demoted(rows[call[c].on])},
           rows' = [rows EXCEPT ![call[c].on] = r],
           \A d \in Calls : call'[d] = IF d = c THEN Idle ELSE call[d]
    PROVE  Governed'
<1> DEFINE v == call[c].on
<1>1. v \in Users /\ (SomeMember => AdminBut(v))
  BY CallType DEF Governed, CallSafe, Stages
<1>2. /\ \A u \in Users : u # v => rows'[u] = rows[u]
      /\ rows'[v] = r
  BY <1>1 DEF TypeOK
<1>3. Total(r) <= Total(rows[v]) /\ Total(r) \in Nat
  <2>1. rows[v] \in Row
    BY <1>1, AdminRows
  <2> HIDE DEF v
  <2> QED BY <2>1, RowTypes DEF NoRow, Demoted, Total, Row, v
<1> HIDE DEF v
<1>4. \A u \in Users : IsMember(u)' => IsMember(u)
  BY <1>1, <1>2, <1>3, AdminRows DEF IsMember
<1>5. \A u \in Users : IsAdmin(u) /\ u # v => IsAdmin(u)'
  BY <1>2 DEF IsAdmin
<1>6. SomeMember => SomeAdmin'
  BY <1>1, <1>5 DEF AdminBut, SomeAdmin
<1>7. HasAdmin'
  BY <1>4, <1>6 DEF HasAdmin, SomeMember, SomeAdmin
<1>8. MemberOnce'
  <2>1. \A u \in Users : Total(rows'[u]) <= 1
    BY <1>1, <1>2, <1>3, AdminRows DEF Governed, MemberOnce
  <2> QED BY <2>1 DEF MemberOnce
<1>9. SomeAdmin => SomeAdmin'
  BY <1>6, AdminRows DEF SomeAdmin, SomeMember
<1>10. ASSUME NEW d \in Calls
       PROVE  CallSafe(d)'
  <2>1. CASE d = c
    BY <2>1 DEF CallSafe, At, Idle, Reducing
  <2>2. CASE d # c
    <3>1. call'[d] = call[d] /\ CallSafe(d) /\ ~Overlap(call[c], call[d])
      BY <2>2 DEF Governed, Apart
    <3>2. ~Reducing(call[d]) /\ call[d].at # "count"
      <4>1. call[d].at = "count" => call[d].op \in {"remove", "demote", "leave"}
        BY DEF Shapes, CallShape, Stages, Ops
      <4> QED BY <3>1, <4>1 DEF Overlap, Reducing
    <3>3. call[d].at \in Stages => call[d].on \in Users
      BY CallType
    <3> QED BY <1>4, <1>9, <3>1, <3>2, <3>3 DEF CallSafe, At, Stages
  <2> QED BY <2>1, <2>2
<1> QED BY <1>7, <1>8, <1>10 DEF Governed

\* Everybody goes: nothing else that reads the members is under way.
LEMMA ClearStep ==
    ASSUME Shapes, Apart, ~raced, NEW c \in Calls, call[c].op = "delete",
           rows' = [u \in Users |-> NoRow],
           \A d \in Calls : d # c => call'[d] = call[d],
           call'[c].op # "add", call'[c].at \notin {"count", "write"}
    PROVE  Governed'
<1>1. HasAdmin'
  BY DEF HasAdmin, IsMember, Total, NoRow
<1>2. MemberOnce'
  BY DEF MemberOnce, Total, NoRow
<1>3. ASSUME NEW d \in Calls
      PROVE  CallSafe(d)'
  <2>1. CASE d = c
    BY <2>1 DEF CallSafe, At
  <2>2. CASE d # c
    <3>1. call'[d] = call[d] /\ ~Overlap(call[c], call[d])
      BY <2>2 DEF Apart
    <3>2. ~Reducing(call[d]) /\ call[d].op # "add" /\ call[d].at # "count"
      <4>1. call[d].at = "count" => call[d].op \in {"remove", "demote", "leave"}
        BY DEF Shapes, CallShape, Stages, Ops
      <4> QED BY <3>1, <4>1 DEF Overlap, Reducing
    <3> QED BY <3>1, <3>2 DEF CallSafe, At, Reducing
  <2> QED BY <2>1, <2>2
<1> QED BY <1>1, <1>2, <1>3 DEF Governed

\* The founding members: one admin, and nothing else is under way.
LEMMA EnrollStep ==
    ASSUME NEW u \in Users, NEW others \in SUBSET Users,
           rows' = [w \in Users |-> IF w = u THEN AdminRow
                                   ELSE IF w \in others THEN PlainRow ELSE NoRow],
           \A d \in Calls : call'[d] = Idle
    PROVE  Governed'
<1>1. HasAdmin'
  <2>1. rows'[u] = AdminRow
    OBVIOUS
  <2> QED BY <2>1 DEF HasAdmin, IsAdmin
<1>2. MemberOnce'
  <2>1. Total(AdminRow) = 1 /\ Total(PlainRow) = 1 /\ Total(NoRow) = 0
    BY DEF Total, AdminRow, PlainRow, NoRow
  <2>2. \A w \in Users : rows'[w] \in {AdminRow, PlainRow, NoRow}
    OBVIOUS
  <2>3. \A w \in Users : Total(rows'[w]) <= 1
    BY <2>1, <2>2
  <2> QED BY <2>3 DEF MemberOnce
<1>3. \A d \in Calls : CallSafe(d)'
  BY DEF CallSafe, At, Idle, Reducing
<1> QED BY <1>1, <1>2, <1>3 DEF Governed

(***************************************************************************)
(* What an operation's start, next stage and end keep.                     *)
(***************************************************************************)
LEMMA AskStep ==
    ASSUME IInv, NEW c \in Calls, NEW op \in Ops \ {"create"}, NEW u \in Users,
           NEW v \in Users, NEW stage \in Stages, Begin(c, op, u, v, stage),
           CallShape([op |-> op, by |-> u, on |-> v, at |-> stage]),
           u \in seen, op # "leave" => u \in wasAdmin,
           UNCHANGED <<conv, rows, wasAdmin>>, blind => blind',
           Governed /\ ~blind' =>
              /\ op = "add" => SomeAdmin /\ stage # "write"
              /\ stage = "count" => IsAdmin(v)
              /\ op \in {"remove", "demote", "leave"} /\ stage = "write"
                    /\ SomeMember => AdminBut(v)
    PROVE  Shapes' /\ Apart' /\ Founding' /\ Authority' /\ Safe'
<1> DEFINE k == [op |-> op, by |-> u, on |-> v, at |-> stage]
<1>1. Shapes' /\ Apart'
  BY BeginKeeps DEF IInv
<1>2. /\ \A d \in Calls : call'[d] = IF d = c THEN k ELSE call[d]
      /\ raced => raced'
  BY DEF Begin, IInv, TypeOK
<1>3. k.op = op /\ k.by = u /\ k.on = v /\ k.at = stage
  OBVIOUS
<1> HIDE DEF k
<1>4. Founding'
  <2>1. conv # "none" /\ \A d \in Calls : call[d].op # "create"
    BY Founded DEF IInv
  <2> QED BY <1>2, <1>3, <2>1, FoundedStays
<1>5. Authority'
  BY <1>2, <1>3 DEF IInv, Authority
<1>6. ASSUME ~raced', ~blind'
      PROVE  Governed'
  <2>1. Governed
    BY <1>2, <1>6 DEF IInv, Safe
  <2>2. UNCHANGED <<SomeAdmin, SomeMember, IsAdmin(v), AdminBut(v)>>
    BY DEF SomeAdmin, SomeMember, IsMember, IsAdmin, AdminBut
  <2>3. call'[c] = k
    BY <1>2
  <2>4. CallSafe(c)'
    <3>1. Reducing(k) /\ stage = "write" => op \in {"remove", "demote", "leave"}
      <4>1. CallShape(k)
        BY DEF k
      <4> QED BY <1>3, <4>1 DEF CallShape, Reducing
    <3>2. At(c, "add", "write")' <=> op = "add" /\ stage = "write"
      BY <1>3, <2>3 DEF At
    <3>3. AdminBut(call[c].on)' <=> AdminBut(v)
      BY <1>3, <2>3 DEF AdminBut, IsAdmin
    <3>4. IsAdmin(call[c].on)' <=> IsAdmin(v)
      BY <1>3, <2>3 DEF IsAdmin
    <3>5. Reducing(call[c])' <=> Reducing(k)
      BY <2>3 DEF Reducing
    <3> QED BY <1>3, <1>6, <2>1, <2>2, <2>3, <3>1, <3>2, <3>3, <3>4, <3>5 DEF CallSafe
  <2> QED BY <1>2, <2>1, <2>4, QuietStep
<1> QED BY <1>1, <1>4, <1>5, <1>6 DEF Safe

LEMMA StageStep ==
    ASSUME IInv, NEW c \in Calls, NEW stage \in Stages, Go(c, stage),
           call[c].at \in Stages, CallShape([call[c] EXCEPT !.at = stage]),
           call[c].op # "create",
           UNCHANGED <<conv, wasAdmin, raced>>,
           \A u \in Users : rows'[u].admin > 0 => u \in wasAdmin
    PROVE  /\ Shapes' /\ Apart' /\ Founding' /\ Authority'
           /\ call'[c] = [call[c] EXCEPT !.at = stage]
           /\ \A d \in Calls : /\ call'[d].op = call[d].op
                               /\ call'[d].on = call[d].on
                               /\ d # c => call'[d] = call[d]
<1>1. /\ Shapes' /\ Apart'
      /\ call'[c] = [call[c] EXCEPT !.at = stage]
      /\ \A d \in Calls : /\ call'[d].op = call[d].op
                          /\ call'[d].on = call[d].on
                          /\ call'[d].by = call[d].by
                          /\ d # c => call'[d] = call[d]
  BY GoKeeps DEF IInv
<1>2. Founding'
  <2>1. conv # "none" /\ \A d \in Calls : call[d].op # "create"
    BY Founded DEF IInv
  <2> QED BY <1>1, <2>1, FoundedStays
<1>3. Authority'
  BY <1>1 DEF IInv, Authority
<1> QED BY <1>1, <1>2, <1>3

LEMMA EndStep ==
    ASSUME IInv, NEW c \in Calls, Return(c), call[c].at \in Stages,
           UNCHANGED raced, conv # "none" => conv' # "none",
           wasAdmin \subseteq wasAdmin',
           \A u \in Users : rows'[u].admin > 0 => u \in wasAdmin'
    PROVE  /\ Shapes' /\ Apart' /\ Founding' /\ Authority'
           /\ \A d \in Calls : call'[d] = IF d = c THEN Idle ELSE call[d]
<1>1. /\ Shapes' /\ Apart'
      /\ \A d \in Calls : call'[d] = IF d = c THEN Idle ELSE call[d]
  BY ReturnKeeps DEF IInv
<1>2. Idle.op = "none" /\ call[c] # Idle
  BY IdleShape DEF Idle
<1>3. conv # "none" /\ \A d \in Calls : d # c => call[d].op # "create"
  <2>1. CASE call[c].op = "create"
    BY <1>2, <2>1 DEF IInv, Founding
  <2>2. CASE call[c].op # "create"
    BY <2>2, Founded DEF IInv
  <2> QED BY <2>1, <2>2
<1>4. Founding'
  <2>1. \A d \in Calls : call'[d].op # "create"
    BY <1>1, <1>2, <1>3
  <2> QED BY <1>3, <2>1, FoundedStays
<1>5. Authority'
  BY <1>1, <1>2 DEF IInv, Authority
<1> QED BY <1>1, <1>4, <1>5

\* An operation that ends and leaves the rows alone.
LEMMA EndQuietly ==
    ASSUME IInv, NEW c \in Calls, Return(c), call[c].at \in Stages,
           UNCHANGED <<rows, wasAdmin, raced>>, conv # "none" => conv' # "none",
           blind => blind'
    PROVE  Shapes' /\ Apart' /\ Founding' /\ Authority' /\ Safe'
<1>1. \A u \in Users : rows'[u].admin > 0 => u \in wasAdmin'
  BY DEF IInv, Authority
<1>2. /\ Shapes' /\ Apart' /\ Founding' /\ Authority'
      /\ \A d \in Calls : call'[d] = IF d = c THEN Idle ELSE call[d]
  BY <1>1, EndStep
<1>3. CallSafe(c)'
  BY <1>2 DEF CallSafe, At, Idle, Reducing
<1>4. Safe'
  BY <1>2, <1>3, QuietStep DEF IInv, Safe
<1> QED BY <1>2, <1>4

(***************************************************************************)
(* The invariant holds at first, and every step keeps it.                  *)
(***************************************************************************)
LEMMA InvInit == Init => IInv
<1> SUFFICES ASSUME Init PROVE IInv
  OBVIOUS
<1>1. /\ \A c \in Calls : call[c] = Idle
      /\ \A u \in Users : rows[u] = NoRow
  BY DEF Init
<1>2. Total(NoRow) = 0 /\ NoRow.admin = 0
  BY DEF Total, NoRow
<1>3. Shapes /\ Apart
  BY <1>1, IdleShape DEF Shapes, Apart
<1>4. Founding /\ Authority
  BY <1>1, <1>2 DEF Init, Founding, Blank, Authority, Idle
<1>5. \A c \in Calls : CallSafe(c)
  BY <1>1 DEF CallSafe, At, Idle, Reducing
<1>6. HasAdmin /\ MemberOnce
  BY <1>1, <1>2 DEF HasAdmin, MemberOnce, IsMember
<1> QED BY <1>3, <1>4, <1>5, <1>6, TypeInit DEF IInv, Safe, Governed

LEMMA InvStep == IInv /\ [Next]_vars => IInv'
<1> SUFFICES ASSUME IInv, [Next]_vars
             PROVE  Shapes' /\ Apart' /\ Founding' /\ Authority' /\ Safe'
  BY TypeStep DEF IInv
<1> USE DEF history
<1>a. \A u \in Users : IsAdmin(u) => u \in wasAdmin
  BY AdminRows DEF IInv, Authority
<1>b. \A u \in Users : rows[u].admin > 0 => u \in wasAdmin
  BY DEF IInv, Authority
<1>c. TypeOK
  BY DEF IInv
<1>1. ASSUME NEW c \in Calls, NEW u \in Users, CreateTeam(c, u)
      PROVE  Shapes' /\ Apart' /\ Founding' /\ Authority' /\ Safe'
  <2> DEFINE k == [op |-> "create", by |-> u, on |-> u, at |-> "enroll"]
  <2>1. Blank /\ \A d \in Calls : call'[d] = IF d = c THEN k ELSE Idle
    BY <1>1, <1>c DEF CreateTeam, Begin, TypeOK, IInv, Founding
  <2>2. Shapes' /\ Apart'
    <3>1. CallShape(k)
      BY DEF CallShape, Stages, Ops
    <3> QED BY <1>1, <3>1, BeginKeeps DEF CreateTeam, IInv
  <2>3. Founding'
    BY <1>1, <2>1 DEF CreateTeam, Founding, Blank, Idle
  <2>4. Authority'
    BY <1>1, <1>b, <2>1 DEF CreateTeam, Authority, Idle
  <2>5. Safe'
    <3>1. raced => raced'
      BY <1>1 DEF CreateTeam, Begin, IInv, TypeOK
    <3>2. CallSafe(c)'
      BY <2>1 DEF CallSafe, At, Reducing
    <3>3. \A d \in Calls : d # c => call'[d] = call[d]
      BY <1>1, <2>1 DEF CreateTeam, IInv, Founding
    <3> QED BY <1>1, <3>1, <3>2, <3>3, QuietStep DEF CreateTeam, IInv, Safe
  <2> QED BY <2>2, <2>3, <2>4, <2>5
<1>2. ASSUME NEW c \in Calls, NEW others \in SUBSET Users, Enroll(c, others)
      PROVE  Shapes' /\ Apart' /\ Founding' /\ Authority' /\ Safe'
  <2>1. Return(c) /\ call[c].at \in Stages /\ call[c].by \in Users
    BY <1>2, <1>c, CallType DEF Enroll, At, Stages
  <2>2. CASE UNCHANGED <<rows, wasAdmin>>
    BY <1>2, <2>1, <2>2, EndQuietly DEF Enroll
  <2>3. CASE /\ rows' = [u \in Users |-> IF u = call[c].by THEN AdminRow
                                        ELSE IF u \in others THEN PlainRow
                                        ELSE NoRow]
             /\ wasAdmin' = wasAdmin \cup {call[c].by}
    <3>1. PlainRow.admin = 0 /\ NoRow.admin = 0
      BY DEF PlainRow, NoRow
    <3>2. \A u \in Users : rows'[u].admin > 0 => u \in wasAdmin'
      BY <2>3, <3>1
    <3>3. /\ Shapes' /\ Apart' /\ Founding' /\ Authority'
          /\ \A d \in Calls : call'[d] = IF d = c THEN Idle ELSE call[d]
      BY <1>2, <2>1, <2>3, <3>2, EndStep DEF Enroll
    <3>4. \A d \in Calls : call'[d] = Idle
      BY <1>2, <3>3 DEF Enroll, At, IInv, Founding
    <3>5. PICK u \in Users : u = call[c].by
      BY <2>1
    <3>6. Governed'
      BY <2>3, <3>4, <3>5, EnrollStep
    <3> QED BY <3>3, <3>6 DEF Safe
  <2> QED BY <1>2, <2>2, <2>3 DEF Enroll
<1>3. ASSUME NEW c \in Calls, NEW u \in Users, NEW v \in Users, AskAdd(c, u, v)
      PROVE  Shapes' /\ Apart' /\ Founding' /\ Authority' /\ Safe'
  <2>1. CallShape([op |-> "add", by |-> u, on |-> v, at |-> "lookup"])
    BY DEF CallShape, Stages, Ops
  <2>2. u \in wasAdmin /\ SomeAdmin
    BY <1>3, <1>a DEF AskAdd, SomeAdmin
  <2> QED BY <1>3, <2>1, <2>2, AskStep DEF AskAdd, Ops, Stages
<1>4. ASSUME NEW c \in Calls, NEW u \in Users, NEW v \in Users, AskPromote(c, u, v)
      PROVE  Shapes' /\ Apart' /\ Founding' /\ Authority' /\ Safe'
  <2>1. CallShape([op |-> "promote", by |-> u, on |-> v, at |-> "write"])
    BY DEF CallShape, Stages, Ops
  <2>2. u \in wasAdmin
    BY <1>4, <1>a DEF AskPromote
  <2> QED BY <1>4, <2>1, <2>2, AskStep DEF AskPromote, Ops, Stages
<1>5. ASSUME NEW c \in Calls, NEW op \in {"remove", "demote"}, NEW u \in Users,
             NEW v \in Users, AskReduce(c, op, u, v)
      PROVE  Shapes' /\ Apart' /\ Founding' /\ Authority' /\ Safe'
  <2> DEFINE stage == IF v = u THEN "count" ELSE "write"
  <2>1. CallShape([op |-> op, by |-> u, on |-> v, at |-> stage])
    BY DEF CallShape, Stages, Ops
  <2>2. u \in wasAdmin /\ (v # u => AdminBut(v))
    BY <1>5, <1>a DEF AskReduce, AdminBut
  <2>3. /\ stage = "count" => IsAdmin(v)
        /\ stage = "write" => v # u
    BY <1>5 DEF AskReduce
  <2>4. Begin(c, op, u, v, stage) /\ stage \in Stages /\ op \in Ops \ {"create"}
    BY <1>5 DEF AskReduce, Stages, Ops
  <2>5. u \in seen /\ UNCHANGED <<conv, rows, wasAdmin, blind>>
    BY <1>5 DEF AskReduce
  <2> HIDE DEF stage
  <2> QED BY <2>1, <2>2, <2>3, <2>4, <2>5, AskStep
<1>6. ASSUME NEW c \in Calls, NEW u \in Users, AskLeave(c, u)
      PROVE  Shapes' /\ Apart' /\ Founding' /\ Authority' /\ Safe'
  <2>1. PICK stage \in {"count", "write"} :
           /\ Begin(c, "leave", u, u, stage)
           /\ blind' \/ stage = LeaveStage(u)
           /\ blind => blind'
    BY <1>6 DEF AskLeave, LeaveStage, IInv, TypeOK
  <2>2. CallShape([op |-> "leave", by |-> u, on |-> u, at |-> stage])
    BY DEF CallShape, Stages, Ops
  <2>3. Governed /\ ~blind' =>
           /\ stage = "count" => IsAdmin(u)
           /\ stage = "write" /\ SomeMember => AdminBut(u)
    BY <2>1 DEF LeaveStage, Governed, HasAdmin, SomeMember, AdminBut
  <2>4. stage \in Stages /\ "leave" \in Ops \ {"create"}
    BY DEF Stages, Ops
  <2>5. u \in seen /\ UNCHANGED <<conv, rows, wasAdmin>>
    BY <1>6 DEF AskLeave
  <2> QED BY <2>1, <2>2, <2>3, <2>4, <2>5, AskStep
<1>7. ASSUME NEW c \in Calls, NEW u \in Users, AskDelete(c, u)
      PROVE  Shapes' /\ Apart' /\ Founding' /\ Authority' /\ Safe'
  <2>1. CallShape([op |-> "delete", by |-> u, on |-> u, at |-> "find"])
    BY DEF CallShape, Stages, Ops
  <2>2. u \in wasAdmin
    BY <1>7, <1>a DEF AskDelete
  <2> QED BY <1>7, <2>1, <2>2, AskStep DEF AskDelete, Ops, Stages
<1>8. ASSUME NEW c \in Calls, LookupMember(c)
      PROVE  Shapes' /\ Apart' /\ Founding' /\ Authority' /\ Safe'
  <2>1. /\ call[c].op = "add" /\ call[c].at \in Stages /\ call[c].on \in Users
        /\ "write" \in Stages
        /\ UNCHANGED <<conv, rows, seen, wasAdmin, raced>> /\ (blind => blind')
    BY <1>8, <1>c, CallType DEF LookupMember, At, Stages
  <2>2. CASE Return(c)
    BY <2>1, <2>2, EndQuietly
  <2>3. CASE Go(c, "write") /\ (blind' \/ ~AlreadyMember(call[c].on))
    <3>1. CallShape([call[c] EXCEPT !.at = "write"])
      BY <2>1, <1>c DEF CallShape, TypeOK, Call, Idle, Stages, Ops
    <3>2. /\ Shapes' /\ Apart' /\ Founding' /\ Authority'
          /\ \A d \in Calls : /\ call'[d].op = call[d].op
                              /\ call'[d].on = call[d].on
                              /\ d # c => call'[d] = call[d]
          /\ call'[c] = [call[c] EXCEPT !.at = "write"]
      BY <2>1, <2>3, <3>1, <1>b, StageStep
    <3>3. ASSUME ~raced', ~blind'
          PROVE  Governed'
      <4>1. Governed /\ ~AlreadyMember(call[c].on)
        BY <2>1, <2>3, <3>3 DEF IInv, Safe
      <4>2. ~IsMember(call[c].on) /\ SomeAdmin
        BY <1>c, <2>1, <4>1, AdminRows
           DEF Governed, MemberOnce, AlreadyMember, IsMember, CallSafe
      <4>3. CallSafe(c)'
        <5>1. SomeAdmin' /\ ~IsMember(call[c].on)'
          BY <2>1, <3>2, <4>2 DEF SomeAdmin, IsAdmin, IsMember
        <5>2. call'[c].op = "add" /\ call'[c].at # "count"
          BY <2>1, <3>2, <1>c DEF TypeOK, Call
        <5> QED BY <5>1, <5>2 DEF CallSafe, Reducing
      <4> QED BY <2>1, <3>2, <4>1, <4>3, QuietStep
    <3> QED BY <3>2, <3>3 DEF Safe
  <2> QED BY <1>8, <2>2, <2>3 DEF LookupMember
<1>9. ASSUME NEW c \in Calls, InsertMember(c)
      PROVE  Shapes' /\ Apart' /\ Founding' /\ Authority' /\ Safe'
  <2>1. /\ call[c].at \in Stages /\ call[c].on \in Users /\ Return(c)
        /\ UNCHANGED <<conv, wasAdmin, raced, blind>>
    BY <1>9, <1>c, CallType DEF InsertMember, At, Stages
  <2>2. CASE UNCHANGED rows
    BY <2>1, <2>2, EndQuietly
  <2>3. CASE rows' = [rows EXCEPT ![call[c].on].plain = @ + 1]
    <3>1. \A u \in Users : rows'[u].admin > 0 => u \in wasAdmin'
      <4>1. \A u \in Users : rows'[u].admin = rows[u].admin
        BY <1>c, <2>1, <2>3 DEF TypeOK, Row
      <4> QED BY <1>b, <2>1, <4>1
    <3>2. /\ Shapes' /\ Apart' /\ Founding' /\ Authority'
          /\ \A d \in Calls : call'[d] = IF d = c THEN Idle ELSE call[d]
      BY <2>1, <3>1, EndStep
    <3>3. Safe'
      <4>1. At(c, "add", "write")
        BY <1>9 DEF InsertMember
      <4>2. ~raced /\ Governed => Governed'
        BY <1>c, <2>3, <3>2, <4>1, AddStep DEF IInv
      <4> QED BY <2>1, <4>2 DEF IInv, Safe
    <3> QED BY <3>2, <3>3
  <2> QED BY <1>9, <2>2, <2>3 DEF InsertMember
<1>10. ASSUME NEW c \in Calls, Promote(c)
       PROVE  Shapes' /\ Apart' /\ Founding' /\ Authority' /\ Safe'
  <2>1. /\ call[c].at \in Stages /\ call[c].on \in Users /\ Return(c)
        /\ UNCHANGED <<conv, raced, blind>>
        /\ wasAdmin' = IF rows'[call[c].on].admin > 0
                       THEN wasAdmin \cup {call[c].on} ELSE wasAdmin
        /\ \/ UNCHANGED rows
           \/ rows' = [rows EXCEPT ![call[c].on] = Promoted(rows[call[c].on])]
    BY <1>10, <1>c, CallType DEF Promote, SetRow, At, Stages
  <2>2. \A u \in Users : rows'[u].admin > 0 => u \in wasAdmin'
    <3>1. \A u \in Users : u # call[c].on => rows'[u] = rows[u]
      BY <1>c, <2>1 DEF TypeOK
    <3> QED BY <1>b, <2>1, <3>1
  <2>3. /\ Shapes' /\ Apart' /\ Founding' /\ Authority'
        /\ \A d \in Calls : call'[d] = IF d = c THEN Idle ELSE call[d]
    BY <2>1, <2>2, EndStep
  <2>4. Safe'
    <3>1. CASE UNCHANGED rows
      <4>1. CallSafe(c)'
        BY <2>3 DEF CallSafe, At, Idle, Reducing
      <4> QED BY <2>1, <2>3, <3>1, <4>1, QuietStep DEF IInv, Safe
    <3>2. CASE rows' = [rows EXCEPT ![call[c].on] = Promoted(rows[call[c].on])]
      <4>1. At(c, "promote", "write")
        BY <1>10 DEF Promote
      <4>2. Governed => Governed'
        BY <1>c, <2>3, <3>2, <4>1, PromoteStep
      <4> QED BY <2>1, <4>2 DEF IInv, Safe
    <3> QED BY <2>1, <3>1, <3>2
  <2> QED BY <2>3, <2>4
<1>11. ASSUME NEW c \in Calls, CountAdmins(c)
       PROVE  Shapes' /\ Apart' /\ Founding' /\ Authority' /\ Safe'
  <2>1. /\ call[c].at = "count" /\ call[c].at \in Stages /\ call[c].on \in Users
        /\ "write" \in Stages
        /\ UNCHANGED <<conv, rows, seen, wasAdmin, raced>> /\ (blind => blind')
    BY <1>11, <1>c, CallType DEF CountAdmins, Stages
  <2>2. CASE Return(c)
    BY <2>1, <2>2, EndQuietly
  <2>3. CASE Go(c, "write") /\ (blind' \/ ~OneAdminRow)
    <3>1. call[c].op \in {"remove", "demote", "leave"} /\ CallShape(call[c])
      BY <2>1 DEF IInv, Shapes, CallShape, Stages, Ops
    <3>2. CallShape([call[c] EXCEPT !.at = "write"])
      BY <2>1, <3>1, <1>c DEF CallShape, TypeOK, Call, Idle, Stages, Ops
    <3>3. /\ Shapes' /\ Apart' /\ Founding' /\ Authority'
          /\ \A d \in Calls : /\ call'[d].op = call[d].op
                              /\ call'[d].on = call[d].on
                              /\ d # c => call'[d] = call[d]
          /\ call'[c] = [call[c] EXCEPT !.at = "write"]
      BY <2>1, <2>3, <3>1, <3>2, <1>b, StageStep
    <3>4. ASSUME ~raced', ~blind'
          PROVE  Governed'
      <4>1. Governed /\ ~OneAdminRow /\ IsAdmin(call[c].on)
        BY <2>1, <2>3, <3>4 DEF IInv, Safe, Governed, CallSafe
      <4>2. AdminBut(call[c].on)
        <5>1. PICK v \in Users : v = call[c].on
          BY <2>1
        <5>2. rows[v].admin = 1
          BY <4>1, <5>1 DEF IsAdmin, AdminRow
        <5>3. PICK w \in Users \ {v} : rows[w].admin # 0
          BY <4>1, <5>2 DEF OneAdminRow
        <5>4. rows[w] \in Row /\ Total(rows[w]) <= 1
          BY <4>1, AdminRows, <1>c DEF Governed, MemberOnce
        <5>5. rows[w] = AdminRow
          BY <5>3, <5>4 DEF Row, Total, AdminRow
        <5> QED BY <5>1, <5>5 DEF AdminBut, IsAdmin
      <4>3. CallSafe(c)'
        <5>1. AdminBut(call[c].on)'
          BY <2>1, <3>3, <4>2 DEF AdminBut, IsAdmin
        <5>2. call'[c].op # "add" /\ call'[c].at = "write"
          BY <3>1, <3>3, <2>1, <1>c DEF TypeOK, Call, Idle
        <5> QED BY <5>1, <5>2 DEF CallSafe, At
      <4> QED BY <2>1, <3>3, <4>1, <4>3, QuietStep
    <3> QED BY <3>3, <3>4 DEF Safe
  <2> QED BY <1>11, <2>2, <2>3 DEF CountAdmins
<1>12. ASSUME NEW c \in Calls, NEW r \in {NoRow, Demoted(rows[call[c].on])},
              SetRow(c, r), Reducing(call[c]), call[c].at = "write",
              UNCHANGED <<conv, wasAdmin, raced, blind>>
       PROVE  Shapes' /\ Apart' /\ Founding' /\ Authority' /\ Safe'
  <2>1. /\ call[c].at \in Stages /\ call[c].on \in Users /\ Return(c)
        /\ UNCHANGED rows \/ rows' = [rows EXCEPT ![call[c].on] = r]
    BY <1>12, <1>c, CallType DEF SetRow, Stages
  <2>2. CASE UNCHANGED rows
    BY <1>12, <2>1, <2>2, EndQuietly
  <2>3. CASE rows' = [rows EXCEPT ![call[c].on] = r]
    <3>1. r.admin = 0
      BY DEF NoRow, Demoted
    <3>2. \A u \in Users : rows'[u].admin > 0 => u \in wasAdmin'
      <4>1. \A u \in Users : rows'[u] = IF u = call[c].on THEN r ELSE rows[u]
        BY <1>c, <2>1, <2>3 DEF TypeOK
      <4> QED BY <1>12, <1>b, <3>1, <4>1
    <3>3. /\ Shapes' /\ Apart' /\ Founding' /\ Authority'
          /\ \A d \in Calls : call'[d] = IF d = c THEN Idle ELSE call[d]
      BY <1>12, <2>1, <3>2, EndStep
    <3>4. Safe'
      BY <1>12, <1>c, <2>3, <3>3, ReduceStep DEF IInv, Safe
    <3> QED BY <3>3, <3>4
  <2> QED BY <2>1, <2>2, <2>3
<1>13. ASSUME NEW c \in Calls, RemoveOrLeave(c)
       PROVE  Shapes' /\ Apart' /\ Founding' /\ Authority' /\ Safe'
  BY <1>12, <1>13 DEF RemoveOrLeave, At, Reducing
<1>14. ASSUME NEW c \in Calls, Demote(c)
       PROVE  Shapes' /\ Apart' /\ Founding' /\ Authority' /\ Safe'
  BY <1>12, <1>14 DEF Demote, At, Reducing
<1>15. ASSUME NEW c \in Calls, call[c].op = "delete", call[c].at \in Stages,
              NEW stage \in {"purge", "members", "conversation"},
              Go(c, stage) \/ Return(c),
              rows' = rows \/ rows' = [u \in Users |-> NoRow],
              UNCHANGED <<conv, wasAdmin, raced, blind>>
       PROVE  Shapes' /\ Apart' /\ Founding' /\ Authority' /\ Safe'
  <2>1. \A u \in Users : rows'[u].admin > 0 => u \in wasAdmin
    <3>1. NoRow.admin = 0
      BY DEF NoRow
    <3> QED BY <1>15, <1>b, <3>1
  <2>2. /\ Shapes' /\ Apart' /\ Founding' /\ Authority'
        /\ call'[c].op # "add" /\ call'[c].at \notin {"count", "write"}
        /\ \A d \in Calls : d # c => call'[d] = call[d]
    <3>1. CASE Go(c, stage)
      <4>1. CallShape([call[c] EXCEPT !.at = stage]) /\ stage \in Stages
        BY <1>15, <1>c DEF CallShape, TypeOK, Call, Idle, Stages, Ops
      <4>2. /\ Shapes' /\ Apart' /\ Founding' /\ Authority'
            /\ call'[c] = [call[c] EXCEPT !.at = stage]
            /\ \A d \in Calls : call'[d].op = call[d].op
            /\ \A d \in Calls : d # c => call'[d] = call[d]
        BY <1>15, <2>1, <3>1, <4>1, StageStep
      <4>3. call'[c].at = stage
        BY <1>15, <1>c, <4>2 DEF TypeOK, Call, Idle
      <4> QED BY <1>15, <4>2, <4>3
    <3>2. CASE Return(c)
      BY <1>15, <2>1, <3>2, EndStep DEF Idle
    <3> QED BY <1>15, <3>1, <3>2
  <2>3. Safe'
    <3>1. CASE rows' = rows
      <4>1. CallSafe(c)'
        BY <2>2 DEF CallSafe, At
      <4> QED BY <1>15, <2>2, <3>1, <4>1, QuietStep DEF IInv, Safe
    <3>2. CASE rows' = [u \in Users |-> NoRow]
      BY <1>15, <2>2, <3>2, ClearStep DEF IInv, Safe
    <3> QED BY <1>15, <3>1, <3>2
  <2> QED BY <2>2, <2>3
<1>16. ASSUME NEW c \in Calls, FindMessages(c)
       PROVE  Shapes' /\ Apart' /\ Founding' /\ Authority' /\ Safe'
  BY <1>15, <1>16 DEF FindMessages, At, Stages
<1>17. ASSUME NEW c \in Calls, DeleteMessages(c)
       PROVE  Shapes' /\ Apart' /\ Founding' /\ Authority' /\ Safe'
  BY <1>15, <1>17 DEF DeleteMessages, At, Stages
<1>18. ASSUME NEW c \in Calls, DeleteMembers(c)
       PROVE  Shapes' /\ Apart' /\ Founding' /\ Authority' /\ Safe'
  BY <1>15, <1>18 DEF DeleteMembers, At, Stages
<1>19. ASSUME NEW c \in Calls, DeleteConversation(c)
       PROVE  Shapes' /\ Apart' /\ Founding' /\ Authority' /\ Safe'
  BY <1>19, EndQuietly DEF DeleteConversation, At, Stages
<1>20. CASE UNCHANGED <<conv, rows, call, seen, wasAdmin, raced, blind>>
  <2>1. Shapes' /\ Apart' /\ Founding' /\ Authority'
    BY <1>20 DEF IInv, Shapes, Apart, Founding, Blank, Authority
  <2>2. Safe'
    <3>1. Governed => \A c \in Calls : Governed'
      <4>1. \A c \in Calls : CallSafe(c) => CallSafe(c)'
        BY <1>20 DEF CallSafe, At, Reducing, SomeAdmin, SomeMember, AdminBut,
                     IsAdmin, IsMember
      <4> QED BY <1>20, <4>1, QuietStep DEF Governed
    <3>2. PICK c \in Calls : TRUE
      BY UsersAssumption
    <3> QED BY <1>20, <3>1, <3>2 DEF IInv, Safe
  <2> QED BY <2>1, <2>2
<1> QED BY <1>1, <1>2, <1>3, <1>4, <1>5, <1>6, <1>7, <1>8, <1>9, <1>10, <1>11,
           <1>13, <1>14, <1>16, <1>17, <1>18, <1>19, <1>20
           DEF Next, Continue, AskRemove, AskDemote, SendMessage, vars

\* The invariant holds in every state, whatever the calls of the group do in between.
THEOREM InvCorrect == Spec => []IInv
<1> QED BY InvInit, InvStep, PTL DEF Spec

(***************************************************************************)
(* What the invariant gives.                                               *)
(***************************************************************************)
\* For any number of users, tabs and operations: without a race between two
\* operations that take rights away, and without a failed guard, a group that
\* has members has an admin (801-811, 869-879, 1033-1043).
THEOREM AdminKept == Spec => []KeepsAdmin
<1>1. IInv => KeepsAdmin
  BY DEF IInv, Safe, Governed, KeepsAdmin
<1> QED BY <1>1, InvCorrect, PTL

\* Under the same condition nobody has two rows (754-764).
THEOREM MembersDistinct == Spec => []DistinctMembers
<1>1. IInv => DistinctMembers
  BY DEF IInv, Safe, Governed, DistinctMembers
<1> QED BY <1>1, InvCorrect, PTL

\* And what a guard found is still true when the write it guards is done.
THEOREM PendingStaysSound == Spec => []PendingSound
<1>1. IInv => PendingSound
  BY DEF IInv, Safe, Governed, PendingSound, CallSafe, SomeMember, AdminBut
<1> QED BY <1>1, InvCorrect, PTL

\* Whatever races and fails, only the creator and those an admin made admins
\* change somebody else's membership (748-751, 794-797, 835-838, 863-866).
LEMMA GovernStep == IInv /\ [Next]_vars => [ByAnAdmin]_vars
<1> SUFFICES ASSUME IInv, [Next]_vars, NEW u \in Users, rows'[u] # rows[u]
             PROVE  \E c \in Calls : /\ call'[c] # call[c]
                                     /\ \/ call[c].by = u
                                        \/ call[c].by \in wasAdmin
                                        \/ call[c].op = "create"
  BY DEF ByAnAdmin
<1> USE DEF history
<1>1. ASSUME NEW c \in Calls, Return(c), call[c].at \in Stages
      PROVE  call'[c] # call[c]
  BY <1>1, IdleShape DEF Return, IInv, TypeOK
<1>2. \A c \in Calls :
         call[c].op \in {"add", "remove", "promote", "demote", "delete"}
             => call[c].by \in wasAdmin
  BY DEF IInv, Authority
<1>3. ASSUME NEW c \in Calls, NEW others \in SUBSET Users, Enroll(c, others)
      PROVE  call'[c] # call[c] /\ call[c].op = "create"
  BY <1>1, <1>3 DEF Enroll, At, Stages
<1>4. ASSUME NEW c \in Calls, InsertMember(c)
      PROVE  call'[c] # call[c] /\ call[c].by \in wasAdmin
  BY <1>1, <1>2, <1>4 DEF InsertMember, At, Stages
<1>5. ASSUME NEW c \in Calls, Promote(c)
      PROVE  call'[c] # call[c] /\ call[c].by \in wasAdmin
  BY <1>1, <1>2, <1>5 DEF Promote, SetRow, At, Stages
<1>6. ASSUME NEW c \in Calls, RemoveOrLeave(c)
      PROVE  call'[c] # call[c] /\ (call[c].by = u \/ call[c].by \in wasAdmin)
  <2>1. call[c].at \in Stages /\ call[c].op \in {"remove", "leave"} /\ Return(c)
    BY <1>6 DEF RemoveOrLeave, SetRow, At, Stages
  <2>2. CASE call[c].op = "leave"
    <3>1. call[c].by = call[c].on
      BY <2>2 DEF IInv, Shapes, CallShape
    <3>2. u = call[c].on
      BY <1>6 DEF RemoveOrLeave, SetRow, IInv, TypeOK
    <3> QED BY <1>1, <2>1, <3>1, <3>2
  <2> QED BY <1>1, <1>2, <2>1, <2>2
<1>7. ASSUME NEW c \in Calls, Demote(c)
      PROVE  call'[c] # call[c] /\ call[c].by \in wasAdmin
  BY <1>1, <1>2, <1>7 DEF Demote, SetRow, At, Stages
<1>8. ASSUME NEW c \in Calls, DeleteMembers(c)
      PROVE  call'[c] # call[c] /\ call[c].by \in wasAdmin
  <2>1. call[c].op = "delete" /\ call[c].at = "members" /\ "members" \in Stages
    BY <1>8 DEF DeleteMembers, At, Stages
  <2>2. CASE Go(c, "conversation")
    <3>1. call[c] \in [op : Ops, by : Users, on : Users, at : Stages]
      BY <2>1 DEF IInv, TypeOK, Call, Idle
    <3>2. call'[c] = [call[c] EXCEPT !.at = "conversation"]
      BY <2>2 DEF Go, IInv, TypeOK
    <3>3. call'[c].at = "conversation"
      BY <3>1, <3>2
    <3> QED BY <1>2, <2>1, <3>3
  <2> QED BY <1>1, <1>2, <1>8, <2>1, <2>2 DEF DeleteMembers
<1>9. CASE UNCHANGED rows
  BY <1>9
<1> QED BY <1>3, <1>4, <1>5, <1>6, <1>7, <1>8, <1>9
        DEF Next, Continue, CreateTeam, AskAdd, AskPromote, AskRemove, AskDemote,
            AskReduce, AskLeave, AskDelete, LookupMember, CountAdmins, FindMessages,
            DeleteMessages, DeleteConversation, SendMessage, vars

\* So in every behaviour: no interleaving or failure lets a member who is no
\* admin remove, demote or promote another.
THEOREM AdminsGovern == Spec => OnlyAdminsGovern
<1> QED BY GovernStep, InvCorrect, PTL DEF Spec, OnlyAdminsGovern

(***************************************************************************)
(* The direct conversation.                                                *)
(***************************************************************************)
\* The user's own step of call, whatever it is, is not "nothing".
LEMMA Underway ==
    ASSUME NEW x \in Doing
    PROVE  x # None
BY DirectChatConstants

\* What the record of a call holds, by its step.
LEMMA CallFields ==
    ASSUME DMTypeOK, NEW u \in Pair
    PROVE  /\ In(u, "search") \/ In(u, "insert") => doing[u].candidates \in SUBSET Convs
           /\ In(u, "members") => doing[u].c \in Convs
           /\ In(u, "index") => doing[u].m \in 1 .. MaxMsgs
           /\ In(u, "delete") => doing[u].m \in 1 .. MaxMsgs /\ doing[u].deletedFor \in SUBSET Pair
<1>1. doing[u] \in {None} \cup Doing
  BY DEF DMTypeOK
<1> QED BY <1>1 DEF In, Doing

\* The records the steps make are calls.
LEMMA CallRecords ==
    /\ \A K \in SUBSET Convs : /\ [step |-> "search", candidates |-> K] \in Doing
                               /\ [step |-> "insert", candidates |-> K] \in Doing
    /\ \A c \in Convs : [step |-> "members", c |-> c] \in Doing
    /\ \A m \in 1 .. MaxMsgs : [step |-> "index", m |-> m] \in Doing
    /\ \A m \in 1 .. MaxMsgs, D \in SUBSET Pair :
          [step |-> "delete", m |-> m, deletedFor |-> D] \in Doing
BY DEF Doing

LEMMA DMTypeInit == DMInit => DMTypeOK
BY DirectChatConstants DEF DMInit, DMTypeOK, In

\* TypeOK is preserved by every step.
LEMMA DMTypeStep == DMTypeOK /\ [DMNext]_dmVars => DMTypeOK'
<1> SUFFICES ASSUME DMTypeOK, [DMNext]_dmVars PROVE DMTypeOK'
  OBVIOUS
<1> USE DirectChatConstants
<1>0. DOMAIN Steps = {"create", "send", "delete"}
  BY DEF Steps
<1>1. ASSUME NEW u \in Pair, BeginCreate(u) PROVE DMTypeOK'
  BY <1>0, <1>1, CallRecords, Underway DEF BeginCreate, Starts, DMTypeOK, In, convVars, msgVars
<1>2. ASSUME NEW u \in Pair, Search(u) PROVE DMTypeOK'
  BY <1>0, <1>2, CallFields, CallRecords, Underway DEF Search, Goes, DMTypeOK, In, convVars, msgVars
<1>3. ASSUME NEW u \in Pair, SearchFails(u) PROVE DMTypeOK'
  <2> DEFINE x == [step |-> "insert", candidates |-> {}]
  <2>1. x \in Doing /\ x # None /\ x.step = "insert"
    BY CallRecords, Underway
  <2> HIDE DEF x
  <2> QED BY <1>0, <1>3, <2>1 DEF SearchFails, DMTypeOK, In, convVars, msgVars, x
<1>4. ASSUME NEW u \in Pair, NEW c \in Convs, InsertConversation(u, c) PROVE DMTypeOK'
  BY <1>0, <1>4, CallRecords, Underway DEF InsertConversation, Goes, DMTypeOK, In, convVars, msgVars
<1>5. ASSUME NEW u \in Pair, AddMembers(u) PROVE DMTypeOK'
  BY <1>0, <1>5, CallFields DEF AddMembers, Goes, DMTypeOK, In, convVars, msgVars
<1>6. ASSUME NEW u \in Pair, AddMembersFails(u) PROVE DMTypeOK'
  BY <1>0, <1>6 DEF AddMembersFails, Goes, DMTypeOK, In, convVars, msgVars
<1>7. ASSUME NEW u \in Pair, InsertMessage(u) PROVE DMTypeOK'
  BY <1>0, <1>7, CallRecords, Underway DEF InsertMessage, Starts, DMTypeOK, In, convVars, msgVars
<1>8. ASSUME NEW u \in Pair, UpdateIndex(u) PROVE DMTypeOK'
  BY <1>0, <1>8 DEF UpdateIndex, Goes, DMTypeOK, In, convVars, msgVars
<1>9. ASSUME NEW u \in Pair, UpdateIndexFails(u) PROVE DMTypeOK'
  BY <1>0, <1>9 DEF UpdateIndexFails, Goes, DMTypeOK, In, convVars, msgVars
<1>10. ASSUME NEW u \in Pair, NEW m \in 1 .. MaxMsgs, ReadDeletedFor(u, m) PROVE DMTypeOK'
  BY <1>0, <1>10, CallRecords, Underway DEF ReadDeletedFor, Starts, DMTypeOK, In, convVars, msgVars
<1>11. ASSUME NEW u \in Pair, ReadDeletedForFails(u) PROVE DMTypeOK'
  <2> DEFINE x == [doing[u] EXCEPT !.deletedFor = {}]
  <2>1. /\ doing' = [doing EXCEPT ![u] = x] /\ In(u, "delete")
        /\ UNCHANGED <<inserted, members, msgs, index, deletedFor, hidden>>
        /\ disturbed' = disturbed \cup {"delete"} /\ fails' \in 0 .. MaxFails
    BY <1>11 DEF ReadDeletedForFails, DMTypeOK, convVars, msgVars
  <2>2. x \in Doing /\ x # None /\ x.step = "delete" /\ x.m = doing[u].m
    BY <2>1, CallFields, CallRecords, Underway DEF DMTypeOK, In, Doing
  <2> HIDE DEF x
  <2>3. doing'[u] = x /\ \A v \in Pair : v # u => doing'[v] = doing[v]
    BY <2>1 DEF DMTypeOK
  <2> QED BY <1>0, <2>1, <2>2, <2>3 DEF DMTypeOK, In
<1>12. ASSUME NEW u \in Pair, WriteDeletedFor(u) PROVE DMTypeOK'
  BY <1>0, <1>12, CallFields DEF WriteDeletedFor, WithUser, Goes, DMTypeOK, In, convVars, msgVars
<1>13. CASE UNCHANGED dmVars
  BY <1>13 DEF dmVars, DMTypeOK, In
<1> QED
  BY <1>1, <1>2, <1>3, <1>4, <1>5, <1>6, <1>7, <1>8, <1>9, <1>10, <1>11, <1>12, <1>13 DEF DMNext

(***************************************************************************)
(* Creation.                                                               *)
(***************************************************************************)
\* A user is creating the conversation.
Creating(u) == In(u, "search") \/ In(u, "insert") \/ In(u, "members")

\* While no two creations cross and no search fails: one user at a time is
\* creating, who has read all the conversations there are, and goes on to
\* insert one only if none is a direct one.
CreateInv ==
  /\ \A c \in Convs : members[c] \in {{}, Pair}
  /\ "create" \notin disturbed =>
       /\ \A c, d \in Direct : c = d
       /\ \A u, v \in Pair : Creating(u) /\ Creating(v) => u = v
       /\ \A u \in Pair : In(u, "search") => Direct \subseteq doing[u].candidates
       /\ \A u \in Pair : In(u, "insert") \/ In(u, "members") => Direct = {}

\* A step that leaves the conversations alone, and the creations too but for
\* one that ends.
LEMMA CreateQuiet ==
    ASSUME DMTypeOK, CreateInv, UNCHANGED convVars, disturbed \subseteq disturbed',
           \A u \in Pair : Creating(u)' => doing'[u] = doing[u]
    PROVE  CreateInv'
<1>1. Direct' = Direct
  BY DEF Direct, convVars
<1>2. \A u \in Pair : Creating(u)' => Creating(u)
  BY DEF Creating, In
<1> QED BY <1>1, <1>2 DEF CreateInv, convVars, Creating, In

LEMMA CreateStep == DMTypeOK /\ CreateInv /\ [DMNext]_dmVars => CreateInv'
<1> SUFFICES ASSUME DMTypeOK, CreateInv, [DMNext]_dmVars PROVE CreateInv'
  OBVIOUS
<1> USE DirectChatConstants
<1>1. ASSUME NEW u \in Pair, BeginCreate(u) PROVE CreateInv'
  <2> DEFINE K == {c \in inserted : u \in members[c]}
             x == [step |-> "search", candidates |-> K]
  <2>1. x \in Doing /\ x # None /\ x.step = "search" /\ x.candidates = K
    BY CallRecords, Underway DEF DMTypeOK
  <2>2. doing' = [doing EXCEPT ![u] = x] /\ UNCHANGED convVars /\ doing[u] = None
    BY <1>1 DEF BeginCreate, Starts
  <2>3. Direct' = Direct /\ Direct \subseteq K
    BY <2>2 DEF Direct, convVars
  <2> HIDE DEF x, K
  <2>4. \A v \in Pair : v # u => (Creating(v)' <=> Creating(v)) /\ doing'[v] = doing[v]
    BY <2>2 DEF DMTypeOK, Creating, In
  <2>5. doing'[u] = x
    BY <2>2 DEF DMTypeOK
  <2>6. "create" \notin disturbed' => "create" \notin disturbed /\ \A v \in Pair : ~Creating(v)
    BY <1>1 DEF BeginCreate, Starts, Creating, Steps, In
  <2> QED BY <2>1, <2>2, <2>3, <2>4, <2>5, <2>6 DEF CreateInv, In, Creating, convVars
<1>2. ASSUME NEW u \in Pair, Search(u) PROVE CreateInv'
  <2>1. UNCHANGED convVars /\ disturbed' = disturbed /\ In(u, "search") /\ Direct' = Direct
    BY <1>2 DEF Search, Goes, Direct, convVars
  <2>2. CASE Found(u)
    <3>1. doing' = [doing EXCEPT ![u] = None]
      BY <1>2, <2>2 DEF Search, Goes
    <3> QED BY <2>1, <3>1, CreateQuiet DEF DMTypeOK, Creating, In
  <2>3. CASE ~Found(u)
    <3> DEFINE x == [step |-> "insert", candidates |-> doing[u].candidates]
    <3>1. doing' = [doing EXCEPT ![u] = x]
      BY <1>2, <2>3 DEF Search, Goes
    <3>2. x \in Doing /\ x # None /\ x.step = "insert"
      BY <2>1, CallFields, CallRecords, Underway
    <3> HIDE DEF x
    <3>3. "create" \notin disturbed => Direct = {}
      <4> SUFFICES ASSUME "create" \notin disturbed, NEW c \in Direct PROVE FALSE
        OBVIOUS
      <4>1. doing[u].candidates \cap Direct = {c}
        BY <2>1 DEF CreateInv
      <4> QED BY <2>3, <4>1, FS_Singleton DEF Found
    <3>4. doing'[u] = x /\ \A v \in Pair : v # u => doing'[v] = doing[v]
      BY <3>1 DEF DMTypeOK
    <3> QED BY <2>1, <3>2, <3>3, <3>4 DEF CreateInv, In, Creating, convVars
  <2> QED BY <2>2, <2>3
<1>3. ASSUME NEW u \in Pair, SearchFails(u) PROVE CreateInv'
  BY <1>3 DEF SearchFails, CreateInv, convVars
<1>4. ASSUME NEW u \in Pair, NEW c \in Convs, InsertConversation(u, c) PROVE CreateInv'
  <2> DEFINE x == [step |-> "members", c |-> c]
  <2>1. x \in Doing /\ x # None /\ x.step = "members"
    BY CallRecords, Underway
  <2>2. /\ doing' = [doing EXCEPT ![u] = x] /\ disturbed' = disturbed /\ members' = members
        /\ inserted' = inserted \cup {c} /\ c \notin inserted /\ In(u, "insert")
    BY <1>4 DEF InsertConversation, Goes
  <2> HIDE DEF x
  <2>3. doing'[u] = x /\ \A v \in Pair : v # u => doing'[v] = doing[v]
    BY <2>2 DEF DMTypeOK
  <2>4. Direct' = Direct
    <3>1. members[c] # Pair
      BY <2>2 DEF DMTypeOK
    <3> QED BY <2>2, <3>1 DEF Direct
  <2> QED BY <2>1, <2>2, <2>3, <2>4 DEF CreateInv, In, Creating
<1>5. ASSUME NEW u \in Pair, AddMembers(u) PROVE CreateInv'
  <2> DEFINE c == doing[u].c
  <2>1. In(u, "members") /\ c \in Convs
    BY <1>5, CallFields DEF AddMembers
  <2>2. /\ doing' = [doing EXCEPT ![u] = None] /\ disturbed' = disturbed /\ inserted' = inserted
        /\ members' = [members EXCEPT ![c] = Pair]
    BY <1>5 DEF AddMembers, Goes
  <2> HIDE DEF c
  <2>3. doing'[u] = None /\ \A v \in Pair : v # u => doing'[v] = doing[v]
    BY <2>2 DEF DMTypeOK
  <2>4. Direct' \subseteq Direct \cup {c}
    BY <2>1, <2>2 DEF Direct, DMTypeOK
  <2>5. \A d \in Convs : members'[d] \in {{}, Pair}
    BY <2>1, <2>2 DEF CreateInv, DMTypeOK
  <2>6. \A v \in Pair : Creating(v)' => v # u /\ Creating(v)
    BY <2>3 DEF Creating, In
  <2>7. "create" \notin disturbed => Direct = {} /\ \A v \in Pair : ~Creating(v)'
    BY <2>1, <2>6 DEF CreateInv, Creating
  <2> QED BY <2>2, <2>4, <2>5, <2>7 DEF CreateInv, In, Creating
<1>6. ASSUME NEW u \in Pair, AddMembersFails(u) PROVE CreateInv'
  BY <1>6, CreateQuiet DEF AddMembersFails, Goes, DMTypeOK, Creating, In
<1>7. ASSUME NEW u \in Pair, InsertMessage(u) PROVE CreateInv'
  BY <1>7, CreateQuiet, CallRecords DEF InsertMessage, Starts, DMTypeOK, Creating, In
<1>8. ASSUME NEW u \in Pair, UpdateIndex(u) \/ UpdateIndexFails(u) PROVE CreateInv'
  BY <1>8, CreateQuiet DEF UpdateIndex, UpdateIndexFails, Goes, DMTypeOK, Creating, In
<1>9. ASSUME NEW u \in Pair, NEW m \in 1 .. MaxMsgs, ReadDeletedFor(u, m) PROVE CreateInv'
  BY <1>9, CreateQuiet DEF ReadDeletedFor, Starts, DMTypeOK, Creating, In
<1>10. ASSUME NEW u \in Pair, ReadDeletedForFails(u) PROVE CreateInv'
  BY <1>10, CreateQuiet, CallFields DEF ReadDeletedForFails, DMTypeOK, Creating, In, Doing
<1>11. ASSUME NEW u \in Pair, WriteDeletedFor(u) PROVE CreateInv'
  BY <1>11, CreateQuiet DEF WriteDeletedFor, Goes, DMTypeOK, Creating, In
<1>12. CASE UNCHANGED dmVars
  BY <1>12, CreateQuiet DEF dmVars, convVars, Creating, In
<1> QED
  BY <1>1, <1>2, <1>3, <1>4, <1>5, <1>6, <1>7, <1>8, <1>9, <1>10, <1>11, <1>12 DEF DMNext

(***************************************************************************)
(* Messages.                                                               *)
(***************************************************************************)
\* While no two messages cross and no call fails, the one message under way is
\* the last one, and without one the index shows it.
SendInv ==
  fails = 0 /\ "send" \notin disturbed =>
    /\ \A u, v \in Pair : In(u, "index") /\ In(v, "index") => u = v
    /\ \A u \in Pair : In(u, "index") => doing[u].m = msgs
    /\ (\A u \in Pair : ~In(u, "index")) => index = msgs

LEMMA SendQuiet ==
    ASSUME DMTypeOK, SendInv, UNCHANGED <<msgs, index>>, disturbed \subseteq disturbed', fails <= fails',
           \A u \in Pair : In(u, "index") \/ In(u, "index")' => doing'[u] = doing[u]
    PROVE  SendInv'
<1>1. \A u \in Pair : In(u, "index")' <=> In(u, "index")
  BY DEF In
<1>2. fails' = 0 => fails = 0
  BY DEF DMTypeOK
<1> QED BY <1>1, <1>2 DEF SendInv

LEMMA SendStep == DMTypeOK /\ SendInv /\ [DMNext]_dmVars => SendInv'
<1> SUFFICES ASSUME DMTypeOK, SendInv, [DMNext]_dmVars PROVE SendInv'
  OBVIOUS
<1> USE DirectChatConstants DEF msgVars
<1>0. fails \in Nat
  BY DEF DMTypeOK
<1>1. ASSUME NEW u \in Pair, BeginCreate(u) PROVE SendInv'
  BY <1>0, <1>1, SendQuiet DEF BeginCreate, Starts, DMTypeOK, In
<1>2. ASSUME NEW u \in Pair, Search(u) PROVE SendInv'
  BY <1>0, <1>2, SendQuiet DEF Search, Goes, DMTypeOK, In
<1>3. ASSUME NEW u \in Pair, SearchFails(u) PROVE SendInv'
  BY <1>0, <1>3, SendQuiet DEF SearchFails, DMTypeOK, In
<1>4. ASSUME NEW u \in Pair, NEW c \in Convs, InsertConversation(u, c) PROVE SendInv'
  BY <1>0, <1>4, SendQuiet DEF InsertConversation, Goes, DMTypeOK, In
<1>5. ASSUME NEW u \in Pair, AddMembers(u) \/ AddMembersFails(u) PROVE SendInv'
  BY <1>0, <1>5, SendQuiet DEF AddMembers, AddMembersFails, Goes, DMTypeOK, In
<1>6. ASSUME NEW u \in Pair, InsertMessage(u) PROVE SendInv'
  <2> DEFINE x == [step |-> "index", m |-> msgs + 1]
  <2>1. doing' = [doing EXCEPT ![u] = x] /\ msgs' = msgs + 1 /\ index' = index /\ fails' = fails
    BY <1>6 DEF InsertMessage, Starts
  <2>2. x # None /\ x.step = "index" /\ x.m = msgs + 1
    BY <1>6, CallRecords, Underway DEF InsertMessage, DMTypeOK
  <2> HIDE DEF x
  <2>3. doing'[u] = x /\ \A v \in Pair : v # u => doing'[v] = doing[v]
    BY <2>1 DEF DMTypeOK
  <2>4. "send" \notin disturbed' => "send" \notin disturbed /\ \A v \in Pair : ~In(v, "index")
    BY <1>6 DEF InsertMessage, Starts, Steps
  <2> QED BY <2>1, <2>2, <2>3, <2>4 DEF SendInv, In
<1>7. ASSUME NEW u \in Pair, UpdateIndex(u) PROVE SendInv'
  <2>1. /\ doing' = [doing EXCEPT ![u] = None] /\ disturbed' = disturbed /\ fails' = fails
        /\ In(u, "index") /\ index' = doing[u].m /\ msgs' = msgs
    BY <1>7 DEF UpdateIndex, Goes
  <2>2. doing'[u] = None /\ \A v \in Pair : v # u => doing'[v] = doing[v]
    BY <2>1 DEF DMTypeOK
  <2> QED BY <2>1, <2>2 DEF SendInv, In
<1>8. ASSUME NEW u \in Pair, UpdateIndexFails(u) PROVE SendInv'
  BY <1>0, <1>8 DEF UpdateIndexFails, SendInv
<1>9. ASSUME NEW u \in Pair, NEW m \in 1 .. MaxMsgs, ReadDeletedFor(u, m) PROVE SendInv'
  BY <1>0, <1>9, SendQuiet DEF ReadDeletedFor, Starts, DMTypeOK, In
<1>10. ASSUME NEW u \in Pair, ReadDeletedForFails(u) PROVE SendInv'
  BY <1>0, <1>10 DEF ReadDeletedForFails, SendInv
<1>11. ASSUME NEW u \in Pair, WriteDeletedFor(u) PROVE SendInv'
  BY <1>0, <1>11, SendQuiet DEF WriteDeletedFor, Goes, DMTypeOK, In
<1>12. CASE UNCHANGED dmVars
  BY <1>12 DEF dmVars, SendInv, In
<1> QED
  BY <1>1, <1>2, <1>3, <1>4, <1>5, <1>6, <1>7, <1>8, <1>9, <1>10, <1>11, <1>12 DEF DMNext

(***************************************************************************)
(* Deletion for oneself.                                                   *)
(***************************************************************************)
\* While no two deletions cross and no read fails, the one under way has read
\* the list as it still is.
DeleteInv ==
  "delete" \notin disturbed =>
    /\ \A u, v \in Pair : In(u, "delete") /\ In(v, "delete") => u = v
    /\ \A u \in Pair : In(u, "delete") => doing[u].deletedFor = deletedFor[doing[u].m]
    /\ \A h \in hidden : h[2] \in deletedFor[h[1]]

LEMMA DeleteQuiet ==
    ASSUME DMTypeOK, DeleteInv, UNCHANGED <<deletedFor, hidden>>, disturbed \subseteq disturbed',
           \A u \in Pair : In(u, "delete")' => doing'[u] = doing[u]
    PROVE  DeleteInv'
<1>1. \A u \in Pair : In(u, "delete")' => In(u, "delete")
  BY DEF In
<1> QED BY <1>1 DEF DeleteInv

LEMMA DeleteStep == DMTypeOK /\ DeleteInv /\ [DMNext]_dmVars => DeleteInv'
<1> SUFFICES ASSUME DMTypeOK, DeleteInv, [DMNext]_dmVars PROVE DeleteInv'
  OBVIOUS
<1> USE DirectChatConstants DEF msgVars
<1>1. ASSUME NEW u \in Pair, BeginCreate(u) PROVE DeleteInv'
  BY <1>1, DeleteQuiet DEF BeginCreate, Starts, DMTypeOK, In
<1>2. ASSUME NEW u \in Pair, Search(u) PROVE DeleteInv'
  BY <1>2, DeleteQuiet DEF Search, Goes, DMTypeOK, In
<1>3. ASSUME NEW u \in Pair, SearchFails(u) PROVE DeleteInv'
  BY <1>3, DeleteQuiet DEF SearchFails, DMTypeOK, In
<1>4. ASSUME NEW u \in Pair, NEW c \in Convs, InsertConversation(u, c) PROVE DeleteInv'
  BY <1>4, DeleteQuiet DEF InsertConversation, Goes, DMTypeOK, In
<1>5. ASSUME NEW u \in Pair, AddMembers(u) \/ AddMembersFails(u) PROVE DeleteInv'
  BY <1>5, DeleteQuiet DEF AddMembers, AddMembersFails, Goes, DMTypeOK, In
<1>6. ASSUME NEW u \in Pair, InsertMessage(u) PROVE DeleteInv'
  BY <1>6, DeleteQuiet DEF InsertMessage, Starts, DMTypeOK, In
<1>7. ASSUME NEW u \in Pair, UpdateIndex(u) \/ UpdateIndexFails(u) PROVE DeleteInv'
  BY <1>7, DeleteQuiet DEF UpdateIndex, UpdateIndexFails, Goes, DMTypeOK, In
<1>8. ASSUME NEW u \in Pair, NEW m \in 1 .. MaxMsgs, ReadDeletedFor(u, m) PROVE DeleteInv'
  <2> DEFINE x == [step |-> "delete", m |-> m, deletedFor |-> deletedFor[m]]
  <2>1. doing' = [doing EXCEPT ![u] = x] /\ UNCHANGED <<deletedFor, hidden>>
    BY <1>8 DEF ReadDeletedFor, Starts
  <2>2. x # None /\ x.step = "delete" /\ x.deletedFor = deletedFor[x.m]
    BY CallRecords, Underway DEF DMTypeOK
  <2> HIDE DEF x
  <2>3. doing'[u] = x /\ \A v \in Pair : v # u => doing'[v] = doing[v]
    BY <2>1 DEF DMTypeOK
  <2>4. "delete" \notin disturbed' => "delete" \notin disturbed /\ \A v \in Pair : ~In(v, "delete")
    BY <1>8 DEF ReadDeletedFor, Starts, Steps
  <2> QED BY <2>1, <2>2, <2>3, <2>4 DEF DeleteInv, In
<1>9. ASSUME NEW u \in Pair, ReadDeletedForFails(u) PROVE DeleteInv'
  BY <1>9 DEF ReadDeletedForFails, DeleteInv
<1>10. ASSUME NEW u \in Pair, WriteDeletedFor(u) PROVE DeleteInv'
  <2> DEFINE m == doing[u].m
  <2>1. /\ doing' = [doing EXCEPT ![u] = None] /\ disturbed' = disturbed /\ In(u, "delete")
        /\ deletedFor' = IF u \in doing[u].deletedFor THEN deletedFor
                         ELSE [deletedFor EXCEPT ![m] = doing[u].deletedFor \cup {u}]
        /\ hidden' = hidden \cup {<<m, u>>}
    BY <1>10 DEF WriteDeletedFor, WithUser, Goes
  <2>2. m \in 1 .. MaxMsgs
    BY <2>1, CallFields
  <2>3. doing'[u] = None /\ \A v \in Pair : v # u => doing'[v] = doing[v]
    BY <2>1 DEF DMTypeOK
  <2> HIDE DEF m
  <2> SUFFICES ASSUME "delete" \notin disturbed PROVE DeleteInv'
    BY <2>1 DEF DeleteInv
  <2>4. doing[u].deletedFor = deletedFor[m] /\ \A v \in Pair : ~In(v, "delete")'
    BY <2>1, <2>3 DEF DeleteInv, In, m
  <2>5. u \in deletedFor'[m] /\ \A k \in 1 .. MaxMsgs : deletedFor[k] \subseteq deletedFor'[k]
    BY <2>1, <2>2, <2>4 DEF DMTypeOK
  <2>6. \A h \in hidden' : h[2] \in deletedFor'[h[1]]
    <3> TAKE h \in hidden'
    <3>1. CASE h \in hidden
      BY <2>5, <3>1 DEF DeleteInv, DMTypeOK
    <3>2. CASE h = <<m, u>>
      BY <2>5, <3>2
    <3> QED BY <2>1, <3>1, <3>2
  <2> QED BY <2>4, <2>6 DEF DeleteInv
<1>11. CASE UNCHANGED dmVars
  BY <1>11 DEF dmVars, DeleteInv, In
<1> QED
  BY <1>1, <1>2, <1>3, <1>4, <1>5, <1>6, <1>7, <1>8, <1>9, <1>10, <1>11 DEF DMNext

(***************************************************************************)
(* The theorems.                                                           *)
(***************************************************************************)
DMInv == DMTypeOK /\ CreateInv /\ SendInv /\ DeleteInv

LEMMA DMInvCorrect == DMSpec => []DMInv
<1>1. DMInit => DMInv
  <2> SUFFICES ASSUME DMInit PROVE DMInv
    OBVIOUS
  <2>1. \A u \in Pair : doing[u] = None
    BY DEF DMInit
  <2>2. CreateInv
    BY <2>1 DEF DMInit, CreateInv, Direct, Creating, In
  <2>3. SendInv /\ DeleteInv
    BY <2>1 DEF DMInit, SendInv, DeleteInv, In
  <2> QED BY <2>2, <2>3, DMTypeInit DEF DMInv
<1>2. DMInv /\ [DMNext]_dmVars => DMInv'
  BY DMTypeStep, CreateStep, SendStep, DeleteStep DEF DMInv
<1> QED BY <1>1, <1>2, PTL DEF DMSpec

\* Two users share one direct conversation, whatever calls fail half way, unless
\* both ask for it at once or a search fails (createDMConversation).
THEOREM ConversationShared == DMSpec => []OneDirect
<1>1. DMInv => OneDirect
  <2> SUFFICES ASSUME DMInv, "create" \notin disturbed PROVE Cardinality(Direct) <= 1
    BY DEF OneDirect
  <2>1. Direct = {} \/ \E c \in Direct : Direct = {c}
    BY DEF DMInv, CreateInv
  <2> QED BY <2>1, FS_EmptySet, FS_Singleton
<1> QED BY <1>1, DMInvCorrect, PTL

\* The index shows the last message and what a user hid stays hidden, as far as
\* calls do not cross or fail; what is referred to is there (sendMessage,
\* updateConversationIndex, deleteMessageForMe).
THEOREM MessagesKept == DMSpec => []MessagesSound
<1>1. DMInv => MessagesSound
  BY DEF DMInv, MessagesSound, SendInv, DeleteInv, IndexLatest, HiddenStays
<1> QED BY <1>1, DMInvCorrect, PTL
=============================================================================
