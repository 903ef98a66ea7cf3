-------------------------- MODULE LeaveManagement --------------------------
(***************************************************************************)
(* The leave requests of one employee and what the approval pages do with  *)
(* them: employee/pages/ModulePage.jsx (submitLeaveRequest) and the        *)
(* handleAction of the manager's, the executive's and the team lead's page.*)
(*                                                                         *)
(* Every await is a step of its own, for other pages act in between.  The  *)
(* days of a request are split into paid ones and loss of pay (lop).       *)
(* Dates, reasons and notifications are left out.                          *)
(***************************************************************************)
EXTENDS Integers, FiniteSets

CONSTANTS
  Leaves,      \* the requests that may be submitted
  Tabs,        \* the employee's open forms
  Managers,    \* approvers who update the leave before the balance
  Leads,       \* executives and team leads, who update the balance first
  None,
  Start,       \* the balance of leaves at the start
  MaxDays,     \* bound: the days of a request
  MaxFails     \* bound: the calls to the database that fail

\* A row of the table leaves, what a form has read, and a decision under way.
Rows == [status : {"none", "pending", "approved", "rejected"}, paid : 0 .. MaxDays, lop : 0 .. MaxDays]
Forms == [days : 1 .. MaxDays, balance : 0 .. Start, paid : {None} \cup 0 .. MaxDays]
Calls == [l : Leaves, item : Rows, status : {"approved", "rejected"}, balance : {None} \cup 0 .. Start, done : BOOLEAN]

ASSUME LeaveConstants ==
  /\ Start \in Nat /\ MaxDays \in Nat /\ MaxFails \in Nat
  /\ IsFiniteSet(Leaves) /\ Managers \cap Leads = {}
  /\ None \notin Nat \cup Forms \cup Calls

VARIABLES
  balance,   \* profiles.total_leaves_balance
  leave,     \* the rows of the table leaves
  form,      \* what each form has read
  page,      \* the rows each approver's page shows
  call,      \* the approver's action in progress
  fails,
  crossed,   \* history: a decision began during another one, or came too late
  halted     \* history: a manager's call stopped half-way, or a lead's balance
             \* could not be read

past == <<crossed, halted>>
vars == <<balance, leave, form, page, call, fails, past>>

Approvers == Managers \cup Leads
NoLeave == [status |-> "none", paid |-> 0, lop |-> 0]

Init ==
  /\ balance = Start
  /\ leave = [l \in Leaves |-> NoLeave]
  /\ form = [t \in Tabs |-> None]
  /\ page = [a \in Approvers |-> [l \in Leaves |-> NoLeave]]
  /\ call = [a \in Approvers |-> None]
  /\ fails = 0
  /\ crossed = FALSE
  /\ halted = FALSE

SmallerOf(m, n) == IF m < n THEN m ELSE n
LargerOf(m, n) == IF m > n THEN m ELSE n
With(status) == {l \in Leaves : leave[l].status = status}

\* The paid days of some requests, one by one, and their sum.
PaidDays(set) == {d \in set \X (1 .. MaxDays) : d[2] <= leave[d[1]].paid}
Paid(set) == Cardinality(PaidDays(set))

(***************************************************************************)
(* The employee's form: the balance is read, then the pending requests,    *)
(* then the row is inserted.                                               *)
(***************************************************************************)
ReadBalance(t, days) ==
  /\ form[t] = None
  /\ form' = [form EXCEPT ![t] = [days |-> days, balance |-> balance, paid |-> None]]
  /\ UNCHANGED <<balance, leave, page, call, fails, past>>

ReadPending(t) ==
  /\ form[t] # None
  /\ form[t].paid = None
  /\ LET effective == LargerOf(0, form[t].balance - Paid(With("pending")))
     IN form' = [form EXCEPT ![t].paid = LargerOf(0, SmallerOf(form[t].days, effective))]
  /\ UNCHANGED <<balance, leave, page, call, fails, past>>

Insert(t, l) ==
  /\ form[t] # None
  /\ form[t].paid # None
  /\ leave[l] = NoLeave
  /\ leave' = [leave EXCEPT ![l] = [status |-> "pending", paid |-> form[t].paid,
                                    lop |-> form[t].days - form[t].paid]]
  /\ form' = [form EXCEPT ![t] = None]
  /\ UNCHANGED <<balance, page, call, fails, past>>

\* The insert fails; the form stays open.
InsertFails(t) ==
  /\ form[t] # None
  /\ form[t].paid # None
  /\ fails < MaxFails
  /\ fails' = fails + 1
  /\ form' = [form EXCEPT ![t] = None]
  /\ UNCHANGED <<balance, leave, page, call, past>>

(***************************************************************************)
(* The approver's page.                                                    *)
(***************************************************************************)
LoadPage(a) ==
  /\ call[a] = None
  /\ page' = [page EXCEPT ![a] = leave]
  /\ UNCHANGED <<balance, leave, form, call, fails, past>>

InProgress == {a \in Approvers : call[a] # None}
Crosses(l) == crossed' = (crossed \/ InProgress # {} \/ leave[l].status # "pending")

\* Only a request that the page shows as pending has buttons; the page shows
\* the outcome at once, and the balance is read.
Begin(a, l, status) ==
  /\ call[a] = None
  /\ page[a][l].status = "pending"
  /\ page' = [page EXCEPT ![a][l].status = status]
  /\ call' = [call EXCEPT ![a] = [l |-> l, item |-> page[a][l], status |-> status,
                                  balance |-> balance, done |-> FALSE]]
  /\ Crosses(l)
  /\ UNCHANGED <<balance, leave, form, fails, halted>>

\* The balance cannot be read: a manager stops there (UpdateFails); a lead goes
\* on to approve the request as it is, and charges nothing.
BeginUnread(a, l) ==
  /\ fails < MaxFails
  /\ a \in Leads
  /\ call[a] = None
  /\ page[a][l].status = "pending"
  /\ page' = [page EXCEPT ![a][l].status = "approved"]
  /\ call' = [call EXCEPT ![a] = [l |-> l, item |-> page[a][l], status |-> "approved",
                                  balance |-> None, done |-> FALSE]]
  /\ fails' = fails + 1
  /\ Crosses(l)
  /\ halted' = TRUE
  /\ UNCHANGED <<balance, leave, form>>

\* The days that are paid: as many as the balance that was read allows.
FinalPaid(c) ==
  IF c.status = "approved" /\ c.balance # None THEN LargerOf(0, SmallerOf(c.item.paid + c.item.lop, c.balance))
  ELSE c.item.paid

\* As a mistake would have it: the loss of pay is left as it was.
SplitPaidOnly(c) == [status |-> c.status, paid |-> FinalPaid(c), lop |-> c.item.lop]

Split(c) == [status |-> c.status, paid |-> FinalPaid(c), lop |-> c.item.paid + c.item.lop - FinalPaid(c)]

\* Whether the call changes the leave only.
LeaveOnly(a) ==
  \/ call[a].status = "rejected"
  \/ a \in Leads /\ (call[a].balance = None \/ FinalPaid(call[a]) = 0)

\* Whether the next update of the approver's call is that of the leave.
LeaveFirst(a) == a \in Managers \/ LeaveOnly(a)
LeaveDue(a) == call[a].done # LeaveFirst(a)

\* As a mistake would have it: what is found to be paid is not charged.
LastAlways(a) == TRUE

\* Whether no other one follows.
Last(a) == call[a].done \/ LeaveOnly(a)

Ends(a) == call' = [call EXCEPT ![a] = IF Last(a) THEN None ELSE [@ EXCEPT !.done = TRUE]]

\* A rejection by a manager leaves the days of the row alone.
UpdateLeave(a) ==
  /\ call[a] # None
  /\ LeaveDue(a)
  /\ LET c == call[a] IN
     leave' = [leave EXCEPT ![c.l] =
                 IF c.status = "rejected" /\ a \in Managers THEN [@ EXCEPT !.status = "rejected"]
                 ELSE Split(c)]
  /\ Ends(a)
  /\ UNCHANGED <<balance, form, page, fails, past>>

UpdateBalance(a) ==
  /\ call[a] # None
  /\ ~LeaveDue(a)
  /\ balance' = call[a].balance - FinalPaid(call[a])
  /\ Ends(a)
  /\ UNCHANGED <<leave, form, page, fails, past>>

\* A call fails: the rest is not done, and the page is not set back.
UpdateFails(a) ==
  /\ call[a] # None
  /\ fails < MaxFails
  /\ fails' = fails + 1
  /\ call' = [call EXCEPT ![a] = None]
  /\ halted' = (halted \/ a \in Managers)
  /\ UNCHANGED <<balance, leave, form, page, crossed>>

Next ==
  \/ \E t \in Tabs, days \in 1 .. MaxDays : ReadBalance(t, days)
  \/ \E t \in Tabs : ReadPending(t)
  \/ \E t \in Tabs, l \in Leaves : Insert(t, l)
  \/ \E t \in Tabs : InsertFails(t)
  \/ \E a \in Approvers : LoadPage(a)
  \/ \E a \in Approvers, l \in Leaves, status \in {"approved", "rejected"} : Begin(a, l, status)
  \/ \E a \in Approvers, l \in Leaves : BeginUnread(a, l)
  \/ \E a \in Approvers : UpdateLeave(a)
  \/ \E a \in Approvers : UpdateBalance(a)
  \/ \E a \in Approvers : UpdateFails(a)

Spec == Init /\ [][Next]_vars

(***************************************************************************)
(* Correctness.                                                            *)
(***************************************************************************)
\* The variables have their types; in particular no interleaving of pages and
\* failures takes the balance below zero or a split out of the days requested.
TypeOK ==
  /\ balance \in 0 .. Start
  /\ leave \in [Leaves -> Rows]
  /\ form \in [Tabs -> {None} \cup Forms]
  /\ page \in [Approvers -> [Leaves -> Rows]]
  /\ call \in [Approvers -> {None} \cup Calls]
  /\ fails \in 0 .. MaxFails
  /\ crossed \in BOOLEAN /\ halted \in BOOLEAN

\* A row keeps its days whatever pages and failures do to it: a decision only
\* moves days between paid ones and loss of pay.
DaysKept ==
  [][\A l \in Leaves : leave[l] # NoLeave => leave'[l].paid + leave'[l].lop = leave[l].paid + leave[l].lop]_vars

Charged == Start - balance

\* As long as no decision crosses another one and no call fails, the balance
\* has been charged exactly the paid days of the approved leaves
\* (manager/pages/ModulePage.jsx:1018).
ChargedExactly ==
  ~crossed /\ fails = 0 /\ InProgress = {} => Charged = Paid(With("approved"))

\* The paid days of the approved leaves have been charged at least once: a
\* team lead or executive, who takes them from the balance first, loses none
\* to an update that fails (executive/pages/ModulePage.jsx:1012).
ChargedFirst ==
  ~crossed /\ ~halted /\ InProgress \cap Managers = {} => Paid(With("approved")) <= Charged

\* The balance accounts for what was approved, in the orders of the two kinds of
\* approvers, and never falls below zero, whatever crosses or fails.
BalanceSound == TypeOK /\ ChargedExactly /\ ChargedFirst
=============================================================================
