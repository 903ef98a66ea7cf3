----------------------- MODULE LeaveManagement_proofs -----------------------
(***************************************************************************)
(* LeaveManagement for every number of requests, forms and approvers, and  *)
(* every bound on days and failures: a row keeps its days, the balance     *)
(* stays within its limits, and as far as decisions do not cross and calls *)
(* do not fail it has been charged the paid days of what was approved.     *)
(***************************************************************************)
EXTENDS LeaveManagement, FiniteSetTheorems, TLAPS

DaysOf(row) == row.paid + row.lop

\* What a page shows, and what a decision under way took from it, has the days
\* of the row.
RowInv ==
  /\ \A l \in Leaves : /\ leave[l].status = "none" => leave[l] = NoLeave
                       /\ DaysOf(leave[l]) <= MaxDays
  /\ \A a \in Approvers, l \in Leaves :
       page[a][l].status # "none" =>
         leave[l].status # "none" /\ DaysOf(page[a][l]) = DaysOf(leave[l])
  /\ \A a \in Approvers :
       call[a] # None =>
         /\ leave[call[a].l].status # "none"
         /\ DaysOf(call[a].item) = DaysOf(leave[call[a].l])

\* A form pays no more days than were asked for; a decision whose second update
\* is due has one to make, and read the balance.
FormInv == \A t \in Tabs : form[t] # None /\ form[t].paid # None => form[t].paid <= form[t].days

CallInv ==
  \A a \in Approvers :
    call[a] # None => /\ call[a].balance = None => a \in Leads /\ call[a].status = "approved"
                      /\ call[a].done => ~LeaveOnly(a)

\* What the decision of a has charged and not yet recorded, or recorded and not
\* yet charged.
Owed(a) == IF ~call[a].done THEN 0 ELSE IF a \in Leads THEN FinalPaid(call[a]) ELSE -FinalPaid(call[a])

\* What was charged over the paid days of what is approved.
Over == Charged - Paid(With("approved"))
Balanced(n) == Over >= n /\ (fails = 0 => Over = n)

\* One decision at a time, on a request still pending, with the balance as it
\* is until it is charged.
AccountInv ==
  /\ halted => fails > 0
  /\ ~crossed /\ ~halted =>
       /\ \A a, b \in Approvers : call[a] # None /\ call[b] # None => a = b
       /\ (\A a \in Approvers : call[a] = None) => Balanced(0)
       /\ \A a \in Approvers :
            call[a] # None =>
              /\ call[a].balance # None
              /\ ~call[a].done \/ a \in Leads => leave[call[a].l].status = "pending"
              /\ ~call[a].done \/ a \in Managers => call[a].balance = balance
              /\ Balanced(Owed(a))

IInv == TypeOK /\ RowInv /\ FormInv /\ CallInv /\ AccountInv

(***************************************************************************)
(* The decisions under way.                                                *)
(***************************************************************************)
LEMMA CallFields ==
    ASSUME TypeOK, NEW a \in Approvers, call[a] # None
    PROVE  /\ call[a] \in Calls
           /\ call[a].l \in Leaves /\ call[a].item \in Rows
           /\ call[a].item.paid \in Nat /\ call[a].item.lop \in Nat
           /\ call[a].status \in {"approved", "rejected"}
           /\ call[a].balance # None => call[a].balance \in 0 .. Start
           /\ call[a].done \in BOOLEAN
<1>1. call[a] \in Calls
  BY DEF TypeOK
<1>2. call[a].item \in Rows
  BY <1>1 DEF Calls
<1>3. call[a].item.paid \in Nat /\ call[a].item.lop \in Nat
  BY <1>2, LeaveConstants DEF Rows
<1> QED BY <1>1, <1>2, <1>3 DEF Calls

\* The days paid in the end are among those requested, and within the balance.
LEMMA FinalPaidBounds ==
    ASSUME TypeOK, NEW a \in Approvers, call[a] # None
    PROVE  /\ FinalPaid(call[a]) \in Nat
           /\ FinalPaid(call[a]) <= DaysOf(call[a].item)
           /\ call[a].status = "approved" /\ call[a].balance # None => FinalPaid(call[a]) <= call[a].balance
<1> DEFINE c == call[a]
<1>1. c.item.paid \in Nat /\ c.item.lop \in Nat /\ (c.balance # None => c.balance \in Nat)
  BY CallFields, LeaveConstants
<1> HIDE DEF c
<1> QED BY <1>1 DEF FinalPaid, DaysOf, LargerOf, SmallerOf, c

\* The row that the update of the leave leaves behind.
NewRow(a) ==
  IF call[a].status = "rejected" /\ a \in Managers THEN [leave[call[a].l] EXCEPT !.status = "rejected"]
  ELSE Split(call[a])

LEMMA NewRowKeeps ==
    ASSUME TypeOK, RowInv, NEW a \in Approvers, call[a] # None
    PROVE  /\ NewRow(a) \in Rows
           /\ NewRow(a).status = call[a].status
           /\ DaysOf(NewRow(a)) = DaysOf(leave[call[a].l])
           /\ NewRow(a).status = "approved" => NewRow(a).paid = FinalPaid(call[a])
<1>1. /\ call[a].l \in Leaves /\ leave[call[a].l] \in Rows
      /\ call[a].item.paid \in Nat /\ call[a].item.lop \in Nat
      /\ call[a].status \in {"approved", "rejected"}
  BY CallFields DEF TypeOK
<1>2. /\ DaysOf(call[a].item) = DaysOf(leave[call[a].l])
      /\ DaysOf(call[a].item) <= MaxDays
  BY <1>1 DEF RowInv
<1>3. FinalPaid(call[a]) \in Nat /\ FinalPaid(call[a]) <= DaysOf(call[a].item)
  BY FinalPaidBounds
<1>4. CASE call[a].status = "rejected" /\ a \in Managers
  BY <1>1, <1>4 DEF NewRow, Rows, DaysOf
<1>5. CASE ~(call[a].status = "rejected" /\ a \in Managers)
  <2>1. NewRow(a) = [status |-> call[a].status, paid |-> FinalPaid(call[a]),
                     lop |-> call[a].item.paid + call[a].item.lop - FinalPaid(call[a])]
    BY <1>5 DEF NewRow, Split
  <2>2. FinalPaid(call[a]) \in 0 .. MaxDays
    BY <1>1, <1>2, <1>3, LeaveConstants DEF DaysOf
  <2>3. call[a].item.paid + call[a].item.lop - FinalPaid(call[a]) \in 0 .. MaxDays
    BY <1>1, <1>2, <1>3, LeaveConstants DEF DaysOf
  <2>4. NewRow(a) \in Rows
    BY <1>1, <2>1, <2>2, <2>3 DEF Rows
  <2>5. DaysOf(NewRow(a)) = DaysOf(call[a].item)
    BY <1>1, <1>3, <2>1 DEF DaysOf
  <2> QED BY <1>2, <2>1, <2>4, <2>5
<1> QED BY <1>4, <1>5

LEMMA UpdateLeaveRow ==
    ASSUME NEW a \in Approvers, UpdateLeave(a)
    PROVE  call[a] # None /\ leave' = [leave EXCEPT ![call[a].l] = NewRow(a)]
BY DEF UpdateLeave, NewRow

\* The balance is updated only by an approval that read it.
LEMMA BalanceDue ==
    ASSUME TypeOK, CallInv, NEW a \in Approvers, UpdateBalance(a)
    PROVE  /\ call[a] # None /\ call[a].status = "approved" /\ call[a].balance \in 0 .. Start
           /\ call[a].done <=> a \in Managers
           /\ ~LeaveOnly(a)
<1>1. call[a] # None /\ call[a].done \in BOOLEAN /\ call[a].status \in {"approved", "rejected"}
  BY CallFields DEF UpdateBalance
<1>2. ~LeaveOnly(a)
  BY <1>1 DEF CallInv, UpdateBalance, LeaveDue, LeaveFirst
<1>3. call[a].balance # None
  BY <1>1, <1>2 DEF CallInv, LeaveOnly
<1>4. call[a].balance \in 0 .. Start
  BY <1>1, <1>3, CallFields
<1>5. call[a].done <=> a \in Managers
  BY <1>1, <1>2 DEF UpdateBalance, LeaveDue, LeaveFirst
<1> QED BY <1>1, <1>2, <1>4, <1>5 DEF LeaveOnly

\* After an update the decision is over, or its other update is due.
LEMMA CallAfter ==
    ASSUME TypeOK, NEW a \in Approvers, call[a] # None, Ends(a)
    PROVE  /\ \A b \in Approvers : b # a => call'[b] = call[b]
           /\ \/ call'[a] = None /\ Last(a)
              \/ call'[a] = [call[a] EXCEPT !.done = TRUE] /\ ~Last(a)
BY DEF Ends, TypeOK

(***************************************************************************)
(* The paid days.                                                          *)
(***************************************************************************)
LEMMA PaidDaysFinite == ASSUME NEW set \in SUBSET Leaves PROVE IsFiniteSet(PaidDays(set))
<1>1. IsFiniteSet(set)
  BY FS_Subset, LeaveConstants
<1>2. 1 \in Int /\ MaxDays \in Int
  BY LeaveConstants
<1>3. IsFiniteSet(1 .. MaxDays)
  BY ONLY <1>2, FS_Interval
<1>4. IsFiniteSet(set \X (1 .. MaxDays))
  BY <1>1, <1>3, FS_Product
<1>5. PaidDays(set) \in SUBSET (set \X (1 .. MaxDays))
  BY DEF PaidDays
<1> QED BY <1>4, <1>5, FS_Subset

LEMMA PaidNat == ASSUME NEW set \in SUBSET Leaves PROVE Paid(set) \in Nat
BY PaidDaysFinite, FS_CardinalityType DEF Paid

\* A request that was not approved adds its paid days when it is.
LEMMA PaidGrows ==
    ASSUME TypeOK, NEW l \in Leaves, leave[l].status # "approved",
           NEW row \in Rows, leave' = [leave EXCEPT ![l] = row]
    PROVE  Paid(With("approved"))' = Paid(With("approved")) + (IF row.status = "approved" THEN row.paid ELSE 0)
<1> DEFINE A == With("approved")
<1>1. A \in SUBSET Leaves /\ A' \in SUBSET Leaves /\ l \notin A
  BY DEF With
<1>2. \A k \in Leaves : leave'[k] = IF k = l THEN row ELSE leave[k]
  BY DEF TypeOK
<1>3. Paid(A) \in Nat
  BY <1>1, PaidNat
<1>4. CASE row.status # "approved"
  <2>1. A' = A
    BY <1>1, <1>2, <1>4 DEF With
  <2>2. PaidDays(A)' = PaidDays(A)
    BY <1>1, <1>2, <2>1 DEF PaidDays
  <2> QED BY <1>3, <1>4, <2>2 DEF Paid
<1>5. CASE row.status = "approved"
  <2>1. row.paid \in 0 .. MaxDays
    BY DEF Rows
  <2>2. A' = A \cup {l}
    BY <1>1, <1>2, <1>5 DEF With
  <2> DEFINE new == {l} \X (1 .. row.paid)
  <2>3. PaidDays(A)' = PaidDays(A) \cup new
    <3> HIDE DEF A
    <3>1. \A d \in A \X (1 .. MaxDays) : leave'[d[1]] = leave[d[1]]
      BY <1>1, <1>2
    <3>2. PaidDays(A)' = {d \in A' \X (1 .. MaxDays) : d[2] <= leave'[d[1]].paid}
      BY DEF PaidDays
    <3>3. ASSUME NEW d \in PaidDays(A)' PROVE d \in PaidDays(A) \cup new
      <4>1. CASE d[1] = l
        BY <1>2, <2>1, <2>2, <3>2, <3>3, <4>1, LeaveConstants
      <4>2. CASE d[1] # l
        BY <1>2, <2>2, <3>1, <3>2, <3>3, <4>2 DEF PaidDays
      <4> QED BY <4>1, <4>2
    <3>4. ASSUME NEW d \in new PROVE d \in PaidDays(A)'
      <4>1. d[1] = l /\ d[2] \in 1 .. row.paid /\ d = <<d[1], d[2]>>
        BY <3>4
      <4>2. d \in A' \X (1 .. MaxDays)
        BY <2>1, <2>2, <4>1, LeaveConstants
      <4> QED BY <1>2, <2>1, <3>2, <4>1, <4>2
    <3>5. PaidDays(A) \subseteq PaidDays(A)'
      BY <2>2, <3>1, <3>2 DEF PaidDays
    <3> QED BY <3>3, <3>4, <3>5
  <2>4. IsFiniteSet({l}) /\ Cardinality({l}) = 1
    BY FS_Singleton
  <2>5. IsFiniteSet(1 .. row.paid) /\ Cardinality(1 .. row.paid) = row.paid
    BY <2>1, FS_Interval, LeaveConstants
  <2>6. IsFiniteSet(new) /\ Cardinality(new) = row.paid
    <3>1. IsFiniteSet(new) /\ Cardinality(new) = Cardinality({l}) * Cardinality(1 .. row.paid)
      BY ONLY <2>4, <2>5, FS_Product
    <3> QED BY <2>1, <2>4, <2>5, <3>1
  <2>7. PaidDays(A) \cap new = {}
    BY <1>1 DEF PaidDays
  <2>8. Cardinality(PaidDays(A) \cup new) = Cardinality(PaidDays(A)) + Cardinality(new) - 0
    <3>1. IsFiniteSet(PaidDays(A))
      BY <1>1, PaidDaysFinite
    <3> QED BY <2>6, <2>7, <3>1, FS_Union, FS_EmptySet
  <2>9. Paid(A)' = Cardinality(PaidDays(A) \cup new)
    BY <2>3 DEF Paid
  <2> QED BY <1>3, <1>5, <2>1, <2>6, <2>8, <2>9 DEF Paid
<1> QED BY <1>4, <1>5

(***************************************************************************)
(* Types.                                                                  *)
(***************************************************************************)
LEMMA TypeStep == TypeOK /\ RowInv /\ FormInv /\ CallInv /\ [Next]_vars => TypeOK'
<1> SUFFICES ASSUME TypeOK, RowInv, FormInv, CallInv, [Next]_vars PROVE TypeOK'
  OBVIOUS
<1> USE LeaveConstants
<1>1. ASSUME NEW t \in Tabs, NEW days \in 1 .. MaxDays, ReadBalance(t, days) PROVE TypeOK'
  <2>1. [days |-> days, balance |-> balance, paid |-> None] \in Forms
    BY DEF TypeOK, Forms
  <2> QED BY <1>1, <2>1 DEF TypeOK, ReadBalance, past
<1>2. ASSUME NEW t \in Tabs, ReadPending(t) PROVE TypeOK'
  <2> DEFINE effective == LargerOf(0, form[t].balance - Paid(With("pending")))
             p == LargerOf(0, SmallerOf(form[t].days, effective))
  <2>1. form[t] \in Forms
    BY <1>2 DEF TypeOK, ReadPending
  <2>2. p \in 0 .. MaxDays
    <3>1. form[t].days \in 1 .. MaxDays /\ form[t].balance \in Nat
      BY <2>1 DEF Forms
    <3>2. Paid(With("pending")) \in Nat
      BY PaidNat DEF With
    <3> QED BY <3>1, <3>2 DEF LargerOf, SmallerOf
  <2>3. [form[t] EXCEPT !.paid = p] \in Forms
    BY <2>1, <2>2 DEF Forms
  <2> QED BY <1>2, <2>3 DEF TypeOK, ReadPending, past
<1>3. ASSUME NEW t \in Tabs, NEW l \in Leaves, Insert(t, l) PROVE TypeOK'
  <2>1. form[t] \in Forms /\ form[t].paid # None
    BY <1>3 DEF TypeOK, Insert
  <2>2. form[t].paid \in 0 .. MaxDays /\ form[t].days \in 1 .. MaxDays /\ form[t].paid <= form[t].days
    BY <2>1 DEF Forms, FormInv
  <2>3. [status |-> "pending", paid |-> form[t].paid, lop |-> form[t].days - form[t].paid] \in Rows
    BY <2>2 DEF Rows
  <2> QED BY <1>3, <2>3 DEF TypeOK, Insert, past
<1>4. ASSUME NEW t \in Tabs, InsertFails(t) PROVE TypeOK'
  BY <1>4 DEF TypeOK, InsertFails, past
<1>5. ASSUME NEW a \in Approvers, LoadPage(a) PROVE TypeOK'
  BY <1>5 DEF TypeOK, LoadPage, past
<1>6. ASSUME NEW a \in Approvers, NEW l \in Leaves, NEW status \in {"approved", "rejected"}, Begin(a, l, status)
      PROVE  TypeOK'
  <2>1. page[a][l] \in Rows
    BY DEF TypeOK
  <2>2. [page[a][l] EXCEPT !.status = status] \in Rows
    BY <2>1 DEF Rows
  <2>3. [l |-> l, item |-> page[a][l], status |-> status, balance |-> balance, done |-> FALSE] \in Calls
    BY <2>1 DEF TypeOK, Calls
  <2>4. page' \in [Approvers -> [Leaves -> Rows]]
    BY <1>6, <2>2 DEF TypeOK, Begin
  <2>5. call' \in [Approvers -> {None} \cup Calls]
    BY <1>6, <2>3 DEF TypeOK, Begin
  <2> QED BY <1>6, <2>4, <2>5 DEF TypeOK, Begin, Crosses
<1>7. ASSUME NEW a \in Approvers, NEW l \in Leaves, BeginUnread(a, l) PROVE TypeOK'
  <2>1. page[a][l] \in Rows
    BY DEF TypeOK
  <2>2. [page[a][l] EXCEPT !.status = "approved"] \in Rows
    BY <2>1 DEF Rows
  <2>3. [l |-> l, item |-> page[a][l], status |-> "approved", balance |-> None, done |-> FALSE] \in Calls
    BY <2>1 DEF Calls
  <2>4. page' \in [Approvers -> [Leaves -> Rows]]
    BY <1>7, <2>2 DEF TypeOK, BeginUnread
  <2>5. call' \in [Approvers -> {None} \cup Calls]
    BY <1>7, <2>3 DEF TypeOK, BeginUnread
  <2>6. fails' \in 0 .. MaxFails
    BY <1>7 DEF TypeOK, BeginUnread
  <2> QED BY <1>7, <2>4, <2>5, <2>6 DEF TypeOK, BeginUnread, Crosses
<1>8. ASSUME NEW a \in Approvers, call[a] # None, Ends(a) PROVE call' \in [Approvers -> {None} \cup Calls]
  <2>1. [call[a] EXCEPT !.done = TRUE] \in Calls
    BY <1>8, CallFields DEF Calls
  <2> QED BY <1>8, <2>1 DEF TypeOK, Ends
<1>9. ASSUME NEW a \in Approvers, UpdateLeave(a) PROVE TypeOK'
  <2>1. leave' = [leave EXCEPT ![call[a].l] = NewRow(a)] /\ NewRow(a) \in Rows
    BY <1>9, UpdateLeaveRow, NewRowKeeps
  <2>2. leave' \in [Leaves -> Rows]
    BY <2>1 DEF TypeOK
  <2>3. call' \in [Approvers -> {None} \cup Calls]
    BY <1>8, <1>9 DEF UpdateLeave
  <2> QED BY <1>9, <2>2, <2>3 DEF TypeOK, UpdateLeave, past
<1>10. ASSUME NEW a \in Approvers, UpdateBalance(a) PROVE TypeOK'
  <2>1. call[a] # None /\ call[a].status = "approved" /\ call[a].balance \in 0 .. Start
    BY <1>10, BalanceDue
  <2>2. FinalPaid(call[a]) \in Nat /\ FinalPaid(call[a]) <= call[a].balance
    BY <2>1, FinalPaidBounds
  <2>3. balance' \in 0 .. Start
    BY <1>10, <2>1, <2>2 DEF UpdateBalance
  <2>4. call' \in [Approvers -> {None} \cup Calls]
    BY <1>8, <1>10 DEF UpdateBalance
  <2> QED BY <1>10, <2>3, <2>4 DEF TypeOK, UpdateBalance, past
<1>11. ASSUME NEW a \in Approvers, UpdateFails(a) PROVE TypeOK'
  BY <1>11 DEF TypeOK, UpdateFails
<1>12. CASE UNCHANGED vars
  BY <1>12 DEF TypeOK, vars, past
<1> QED BY <1>1, <1>2, <1>3, <1>4, <1>5, <1>6, <1>7, <1>9, <1>10, <1>11, <1>12 DEF Next

(***************************************************************************)
(* Rows, forms and decisions.                                              *)
(***************************************************************************)

\* What a step does to the rows: a row comes to be, or one keeps its days.
RowsGo ==
  \A l \in Leaves :
    \/ leave'[l] = leave[l]
    \/ /\ leave[l] = NoLeave /\ leave'[l].status = "pending" /\ DaysOf(leave'[l]) <= MaxDays
    \/ /\ leave[l].status # "none" /\ leave'[l].status # "none"
       /\ DaysOf(leave'[l]) = DaysOf(leave[l])

LEMMA RowsStep ==
    ASSUME TypeOK, RowInv, FormInv, CallInv, [Next]_vars PROVE RowsGo
<1>1. ASSUME NEW t \in Tabs, NEW l \in Leaves, Insert(t, l) PROVE RowsGo
  <2>1. form[t] \in Forms /\ form[t].paid # None
    BY <1>1 DEF TypeOK, Insert
  <2>2. form[t].paid \in 0 .. MaxDays /\ form[t].days \in 1 .. MaxDays
    BY <2>1 DEF Forms
  <2>3. \A k \in Leaves : leave'[k] = IF k = l THEN [status |-> "pending", paid |-> form[t].paid,
                                                     lop |-> form[t].days - form[t].paid]
                                      ELSE leave[k]
    BY <1>1 DEF TypeOK, Insert
  <2>4. form[t].paid + (form[t].days - form[t].paid) <= MaxDays
    BY <2>2, LeaveConstants
  <2>5. leave[l] = NoLeave
    BY <1>1 DEF Insert
  <2> QED BY <2>3, <2>4, <2>5 DEF RowsGo, DaysOf
<1>2. ASSUME NEW a \in Approvers, UpdateLeave(a) PROVE RowsGo
  <2>1. call[a] # None /\ leave' = [leave EXCEPT ![call[a].l] = NewRow(a)]
    BY <1>2, UpdateLeaveRow
  <2>2. call[a].l \in Leaves /\ call[a].status \in {"approved", "rejected"}
    BY <2>1, CallFields
  <2>3. NewRow(a).status = call[a].status /\ DaysOf(NewRow(a)) = DaysOf(leave[call[a].l])
    BY <2>1, NewRowKeeps
  <2>4. leave[call[a].l].status # "none"
    BY <2>1 DEF RowInv
  <2> QED BY <2>1, <2>2, <2>3, <2>4 DEF RowsGo, TypeOK
<1>3. \/ UNCHANGED leave
      \/ \E t \in Tabs, l \in Leaves : Insert(t, l)
      \/ \E a \in Approvers : UpdateLeave(a)
  BY DEF Next, ReadBalance, ReadPending, InsertFails, LoadPage, Begin, BeginUnread, UpdateBalance,
         UpdateFails, vars
<1> QED BY <1>1, <1>2, <1>3 DEF RowsGo

LEMMA RowStep == TypeOK /\ RowInv /\ FormInv /\ CallInv /\ [Next]_vars => RowInv'
<1> SUFFICES ASSUME TypeOK, RowInv, FormInv, CallInv, [Next]_vars PROVE RowInv'
  OBVIOUS
<1>1. RowsGo
  BY RowsStep
<1>2. \A l \in Leaves : /\ leave'[l].status = "none" => leave'[l] = NoLeave
                        /\ DaysOf(leave'[l]) <= MaxDays
  <2> TAKE l \in Leaves
  <2>1. leave[l].status = "none" => leave[l] = NoLeave
    BY DEF RowInv
  <2>2. DaysOf(leave[l]) <= MaxDays
    BY DEF RowInv
  <2> QED BY <1>1, <2>1, <2>2 DEF RowsGo
<1>3. \A l \in Leaves : leave[l].status # "none" =>
                          leave'[l].status # "none" /\ DaysOf(leave'[l]) = DaysOf(leave[l])
  BY <1>1 DEF RowsGo, NoLeave
<1>4. ASSUME NEW a \in Approvers, NEW l \in Leaves, page'[a][l].status # "none"
      PROVE  leave'[l].status # "none" /\ DaysOf(page'[a][l]) = DaysOf(leave'[l])
  <2>1. CASE page'[a][l] = page[a][l]
    BY <1>3, <1>4, <2>1 DEF RowInv
  <2>2. CASE page'[a][l] = leave'[l]
    BY <1>4, <2>2
  <2>3. ASSUME NEW status \in {"approved", "rejected"}, page[a][l].status # "none",
               page'[a][l] = [page[a][l] EXCEPT !.status = status]
        PROVE  leave'[l].status # "none" /\ DaysOf(page'[a][l]) = DaysOf(leave'[l])
    <3>1. page[a][l] \in Rows
      BY DEF TypeOK
    <3>2. DaysOf(page'[a][l]) = DaysOf(page[a][l])
      BY <2>3, <3>1 DEF DaysOf, Rows
    <3> QED BY <1>3, <2>3, <3>2 DEF RowInv
  <2>4. \/ page'[a][l] = page[a][l]
        \/ page'[a][l] = leave'[l]
        \/ \E status \in {"approved", "rejected"} :
             page[a][l].status # "none" /\ page'[a][l] = [page[a][l] EXCEPT !.status = status]
    <3>1. ASSUME NEW b \in Approvers, LoadPage(b) PROVE page'[a][l] = page[a][l] \/ page'[a][l] = leave'[l]
      BY <3>1 DEF LoadPage, TypeOK
    <3>2. ASSUME NEW b \in Approvers, NEW k \in Leaves, NEW status \in {"approved", "rejected"},
                 Begin(b, k, status)
          PROVE  \/ page'[a][l] = page[a][l]
                 \/ page[a][l].status # "none" /\ page'[a][l] = [page[a][l] EXCEPT !.status = status]
      BY <3>2 DEF Begin, TypeOK
    <3>3. ASSUME NEW b \in Approvers, NEW k \in Leaves, BeginUnread(b, k)
          PROVE  \/ page'[a][l] = page[a][l]
                 \/ page[a][l].status # "none" /\ page'[a][l] = [page[a][l] EXCEPT !.status = "approved"]
      BY <3>3 DEF BeginUnread, TypeOK
    <3>4. \/ UNCHANGED page
          \/ \E b \in Approvers : LoadPage(b)
          \/ \E b \in Approvers, k \in Leaves, status \in {"approved", "rejected"} : Begin(b, k, status)
          \/ \E b \in Approvers, k \in Leaves : BeginUnread(b, k)
      BY DEF Next, ReadBalance, ReadPending, Insert, InsertFails, UpdateLeave, UpdateBalance,
             UpdateFails, vars
    <3> QED BY <3>1, <3>2, <3>3, <3>4
  <2> QED BY <2>1, <2>2, <2>3, <2>4
<1>5. ASSUME NEW a \in Approvers, call'[a] # None
      PROVE  /\ leave'[call'[a].l].status # "none"
             /\ DaysOf(call'[a].item) = DaysOf(leave'[call'[a].l])
  <2>1. ASSUME call[a] # None, call'[a].l = call[a].l, call'[a].item = call[a].item
        PROVE  /\ leave'[call'[a].l].status # "none"
               /\ DaysOf(call'[a].item) = DaysOf(leave'[call'[a].l])
    <3>1. call[a].l \in Leaves
      BY <2>1, CallFields
    <3> QED BY <1>3, <2>1, <3>1 DEF RowInv
  <2>2. ASSUME NEW l \in Leaves, page[a][l].status = "pending", call'[a].l = l, call'[a].item = page[a][l]
        PROVE  /\ leave'[call'[a].l].status # "none"
               /\ DaysOf(call'[a].item) = DaysOf(leave'[call'[a].l])
    BY <1>3, <2>2 DEF RowInv
  <2>3. \/ call[a] # None /\ call'[a].l = call[a].l /\ call'[a].item = call[a].item
        \/ \E l \in Leaves : page[a][l].status = "pending" /\ call'[a].l = l /\ call'[a].item = page[a][l]
    <3>1. ASSUME NEW b \in Approvers, UpdateLeave(b) \/ UpdateBalance(b)
          PROVE  call[a] # None /\ call'[a].l = call[a].l /\ call'[a].item = call[a].item
      <4>1. call[b] # None /\ Ends(b)
        BY <3>1 DEF UpdateLeave, UpdateBalance
      <4>2. CASE b # a
        BY <1>5, <4>1, <4>2, CallAfter
      <4>3. CASE b = a
        <5>1. call'[a] = [call[a] EXCEPT !.done = TRUE]
          BY <1>5, <4>1, <4>3, CallAfter
        <5>2. call[a] \in Calls
          BY <4>1, <4>3, CallFields
        <5> QED BY <4>1, <4>3, <5>1, <5>2 DEF Calls
      <4> QED BY <4>2, <4>3
    <3>2. ASSUME NEW b \in Approvers, UpdateFails(b) PROVE call[a] # None /\ call'[a] = call[a]
      BY <1>5, <3>2 DEF UpdateFails, TypeOK
    <3>3. ASSUME NEW b \in Approvers, NEW l \in Leaves, NEW status \in {"approved", "rejected"},
                 Begin(b, l, status)
          PROVE  \/ call[a] # None /\ call'[a] = call[a]
                 \/ page[a][l].status = "pending" /\ call'[a].l = l /\ call'[a].item = page[a][l]
      BY <1>5, <3>3 DEF Begin, TypeOK
    <3>4. ASSUME NEW b \in Approvers, NEW l \in Leaves, BeginUnread(b, l)
          PROVE  \/ call[a] # None /\ call'[a] = call[a]
                 \/ page[a][l].status = "pending" /\ call'[a].l = l /\ call'[a].item = page[a][l]
      BY <1>5, <3>4 DEF BeginUnread, TypeOK
    <3>5. \/ UNCHANGED call
          \/ \E b \in Approvers : UpdateLeave(b) \/ UpdateBalance(b) \/ UpdateFails(b)
          \/ \E b \in Approvers, l \in Leaves, status \in {"approved", "rejected"} : Begin(b, l, status)
          \/ \E b \in Approvers, l \in Leaves : BeginUnread(b, l)
      BY DEF Next, ReadBalance, ReadPending, Insert, InsertFails, LoadPage, vars
    <3> QED BY <1>5, <3>1, <3>2, <3>3, <3>4, <3>5
  <2> QED BY <2>1, <2>2, <2>3
<1> QED BY <1>2, <1>4, <1>5 DEF RowInv

LEMMA FormStep == TypeOK /\ FormInv /\ [Next]_vars => FormInv'
<1> SUFFICES ASSUME TypeOK, FormInv, [Next]_vars, NEW t \in Tabs, form'[t] # None, form'[t].paid # None
             PROVE  form'[t].paid <= form'[t].days
  BY DEF FormInv
<1>1. ASSUME NEW u \in Tabs, NEW days \in 1 .. MaxDays, ReadBalance(u, days)
      PROVE  form'[t].paid <= form'[t].days
  BY <1>1 DEF ReadBalance, TypeOK, FormInv
<1>2. ASSUME NEW u \in Tabs, ReadPending(u) PROVE form'[t].paid <= form'[t].days
  <2>1. CASE u # t
    BY <1>2, <2>1 DEF ReadPending, TypeOK, FormInv
  <2>2. CASE u = t
    <3>1. form[t] \in Forms
      BY <1>2, <2>2 DEF ReadPending, TypeOK
    <3>2. form[t].days \in Nat /\ form[t].balance \in Nat
      BY <3>1, LeaveConstants DEF Forms
    <3>3. Paid(With("pending")) \in Nat
      BY PaidNat DEF With
    <3> DEFINE p == LargerOf(0, SmallerOf(form[t].days,
                                          LargerOf(0, form[t].balance - Paid(With("pending")))))
    <3>4. p <= form[t].days
      BY <3>2, <3>3 DEF LargerOf, SmallerOf
    <3>5. form'[t] = [form[t] EXCEPT !.paid = p]
      BY <1>2, <2>2 DEF ReadPending, TypeOK
    <3> HIDE DEF p
    <3> QED BY <3>1, <3>4, <3>5 DEF Forms
  <2> QED BY <2>1, <2>2
<1>3. ASSUME form'[t] = form[t] \/ form'[t] = None PROVE form'[t].paid <= form'[t].days
  BY <1>3 DEF FormInv
<1>4. \/ form'[t] = form[t] \/ form'[t] = None
      \/ \E u \in Tabs, days \in 1 .. MaxDays : ReadBalance(u, days)
      \/ \E u \in Tabs : ReadPending(u)
  BY DEF Next, Insert, InsertFails, LoadPage, Begin, BeginUnread, UpdateLeave, UpdateBalance,
         UpdateFails, vars, TypeOK
<1> QED BY <1>1, <1>2, <1>3, <1>4

\* What a step does to a decision: it goes on, ends, begins, or its second
\* update becomes due.
CallGoes(a) ==
  \/ call'[a] = call[a]
  \/ call'[a] = None
  \/ \E l \in Leaves, status \in {"approved", "rejected"} :
       call'[a] = [l |-> l, item |-> page[a][l], status |-> status, balance |-> balance, done |-> FALSE]
  \/ \E l \in Leaves : /\ a \in Leads
                       /\ call'[a] = [l |-> l, item |-> page[a][l], status |-> "approved",
                                      balance |-> None, done |-> FALSE]
  \/ call[a] # None /\ ~LeaveOnly(a) /\ call'[a] = [call[a] EXCEPT !.done = TRUE]

LEMMA CallsStep == ASSUME TypeOK, [Next]_vars, NEW a \in Approvers PROVE CallGoes(a)
<1>1. ASSUME NEW b \in Approvers, UpdateLeave(b) \/ UpdateBalance(b) PROVE CallGoes(a)
  <2>1. call[b] # None /\ Ends(b)
    BY <1>1 DEF UpdateLeave, UpdateBalance
  <2> QED BY <2>1, CallAfter DEF CallGoes, Last
<1>2. ASSUME NEW b \in Approvers, UpdateFails(b) PROVE CallGoes(a)
  BY <1>2 DEF UpdateFails, TypeOK, CallGoes
<1>3. ASSUME NEW b \in Approvers, NEW l \in Leaves, NEW status \in {"approved", "rejected"},
             Begin(b, l, status)
      PROVE  CallGoes(a)
  BY <1>3 DEF Begin, TypeOK, CallGoes
<1>4. ASSUME NEW b \in Approvers, NEW l \in Leaves, BeginUnread(b, l) PROVE CallGoes(a)
  BY <1>4 DEF BeginUnread, TypeOK, CallGoes
<1>5. \/ UNCHANGED call
      \/ \E b \in Approvers : UpdateLeave(b) \/ UpdateBalance(b) \/ UpdateFails(b)
      \/ \E b \in Approvers, l \in Leaves, status \in {"approved", "rejected"} : Begin(b, l, status)
      \/ \E b \in Approvers, l \in Leaves : BeginUnread(b, l)
  BY DEF Next, ReadBalance, ReadPending, Insert, InsertFails, LoadPage, vars
<1> QED BY <1>1, <1>2, <1>3, <1>4, <1>5 DEF CallGoes

\* Marking the first update as done changes nothing else of a decision.
LEMMA DoneOnly ==
    ASSUME TypeOK, NEW a \in Approvers, call[a] # None, call'[a] = [call[a] EXCEPT !.done = TRUE]
    PROVE  /\ call'[a].l = call[a].l /\ call'[a].item = call[a].item
           /\ call'[a].status = call[a].status /\ call'[a].balance = call[a].balance
           /\ call'[a].done = TRUE
           /\ FinalPaid(call[a])' = FinalPaid(call[a])
           /\ LeaveOnly(a)' = LeaveOnly(a)
<1>1. call[a] \in Calls
  BY CallFields
<1>2. /\ call'[a].l = call[a].l /\ call'[a].item = call[a].item
      /\ call'[a].status = call[a].status /\ call'[a].balance = call[a].balance
      /\ call'[a].done = TRUE
  BY <1>1 DEF Calls
<1>3. FinalPaid(call[a])' = FinalPaid(call[a])
  BY <1>2 DEF FinalPaid
<1> QED BY <1>2, <1>3 DEF LeaveOnly

LEMMA CallStep == TypeOK /\ CallInv /\ [Next]_vars => CallInv'
<1> SUFFICES ASSUME TypeOK, CallInv, [Next]_vars, NEW a \in Approvers, call'[a] # None
             PROVE  /\ call'[a].balance = None => a \in Leads /\ call'[a].status = "approved"
                    /\ call'[a].done => ~LeaveOnly(a)'
  BY DEF CallInv
<1>1. CASE call'[a] = call[a]
  BY <1>1 DEF CallInv, LeaveOnly, FinalPaid
<1>2. ASSUME NEW l \in Leaves, NEW status \in {"approved", "rejected"},
             call'[a] = [l |-> l, item |-> page[a][l], status |-> status, balance |-> balance, done |-> FALSE]
      PROVE  call'[a].balance # None /\ ~call'[a].done
  BY <1>2, LeaveConstants DEF TypeOK
<1>3. ASSUME NEW l \in Leaves, a \in Leads,
             call'[a] = [l |-> l, item |-> page[a][l], status |-> "approved", balance |-> None, done |-> FALSE]
      PROVE  call'[a].status = "approved" /\ ~call'[a].done
  BY <1>3
<1>4. CASE call[a] # None /\ ~LeaveOnly(a) /\ call'[a] = [call[a] EXCEPT !.done = TRUE]
  BY <1>4, DoneOnly DEF CallInv
<1> QED BY <1>1, <1>2, <1>3, <1>4, CallsStep DEF CallGoes

(***************************************************************************)
(* The account.                                                            *)
(***************************************************************************)
LEMMA OverInt == ASSUME TypeOK PROVE Over \in Int
<1>1. Paid(With("approved")) \in Nat
  BY PaidNat DEF With
<1> QED BY <1>1, LeaveConstants DEF Over, Charged, TypeOK

LEMMA AccountStep ==
    TypeOK /\ RowInv /\ FormInv /\ CallInv /\ AccountInv /\ [Next]_vars => AccountInv'
<1> SUFFICES ASSUME TypeOK, RowInv, FormInv, CallInv, AccountInv, [Next]_vars PROVE AccountInv'
  OBVIOUS
<1> USE LeaveConstants
<1>1. fails \in Nat /\ Over \in Int /\ balance \in Int
  BY OverInt DEF TypeOK
<1>2. /\ halted' => fails' > 0
      /\ crossed => crossed'
      /\ halted => halted'
      /\ fails' \in {fails, fails + 1}
  <2>1. CASE UNCHANGED past /\ fails' \in {fails, fails + 1}
    BY <1>1, <2>1 DEF AccountInv, past
  <2>2. CASE (crossed => crossed') /\ (halted => halted') /\ fails' = fails + 1
    BY <1>1, <2>2
  <2>3. CASE (crossed => crossed') /\ halted' = halted /\ fails' = fails
    BY <2>3 DEF AccountInv
  <2>4. ASSUME NEW a \in Approvers, NEW l \in Leaves, NEW status \in {"approved", "rejected"},
               Begin(a, l, status)
        PROVE  (crossed => crossed') /\ halted' = halted /\ fails' = fails
    BY <2>4 DEF Begin, Crosses
  <2>5. ASSUME NEW a \in Approvers, \/ UpdateFails(a) \/ \E l \in Leaves : BeginUnread(a, l)
        PROVE  (crossed => crossed') /\ (halted => halted') /\ fails' = fails + 1
    <3>1. fails' = fails + 1
      BY <2>5 DEF UpdateFails, BeginUnread
    <3>2. (crossed => crossed') /\ (halted => halted')
      <4>1. ASSUME UpdateFails(a) PROVE (crossed => crossed') /\ (halted => halted')
        <5>1. crossed' = crossed /\ halted' = (halted \/ a \in Managers)
          BY <4>1 DEF UpdateFails
        <5> QED BY <5>1, Zenon
      <4>2. ASSUME NEW l \in Leaves, BeginUnread(a, l) PROVE (crossed => crossed') /\ (halted => halted')
        <5>1. crossed' = (crossed \/ InProgress # {} \/ leave[l].status # "pending") /\ halted' = TRUE
          BY <4>2 DEF BeginUnread, Crosses
        <5> QED BY <5>1, Zenon
      <4> QED BY <2>5, <4>1, <4>2
    <3> QED BY <3>1, <3>2
  <2>6. \/ UNCHANGED past /\ fails' \in {fails, fails + 1}
        \/ \E a \in Approvers, l \in Leaves, status \in {"approved", "rejected"} : Begin(a, l, status)
        \/ \E a \in Approvers : \/ UpdateFails(a) \/ \E l \in Leaves : BeginUnread(a, l)
    BY DEF Next, ReadBalance, ReadPending, Insert, InsertFails, LoadPage, UpdateLeave, UpdateBalance,
           vars
  <2> QED BY <2>1, <2>2, <2>3, <2>4, <2>5, <2>6
<1> SUFFICES ASSUME ~crossed', ~halted'
             PROVE  /\ \A a, b \in Approvers : call'[a] # None /\ call'[b] # None => a = b
                    /\ (\A a \in Approvers : call'[a] = None) => Balanced(0)'
                    /\ \A a \in Approvers :
                         call'[a] # None =>
                           /\ call'[a].balance # None
                           /\ ~call'[a].done \/ a \in Leads => leave'[call'[a].l].status = "pending"
                           /\ ~call'[a].done \/ a \in Managers => call'[a].balance = balance'
                           /\ Balanced(Owed(a))'
  BY <1>2 DEF AccountInv
<1> DEFINE Goal == /\ \A a, b \in Approvers : call'[a] # None /\ call'[b] # None => a = b
                   /\ (\A a \in Approvers : call'[a] = None) => Balanced(0)'
                   /\ \A a \in Approvers :
                        call'[a] # None =>
                          /\ call'[a].balance # None
                          /\ ~call'[a].done \/ a \in Leads => leave'[call'[a].l].status = "pending"
                          /\ ~call'[a].done \/ a \in Managers => call'[a].balance = balance'
                          /\ Balanced(Owed(a))'
<1>3. /\ \A a, b \in Approvers : call[a] # None /\ call[b] # None => a = b
      /\ (\A a \in Approvers : call[a] = None) => Balanced(0)
      /\ \A a \in Approvers :
           call[a] # None =>
             /\ call[a].balance # None
             /\ ~call[a].done \/ a \in Leads => leave[call[a].l].status = "pending"
             /\ ~call[a].done \/ a \in Managers => call[a].balance = balance
             /\ Balanced(Owed(a))
  BY <1>2 DEF AccountInv
<1>4. ASSUME NEW n \in Int, NEW m \in Int, Balanced(n), Over' = Over + m, fails' = fails
      PROVE  Balanced(n + m)'
  BY <1>1, <1>4 DEF Balanced
<1>5. ASSUME UNCHANGED <<balance, call>>, Over' = Over,
             \A a \in Approvers : call[a] # None /\ leave[call[a].l].status = "pending"
                                    => leave'[call[a].l].status = "pending"
      PROVE  Goal
  <2>1. \A n : Balanced(n) => Balanced(n)'
    BY <1>1, <1>2, <1>5 DEF Balanced
  <2>2. \A a \in Approvers : Owed(a)' = Owed(a)
    BY <1>5 DEF Owed, FinalPaid
  <2>3. (\A a \in Approvers : call'[a] = None) => Balanced(0)'
    BY <1>3, <1>5, <2>1
  <2>4. \A a \in Approvers : Balanced(Owed(a)) => Balanced(Owed(a))'
    BY <2>1, <2>2 DEF Balanced
  <2> QED BY <1>3, <1>5, <2>3, <2>4
<1>6. ASSUME NEW a \in Approvers, call[a] # None, call'[a] = None, Balanced(0)',
             \A b \in Approvers : b # a => call'[b] = call[b]
      PROVE  Goal
  BY <1>3, <1>6
<1>7. ASSUME NEW a \in Approvers, call[a] # None, call'[a] = [call[a] EXCEPT !.done = TRUE],
             a \in Leads => leave'[call[a].l].status = "pending",
             a \in Managers => call[a].balance = balance',
             Balanced(IF a \in Leads THEN FinalPaid(call[a]) ELSE -FinalPaid(call[a]))',
             \A b \in Approvers : b # a => call'[b] = call[b]
      PROVE  Goal
  <2>1. /\ call'[a].l = call[a].l /\ call'[a].balance = call[a].balance /\ call'[a].done = TRUE
        /\ FinalPaid(call[a])' = FinalPaid(call[a])
    BY <1>7, DoneOnly
  <2>2. Balanced(Owed(a))'
    BY <1>7, <2>1 DEF Balanced, Owed
  <2>3. call'[a] # None
    <3>1. [call[a] EXCEPT !.done = TRUE] \in Calls
      <4>1. call[a] \in Calls
        BY <1>7, CallFields
      <4> QED BY <4>1 DEF Calls
    <3> QED BY <1>7, <3>1
  <2>4. \A b \in Approvers : b # a => call'[b] = None
    BY <1>3, <1>7
  <2> QED BY <1>3, <1>7, <2>1, <2>2, <2>3, <2>4
<1>8. ASSUME NEW t \in Tabs, NEW l \in Leaves, Insert(t, l) PROVE Goal
  <2>1. leave[l] = NoLeave /\ \A k \in Leaves : k # l => leave'[k] = leave[k]
    BY <1>8 DEF Insert, TypeOK
  <2>2. \A a \in Approvers : call[a] # None => call[a].l \in Leaves
    BY CallFields
  <2>3. Over' = Over
    <3> DEFINE row == [status |-> "pending", paid |-> form[t].paid, lop |-> form[t].days - form[t].paid]
    <3>1. leave' = [leave EXCEPT ![l] = row] /\ balance' = balance
      BY <1>8 DEF Insert
    <3>2. leave' \in [Leaves -> Rows]
      BY TypeStep DEF TypeOK
    <3>3. leave'[l] = row
      BY <3>1 DEF TypeOK
    <3>4. row \in Rows
      BY <3>2, <3>3
    <3>5. leave[l].status # "approved" /\ row.status = "pending"
      BY <2>1 DEF NoLeave
    <3> HIDE DEF row
    <3>6. Paid(With("approved"))' = Paid(With("approved")) + 0
      BY <3>1, <3>4, <3>5, PaidGrows
    <3>7. Paid(With("approved")) \in Nat
      BY PaidNat DEF With
    <3> QED BY <3>1, <3>6, <3>7 DEF Over, Charged
  <2> QED BY <1>5, <1>8, <2>1, <2>2, <2>3 DEF Insert, NoLeave
<1>9. ASSUME NEW a \in Approvers, NEW l \in Leaves, NEW status \in {"approved", "rejected"},
             Begin(a, l, status)
      PROVE  Goal
  <2>1. /\ \A b \in Approvers : call[b] = None
        /\ leave[l].status = "pending"
    BY <1>9 DEF Begin, Crosses, InProgress
  <2>2. /\ \A b \in Approvers : b # a => call'[b] = None
        /\ call'[a] = [l |-> l, item |-> page[a][l], status |-> status, balance |-> balance, done |-> FALSE]
        /\ UNCHANGED <<balance, leave, fails>>
    BY <1>9, <2>1 DEF Begin, TypeOK
  <2>3. Over' = Over
    BY <2>2 DEF Over, Charged, Paid, PaidDays, With
  <2>4. Balanced(0)' /\ Owed(a)' = 0 /\ call'[a].balance # None
    BY <1>3, <2>1, <2>2, <2>3 DEF Balanced, Owed, TypeOK
  <2>5. Balanced(Owed(a))'
    BY <2>4 DEF Balanced
  <2> QED BY <2>1, <2>2, <2>4, <2>5
<1>10. ASSUME NEW a \in Approvers, UpdateLeave(a) PROVE Goal
  <2>1. /\ call[a] # None /\ leave' = [leave EXCEPT ![call[a].l] = NewRow(a)]
        /\ UNCHANGED <<balance, fails>> /\ LeaveDue(a)
    BY <1>10, UpdateLeaveRow DEF UpdateLeave
  <2>2. /\ NewRow(a) \in Rows /\ NewRow(a).status = call[a].status
        /\ NewRow(a).status = "approved" => NewRow(a).paid = FinalPaid(call[a])
    BY <2>1, NewRowKeeps
  <2>3. call[a].l \in Leaves /\ call[a].done \in BOOLEAN /\ call[a].status \in {"approved", "rejected"}
    BY <2>1, CallFields
  <2>4. ~call[a].done \/ a \in Leads
    BY <2>1, <2>3 DEF LeaveDue, LeaveFirst, Approvers
  <2>5. leave[call[a].l].status = "pending"
    BY <1>3, <2>1, <2>4
  <2>6. Paid(With("approved"))' = Paid(With("approved")) + (IF NewRow(a).status = "approved" THEN NewRow(a).paid ELSE 0)
    BY <2>1, <2>2, <2>3, <2>5, PaidGrows
  <2>7. FinalPaid(call[a]) \in Nat /\ Paid(With("approved")) \in Nat
    BY <2>1, FinalPaidBounds, PaidNat DEF With
  <2>8. Over' = Over + (IF call[a].status = "approved" THEN -FinalPaid(call[a]) ELSE 0)
    BY <1>1, <2>1, <2>2, <2>6, <2>7 DEF Over, Charged
  <2>9. /\ \A b \in Approvers : b # a => call'[b] = call[b]
        /\ \/ call'[a] = None /\ Last(a)
           \/ call'[a] = [call[a] EXCEPT !.done = TRUE] /\ ~Last(a)
    BY <1>10, <2>1, CallAfter DEF UpdateLeave
  <2>10. Balanced(Owed(a)) /\ call[a].balance # None /\ Owed(a) \in Int
    BY <1>3, <2>1, <2>3, <2>7 DEF Owed
  <2>11. CASE LeaveOnly(a)
    <3>1. ~call[a].done
      BY <2>1, <2>11 DEF CallInv
    <3>2. Over' = Over
      BY <1>1, <2>7, <2>8, <2>10, <2>11 DEF LeaveOnly
    <3>3. Balanced(0)'
      BY <1>1, <2>1, <2>10, <3>1, <3>2 DEF Balanced, Owed
    <3> QED BY <1>6, <2>1, <2>9, <2>11, <3>3 DEF Last
  <2>12. CASE ~LeaveOnly(a)
    <3>1. call[a].status = "approved"
      BY <2>3, <2>12 DEF LeaveOnly
    <3>2. CASE a \in Managers
      <4>1. ~call[a].done /\ ~Last(a) /\ a \notin Leads
        BY <2>1, <2>3, <2>12, <3>2 DEF LeaveDue, LeaveFirst, Last
      <4>2. Balanced(-FinalPaid(call[a]))'
        <5>1. Balanced(0)
          BY <2>10, <4>1 DEF Owed
        <5>2. Over' = Over - FinalPaid(call[a])
          BY <1>1, <2>7, <2>8, <3>1
        <5>3. /\ Over' >= -FinalPaid(call[a])
              /\ fails' = 0 => Over' = -FinalPaid(call[a])
          BY <1>1, <2>1, <2>7, <5>1, <5>2 DEF Balanced
        <5>4. FinalPaid(call[a])' = FinalPaid(call[a])
          BY <2>1, <2>9, <4>1, DoneOnly
        <5> QED BY <5>3, <5>4 DEF Balanced
      <4>3. call[a].balance = balance'
        BY <1>3, <2>1, <4>1
      <4> QED BY <1>7, <2>1, <2>9, <4>1, <4>2, <4>3
    <3>3. CASE a \in Leads
      <4>1. call[a].done /\ Last(a)
        BY <2>1, <2>3, <2>12, <3>3 DEF LeaveDue, LeaveFirst, Last
      <4>2. Balanced(0)'
        BY <1>1, <2>1, <2>7, <2>8, <2>10, <3>1, <3>3, <4>1 DEF Balanced, Owed
      <4> QED BY <1>6, <2>1, <2>9, <4>1, <4>2
    <3> QED BY <3>2, <3>3 DEF Approvers
  <2> QED BY <2>11, <2>12
<1>11. ASSUME NEW a \in Approvers, UpdateBalance(a) PROVE Goal
  <2>1. /\ call[a] # None /\ call[a].status = "approved" /\ call[a].balance \in 0 .. Start
        /\ call[a].done <=> a \in Managers
        /\ ~LeaveOnly(a)
    BY <1>11, BalanceDue
  <2>2. UNCHANGED <<leave, fails>> /\ balance' = call[a].balance - FinalPaid(call[a])
    BY <1>11 DEF UpdateBalance
  <2>3. FinalPaid(call[a]) \in Nat /\ call[a].done \in BOOLEAN
    BY <2>1, FinalPaidBounds, CallFields
  <2>4. call[a].balance = balance
    BY <1>3, <2>1
  <2>5. Paid(With("approved"))' = Paid(With("approved")) /\ Paid(With("approved")) \in Nat
    BY <2>2, PaidNat DEF Paid, PaidDays, With
  <2>6. Over' = Over + FinalPaid(call[a])
    BY <1>1, <2>2, <2>3, <2>4, <2>5 DEF Over, Charged
  <2>7. /\ \A b \in Approvers : b # a => call'[b] = call[b]
        /\ \/ call'[a] = None /\ Last(a)
           \/ call'[a] = [call[a] EXCEPT !.done = TRUE] /\ ~Last(a)
    BY <1>11, <2>1, CallAfter DEF UpdateBalance
  <2>8. Balanced(Owed(a))
    BY <1>3, <2>1
  <2>9. CASE a \in Managers
    <3>1. call[a].done /\ Last(a) /\ a \notin Leads
      BY <2>1, <2>9 DEF Last
    <3>2. Balanced(0)'
      BY <1>1, <2>2, <2>3, <2>6, <2>8, <3>1 DEF Balanced, Owed
    <3> QED BY <1>6, <2>1, <2>7, <3>1, <3>2
  <2>10. CASE a \in Leads
    <3>1. ~call[a].done /\ ~Last(a) /\ a \notin Managers
      BY <2>1, <2>3, <2>10 DEF Last
    <3>2. call'[a] = [call[a] EXCEPT !.done = TRUE]
      BY <2>7, <3>1
    <3>3. Balanced(FinalPaid(call[a]))'
      <4>1. FinalPaid(call[a])' = FinalPaid(call[a])
        BY <2>1, <3>2, DoneOnly
      <4>2. /\ Over' >= FinalPaid(call[a])
            /\ fails' = 0 => Over' = FinalPaid(call[a])
        BY <1>1, <2>2, <2>3, <2>6, <2>8, <3>1 DEF Balanced, Owed
      <4> QED BY <4>1, <4>2 DEF Balanced
    <3>4. leave'[call[a].l].status = "pending"
      BY <1>3, <2>1, <2>2, <2>10
    <3> QED BY <1>7, <2>1, <2>7, <2>10, <3>1, <3>2, <3>3, <3>4
  <2> QED BY <2>9, <2>10 DEF Approvers
<1>12. ASSUME NEW a \in Approvers, UpdateFails(a) PROVE Goal
  <2>1. /\ call[a] # None /\ a \in Leads /\ fails' = fails + 1 /\ UNCHANGED <<balance, leave>>
        /\ call'[a] = None /\ \A b \in Approvers : b # a => call'[b] = call[b]
    BY <1>12 DEF UpdateFails, TypeOK, Approvers
  <2>2. Over' = Over
    BY <2>1 DEF Over, Charged, Paid, PaidDays, With
  <2>3. Over >= 0
    <3>1. FinalPaid(call[a]) \in Nat
      BY <2>1, FinalPaidBounds
    <3> QED BY <1>1, <1>3, <2>1, <3>1 DEF Balanced, Owed
  <2>4. Balanced(0)'
    BY <1>1, <2>1, <2>2, <2>3 DEF Balanced
  <2> QED BY <1>6, <2>1, <2>4
<1>13. CASE UNCHANGED <<balance, leave, call>>
  <2>1. Over' = Over
    BY <1>13 DEF Over, Charged, Paid, PaidDays, With
  <2> QED BY <1>5, <1>13, <2>1
<1>14. \/ UNCHANGED <<balance, leave, call>>
       \/ \E t \in Tabs, l \in Leaves : Insert(t, l)
       \/ \E a \in Approvers : UpdateLeave(a) \/ UpdateBalance(a) \/ UpdateFails(a)
       \/ \E a \in Approvers, l \in Leaves, status \in {"approved", "rejected"} : Begin(a, l, status)
  BY DEF Next, ReadBalance, ReadPending, InsertFails, LoadPage, BeginUnread, vars
<1> QED BY <1>8, <1>9, <1>10, <1>11, <1>12, <1>13, <1>14

(***************************************************************************)
(* The theorems.                                                           *)
(***************************************************************************)
LEMMA InvCorrect == Spec => []IInv
<1>1. Init => IInv
  <2> SUFFICES ASSUME Init PROVE IInv
    OBVIOUS
  <2> USE LeaveConstants
  <2>1. NoLeave \in Rows
    BY DEF NoLeave, Rows
  <2>2. TypeOK
    <3>1. leave \in [Leaves -> Rows] /\ page \in [Approvers -> [Leaves -> Rows]]
      BY <2>1 DEF Init
    <3>2. form \in [Tabs -> {None} \cup Forms] /\ call \in [Approvers -> {None} \cup Calls]
      BY DEF Init
    <3>3. crossed \in BOOLEAN /\ halted \in BOOLEAN
      BY DEF Init
    <3> QED BY <3>1, <3>2, <3>3 DEF Init, TypeOK
  <2>3. \A a \in Approvers : call[a] = None
    BY DEF Init
  <2>4. RowInv
    BY <2>3 DEF Init, RowInv, NoLeave, DaysOf
  <2>5. FormInv /\ CallInv
    BY <2>3 DEF Init, FormInv, CallInv
  <2>6. Balanced(0)
    <3>1. With("approved") = {}
      BY DEF Init, With, NoLeave
    <3>2. PaidDays(With("approved")) = {}
      BY <3>1 DEF PaidDays
    <3>3. Paid(With("approved")) = 0
      BY <3>2, FS_EmptySet DEF Paid
    <3> QED BY <3>3 DEF Init, Balanced, Over, Charged
  <2>7. AccountInv
    BY <2>3, <2>6 DEF Init, AccountInv
  <2> QED BY <2>2, <2>4, <2>5, <2>7 DEF IInv
<1>2. IInv /\ [Next]_vars => IInv'
  BY TypeStep, RowStep, FormStep, CallStep, AccountStep DEF IInv
<1> QED BY <1>1, <1>2, PTL DEF Spec

\* Whatever crosses or fails, the balance stays between zero and its start; it
\* was charged exactly the paid days of the approved leaves while nothing
\* crosses or fails, and no less where leads charge first (handleAction).
THEOREM BalanceAccounts == Spec => []BalanceSound
<1> USE LeaveConstants
<1>1. ASSUME IInv PROVE ChargedExactly /\ ChargedFirst
  <2>1. Over \in Int /\ Paid(With("approved")) \in Nat /\ Charged \in Int
    BY <1>1, OverInt, PaidNat DEF IInv, With, TypeOK, Charged
  <2>2. ASSUME ~crossed, fails = 0, InProgress = {} PROVE Charged = Paid(With("approved"))
    <3>1. \A a \in Approvers : call[a] = None
      BY <2>2 DEF InProgress
    <3>2. Balanced(0)
      BY <1>1, <2>2, <3>1 DEF IInv, AccountInv
    <3> QED BY <2>1, <2>2, <3>2 DEF Balanced, Over
  <2>3. ASSUME ~crossed, ~halted, InProgress \cap Managers = {} PROVE Paid(With("approved")) <= Charged
    <3>1. CASE \A a \in Approvers : call[a] = None
      <4>1. Balanced(0)
        BY <1>1, <2>3, <3>1 DEF IInv, AccountInv
      <4> QED BY <2>1, <4>1 DEF Balanced, Over
    <3>2. ASSUME NEW a \in Approvers, call[a] # None PROVE Paid(With("approved")) <= Charged
      <4>1. a \in Leads
        BY <2>3, <3>2 DEF InProgress, Approvers
      <4>2. Balanced(Owed(a))
        BY <1>1, <2>3, <3>2 DEF IInv, AccountInv
      <4>3. FinalPaid(call[a]) \in Nat
        BY <1>1, <3>2, FinalPaidBounds DEF IInv
      <4>4. Owed(a) \in Nat
        BY <4>1, <4>3 DEF Owed
      <4> QED BY <2>1, <4>2, <4>4 DEF Balanced, Over
    <3> QED BY <3>1, <3>2
  <2> QED BY <2>2, <2>3 DEF ChargedExactly, ChargedFirst
<1>2. IInv => BalanceSound
  BY <1>1 DEF IInv, BalanceSound
<1> QED BY <1>2, InvCorrect, PTL

\* A decision moves days between paid ones and loss of pay; none is lost or made,
\* whatever stale page it was taken on (handleAction).
THEOREM DaysAreKept == Spec => DaysKept
<1>1. ASSUME IInv, [Next]_vars, NEW l \in Leaves, leave[l] # NoLeave
      PROVE  leave'[l].paid + leave'[l].lop = leave[l].paid + leave[l].lop
  BY <1>1, RowsStep DEF IInv, RowsGo, DaysOf
<1>2. IInv /\ [Next]_vars =>
        [\A l \in Leaves : leave[l] # NoLeave => leave'[l].paid + leave'[l].lop = leave[l].paid + leave[l].lop]_vars
  BY <1>1
<1> QED BY <1>2, InvCorrect, PTL DEF Spec, DaysKept
=============================================================================
