------------------------- MODULE TaskWorkflow_proofs -------------------------
(***************************************************************************)
(* Proofs about TaskWorkflow for every number of tabs, tasks, users and    *)
(* phases: what the table and every stale copy of it satisfy, whatever     *)
(* order the handlers' writes land in and whichever of them are refused.   *)
(***************************************************************************)
EXTENDS TaskWorkflow, TLAPS, WellFoundedInduction

(***************************************************************************)
(* Phases: the first and the last of a set of them.                        *)
(***************************************************************************)

\* Every nonempty set of naturals has a least element.
LEMMA LeastElement ==
    ASSUME NEW S \in SUBSET Nat, S # {}
    PROVE  \E p \in S : \A q \in S : p <= q
<1>1. PICK p \in S : \A q \in S : ~ (<<q, p>> \in OpToRel(<, Nat))
  BY NatLessThanWellFounded, WFMin
<1>2. \A q \in S : ~ (q < p)
  BY <1>1 DEF OpToRel
<1> QED BY <1>2

\* First and Last pick a member of the set of phases they are given.
LEMMA FirstLast ==
    ASSUME NEW S \in SUBSET Phase, S # {}
    PROVE  First(S) \in S /\ Last(S) \in S
<1> USE PhasesAssumption DEF Phase
<1>1. \E p \in S : \A q \in S : p <= q
  BY LeastElement
<1> DEFINE T == {NumPhases - p : p \in S}
<1>2. T \in SUBSET Nat /\ T # {}
  <2>1. \A p \in S : NumPhases - p \in Nat
    OBVIOUS
  <2>2. T \in SUBSET Nat
    BY <2>1
  <2>3. PICK p \in S : TRUE
    OBVIOUS
  <2>4. NumPhases - p \in T
    OBVIOUS
  <2> QED BY <2>2, <2>4
<1>3. PICK m \in T : \A q \in T : m <= q
  BY <1>2, LeastElement
<1>4. PICK p \in S : m = NumPhases - p
  OBVIOUS
<1>5. \A q \in S : q <= p
  <2> TAKE q \in S
  <2>1. NumPhases - q \in T
    OBVIOUS
  <2>2. NumPhases - p <= NumPhases - q
    BY <1>3, <1>4, <2>1
  <2> QED BY <2>2
<1> QED BY <1>1, <1>5 DEF First, Last

\* Every phase a handler computes from a row is one of LIFECYCLE_PHASES.
LEMMA RowPhases ==
    ASSUME NEW row \in Row
    PROVE  /\ Active(row) \in SUBSET Phase
           /\ LastPhase(row) \in Phase
           /\ ServiceNextPhase(row) \in Phase
           /\ OverlayPhase(row) \in Phase
           /\ OverlayNextPhase(row) \in Phase
<1>0. row.life \in Phase /\ row.active \in SUBSET Phase
  BY DEF Row
<1>1. Active(row) \in SUBSET Phase /\ Active(row) # {}
  BY <1>0, PhasesAssumption DEF Active, Phase
<1>2. LastPhase(row) \in Phase
  BY <1>1, FirstLast DEF LastPhase, Active
<1>3. ServiceNextPhase(row) \in Phase
  <2> DEFINE unproved ==
        {p \in row.life + 1 .. NumPhases - 1 : ~HasProof(row, p)}
  <2>1. unproved \in SUBSET Phase
    BY <1>0, PhasesAssumption DEF Phase
  <2>2. unproved # {} => First(unproved) \in Phase
    BY <2>1, FirstLast
  <2>3. NumPhases \in Phase
    BY PhasesAssumption DEF Phase
  <2> QED BY <1>0, <2>2, <2>3 DEF ServiceNextPhase
<1>4. OverlayPhase(row) \in Phase
  BY <1>0, <1>1, FirstLast DEF OverlayPhase
<1>5. OverlayNextPhase(row) \in Phase
  <2> DEFINE later == {p \in Active(row) : p > OverlayPhase(row)}
  <2>1. later \in SUBSET Phase
    BY <1>1
  <2>2. later # {} => First(later) \in Phase
    BY <2>1, FirstLast
  <2> QED BY <1>4, <2>2 DEF OverlayNextPhase
<1> QED BY <1>1, <1>2, <1>3, <1>4, <1>5

(***************************************************************************)
(* Types of the rows the handlers write.                                   *)
(***************************************************************************)

\* The blank row, and a copy with new phase_validations, are rows.
LEMMA BlankRowType == BlankRow \in Row /\ NoEntry \in Entry
<1>1. NoEntry \in Entry
  BY DEF NoEntry, Entry
<1>2. 1 \in Phase
  BY PhasesAssumption DEF Phase
<1> QED BY <1>1, <1>2 DEF BlankRow, Row

\* What the helpers make of phase_validations has its type.
LEMMA ValidationTypes ==
    ASSUME NEW pv \in [Phase -> Entry], NEW p \in Phase
    PROVE  /\ Approved(pv, p) \in [Phase -> Entry]
           /\ [pv EXCEPT ![p].status = "rejected"] \in [Phase -> Entry]
           /\ \A f : [pv EXCEPT ![p] = WithoutFile(@, f)] \in [Phase -> Entry]
           /\ \A S \in SUBSET Items :
                /\ [pv EXCEPT ![p] = [status |-> "pending", proof |-> S]]
                       \in [Phase -> Entry]
                /\ \A T \in SUBSET Items : ServiceProof(S, T) \in SUBSET Items
           /\ SubStateAfter(pv, p) \in {"in_progress", "pending_validation"}
           /\ pv[p].proof \in SUBSET Items
<1>1. pv[p] \in Entry
  OBVIOUS
<1>2. \A s \in {"pending", "approved", "rejected"} :
        [pv EXCEPT ![p].status = s] \in [Phase -> Entry]
  BY <1>1 DEF Entry
<1>3. \A f : [pv EXCEPT ![p] = WithoutFile(@, f)] \in [Phase -> Entry]
  <2> TAKE f
  <2>1. WithoutFile(pv[p], f) \in Entry
    BY <1>1, BlankRowType DEF WithoutFile, Entry
  <2> QED BY <2>1
<1>4. \A S \in SUBSET Items :
        [pv EXCEPT ![p] = [status |-> "pending", proof |-> S]]
            \in [Phase -> Entry]
  <2> TAKE S \in SUBSET Items
  <2>1. [status |-> "pending", proof |-> S] \in Entry
    BY DEF Entry
  <2> QED BY <2>1
<1>5. \A S, T \in SUBSET Items : ServiceProof(S, T) \in SUBSET Items
  BY DEF ServiceProof
<1>6. SubStateAfter(pv, p) \in {"in_progress", "pending_validation"}
  BY DEF SubStateAfter
<1>7. pv[p].proof \in SUBSET Items
  BY <1>1 DEF Entry
<1> QED BY <1>2, <1>3, <1>4, <1>5, <1>6, <1>7 DEF Approved

\* Every row a handler writes over row r of the table, or keeps as its copy,
\* is a row: the writes of phase_validations ...
LEMMA WrittenRows ==
    ASSUME NEW r \in Row, NEW pv \in [Phase -> Entry], NEW life \in Phase,
           NEW sub \in {"in_progress", "pending_validation"}
    PROVE  /\ [r EXCEPT !.pv = pv] \in Row
           /\ [[r EXCEPT !.pv = pv] EXCEPT !.life = life, !.sub = "in_progress"]
                  \in Row
           /\ [r EXCEPT !.pv = pv, !.sub = sub] \in Row
           /\ [r EXCEPT !.sub = sub, !.status = "in_progress",
                        !.life = life, !.pv = pv] \in Row
<1>1. [r EXCEPT !.pv = pv] \in Row
  BY DEF Row
<1>2. [[r EXCEPT !.pv = pv] EXCEPT !.life = life, !.sub = "in_progress"] \in Row
  BY <1>1 DEF Row
<1>3. [r EXCEPT !.pv = pv, !.sub = sub] \in Row
  BY DEF Row
<1>4. [r EXCEPT !.sub = sub, !.status = "in_progress",
                !.life = life, !.pv = pv] \in Row
  BY DEF Row
<1> QED BY <1>1, <1>2, <1>3, <1>4

\* ... and the writes of the other columns.
LEMMA FlaggedRows ==
    ASSUME NEW r \in Row
    PROVE  /\ [r EXCEPT !.status = "completed"] \in Row
           /\ [r EXCEPT !.status = "archived"] \in Row
           /\ [r EXCEPT !.requested = TRUE, !.access = "pending"] \in Row
           /\ [r EXCEPT !.access = "approved", !.locked = FALSE] \in Row
           /\ ClosedRow(r) \in Row
<1>1. /\ [r EXCEPT !.status = "completed"] \in Row
      /\ [r EXCEPT !.status = "archived"] \in Row
  BY DEF Row
<1>2. /\ [r EXCEPT !.requested = TRUE, !.access = "pending"] \in Row
      /\ [r EXCEPT !.access = "approved", !.locked = FALSE] \in Row
  BY DEF Row
<1>3. ClosedRow(r) \in Row
  BY DEF ClosedRow, Row
<1> QED BY <1>1, <1>2, <1>3

\* An UPDATE by id leaves a well-typed table.
LEMMA UpdateType ==
    ASSUME TypeOK, NEW b \in Tabs, NEW row \in Row, NEW ok, Update(b, row, ok)
    PROVE  tasks' \in [Tasks -> Row]
BY DEF TypeOK, Update

\* An upload leaves the files of every task and their phases well typed.
LEMMA UploadType ==
    ASSUME TypeOK, NEW b \in Tabs, NEW p \in Phase, NEW items \in SUBSET Items,
           Upload(b, p, items)
    PROVE  /\ home' \in [Tasks -> [Files -> 0 .. NumPhases]]
           /\ bucket' \in [Tasks -> SUBSET Files]
<1>1. p \in 0 .. NumPhases /\ at[b] \in Tasks
  BY PhasesAssumption DEF Phase, TypeOK
<1> DEFINE new == [f \in Files |-> IF f \in items THEN p ELSE home[at[b]][f]]
<1>2. new \in [Files -> 0 .. NumPhases]
  BY <1>1 DEF TypeOK
<1>3. home' = [home EXCEPT ![at[b]] = new]
  BY DEF Upload
<1>4. bucket' \in [Tasks -> SUBSET Files]
  BY <1>1 DEF Upload, TypeOK
<1> HIDE DEF new
<1> QED BY <1>2, <1>3, <1>4 DEF TypeOK

\* What a tab that ends, or fails, a handler has open.
LEMMA DismissType ==
    ASSUME TypeOK, NEW b \in Tabs
    PROVE  /\ Dismissed(b) => /\ pc' \in [Tabs -> Stages]
                              /\ snap' \in [Tabs -> Row]
           /\ \A ok : Unless(b, ok) => /\ pc' \in [Tabs -> Stages]
                                       /\ snap' \in [Tabs -> Row]
BY BlankRowType DEF TypeOK, Stages, Dismissed, Unless

(***************************************************************************)
(* Type correctness.                                                       *)
(***************************************************************************)
LEMMA TypeInit == Init => TypeOK
<1> SUFFICES ASSUME Init PROVE TypeOK
  OBVIOUS
<1>1. at \in [Tabs -> Tasks]
  BY TasksAssumption DEF Init
<1>2. home \in [Tasks -> [Files -> 0 .. NumPhases]]
  BY PhasesAssumption DEF Init
<1> QED BY <1>1, <1>2, BlankRowType DEF Init, TypeOK, Stages

\* Every step of every handler keeps the types.
LEMMA TypeStep == TypeOK /\ [Next]_vars => TypeOK'
<1> SUFFICES ASSUME TypeOK, [Next]_vars PROVE TypeOK'
  OBVIOUS
<1> USE DEF TypeOK, Stages, fileVars
<1>1. ASSUME NEW t \in Tasks, NEW u \in Users \cup {Nobody}, NEW required \in PhaseChoices,
             CreateTask(t, u, required)
      PROVE  TypeOK'
  <2> DEFINE pv == [p \in Phase |-> IF p \in required
                                    THEN [status |-> "pending", proof |-> {}]
                                    ELSE NoEntry]
             row == [BlankRow EXCEPT !.exists = TRUE, !.assignee = u,
                                     !.active = required, !.pv = pv]
  <2>1. pv \in [Phase -> Entry]
    BY BlankRowType DEF Entry
  <2>2. required \in SUBSET Phase
    BY TabsAssumption
  <2>3. row \in Row
    <3> HIDE DEF pv
    <3> QED BY <2>1, <2>2, BlankRowType DEF Row
  <2>4. tasks' = [tasks EXCEPT ![t] = row]
    BY <1>1 DEF CreateTask
  <2>5. tasks' \in [Tasks -> Row]
    <3> HIDE DEF row
    <3> QED BY <2>3, <2>4
  <2> QED BY <1>1, <2>5 DEF CreateTask, Start, tabVars
<1>2. ASSUME NEW t \in Tasks, DueDatePasses(t)
      PROVE  TypeOK'
  BY <1>2 DEF DueDatePasses, tabVars
<1>3. ASSUME NEW b \in Tabs, NEW t \in Tasks, Open(b, t)
      PROVE  TypeOK'
  BY <1>3 DEF Open
<1>4. ASSUME NEW b \in Tabs, Close(b)
      PROVE  TypeOK'
  BY <1>4, DismissType DEF Close
<1>5. ASSUME NEW b \in Tabs, NEW items \in SUBSET Items, SubmitProof(b, items)
      PROVE  TypeOK'
  <2> DEFINE row == snap[b]
             next == ServiceNextPhase(row)
             pv == [row.pv EXCEPT ![row.life] =
                      [status |-> "pending",
                       proof |-> ServiceProof(row.pv[row.life].proof, items)]]
             now == [tasks[at[b]] EXCEPT !.pv = pv]
             new == IF next = row.life THEN now
                    ELSE [now EXCEPT !.life = next, !.sub = "in_progress"]
  <2>1. row \in Row /\ tasks[at[b]] \in Row /\ next \in Phase
    BY RowPhases
  <2>2. row.pv \in [Phase -> Entry] /\ row.life \in Phase
    BY <2>1 DEF Row
  <2>3. ServiceProof(row.pv[row.life].proof, items) \in SUBSET Items
    BY <2>2, ValidationTypes
  <2>4. pv \in [Phase -> Entry]
    BY <2>2, <2>3, ValidationTypes
  <2>5. new \in Row
    <3> HIDE DEF pv
    <3> QED BY <2>1, <2>4, WrittenRows
  <2>6. \E ok \in Reply : Update(b, new, ok)
                          /\ pc' = [pc EXCEPT ![b] = IF ok THEN "lookup" ELSE "open"]
    BY <1>5 DEF SubmitProof, UpdatePhases
  <2>7. tasks' \in [Tasks -> Row]
    <3> HIDE DEF new
    <3> QED BY <2>5, <2>6, UpdateType
  <2>8. started' \in Nat
    BY <1>5 DEF SubmitProof, Start
  <2>9. UNCHANGED <<subs, overdue, at, snap, target, decided, removing>>
    BY <1>5 DEF SubmitProof
  <2>10. torn' \subseteq Tasks
    BY <1>5 DEF SubmitProof, UpdatePhases
  <2>11. Upload(b, row.life, items)
    BY <1>5 DEF SubmitProof
  <2>12. home' \in [Tasks -> [Files -> 0 .. NumPhases]] /\ bucket' \in [Tasks -> SUBSET Files]
    BY <2>2, <2>11, UploadType
  <2> HIDE DEF next, pv, now, new
  <2> QED BY <2>6, <2>7, <2>8, <2>9, <2>10, <2>12
<1>6. ASSUME NEW b \in Tabs, LookupSubmission(b)
      PROVE  TypeOK'
  BY <1>6 DEF LookupSubmission
<1>7. ASSUME NEW b \in Tabs, UpdateSubmission(b)
      PROVE  TypeOK'
  BY <1>7, DismissType DEF UpdateSubmission
<1>8. ASSUME NEW b \in Tabs, InsertSubmission(b)
      PROVE  TypeOK'
  <2>1. subs' \in [Tasks -> [Users -> Nat]]
    <3>1. at[b] \in Tasks /\ UserOf[b] \in Users
      BY TabsAssumption
    <3>2. PICK ok \in Reply :
            subs' = IF ok THEN [subs EXCEPT ![at[b]][UserOf[b]] = @ + 1]
                    ELSE subs
      BY <1>8 DEF InsertSubmission
    <3>3. [subs[at[b]] EXCEPT ![UserOf[b]] = @ + 1] \in [Users -> Nat]
      BY <3>1
    <3> QED BY <3>1, <3>2, <3>3
  <2> QED BY <1>8, <2>1, DismissType DEF InsertSubmission
<1>9. ASSUME NEW b \in Tabs, NEW items \in SUBSET Items, OverlaySubmit(b, items)
      PROVE  TypeOK'
  <2> DEFINE row == snap[b]
             cur == OverlayPhase(row)
             next == OverlayNextPhase(row)
             sub == IF next # cur THEN "in_progress" ELSE "pending_validation"
             pv == [row.pv EXCEPT ![cur] =
                      [status |-> "pending",
                       proof |-> row.pv[cur].proof \cup items]]
             new == [tasks[at[b]] EXCEPT !.sub = sub, !.status = "in_progress",
                                         !.life = next, !.pv = pv]
  <2>1. row \in Row /\ tasks[at[b]] \in Row /\ cur \in Phase /\ next \in Phase
    BY RowPhases
  <2>2. row.pv \in [Phase -> Entry]
    BY <2>1 DEF Row
  <2>3. row.pv[cur].proof \cup items \in SUBSET Items
    BY <2>1, <2>2, ValidationTypes
  <2>4. pv \in [Phase -> Entry]
    BY <2>1, <2>2, <2>3, ValidationTypes
  <2>5. new \in Row
    <3>1. sub \in {"in_progress", "pending_validation"}
      OBVIOUS
    <3> HIDE DEF pv, sub, next
    <3> QED BY <2>1, <2>4, <3>1, WrittenRows
  <2>6. \E ok \in Reply : Update(b, new, ok) /\ AfterOverlayWrite(b, ok)
    BY <1>9 DEF OverlaySubmit, UpdatePhases
  <2>7. tasks' \in [Tasks -> Row]
    <3> HIDE DEF new
    <3> QED BY <2>5, <2>6, UpdateType
  <2>8. pc' \in [Tabs -> Stages]
    BY <2>6 DEF AfterOverlayWrite
  <2>9. started' \in Nat
    BY <1>9 DEF OverlaySubmit, Start
  <2>10. UNCHANGED <<subs, overdue, at, snap, target, decided, removing>>
    BY <1>9 DEF OverlaySubmit
  <2>11. torn' \subseteq Tasks
    BY <1>9 DEF OverlaySubmit, UpdatePhases
  <2>12. Upload(b, cur, items)
    BY <1>9 DEF OverlaySubmit
  <2>13. home' \in [Tasks -> [Files -> 0 .. NumPhases]] /\ bucket' \in [Tasks -> SUBSET Files]
    BY <2>1, <2>12, UploadType
  <2> HIDE DEF cur, next, sub, pv, new
  <2> QED BY <2>7, <2>8, <2>9, <2>10, <2>11, <2>13
<1>10. ASSUME NEW b \in Tabs, NEW p \in Phase, NEW f \in Files,
              DeleteProofEntry(b, p, f)
       PROVE  TypeOK'
  <2> DEFINE pv == [snap[b].pv EXCEPT ![p] = WithoutFile(@, f)]
             new == [tasks[at[b]] EXCEPT !.pv = pv]
  <2>1. snap[b].pv \in [Phase -> Entry]
    BY DEF Row
  <2>2. pv \in [Phase -> Entry]
    BY <2>1, ValidationTypes
  <2>3. new \in Row
    <3> HIDE DEF pv
    <3> QED BY <2>2, WrittenRows
  <2>4. \E ok \in Reply : Update(b, new, ok) /\ AfterOverlayWrite(b, ok)
    BY <1>10 DEF DeleteProofEntry
  <2>5. tasks' \in [Tasks -> Row]
    <3> HIDE DEF new
    <3> QED BY <2>3, <2>4, UpdateType
  <2>6. pc' \in [Tabs -> Stages]
    BY <2>4 DEF AfterOverlayWrite
  <2>7. torn' \subseteq Tasks
    BY <1>10 DEF DeleteProofEntry
  <2>8. removing' \in [Tabs -> (Phase \X Files) \cup {<<>>}]
    BY <1>10 DEF DeleteProofEntry
  <2>9. UNCHANGED <<subs, overdue, at, snap, target, decided, started, bucket, home>>
    BY <1>10 DEF DeleteProofEntry
  <2> HIDE DEF pv, new
  <2> QED BY <2>5, <2>6, <2>7, <2>8, <2>9
<1>11. ASSUME NEW b \in Tabs, Refetch(b)
       PROVE  TypeOK'
  BY <1>11 DEF Refetch
<1>12. ASSUME NEW b \in Tabs, NEW p \in Phase, ApprovePhase(b, p)
       PROVE  TypeOK'
  <2> DEFINE pv == Approved(snap[b].pv, p)
             sub == SubStateAfter(pv, p)
             seen == [snap[b] EXCEPT !.pv = pv, !.sub = sub]
             new == [tasks[at[b]] EXCEPT !.pv = pv, !.sub = sub]
  <2>1. snap[b].pv \in [Phase -> Entry]
    BY DEF Row
  <2>2. pv \in [Phase -> Entry]
    BY <2>1, ValidationTypes
  <2>3. sub \in {"in_progress", "pending_validation"}
    BY <2>2, ValidationTypes
  <2>4. seen \in Row /\ new \in Row
    <3> HIDE DEF pv, sub
    <3> QED BY <2>2, <2>3, WrittenRows
  <2>5. tasks' \in [Tasks -> Row]
    <3>1. \E ok \in Reply : Update(b, new, ok)
      BY <1>12 DEF ApprovePhase, UpdatePhases
    <3> HIDE DEF new
    <3> QED BY <2>4, <3>1, UpdateType
  <2>6. snap' \in [Tabs -> Row]
    <3>1. snap' = [snap EXCEPT ![b] = seen]
      BY <1>12 DEF ApprovePhase
    <3> HIDE DEF seen
    <3> QED BY <2>4, <3>1
  <2>7. pc' \in [Tabs -> Stages]
    BY <1>12 DEF ApprovePhase
  <2>8. decided' \in [Tasks -> SUBSET Phase] /\ started' \in Nat
    BY <1>12 DEF ApprovePhase, Start
  <2>9. UNCHANGED <<subs, overdue, at, target, bucket, removing, home>>
    BY <1>12 DEF ApprovePhase
  <2>10. torn' \subseteq Tasks
    BY <1>12 DEF ApprovePhase, UpdatePhases
  <2> HIDE DEF pv, sub, seen, new
  <2> QED BY <2>5, <2>6, <2>7, <2>8, <2>9, <2>10
<1>13. ASSUME NEW b \in Tabs, CompleteTask(b)
       PROVE  TypeOK'
  <2> DEFINE new == [tasks[at[b]] EXCEPT !.status = "completed"]
  <2>1. new \in Row /\ [snap[b] EXCEPT !.status = "completed"] \in Row
    BY FlaggedRows
  <2>2. tasks' \in [Tasks -> Row]
    <3>1. \E ok \in Reply : Update(b, new, ok)
      BY <1>13 DEF CompleteTask
    <3> HIDE DEF new
    <3> QED BY <2>1, <3>1, UpdateType
  <2>3. snap' \in [Tabs -> Row]
    BY <1>13, <2>1 DEF CompleteTask
  <2> QED BY <1>13, <2>2, <2>3 DEF CompleteTask
<1>14. ASSUME NEW b \in Tabs, NEW p \in Phase, RejectPhase(b, p)
       PROVE  TypeOK'
  <2> DEFINE pv == [snap[b].pv EXCEPT ![p].status = "rejected"]
             new == [tasks[at[b]] EXCEPT !.pv = pv, !.sub = "in_progress"]
             seen == [snap[b] EXCEPT !.pv = pv, !.sub = "in_progress"]
  <2>1. snap[b].pv \in [Phase -> Entry]
    BY DEF Row
  <2>2. pv \in [Phase -> Entry]
    BY <2>1, ValidationTypes
  <2>3. new \in Row /\ seen \in Row
    <3> HIDE DEF pv
    <3> QED BY <2>2, WrittenRows
  <2>4. tasks' \in [Tasks -> Row]
    <3>1. \E ok \in Reply : Update(b, new, ok)
      BY <1>14 DEF RejectPhase, UpdatePhases
    <3> HIDE DEF new
    <3> QED BY <2>3, <3>1, UpdateType
  <2>5. snap' \in [Tabs -> Row]
    <3>1. snap' = [snap EXCEPT ![b] = seen]
      BY <1>14 DEF RejectPhase
    <3> HIDE DEF seen
    <3> QED BY <2>3, <3>1
  <2>6. /\ UNCHANGED <<subs, overdue, pc, at, target, decided, bucket, removing, home>>
        /\ started' \in Nat
    BY <1>14 DEF RejectPhase, Start
  <2>7. torn' \subseteq Tasks
    BY <1>14 DEF RejectPhase, UpdatePhases
  <2> HIDE DEF pv, seen, new
  <2> QED BY <2>4, <2>5, <2>6, <2>7
<1>15. ASSUME NEW b \in Tabs, RequestAccess(b)
       PROVE  TypeOK'
  <2> DEFINE new == [tasks[at[b]] EXCEPT !.requested = TRUE,
                                         !.access = "pending"]
  <2>1. new \in Row
    BY FlaggedRows
  <2>2. \E ok \in Reply : Update(b, new, ok) /\ Unless(b, ok)
    BY <1>15 DEF RequestAccess
  <2>3. tasks' \in [Tasks -> Row]
    <3> HIDE DEF new
    <3> QED BY <2>1, <2>2, UpdateType
  <2> QED BY <1>15, <2>2, <2>3, DismissType DEF RequestAccess, Start
<1>16. ASSUME NEW b \in Tabs, ApproveAccess(b)
       PROVE  TypeOK'
  <2> DEFINE new == [tasks[at[b]] EXCEPT !.access = "approved",
                                         !.locked = FALSE]
  <2>1. new \in Row
    BY FlaggedRows
  <2>2. tasks' \in [Tasks -> Row]
    <3>1. \E ok \in Reply : Update(b, new, ok)
      BY <1>16 DEF ApproveAccess
    <3> HIDE DEF new
    <3> QED BY <2>1, <3>1, UpdateType
  <2> QED BY <1>16, <2>2, DismissType DEF ApproveAccess, ReviewAsked, Start
<1>17. ASSUME NEW b \in Tabs, CloseTask(b)
       PROVE  TypeOK'
  <2>1. ClosedRow(tasks[at[b]]) \in Row
    BY FlaggedRows
  <2>2. tasks' \in [Tasks -> Row]
    BY <1>17, <2>1, UpdateType DEF CloseTask
  <2> QED BY <1>17, <2>2, DismissType DEF CloseTask, ReviewAsked, Start
<1>18. ASSUME NEW b \in Tabs, NEW u \in Users, ReassignTask(b, u)
       PROVE  TypeOK'
  <2>1. ClosedRow(tasks[at[b]]) \in Row
    BY FlaggedRows
  <2>2. tasks' \in [Tasks -> Row]
    BY <1>18, <2>1, UpdateType DEF ReassignTask
  <2> QED BY <1>18, <2>2 DEF ReassignTask, ReviewAsked, Start
<1>19. ASSUME NEW b \in Tabs, NEW t \in Tasks, InsertReassigned(b, t)
       PROVE  TypeOK'
  <2> DEFINE new == ReassignedRow(snap[b], target[b])
  <2>1. target[b] \in Users \cup {Nobody} /\ snap[b] \in Row
    OBVIOUS
  <2>2. new \in Row
    BY <2>1, BlankRowType, RowPhases DEF ReassignedRow, Row
  <2>3. \E ok \in Reply : tasks' = IF ok THEN [tasks EXCEPT ![t] = new]
                                   ELSE tasks
    BY <1>19 DEF InsertReassigned
  <2>4. tasks' \in [Tasks -> Row]
    <3> HIDE DEF new
    <3> QED BY <2>2, <2>3
  <2>5. overdue' \subseteq Tasks
    BY <1>19 DEF InsertReassigned
  <2> QED BY <1>19, <2>4, <2>5, DismissType DEF InsertReassigned
<1>20. ASSUME NEW b \in Tabs, ArchiveTask(b)
       PROVE  TypeOK'
  <2> DEFINE new == [tasks[at[b]] EXCEPT !.status = "archived"]
  <2>1. new \in Row
    BY FlaggedRows
  <2>2. tasks' \in [Tasks -> Row]
    <3>1. \E ok \in Reply : Update(b, new, ok)
      BY <1>20 DEF ArchiveTask
    <3> HIDE DEF new
    <3> QED BY <2>1, <3>1, UpdateType
  <2> QED BY <1>20, <2>2, DismissType DEF ArchiveTask, Start
<1>21. ASSUME NEW b \in Tabs, NEW p \in Phase, NEW f \in Files,
              DeleteProofFile(b, p, f)
       PROVE  TypeOK'
  <2>1. bucket' \in [Tasks -> SUBSET Files]
    BY <1>21 DEF DeleteProofFile
  <2>2. removing' \in [Tabs -> (Phase \X Files) \cup {<<>>}]
    BY <1>21 DEF DeleteProofFile
  <2>3. pc' \in [Tabs -> Stages] /\ started' \in Nat
    BY <1>21 DEF DeleteProofFile, Start
  <2>4. UNCHANGED <<tasks, subs, overdue, at, snap, target, decided, home, torn>>
    BY <1>21 DEF DeleteProofFile
  <2> QED BY <2>1, <2>2, <2>3, <2>4
<1>22. CASE UNCHANGED vars
  BY <1>22 DEF vars
<1> QED BY <1>1, <1>2, <1>3, <1>4, <1>5, <1>6, <1>7, <1>8, <1>9, <1>10, <1>11,
           <1>12, <1>13, <1>14, <1>15, <1>16, <1>17, <1>18, <1>19, <1>20, <1>21, <1>22
           DEF Next, Continue

\* The table, every copy of a row and every tab keep their types, whatever the
\* number of tabs, tasks and phases: no handler moves a task to a phase that is
\* not one of LIFECYCLE_PHASES (workflow.js 53-81, TaskDetailOverlay 339-374).
THEOREM TypeCorrect == Spec => []TypeOK
<1> QED BY TypeInit, TypeStep, PTL DEF Spec

(***************************************************************************)
(* The files that rows and copies name.  A file has one phase for ever, so *)
(* a deletion that takes it out of that phase of a copy takes it out of    *)
(* the row; every other name of the row was there, or is new and stored.   *)
(***************************************************************************)
\* A reviewed phase names proof, in the table.
ReviewsNamed ==
    \A t \in Tasks, p \in Phase :
        tasks[t].pv[p].status \in {"approved", "rejected"} => HasProof(tasks[t], p)

\* The files phases pv name were uploaded for the phase that names them.
Placed(pv, hs) == \A p \in Phase : \A f \in pv[p].proof : f \in Files => hs[f] = p

\* The tab deletes a file its own copy names.
Deleting(b) ==
    \E p \in Phase, f \in Files : removing[b] = <<p, f>> /\ f \in snap[b].pv[p].proof

NamesKept == \A t \in Tasks \ torn, p \in Phase : \A i \in tasks[t].pv[p].proof : Kept(t, i)

FilesSound ==
    /\ \A t \in Tasks : Placed(tasks[t].pv, home[t])
    /\ \A b \in Tabs : Placed(snap[b].pv, home[at[b]])
    /\ \A b \in Tabs : pc[b] = "delete" => Deleting(b)
    /\ NamesKept

\* No phase of pv names more proof than it does in `more`.
Within(pv, more) == \A p \in Phase : pv[p].proof \subseteq more[p].proof

LEMMA FilesInit == Init => FilesSound
<1> SUFFICES ASSUME Init PROVE FilesSound
  OBVIOUS
<1>1. \A p \in Phase : BlankRow.pv[p].proof = {}
  BY DEF BlankRow, NoEntry
<1>2. /\ \A t \in Tasks : tasks[t] = BlankRow
      /\ \A b \in Tabs : snap[b] = BlankRow /\ pc[b] = "closed"
  BY DEF Init
<1> QED BY <1>1, <1>2 DEF FilesSound, Placed, NamesKept

\* The file of a deletion is named by the copy of its tab.
LEMMA NamedDeletion ==
    ASSUME FilesSound, NEW b \in Tabs, NEW p, NEW f,
           pc[b] = "delete", removing[b] = <<p, f>>
    PROVE  f \in snap[b].pv[p].proof
BY DEF FilesSound, Deleting

LEMMA PlacedWithin ==
    ASSUME NEW pv, NEW more, NEW hs, Placed(more, hs), Within(pv, more)
    PROVE  Placed(pv, hs)
BY DEF Placed, Within

\* A step that stores and loses no file, and adds no name to a row or a copy.
LEMMA FilesQuiet ==
    ASSUME TypeOK, FilesSound, UNCHANGED <<at, fileVars>>,
           \A t \in Tasks : Within(tasks'[t].pv, tasks[t].pv),
           \A b \in Tabs : Within(snap'[b].pv, snap[b].pv),
           \A b \in Tabs : /\ pc[b] = "delete" => pc'[b] = "delete"
                           /\ pc'[b] = "delete" => pc[b] = "delete" /\ snap'[b] = snap[b]
    PROVE  FilesSound'
<1>1. UNCHANGED <<bucket, removing, home, torn>>
  BY DEF fileVars
<1>2. \A t \in Tasks : Placed(tasks'[t].pv, home'[t])
  BY <1>1, PlacedWithin DEF FilesSound
<1>3. \A b \in Tabs : Placed(snap'[b].pv, home'[at'[b]])
  BY <1>1, PlacedWithin DEF FilesSound
<1>4. \A b \in Tabs : pc'[b] = "delete" => Deleting(b)'
  BY <1>1 DEF FilesSound, Deleting
<1>5. \A t \in Tasks : \A i : Kept(t, i) => Kept(t, i)'
  BY <1>1 DEF Kept
<1>6. ASSUME NEW t \in Tasks \ torn', NEW p \in Phase, NEW i \in tasks'[t].pv[p].proof
      PROVE  Kept(t, i)'
  BY <1>1, <1>5, <1>6 DEF FilesSound, NamesKept, Within
<1> QED BY <1>2, <1>3, <1>4, <1>6 DEF FilesSound, NamesKept

\* A tab writes the phases of its copy, with new files of phase p.
LEMMA FilesWritten ==
    ASSUME TypeOK, FilesSound, NEW b \in Tabs, NEW row, NEW ok, NEW p \in Phase,
           NEW items \in SUBSET Items,
           UpdatePhases(b, row, ok), Upload(b, p, items), UNCHANGED <<at, removing>>,
           \A q \in Phase \ {p} : row.pv[q].proof \subseteq snap[b].pv[q].proof,
           row.pv[p].proof \subseteq snap[b].pv[p].proof \cup items,
           \A c \in Tabs : Within(snap'[c].pv, snap[c].pv),
           \A c \in Tabs \ {b} : pc'[c] = pc[c] /\ snap'[c] = snap[c],
           pc[b] # "delete", pc'[b] # "delete"
    PROVE  FilesSound'
<1>0. at[b] \in Tasks /\ DOMAIN home = Tasks /\ DOMAIN bucket = Tasks /\ DOMAIN tasks = Tasks
  BY DEF TypeOK
<1>1. \A t \in Tasks : t # at[b] => home'[t] = home[t] /\ bucket'[t] = bucket[t]
  BY <1>0 DEF Upload
<1>2. /\ bucket'[at[b]] = bucket[at[b]] \cup (items \cap Files)
      /\ \A f \in Files : home'[at[b]][f] = IF f \in items THEN p ELSE home[at[b]][f]
      /\ \A f \in items \cap Files : home[at[b]][f] = 0
  BY <1>0 DEF Upload
<1>3. ASSUME NEW pv, NEW t \in Tasks, Placed(pv, home[t]) PROVE Placed(pv, home'[t])
  <2>1. \A q \in Phase : q # 0
    BY PhasesAssumption DEF Phase
  <2> QED BY <1>1, <1>2, <1>3, <2>1 DEF Placed
<1>4. \A t \in Tasks : tasks'[t] = tasks[t] \/ (ok /\ t = at[b] /\ tasks'[t] = row)
  BY <1>0 DEF UpdatePhases, Update
<1>5. Placed(row.pv, home'[at[b]])
  <2> SUFFICES ASSUME NEW q \in Phase, NEW f \in row.pv[q].proof, f \in Files
               PROVE  home'[at[b]][f] = q
    BY DEF Placed
  <2>1. f \in snap[b].pv[q].proof \/ (q = p /\ f \in items)
    OBVIOUS
  <2>2. CASE f \in snap[b].pv[q].proof
    <3>1. Placed(snap[b].pv, home[at[b]])
      BY DEF FilesSound
    <3>2. Placed(snap[b].pv, home'[at[b]])
      BY <1>0, <1>3, <3>1
    <3> QED BY <2>2, <3>2 DEF Placed
  <2>3. CASE q = p /\ f \in items
    BY <1>2, <2>3
  <2> QED BY <2>1, <2>2, <2>3
<1>6. \A t \in Tasks : Placed(tasks'[t].pv, home'[t])
  BY <1>3, <1>4, <1>5 DEF FilesSound
<1>7. ASSUME NEW c \in Tabs PROVE Placed(snap'[c].pv, home'[at'[c]])
  <2>1. at[c] \in Tasks /\ Placed(snap[c].pv, home[at[c]])
    BY DEF FilesSound, TypeOK
  <2>2. Placed(snap'[c].pv, home[at[c]])
    BY <2>1, PlacedWithin
  <2> QED BY <1>3, <2>1, <2>2
<1>8. \A c \in Tabs : pc'[c] = "delete" => Deleting(c)'
  BY DEF FilesSound, Deleting
<1>9. \A t \in Tasks : \A i : Kept(t, i) => Kept(t, i)'
  BY <1>1, <1>2 DEF Kept
<1>10. ASSUME NEW t \in Tasks \ torn', NEW q \in Phase, NEW i \in tasks'[t].pv[q].proof
       PROVE  Kept(t, i)'
  <2>1. t \notin torn
    BY <1>10 DEF UpdatePhases
  <2>2. CASE i \in tasks[t].pv[q].proof
    BY <1>9, <2>1, <2>2 DEF FilesSound, NamesKept
  <2>3. CASE i \notin tasks[t].pv[q].proof
    <3>1. ok /\ t = at[b] /\ tasks'[t] = row
      BY <1>4, <2>3
    <3>2. snap[b].pv[q].proof \subseteq tasks[t].pv[q].proof
      BY <1>10, <3>1 DEF UpdatePhases, BringsBack
    <3>3. i \in items
      BY <2>3, <3>1, <3>2
    <3>4. i = Text \/ i \in bucket'[t]
      BY <1>2, <3>1, <3>3 DEF Items
    <3> QED BY <3>4 DEF Kept
  <2> QED BY <2>2, <2>3
<1> QED BY <1>6, <1>7, <1>8, <1>10 DEF FilesSound, NamesKept

\* A tab fetches the row of task t.
LEMMA FilesFetched ==
    ASSUME TypeOK, FilesSound, NEW b \in Tabs, NEW t \in Tasks,
           UNCHANGED <<tasks, fileVars>>,
           snap'[b] = tasks[t], at'[b] = t, pc[b] # "delete", pc'[b] # "delete",
           \A c \in Tabs \ {b} : pc'[c] = pc[c] /\ snap'[c] = snap[c] /\ at'[c] = at[c]
    PROVE  FilesSound'
<1>1. UNCHANGED <<bucket, removing, home, torn>>
  BY DEF fileVars
<1>2. \A c \in Tabs : Placed(snap'[c].pv, home'[at'[c]])
  BY <1>1 DEF FilesSound
<1>3. \A c \in Tabs : pc'[c] = "delete" => Deleting(c)'
  BY <1>1 DEF FilesSound, Deleting
<1>4. \A s \in Tasks : \A i : Kept(s, i) => Kept(s, i)'
  BY <1>1 DEF Kept
<1> QED BY <1>1, <1>2, <1>3, <1>4 DEF FilesSound, NamesKept

\* The storage loses a file, or keeps it, while its deletion is under way.
LEMMA FilesRemoved ==
    ASSUME TypeOK, FilesSound, NEW b \in Tabs, NEW p \in Phase, NEW f \in Files,
           DeleteProofFile(b, p, f)
    PROVE  FilesSound'
<1>1. /\ UNCHANGED <<tasks, at, snap, home, torn>>
      /\ pc[b] = "open" /\ f \in snap[b].pv[p].proof
      /\ pc' = [pc EXCEPT ![b] = "delete"]
      /\ removing' = [removing EXCEPT ![b] = <<p, f>>]
  BY DEF DeleteProofFile, Idle
<1>2. /\ pc'[b] = "delete" /\ removing'[b] = <<p, f>>
      /\ \A c \in Tabs \ {b} : pc'[c] = pc[c] /\ removing'[c] = removing[c]
  BY <1>1 DEF TypeOK
<1>3. \A c \in Tabs : pc'[c] = "delete" => Deleting(c)'
  BY <1>1, <1>2 DEF FilesSound, Deleting
<1>4. \A t \in Tasks : t # at[b] => bucket'[t] = bucket[t]
  BY DEF DeleteProofFile, TypeOK
<1>5. \A i : i \in bucket[at[b]] => i \in bucket'[at[b]] \/ i = f
  BY DEF DeleteProofFile, TypeOK
<1>6. ASSUME NEW t \in Tasks, NEW i, Kept(t, i) PROVE Kept(t, i)'
  <2>1. CASE i = Text
    BY <2>1 DEF Kept
  <2>2. CASE i \in bucket[t]
    <3>1. i \in bucket'[t] \/ (t = at[b] /\ i = f)
      BY <1>4, <1>5, <2>2
    <3>2. f = removing'[b][2] /\ at'[b] = at[b]
      BY <1>1, <1>2
    <3> QED BY <1>2, <3>1, <3>2 DEF Kept
  <2>3. ASSUME NEW c \in Tabs, pc[c] = "delete", at[c] = t, removing[c][2] = i
        PROVE  Kept(t, i)'
    <3>1. c # b
      BY <1>1, <2>3
    <3> QED BY <1>1, <1>2, <2>3, <3>1 DEF Kept
  <2> QED BY <1>6, <2>1, <2>2, <2>3 DEF Kept
<1> QED BY <1>1, <1>3, <1>6 DEF FilesSound, NamesKept

\* The row loses the name of the file, or may be torn.
LEMMA FilesForgotten ==
    ASSUME TypeOK, FilesSound, NEW b \in Tabs, NEW p \in Phase, NEW f \in Files,
           DeleteProofEntry(b, p, f)
    PROVE  FilesSound'
<1> DEFINE pv == [snap[b].pv EXCEPT ![p] = WithoutFile(@, f)]
           row == [tasks[at[b]] EXCEPT !.pv = pv]
<1>0. /\ at[b] \in Tasks /\ tasks[at[b]] \in Row
      /\ snap[b].pv \in [Phase -> Entry] /\ snap[b].pv[p] \in Entry
  BY DEF TypeOK, Row
<1>1. /\ UNCHANGED <<at, snap, bucket, home>>
      /\ pc[b] = "delete" /\ removing[b] = <<p, f>>
      /\ removing' = [removing EXCEPT ![b] = <<>>]
  BY DEF DeleteProofEntry
<1>2. PICK ok \in Reply :
        /\ Update(b, row, ok)
        /\ AfterOverlayWrite(b, ok)
        /\ torn' = IF (IF ok THEN BringsBack(b) ELSE f \notin bucket[at[b]])
                   THEN torn \cup {at[b]} ELSE torn
  BY DEF DeleteProofEntry
<1>3. /\ pc'[b] # "delete"
      /\ \A c \in Tabs \ {b} : pc'[c] = pc[c] /\ removing'[c] = removing[c]
  BY <1>1, <1>2 DEF AfterOverlayWrite, TypeOK
<1>4. /\ row.pv[p].proof = snap[b].pv[p].proof \ {f}
      /\ \A q \in Phase \ {p} : row.pv[q] = snap[b].pv[q]
  <2>1. row.pv = pv
    <3> HIDE DEF pv
    <3> QED BY <1>0 DEF Row
  <2>2. WithoutFile(snap[b].pv[p], f).proof = snap[b].pv[p].proof \ {f}
    BY <1>0 DEF WithoutFile, NoEntry, Entry
  <2>3. pv[p] = WithoutFile(snap[b].pv[p], f) /\ \A q \in Phase \ {p} : pv[q] = snap[b].pv[q]
    BY <1>0
  <2> QED BY <2>1, <2>2, <2>3
<1> HIDE DEF row, pv
<1>5. \A t \in Tasks : tasks'[t] = tasks[t] \/ (ok /\ t = at[b] /\ tasks'[t] = row)
  BY <1>0, <1>2 DEF Update, TypeOK
<1>6. Placed(snap[b].pv, home[at[b]]) /\ Within(row.pv, snap[b].pv)
  BY <1>4 DEF FilesSound, Within
<1>7. \A q \in Phase : f \notin row.pv[q].proof
  <2>1. f \in snap[b].pv[p].proof
    BY <1>1, NamedDeletion
  <2>2. home[at[b]][f] = p
    BY <1>6, <2>1 DEF Placed
  <2> QED BY <1>4, <1>6, <2>2 DEF Placed
<1>8. \A t \in Tasks : Placed(tasks'[t].pv, home'[t])
  BY <1>1, <1>5, <1>6, PlacedWithin DEF FilesSound
<1>9. \A c \in Tabs : pc'[c] = "delete" => Deleting(c)'
  BY <1>1, <1>3 DEF FilesSound, Deleting
<1>10. ASSUME NEW t \in Tasks, NEW i, Kept(t, i), t # at[b] \/ i # f \/ i \in bucket[t]
       PROVE  Kept(t, i)'
  <2>1. CASE i = Text \/ i \in bucket[t]
    BY <1>1, <2>1 DEF Kept
  <2>2. ASSUME NEW c \in Tabs, pc[c] = "delete", at[c] = t, removing[c][2] = i,
               i \notin bucket[t]
        PROVE  Kept(t, i)'
    <3>1. c # b
      BY <1>1, <1>10, <2>2
    <3> QED BY <1>1, <1>3, <2>2, <3>1 DEF Kept
  <2> QED BY <1>10, <2>1, <2>2 DEF Kept
<1>11. ASSUME NEW t \in Tasks \ torn', NEW q \in Phase, NEW i \in tasks'[t].pv[q].proof
       PROVE  Kept(t, i)'
  <2>1. t \notin torn
    BY <1>2, <1>11
  <2>2. CASE ok /\ t = at[b] /\ tasks'[t] = row
    <3>1. i # f /\ i \in snap[b].pv[q].proof
      BY <1>6, <1>7, <1>11, <2>2 DEF Within
    <3>2. i \in tasks[t].pv[q].proof
      BY <1>2, <1>11, <2>2, <3>1 DEF BringsBack
    <3> QED BY <1>10, <2>1, <3>1, <3>2 DEF FilesSound, NamesKept
  <2>3. CASE tasks'[t] = tasks[t] /\ ~ok
    <3>1. t # at[b] \/ f \in bucket[t]
      BY <1>2, <1>11, <2>3
    <3>2. Kept(t, i)
      BY <1>11, <2>1, <2>3 DEF FilesSound, NamesKept
    <3> QED BY <1>10, <3>1, <3>2
  <2>4. CASE tasks'[t] = tasks[t] /\ t # at[b]
    <3>1. Kept(t, i)
      BY <1>11, <2>1, <2>4 DEF FilesSound, NamesKept
    <3> QED BY <1>10, <2>4, <3>1
  <2>5. t = at[b] /\ ok => tasks'[t] = row
    BY <1>0, <1>2 DEF Update, TypeOK
  <2> QED BY <1>5, <2>2, <2>3, <2>4, <2>5
<1> QED BY <1>1, <1>8, <1>9, <1>11 DEF FilesSound, NamesKept

\* An update of the other columns leaves the names of the rows alone.
LEMMA UpdateNames ==
    ASSUME TypeOK, NEW b \in Tabs, NEW row, NEW ok, Update(b, row, ok),
           row.pv = tasks[at[b]].pv
    PROVE  \A t \in Tasks : Within(tasks'[t].pv, tasks[t].pv)
<1>1. \A t \in Tasks : tasks'[t] = tasks[t] \/ (t = at[b] /\ tasks'[t] = row)
  BY DEF Update, TypeOK
<1> QED BY <1>1 DEF Within

\* A tab that ends a handler, or fails it, is not deleting, nor are others
\* stirred.
LEMMA DismissNames ==
    ASSUME TypeOK, NEW b \in Tabs, NEW ok, Dismissed(b) \/ Unless(b, ok), pc[b] # "delete"
    PROVE  /\ \A c \in Tabs : Within(snap'[c].pv, snap[c].pv)
           /\ \A c \in Tabs : /\ pc[c] = "delete" => pc'[c] = "delete"
                              /\ pc'[c] = "delete" => pc[c] = "delete" /\ snap'[c] = snap[c]
<1>1. \A p \in Phase : BlankRow.pv[p].proof = {}
  BY DEF BlankRow, NoEntry
<1>2. /\ \A c \in Tabs : snap'[c] = snap[c] \/ (c = b /\ snap'[c] = BlankRow)
      /\ pc'[b] # "delete"
      /\ \A c \in Tabs \ {b} : pc'[c] = pc[c] /\ snap'[c] = snap[c]
  BY DEF TypeOK, Dismissed, Unless
<1> QED BY <1>1, <1>2 DEF Within

\* Every step of every handler keeps the names sound.
LEMMA FilesStep == TypeOK /\ FilesSound /\ [Next]_vars => FilesSound'
<1> SUFFICES ASSUME TypeOK, FilesSound, [Next]_vars PROVE FilesSound'
  OBVIOUS
<1>t. ASSUME NEW b \in Tabs
      PROVE  /\ at[b] \in Tasks /\ tasks[at[b]] \in Row /\ snap[b] \in Row
             /\ snap[b].pv \in [Phase -> Entry]
  BY DEF TypeOK, Row
\* A handler that updates other columns and keeps, blanks or dismisses its copy.
<1>k. ASSUME NEW b \in Tabs, NEW row, NEW ok, Update(b, row, ok), UNCHANGED <<at, fileVars>>,
             row.pv = tasks[at[b]].pv, Dismissed(b) \/ Unless(b, ok), pc[b] # "delete"
      PROVE  FilesSound'
  <2>1. \A t \in Tasks : Within(tasks'[t].pv, tasks[t].pv)
    BY <1>k, UpdateNames
  <2>2. /\ \A c \in Tabs : Within(snap'[c].pv, snap[c].pv)
        /\ \A c \in Tabs : /\ pc[c] = "delete" => pc'[c] = "delete"
                           /\ pc'[c] = "delete" => pc[c] = "delete" /\ snap'[c] = snap[c]
    BY <1>k, DismissNames
  <2> QED BY <1>k, <2>1, <2>2, FilesQuiet
\* A step that leaves rows and copies as they are.
<1>q. ASSUME UNCHANGED <<tasks, at, snap, fileVars>>,
             \A c \in Tabs : pc[c] = "delete" <=> pc'[c] = "delete"
      PROVE  FilesSound'
  <2>1. \A t \in Tasks : Within(tasks'[t].pv, tasks[t].pv)
    BY <1>q DEF Within
  <2>2. \A c \in Tabs : Within(snap'[c].pv, snap[c].pv)
    BY <1>q DEF Within
  <2> QED BY <1>q, <2>1, <2>2, FilesQuiet
<1>1. ASSUME NEW t \in Tasks, NEW u \in Users \cup {Nobody}, NEW required \in PhaseChoices,
             CreateTask(t, u, required)
      PROVE  FilesSound'
  <2> DEFINE pv == [p \in Phase |-> IF p \in required
                                    THEN [status |-> "pending", proof |-> {}]
                                    ELSE NoEntry]
             row == [BlankRow EXCEPT !.exists = TRUE, !.assignee = u,
                                     !.active = required, !.pv = pv]
  <2>1. tasks' = [tasks EXCEPT ![t] = row] /\ UNCHANGED <<at, snap, pc, fileVars>>
    BY <1>1 DEF CreateTask, tabVars
  <2>2. row.pv = pv /\ \A p \in Phase : pv[p].proof = {}
    <3>1. \A p \in Phase : pv[p].proof = {}
      BY DEF NoEntry
    <3> HIDE DEF pv
    <3> QED BY <3>1 DEF BlankRow
  <2> HIDE DEF row, pv
  <2>3. \A s \in Tasks : Within(tasks'[s].pv, tasks[s].pv)
    BY <2>1, <2>2 DEF Within, TypeOK
  <2>4. \A c \in Tabs : Within(snap'[c].pv, snap[c].pv)
    BY <2>1 DEF Within
  <2> QED BY <2>1, <2>3, <2>4, FilesQuiet
<1>2. ASSUME NEW t \in Tasks, DueDatePasses(t)
      PROVE  FilesSound'
  BY <1>2, <1>q DEF DueDatePasses, tabVars
<1>3. ASSUME NEW b \in Tabs, NEW t \in Tasks, Open(b, t)
      PROVE  FilesSound'
  <2>1. /\ UNCHANGED <<tasks, fileVars>> /\ pc[b] # "delete" /\ pc'[b] # "delete"
        /\ snap'[b] = tasks[t] /\ at'[b] = t
        /\ \A c \in Tabs \ {b} : pc'[c] = pc[c] /\ snap'[c] = snap[c] /\ at'[c] = at[c]
    BY <1>3 DEF Open, TypeOK
  <2> QED BY <2>1, FilesFetched
<1>4. ASSUME NEW b \in Tabs, Close(b)
      PROVE  FilesSound'
  <2>1. /\ Dismissed(b) /\ pc[b] # "delete" /\ UNCHANGED <<tasks, at, fileVars>>
    BY <1>4 DEF Close, Idle
  <2>2. Update(b, tasks[at[b]], FALSE)
    BY <2>1 DEF Update
  <2> QED BY <1>k, <2>1, <2>2
<1>5. ASSUME NEW b \in Tabs, NEW items \in SUBSET Items, SubmitProof(b, items)
      PROVE  FilesSound'
  <2> DEFINE life == snap[b].life
             next == ServiceNextPhase(snap[b])
             old == snap[b].pv[life]
             new == [status |-> "pending", proof |-> ServiceProof(old.proof, items)]
             pv == [snap[b].pv EXCEPT ![life] = new]
             now == [tasks[at[b]] EXCEPT !.pv = pv]
             row == IF next = life THEN now
                    ELSE [now EXCEPT !.life = next, !.sub = "in_progress"]
  <2>1. PICK ok \in Reply :
           /\ UpdatePhases(b, row, ok)
           /\ pc' = [pc EXCEPT ![b] = IF ok THEN "lookup" ELSE "open"]
    BY <1>5 DEF SubmitProof
  <2>2. UNCHANGED <<at, snap, removing>> /\ pc[b] # "delete" /\ Upload(b, life, items)
    BY <1>5 DEF SubmitProof, Idle
  <2>3. row.pv = pv
    <3> HIDE DEF pv, next, life
    <3> QED BY <1>t DEF Row
  <2>4. life \in Phase
    BY <1>t DEF Row
  <2>5. new.proof \subseteq old.proof \cup items
    BY DEF ServiceProof
  <2> HIDE DEF row, new, life
  <2>6. /\ \A q \in Phase \ {life} : row.pv[q].proof \subseteq snap[b].pv[q].proof
        /\ row.pv[life].proof \subseteq snap[b].pv[life].proof \cup items
    BY <1>t, <2>3, <2>4, <2>5
  <2>7. /\ \A c \in Tabs : Within(snap'[c].pv, snap[c].pv)
        /\ \A c \in Tabs \ {b} : pc'[c] = pc[c] /\ snap'[c] = snap[c]
        /\ pc'[b] # "delete"
    BY <2>1, <2>2 DEF Within, TypeOK
  <2> QED BY <2>1, <2>2, <2>4, <2>6, <2>7, FilesWritten
<1>6. ASSUME NEW b \in Tabs, LookupSubmission(b)
      PROVE  FilesSound'
  <2>1. /\ UNCHANGED <<tasks, at, snap, fileVars>>
        /\ \A c \in Tabs : pc[c] = "delete" <=> pc'[c] = "delete"
    BY <1>6 DEF LookupSubmission, TypeOK
  <2> QED BY <1>q, <2>1
<1>7. ASSUME NEW b \in Tabs, UpdateSubmission(b) \/ InsertSubmission(b)
      PROVE  FilesSound'
  <2>1. /\ UNCHANGED <<tasks, at, fileVars>> /\ pc[b] # "delete"
        /\ \E ok : Unless(b, ok)
    BY <1>7 DEF UpdateSubmission, InsertSubmission
  <2>2. \A t \in Tasks : Within(tasks'[t].pv, tasks[t].pv)
    BY <2>1 DEF Within
  <2> QED BY <2>1, <2>2, DismissNames, FilesQuiet
<1>8. ASSUME NEW b \in Tabs, NEW items \in SUBSET Items, OverlaySubmit(b, items)
      PROVE  FilesSound'
  <2> DEFINE cur == OverlayPhase(snap[b])
             next == OverlayNextPhase(snap[b])
             sub == IF next # cur THEN "in_progress" ELSE "pending_validation"
             new == [status |-> "pending",
                     proof |-> snap[b].pv[cur].proof \cup items]
             pv == [snap[b].pv EXCEPT ![cur] = new]
             row == [tasks[at[b]] EXCEPT !.sub = sub, !.status = "in_progress",
                                         !.life = next, !.pv = pv]
  <2>1. PICK ok \in Reply : UpdatePhases(b, row, ok) /\ AfterOverlayWrite(b, ok)
    BY <1>8 DEF OverlaySubmit
  <2>2. UNCHANGED <<at, snap, removing>> /\ pc[b] # "delete" /\ Upload(b, cur, items)
    BY <1>8 DEF OverlaySubmit, Idle
  <2>3. row.pv = pv
    <3> HIDE DEF pv, next, sub
    <3> QED BY <1>t DEF Row
  <2>4. cur \in Phase
    BY <1>t, RowPhases
  <2> HIDE DEF row, cur
  <2>5. /\ \A q \in Phase \ {cur} : row.pv[q].proof \subseteq snap[b].pv[q].proof
        /\ row.pv[cur].proof \subseteq snap[b].pv[cur].proof \cup items
    BY <1>t, <2>3, <2>4
  <2> HIDE DEF pv, new
  <2>6. /\ \A c \in Tabs : Within(snap'[c].pv, snap[c].pv)
        /\ \A c \in Tabs \ {b} : pc'[c] = pc[c] /\ snap'[c] = snap[c]
        /\ pc'[b] # "delete"
    BY <2>1, <2>2 DEF Within, TypeOK, AfterOverlayWrite
  <2> QED BY <2>1, <2>2, <2>4, <2>5, <2>6, FilesWritten
<1>9. ASSUME NEW b \in Tabs, Refetch(b)
      PROVE  FilesSound'
  <2>1. /\ UNCHANGED <<tasks, fileVars>> /\ pc[b] # "delete" /\ pc'[b] # "delete"
        /\ snap'[b] = tasks[at[b]] /\ at'[b] = at[b]
        /\ \A c \in Tabs \ {b} : pc'[c] = pc[c] /\ snap'[c] = snap[c] /\ at'[c] = at[c]
    BY <1>9 DEF Refetch, TypeOK
  <2> QED BY <1>t, <2>1, FilesFetched
\* A review keeps the proof of every phase of the copy, and uploads nothing.
<1>10. ASSUME NEW b \in Tabs, NEW p \in Phase, NEW row, NEW ok, NEW r,
              UpdatePhases(b, row, ok), UNCHANGED <<at, bucket, removing, home>>,
              snap' = [snap EXCEPT ![b] = r], r.pv = row.pv,
              Within(row.pv, snap[b].pv), pc[b] = "open", pc'[b] # "delete",
              \A c \in Tabs \ {b} : pc'[c] = pc[c]
       PROVE  FilesSound'
  <2>1. Upload(b, p, {})
    <3>1. home \in [Tasks -> [Files -> 0 .. NumPhases]] /\ bucket \in [Tasks -> SUBSET Files]
      BY DEF TypeOK
    <3>2. home[at[b]] = [f \in Files |-> home[at[b]][f]] /\ bucket[at[b]] \cup {} = bucket[at[b]]
      BY <1>t, <3>1
    <3>3. home = [home EXCEPT ![at[b]] =
                    [f \in Files |-> IF f \in {} THEN p ELSE home[at[b]][f]]]
      BY <1>t, <3>1, <3>2
    <3>4. bucket = [bucket EXCEPT ![at[b]] = @ \cup ({} \cap Files)]
      BY <1>t, <3>1, <3>2
    <3> QED BY <1>10, <3>3, <3>4 DEF Upload
  <2>2. \A c \in Tabs : Within(snap'[c].pv, snap[c].pv)
    BY <1>10 DEF Within, TypeOK
  <2>3. \A c \in Tabs \ {b} : pc'[c] = pc[c] /\ snap'[c] = snap[c]
    BY <1>10 DEF TypeOK
  <2>4. /\ \A q \in Phase \ {p} : row.pv[q].proof \subseteq snap[b].pv[q].proof
        /\ row.pv[p].proof \subseteq snap[b].pv[p].proof \cup {}
    BY <1>10 DEF Within
  <2>5. {} \in SUBSET Items
    OBVIOUS
  <2> QED BY <1>10, <2>1, <2>2, <2>3, <2>4, <2>5, FilesWritten
<1>11. ASSUME NEW b \in Tabs, NEW p \in Phase, ApprovePhase(b, p)
       PROVE  FilesSound'
  <2> DEFINE pv == Approved(snap[b].pv, p)
             sub == SubStateAfter(pv, p)
             seen == [snap[b] EXCEPT !.pv = pv, !.sub = sub]
             row == [tasks[at[b]] EXCEPT !.pv = pv, !.sub = sub]
             finish == LastApproved(seen) /\ snap[b].status # "completed"
  <2>1. PICK ok \in Reply : UpdatePhases(b, row, ok)
    BY <1>11 DEF ApprovePhase
  <2>2. /\ snap' = [snap EXCEPT ![b] = seen]
        /\ pc' = [pc EXCEPT ![b] = IF finish THEN "complete" ELSE "open"]
        /\ UNCHANGED <<at, bucket, removing, home>> /\ Reviewable(b, p)
    BY <1>11 DEF ApprovePhase
  <2>3. row.pv = pv /\ seen.pv = pv
    <3> HIDE DEF pv, sub
    <3> QED BY <1>t DEF Row
  <2>4. Within(pv, snap[b].pv)
    BY <1>t DEF Within, Approved, Entry
  <2>5. pc[b] = "open" /\ pc'[b] # "delete" /\ \A c \in Tabs \ {b} : pc'[c] = pc[c]
    <3> HIDE DEF finish
    <3> QED BY <2>2 DEF TypeOK, Reviewable, Idle
  <2> HIDE DEF row, seen, pv
  <2> QED BY <1>10, <2>1, <2>2, <2>3, <2>4, <2>5
<1>12. ASSUME NEW b \in Tabs, NEW p \in Phase, RejectPhase(b, p)
       PROVE  FilesSound'
  <2> DEFINE pv == [snap[b].pv EXCEPT ![p].status = "rejected"]
             seen == [snap[b] EXCEPT !.pv = pv, !.sub = "in_progress"]
             row == [tasks[at[b]] EXCEPT !.pv = pv, !.sub = "in_progress"]
  <2>1. PICK ok \in Reply : UpdatePhases(b, row, ok)
    BY <1>12 DEF RejectPhase
  <2>2. /\ snap' = [snap EXCEPT ![b] = seen]
        /\ UNCHANGED <<at, pc, bucket, removing, home>> /\ Reviewable(b, p)
    BY <1>12 DEF RejectPhase
  <2>3. row.pv = pv /\ seen.pv = pv
    <3> HIDE DEF pv
    <3> QED BY <1>t DEF Row
  <2>4. Within(pv, snap[b].pv)
    BY <1>t DEF Within, Entry
  <2>5. pc[b] = "open" /\ pc'[b] # "delete" /\ \A c \in Tabs \ {b} : pc'[c] = pc[c]
    BY <2>2 DEF TypeOK, Reviewable, Idle
  <2> HIDE DEF row, seen, pv
  <2> QED BY <1>10, <2>1, <2>2, <2>3, <2>4, <2>5
<1>13. ASSUME NEW b \in Tabs, CompleteTask(b)
       PROVE  FilesSound'
  <2> DEFINE row == [tasks[at[b]] EXCEPT !.status = "completed"]
             seen == [snap[b] EXCEPT !.status = "completed"]
  <2>1. PICK ok \in Reply : Update(b, row, ok)
    BY <1>13 DEF CompleteTask
  <2>2. /\ snap' = [snap EXCEPT ![b] = seen] /\ UNCHANGED <<at, fileVars>>
        /\ pc[b] = "complete" /\ pc' = [pc EXCEPT ![b] = "open"]
    BY <1>13 DEF CompleteTask
  <2>3. row.pv = tasks[at[b]].pv /\ seen.pv = snap[b].pv
    BY <1>t DEF Row
  <2> HIDE DEF row, seen
  <2>4. \A t \in Tasks : Within(tasks'[t].pv, tasks[t].pv)
    BY <2>1, <2>3, UpdateNames
  <2>5. \A c \in Tabs : Within(snap'[c].pv, snap[c].pv)
    BY <2>2, <2>3 DEF Within, TypeOK
  <2>6. \A c \in Tabs : /\ pc[c] = "delete" => pc'[c] = "delete"
                        /\ pc'[c] = "delete" => pc[c] = "delete" /\ snap'[c] = snap[c]
    BY <2>2 DEF TypeOK
  <2> QED BY <2>2, <2>4, <2>5, <2>6, FilesQuiet
<1>14. ASSUME NEW b \in Tabs, RequestAccess(b)
       PROVE  FilesSound'
  <2> DEFINE row == [tasks[at[b]] EXCEPT !.requested = TRUE,
                                         !.access = "pending"]
  <2>1. PICK ok \in Reply : Update(b, row, ok) /\ Unless(b, ok)
    BY <1>14 DEF RequestAccess
  <2>2. row.pv = tasks[at[b]].pv
    BY <1>t DEF Row
  <2> HIDE DEF row
  <2>3. UNCHANGED <<at, fileVars>> /\ pc[b] # "delete"
    BY <1>14 DEF RequestAccess, Idle
  <2> QED BY <1>k, <2>1, <2>2, <2>3
<1>15. ASSUME NEW b \in Tabs, ApproveAccess(b)
       PROVE  FilesSound'
  <2> DEFINE row == [tasks[at[b]] EXCEPT !.access = "approved", !.locked = FALSE]
  <2>1. PICK ok \in Reply : Update(b, row, ok)
    BY <1>15 DEF ApproveAccess
  <2>2. row.pv = tasks[at[b]].pv
    BY <1>t DEF Row
  <2> HIDE DEF row
  <2>3. Dismissed(b) /\ UNCHANGED <<at, fileVars>> /\ pc[b] # "delete"
    BY <1>15 DEF ApproveAccess, ReviewAsked, Idle
  <2> QED BY <1>k, <2>1, <2>2, <2>3
<1>16. ASSUME NEW b \in Tabs, CloseTask(b)
       PROVE  FilesSound'
  <2>1. PICK ok \in Reply : Update(b, ClosedRow(tasks[at[b]]), ok)
    BY <1>16 DEF CloseTask
  <2>2. ClosedRow(tasks[at[b]]).pv = tasks[at[b]].pv
    BY <1>t DEF ClosedRow, Row
  <2>3. Dismissed(b) /\ UNCHANGED <<at, fileVars>> /\ pc[b] # "delete"
    BY <1>16 DEF CloseTask, ReviewAsked, Idle
  <2> QED BY <1>k, <2>1, <2>2, <2>3
<1>17. ASSUME NEW b \in Tabs, NEW u \in Users, ReassignTask(b, u)
       PROVE  FilesSound'
  <2>1. PICK ok \in Reply : Update(b, ClosedRow(tasks[at[b]]), ok)
    BY <1>17 DEF ReassignTask
  <2>2. ClosedRow(tasks[at[b]]).pv = tasks[at[b]].pv
    BY <1>t DEF ClosedRow, Row
  <2>3. \A t \in Tasks : Within(tasks'[t].pv, tasks[t].pv)
    BY <2>1, <2>2, UpdateNames
  <2>4. /\ UNCHANGED <<at, snap, fileVars>>
        /\ \A c \in Tabs : Within(snap'[c].pv, snap[c].pv)
    BY <1>17 DEF ReassignTask, Within
  <2>5. \A c \in Tabs : pc[c] = "delete" <=> pc'[c] = "delete"
    BY <1>17 DEF ReassignTask, ReviewAsked, Idle, TypeOK
  <2> QED BY <2>3, <2>4, <2>5, FilesQuiet
<1>18. ASSUME NEW b \in Tabs, NEW t \in Tasks, InsertReassigned(b, t)
       PROVE  FilesSound'
  <2> DEFINE row == ReassignedRow(snap[b], target[b])
  <2>1. PICK ok \in Reply :
           tasks' = IF ok THEN [tasks EXCEPT ![t] = row] ELSE tasks
    BY <1>18 DEF InsertReassigned
  <2>2. Dismissed(b) /\ UNCHANGED <<at, fileVars>> /\ pc[b] # "delete"
    BY <1>18 DEF InsertReassigned
  <2>3. \A p \in Phase : row.pv[p].proof = {}
    BY DEF ReassignedRow, BlankRow, NoEntry
  <2> HIDE DEF row
  <2>4. \A s \in Tasks : Within(tasks'[s].pv, tasks[s].pv)
    BY <2>1, <2>3 DEF Within, TypeOK
  <2> QED BY <2>2, <2>4, DismissNames, FilesQuiet
<1>19. ASSUME NEW b \in Tabs, ArchiveTask(b)
       PROVE  FilesSound'
  <2> DEFINE row == [tasks[at[b]] EXCEPT !.status = "archived"]
  <2>1. PICK ok \in Reply : Update(b, row, ok)
    BY <1>19 DEF ArchiveTask
  <2>2. row.pv = tasks[at[b]].pv
    BY <1>t DEF Row
  <2> HIDE DEF row
  <2>3. Dismissed(b) /\ UNCHANGED <<at, fileVars>> /\ pc[b] # "delete"
    BY <1>19 DEF ArchiveTask, Idle
  <2> QED BY <1>k, <2>1, <2>2, <2>3
<1>20. CASE UNCHANGED vars
  BY <1>20, <1>q DEF vars
<1> QED BY <1>1, <1>2, <1>3, <1>4, <1>5, <1>6, <1>7, <1>8, <1>9, <1>11, <1>12,
           <1>13, <1>14, <1>15, <1>16, <1>17, <1>18, <1>19, <1>20,
           FilesRemoved, FilesForgotten
           DEF Next, Continue

(***************************************************************************)
(* The inductive invariant.  A handler writes back whole columns of the    *)
(* copy its tab holds, so what is claimed of the table is claimed of every *)
(* copy as well (CopiesSound), and the copy outlives any number of other   *)
(* writes: only facts no other handler can undo may be in it.              *)
(***************************************************************************)
IInv ==
    /\ TypeOK
    /\ ReviewsNamed
    /\ ApprovedWasDecided
    /\ CompletionJustified
    /\ AccessUnlocks
    /\ CopiesSound
    /\ FilesSound

\* The same, row by row: a row of a task of which ds was approved.
ReviewsSound(pv, ds) ==
    \A p \in Phase :
        /\ pv[p].status \in {"approved", "rejected"} => pv[p].proof # {}
        /\ pv[p].status = "approved" => p \in ds
RowSound(row, ds) ==
    /\ ReviewsSound(row.pv, ds)
    /\ row.access = "approved" => ~row.locked
    /\ row.status = "completed" => row.closed \/ LastPhase(row) \in ds
TableSound == \A t \in Tasks : RowSound(tasks[t], decided[t])

\* ... and of the copy in tab b.
CopySound(b) ==
    /\ ReviewsSound(snap[b].pv, decided[at[b]])
    /\ pc[b] # "closed" => /\ tasks[at[b]].exists
                           /\ snap[b].active = tasks[at[b]].active
    /\ pc[b] = "complete" => LastPhase(snap[b]) \in decided[at[b]]

LEMMA InvByRows == IInv <=> /\ TypeOK
                            /\ FilesSound
                            /\ TableSound
                            /\ \A b \in Tabs : CopySound(b)
BY DEF IInv, ReviewsNamed, ApprovedWasDecided, CompletionJustified,
       AccessUnlocks, CopiesSound, ReviewsSound, RowSound, TableSound,
       CopySound, HasProof

\* What no step does: forget a decision, drop a task or change its phases.
DecisionsStand == \A t \in Tasks : decided[t] \subseteq decided'[t]
ColumnsStand ==
    \A t \in Tasks : tasks[t].exists => /\ tasks'[t].exists
                                        /\ tasks'[t].active = tasks[t].active

\* Reviews that are sound stay so as decisions are added.
LEMMA MoreDecisions ==
    ASSUME NEW ds, NEW more, ds \subseteq more
    PROVE  /\ \A pv : ReviewsSound(pv, ds) => ReviewsSound(pv, more)
           /\ \A row : RowSound(row, ds) => RowSound(row, more)
BY DEF ReviewsSound, RowSound

\* A handler that updates the row its tab has open keeps the table sound when
\* the row it writes is, and keeps the columns it does not name.
LEMMA UpdateSound ==
    ASSUME TypeOK, TableSound, DecisionsStand,
           NEW b \in Tabs, NEW row, NEW ok, Update(b, row, ok),
           RowSound(row, decided'[at[b]]),
           row.exists = tasks[at[b]].exists, row.active = tasks[at[b]].active
    PROVE  TableSound' /\ ColumnsStand
<1>1. at[b] \in Tasks /\ DOMAIN tasks = Tasks
  BY DEF TypeOK
<1>2. ASSUME NEW t \in Tasks
      PROVE  RowSound(tasks'[t], decided'[t])
  <2>1. RowSound(tasks[t], decided'[t])
    BY MoreDecisions DEF TableSound, DecisionsStand
  <2>2. tasks'[t] = tasks[t] \/ (t = at[b] /\ tasks'[t] = row)
    BY <1>1 DEF Update
  <2> QED BY <2>1, <2>2
<1>3. ASSUME NEW t \in Tasks, tasks[t].exists
      PROVE  tasks'[t].exists /\ tasks'[t].active = tasks[t].active
  BY <1>1, <1>3 DEF Update
<1> QED BY <1>2, <1>3 DEF TableSound, ColumnsStand

\* A step of tab b leaves the copies of the other tabs sound.
LEMMA CopiesStep ==
    ASSUME TypeOK, NEW b \in Tabs, DecisionsStand, ColumnsStand,
           \A c \in Tabs : CopySound(c),
           \A c \in Tabs \ {b} :
               pc'[c] = pc[c] /\ snap'[c] = snap[c] /\ at'[c] = at[c],
           CopySound(b)'
    PROVE  \A c \in Tabs : CopySound(c)'
<1> TAKE c \in Tabs
<1>1. CASE c = b
  BY <1>1
<1>2. CASE c # b
  <2>1. at[c] \in Tasks
    BY DEF TypeOK
  <2>2. pc'[c] = pc[c] /\ snap'[c] = snap[c] /\ at'[c] = at[c]
    BY <1>2
  <2>3. decided[at[c]] \subseteq decided'[at[c]]
    BY <2>1 DEF DecisionsStand
  <2>4. CopySound(c)
    OBVIOUS
  <2>5. ReviewsSound(snap'[c].pv, decided'[at'[c]])
    BY <2>2, <2>3, <2>4, MoreDecisions DEF CopySound
  <2>6. pc'[c] # "closed" => /\ tasks'[at'[c]].exists
                             /\ snap'[c].active = tasks'[at'[c]].active
    BY <2>1, <2>2, <2>4 DEF CopySound, ColumnsStand
  <2>7. pc'[c] = "complete" => LastPhase(snap'[c]) \in decided'[at'[c]]
    BY <2>2, <2>3, <2>4 DEF CopySound
  <2> QED BY <2>5, <2>6, <2>7 DEF CopySound
<1> QED BY <1>1, <1>2

\* A tab that closes its task has nothing left to be wrong about.
LEMMA BlankSound ==
    /\ \A ds : ReviewsSound(BlankRow.pv, ds)
    /\ \A ds : RowSound(BlankRow, ds)
BY DEF ReviewsSound, RowSound, BlankRow, NoEntry

LEMMA DismissSound ==
    ASSUME TypeOK, NEW b \in Tabs, Dismissed(b), at' = at
    PROVE  CopySound(b)'
BY BlankSound DEF TypeOK, Dismissed, CopySound

\* A tab whose copy stays open keeps it sound, at any stage but "complete".
LEMMA OpenSound ==
    ASSUME NEW b \in Tabs, CopySound(b), TypeOK, DecisionsStand, ColumnsStand,
           pc[b] # "closed", pc'[b] # "complete",
           snap'[b] = snap[b], at'[b] = at[b]
    PROVE  CopySound(b)'
<1>1. at[b] \in Tasks
  BY DEF TypeOK
<1>2. decided[at[b]] \subseteq decided'[at[b]]
  BY <1>1 DEF DecisionsStand
<1> QED BY <1>1, <1>2, MoreDecisions DEF CopySound, ColumnsStand

LEMMA InvInit == Init => IInv
<1> SUFFICES ASSUME Init PROVE IInv
  OBVIOUS
<1>1. TypeOK
  BY TypeInit
<1>2. TableSound
  BY BlankSound DEF Init, TableSound
<1>3. \A b \in Tabs : CopySound(b)
  BY BlankSound DEF Init, CopySound
<1> QED BY <1>1, <1>2, <1>3, FilesInit, InvByRows

\* Every step of every handler keeps the invariant: the proof follows the
\* actions of Next, one step for each.
LEMMA InvStep == IInv /\ [Next]_vars => IInv'
<1> SUFFICES ASSUME TypeOK, FilesSound, TableSound, \A b \in Tabs : CopySound(b),
                    [Next]_vars
             PROVE  TableSound' /\ \A b \in Tabs : CopySound(b)'
  <2>1. IInv' <=> TypeOK' /\ FilesSound' /\ TableSound' /\ \A b \in Tabs : CopySound(b)'
    BY DEF IInv, ReviewsNamed, ApprovedWasDecided, CompletionJustified,
           AccessUnlocks, CopiesSound, ReviewsSound, RowSound, TableSound,
           CopySound, HasProof
  <2> QED BY <2>1, InvByRows, TypeStep, FilesStep
<1> DEFINE Goal == TableSound' /\ \A b \in Tabs : CopySound(b)'
\* A step that writes no row.
<1>a. ASSUME NEW b \in Tabs, UNCHANGED <<tasks, decided>>, CopySound(b)',
             \A c \in Tabs \ {b} :
                pc'[c] = pc[c] /\ snap'[c] = snap[c] /\ at'[c] = at[c]
      PROVE  Goal
  <2>1. DecisionsStand /\ ColumnsStand
    BY <1>a DEF DecisionsStand, ColumnsStand
  <2>2. TableSound'
    BY <1>a DEF TableSound
  <2> QED BY <1>a, <2>1, <2>2, CopiesStep
\* A step that updates the row tab b has open and ends with its copy sound.
<1>b. ASSUME NEW b \in Tabs, NEW row, NEW ok, Update(b, row, ok), DecisionsStand,
             RowSound(row, decided'[at[b]]),
             row.exists = tasks[at[b]].exists, row.active = tasks[at[b]].active,
             ColumnsStand => CopySound(b)',
             \A c \in Tabs \ {b} :
                pc'[c] = pc[c] /\ snap'[c] = snap[c] /\ at'[c] = at[c]
      PROVE  Goal
  <2>1. TableSound' /\ ColumnsStand
    BY <1>b, UpdateSound
  <2> QED BY <1>b, <2>1, CopiesStep
<1>c. ASSUME UNCHANGED decided PROVE DecisionsStand
  BY <1>c DEF DecisionsStand
<1>d. ASSUME NEW b \in Tabs
      PROVE  /\ at[b] \in Tasks
             /\ tasks[at[b]] \in Row /\ snap[b] \in Row
             /\ snap[b].pv \in [Phase -> Entry]
             /\ RowSound(tasks[at[b]], decided[at[b]])
             /\ ReviewsSound(snap[b].pv, decided[at[b]])
  BY DEF TypeOK, Row, TableSound, CopySound
<1>1. ASSUME NEW t \in Tasks, NEW u \in Users \cup {Nobody}, NEW required \in PhaseChoices,
             CreateTask(t, u, required)
      PROVE  Goal
  <2> DEFINE pv == [p \in Phase |-> IF p \in required
                                    THEN [status |-> "pending", proof |-> {}]
                                    ELSE NoEntry]
             row == [BlankRow EXCEPT !.exists = TRUE, !.assignee = u,
                                     !.active = required, !.pv = pv]
  <2>1. /\ ~tasks[t].exists
        /\ tasks' = [tasks EXCEPT ![t] = row]
        /\ UNCHANGED <<decided, pc, at, snap>>
    BY <1>1 DEF CreateTask, tabVars
  <2>2. DecisionsStand /\ ColumnsStand
    BY <2>1 DEF DecisionsStand, ColumnsStand, TypeOK
  <2>3. RowSound(row, decided[t])
    BY DEF RowSound, ReviewsSound, BlankRow, NoEntry
  <2>4. TableSound'
    <3> HIDE DEF row
    <3> QED BY <2>1, <2>3 DEF TableSound, TypeOK
  <2>5. ASSUME NEW b \in Tabs PROVE CopySound(b)'
    <3>1. CASE pc[b] = "complete" \/ pc[b] # "closed"
      <4>1. at[b] # t
        BY <2>1, <3>1 DEF CopySound
      <4>2. tasks'[at[b]] = tasks[at[b]]
        <5> HIDE DEF row
        <5> QED BY <1>d, <2>1, <4>1 DEF TypeOK
      <4> QED BY <2>1, <4>2 DEF CopySound
    <3>2. CASE pc[b] = "closed"
      BY <2>1, <3>2 DEF CopySound
    <3> QED BY <3>1, <3>2
  <2> QED BY <2>4, <2>5
<1>2. ASSUME NEW t \in Tasks, DueDatePasses(t)
      PROVE  Goal
  BY <1>2 DEF DueDatePasses, tabVars, TableSound, CopySound
<1>3. ASSUME NEW b \in Tabs, NEW t \in Tasks, Open(b, t)
      PROVE  Goal
  <2>1. CopySound(b)'
    BY <1>3 DEF Open, CopySound, TableSound, RowSound, TypeOK
  <2> QED BY <1>3, <1>a, <2>1 DEF Open, TypeOK
<1>4. ASSUME NEW b \in Tabs, Close(b)
      PROVE  Goal
  <2>1. CopySound(b)'
    BY <1>4, DismissSound DEF Close
  <2> QED BY <1>4, <1>a, <2>1 DEF Close, Dismissed, TypeOK
<1>5. ASSUME NEW b \in Tabs, NEW items \in SUBSET Items, SubmitProof(b, items)
      PROVE  Goal
  <2> DEFINE row == snap[b]
             next == ServiceNextPhase(row)
             pv == [row.pv EXCEPT ![row.life] =
                      [status |-> "pending",
                       proof |-> ServiceProof(row.pv[row.life].proof, items)]]
             now == [tasks[at[b]] EXCEPT !.pv = pv]
             new == IF next = row.life THEN now
                    ELSE [now EXCEPT !.life = next, !.sub = "in_progress"]
  <2>1. PICK ok \in Reply :
          /\ Update(b, new, ok)
          /\ pc' = [pc EXCEPT ![b] = IF ok THEN "lookup" ELSE "open"]
    BY <1>5 DEF SubmitProof, UpdatePhases
  <2>2. UNCHANGED <<at, snap, decided>> /\ pc[b] = "open"
    BY <1>5 DEF SubmitProof, Idle
  <2>3. DecisionsStand
    BY <1>c, <2>2
  <2>4. ReviewsSound(pv, decided'[at[b]])
    BY <1>d, <2>2 DEF ReviewsSound
  <2>5. /\ new.pv = pv /\ new.exists = tasks[at[b]].exists
        /\ new.active = tasks[at[b]].active /\ new.access = tasks[at[b]].access
        /\ new.locked = tasks[at[b]].locked /\ new.status = tasks[at[b]].status
        /\ new.closed = tasks[at[b]].closed
    <3> HIDE DEF pv, next
    <3> QED BY <1>d DEF Row
  <2> HIDE DEF new, pv
  <2>6. RowSound(new, decided'[at[b]])
    BY <1>d, <2>2, <2>4, <2>5 DEF RowSound, LastPhase
  <2>7. pc'[b] # "complete" /\ \A c \in Tabs \ {b} : pc'[c] = pc[c]
    BY <2>1 DEF TypeOK
  <2>8. ColumnsStand => CopySound(b)'
    BY <2>2, <2>3, <2>7, OpenSound
  <2> QED BY <1>b, <2>1, <2>2, <2>3, <2>5, <2>6, <2>7, <2>8
<1>6. ASSUME NEW b \in Tabs, LookupSubmission(b)
      PROVE  Goal
  <2>1. /\ UNCHANGED <<tasks, decided, at, snap>>
        /\ pc[b] # "closed" /\ pc'[b] # "complete"
        /\ \A c \in Tabs \ {b} : pc'[c] = pc[c]
    BY <1>6 DEF LookupSubmission, TypeOK
  <2>2. CopySound(b)'
    BY <2>1, OpenSound DEF DecisionsStand, ColumnsStand
  <2> QED BY <1>a, <2>1, <2>2
<1>7. ASSUME NEW b \in Tabs, NEW ok, Unless(b, ok), pc[b] # "closed",
             UNCHANGED <<at, decided>>
      PROVE  /\ ColumnsStand => CopySound(b)'
             /\ \A c \in Tabs \ {b} :
                   pc'[c] = pc[c] /\ snap'[c] = snap[c] /\ at'[c] = at[c]
  <2>1. CASE ok
    BY <1>7, <2>1, DismissSound DEF Unless, Dismissed, TypeOK
  <2>2. CASE ~ok
    <3>1. /\ pc'[b] # "complete" /\ snap' = snap
          /\ \A c \in Tabs \ {b} : pc'[c] = pc[c]
      BY <1>7, <2>2 DEF Unless, TypeOK
    <3> QED BY <1>7, <1>c, <3>1, OpenSound
  <2> QED BY <2>1, <2>2 DEF Unless
<1>8. ASSUME NEW b \in Tabs, UpdateSubmission(b) \/ InsertSubmission(b)
      PROVE  Goal
  <2>1. /\ \E ok \in Reply : Unless(b, ok)
        /\ UNCHANGED <<tasks, at, decided>> /\ pc[b] # "closed"
    BY <1>8 DEF UpdateSubmission, InsertSubmission
  <2>2. ColumnsStand
    BY <2>1 DEF ColumnsStand
  <2> QED BY <1>a, <1>7, <2>1, <2>2
\* After a write of the overlay the copy stays open until it is refetched.
<1>9. ASSUME NEW b \in Tabs, NEW row, NEW ok, Update(b, row, ok),
             AfterOverlayWrite(b, ok), pc[b] # "closed", UNCHANGED <<at, snap, decided>>,
             RowSound(row, decided[at[b]]),
             row.exists = tasks[at[b]].exists, row.active = tasks[at[b]].active
      PROVE  Goal
  <2>1. DecisionsStand
    BY <1>9, <1>c
  <2>2. pc[b] # "closed" /\ pc'[b] # "complete"
    BY <1>9 DEF AfterOverlayWrite, TypeOK
  <2>3. \A c \in Tabs \ {b} : pc'[c] = pc[c]
    BY <1>9 DEF AfterOverlayWrite, TypeOK
  <2>4. ColumnsStand => CopySound(b)'
    BY <1>9, <2>1, <2>2, OpenSound
  <2> QED BY <1>9, <1>b, <2>1, <2>3, <2>4
<1>10. ASSUME NEW b \in Tabs, NEW items \in SUBSET Items, OverlaySubmit(b, items)
       PROVE  Goal
  <2> DEFINE row == snap[b]
             cur == OverlayPhase(row)
             next == OverlayNextPhase(row)
             sub == IF next # cur THEN "in_progress" ELSE "pending_validation"
             pv == [row.pv EXCEPT ![cur] =
                      [status |-> "pending",
                       proof |-> row.pv[cur].proof \cup items]]
             new == [tasks[at[b]] EXCEPT !.sub = sub, !.status = "in_progress",
                                         !.life = next, !.pv = pv]
  <2>1. PICK ok \in Reply : Update(b, new, ok) /\ AfterOverlayWrite(b, ok)
    BY <1>10 DEF OverlaySubmit, UpdatePhases
  <2>2. UNCHANGED <<at, snap, decided>> /\ pc[b] # "closed"
    BY <1>10 DEF OverlaySubmit, Idle
  <2>3. ReviewsSound(pv, decided[at[b]])
    BY <1>d, RowPhases DEF ReviewsSound
  <2>4. /\ new.pv = pv /\ new.exists = tasks[at[b]].exists
        /\ new.active = tasks[at[b]].active /\ new.access = tasks[at[b]].access
        /\ new.locked = tasks[at[b]].locked /\ new.status = "in_progress"
    <3> HIDE DEF pv, next, sub
    <3> QED BY <1>d DEF Row
  <2> HIDE DEF new, pv
  <2>5. RowSound(new, decided[at[b]])
    BY <1>d, <2>3, <2>4 DEF RowSound
  <2> QED BY <1>9, <2>1, <2>2, <2>4, <2>5
<1>11. ASSUME NEW b \in Tabs, NEW p \in Phase, NEW f \in Files,
              DeleteProofEntry(b, p, f)
       PROVE  Goal
  <2> DEFINE pv == [snap[b].pv EXCEPT ![p] = WithoutFile(@, f)]
             new == [tasks[at[b]] EXCEPT !.pv = pv]
  <2>1. PICK ok \in Reply : Update(b, new, ok) /\ AfterOverlayWrite(b, ok)
    BY <1>11 DEF DeleteProofEntry
  <2>2. UNCHANGED <<at, snap, decided>> /\ pc[b] = "delete" /\ removing[b] = <<p, f>>
    BY <1>11 DEF DeleteProofEntry
  <2>3. ReviewsSound(pv, decided[at[b]])
    <3>1. snap[b].pv[p] \in Entry /\ f \in snap[b].pv[p].proof
      BY <1>d, <2>2, NamedDeletion
    <3>2. /\ WithoutFile(snap[b].pv[p], f).status
                 \in {"approved", "rejected"}
               => WithoutFile(snap[b].pv[p], f).proof # {}
          /\ WithoutFile(snap[b].pv[p], f).status = "approved"
               => snap[b].pv[p].status = "approved"
      BY <3>1 DEF WithoutFile, NoEntry, Entry
    <3>3. pv[p] = WithoutFile(snap[b].pv[p], f)
      BY <1>d
    <3>4. \A q \in Phase \ {p} : pv[q] = snap[b].pv[q]
      BY <1>d
    <3> HIDE DEF pv
    <3> QED BY <1>d, <3>2, <3>3, <3>4 DEF ReviewsSound
  <2>4. /\ new.pv = pv /\ new.exists = tasks[at[b]].exists
        /\ new.active = tasks[at[b]].active /\ new.access = tasks[at[b]].access
        /\ new.locked = tasks[at[b]].locked /\ new.status = tasks[at[b]].status
        /\ new.closed = tasks[at[b]].closed
    <3> HIDE DEF pv
    <3> QED BY <1>d DEF Row
  <2> HIDE DEF new, pv
  <2>5. RowSound(new, decided[at[b]])
    BY <1>d, <2>3, <2>4 DEF RowSound, LastPhase
  <2> QED BY <1>9, <2>1, <2>2, <2>4, <2>5
<1>12. ASSUME NEW b \in Tabs, Refetch(b)
       PROVE  Goal
  <2>1. CopySound(b)'
    BY <1>12, <1>d DEF Refetch, CopySound, TypeOK, RowSound
  <2> QED BY <1>12, <1>a, <2>1 DEF Refetch, TypeOK
<1>13. ASSUME NEW b \in Tabs, NEW p \in Phase, ApprovePhase(b, p)
       PROVE  Goal
  <2> DEFINE pv == Approved(snap[b].pv, p)
             sub == SubStateAfter(pv, p)
             seen == [snap[b] EXCEPT !.pv = pv, !.sub = sub]
             new == [tasks[at[b]] EXCEPT !.pv = pv, !.sub = sub]
             finish == LastApproved(seen) /\ snap[b].status # "completed"
  <2>1. PICK ok \in Reply : Update(b, new, ok)
    BY <1>13 DEF ApprovePhase, UpdatePhases
  <2>2. /\ Reviewable(b, p)
        /\ snap' = [snap EXCEPT ![b] = seen]
        /\ pc' = [pc EXCEPT ![b] = IF finish THEN "complete" ELSE "open"]
        /\ decided' = [decided EXCEPT ![at[b]] = @ \cup {p}]
        /\ at' = at
    BY <1>13 DEF ApprovePhase
  <2>3. decided'[at[b]] = decided[at[b]] \cup {p} /\ DecisionsStand
    BY <1>d, <2>2 DEF DecisionsStand, TypeOK
  <2>4. ReviewsSound(pv, decided'[at[b]])
    <3>1. snap[b].pv[p].proof # {} /\ snap[b].pv[p] \in Entry
      BY <1>d, <2>2 DEF Reviewable, HasProof
    <3>2. pv[p].proof = snap[b].pv[p].proof
      BY <1>d, <3>1 DEF Approved, Entry
    <3>3. \A q \in Phase \ {p} : pv[q] = snap[b].pv[q]
      BY <1>d DEF Approved
    <3> HIDE DEF pv
    <3> QED BY <1>d, <2>3, <3>1, <3>2, <3>3 DEF ReviewsSound
  <2>5. /\ new.pv = pv /\ new.exists = tasks[at[b]].exists
        /\ new.active = tasks[at[b]].active /\ new.access = tasks[at[b]].access
        /\ new.locked = tasks[at[b]].locked /\ new.status = tasks[at[b]].status
        /\ new.closed = tasks[at[b]].closed
        /\ seen.pv = pv /\ seen.active = snap[b].active
    <3> HIDE DEF pv, sub
    <3> QED BY <1>d DEF Row
  <2>6. LastPhase(seen) \in Phase
    <3>1. LastPhase(snap[b]) \in Phase
      BY <1>d, RowPhases
    <3> QED BY <2>5, <3>1 DEF LastPhase
  <2> HIDE DEF new, seen, pv
  <2>7. RowSound(new, decided'[at[b]])
    BY <1>d, <2>3, <2>4, <2>5 DEF RowSound, LastPhase
  <2>8. ColumnsStand => CopySound(b)'
    <3> SUFFICES ASSUME ColumnsStand PROVE CopySound(b)'
      OBVIOUS
    <3>1. snap'[b] = seen /\ pc'[b] = IF finish THEN "complete" ELSE "open"
      BY <2>2 DEF TypeOK
    <3>2. tasks'[at[b]].exists /\ seen.active = tasks'[at[b]].active
      BY <1>d, <2>2, <2>5 DEF ColumnsStand, CopySound, Reviewable, Idle
    <3>3. finish => LastPhase(seen) \in decided'[at[b]]
      BY <2>4, <2>5, <2>6 DEF LastApproved, ReviewsSound
    <3> HIDE DEF finish
    <3> QED BY <2>2, <2>4, <2>5, <3>1, <3>2, <3>3 DEF CopySound
  <2>9. \A c \in Tabs \ {b} :
           pc'[c] = pc[c] /\ snap'[c] = snap[c] /\ at'[c] = at[c]
    BY <2>2 DEF TypeOK
  <2> QED BY <1>b, <2>1, <2>3, <2>5, <2>7, <2>8, <2>9
<1>14. ASSUME NEW b \in Tabs, CompleteTask(b)
       PROVE  Goal
  <2> DEFINE new == [tasks[at[b]] EXCEPT !.status = "completed"]
             seen == [snap[b] EXCEPT !.status = "completed"]
  <2>1. PICK ok \in Reply : Update(b, new, ok)
    BY <1>14 DEF CompleteTask
  <2>2. /\ pc[b] = "complete"
        /\ snap' = [snap EXCEPT ![b] = seen]
        /\ pc' = [pc EXCEPT ![b] = "open"]
        /\ UNCHANGED <<at, decided>>
    BY <1>14 DEF CompleteTask
  <2>3. DecisionsStand
    BY <1>c, <2>2
  <2>4. /\ new.pv = tasks[at[b]].pv /\ new.exists = tasks[at[b]].exists
        /\ new.active = tasks[at[b]].active /\ new.access = tasks[at[b]].access
        /\ new.locked = tasks[at[b]].locked
        /\ seen.pv = snap[b].pv /\ seen.active = snap[b].active
    BY <1>d DEF Row
  <2> HIDE DEF new, seen
  <2>5. LastPhase(new) \in decided[at[b]]
    BY <2>2, <2>4 DEF CopySound, LastPhase
  <2>6. RowSound(new, decided'[at[b]])
    BY <1>d, <2>2, <2>4, <2>5 DEF RowSound
  <2>7. ColumnsStand => CopySound(b)'
    BY <1>d, <2>2, <2>4 DEF CopySound, ColumnsStand, TypeOK
  <2>8. \A c \in Tabs \ {b} :
           pc'[c] = pc[c] /\ snap'[c] = snap[c] /\ at'[c] = at[c]
    BY <2>2 DEF TypeOK
  <2> QED BY <1>b, <2>1, <2>3, <2>4, <2>6, <2>7, <2>8
<1>15. ASSUME NEW b \in Tabs, NEW p \in Phase, RejectPhase(b, p)
       PROVE  Goal
  <2> DEFINE pv == [snap[b].pv EXCEPT ![p].status = "rejected"]
             seen == [snap[b] EXCEPT !.pv = pv, !.sub = "in_progress"]
             new == [tasks[at[b]] EXCEPT !.pv = pv, !.sub = "in_progress"]
  <2>1. PICK ok \in Reply : Update(b, new, ok)
    BY <1>15 DEF RejectPhase, UpdatePhases
  <2>2. /\ Reviewable(b, p)
        /\ snap' = [snap EXCEPT ![b] = seen]
        /\ UNCHANGED <<at, pc, decided>>
    BY <1>15 DEF RejectPhase
  <2>3. DecisionsStand
    BY <1>c, <2>2
  <2>4. ReviewsSound(pv, decided'[at[b]])
    <3>1. snap[b].pv[p].proof # {} /\ snap[b].pv[p] \in Entry
      BY <1>d, <2>2 DEF Reviewable, HasProof
    <3>2. pv[p].proof = snap[b].pv[p].proof /\ pv[p].status = "rejected"
      BY <1>d, <3>1 DEF Entry
    <3>3. \A q \in Phase \ {p} : pv[q] = snap[b].pv[q]
      BY <1>d
    <3> HIDE DEF pv
    <3> QED BY <1>d, <2>2, <3>1, <3>2, <3>3 DEF ReviewsSound
  <2>5. /\ new.pv = pv /\ new.exists = tasks[at[b]].exists
        /\ new.active = tasks[at[b]].active /\ new.access = tasks[at[b]].access
        /\ new.locked = tasks[at[b]].locked /\ new.status = tasks[at[b]].status
        /\ new.closed = tasks[at[b]].closed
        /\ seen.pv = pv /\ seen.active = snap[b].active
    <3> HIDE DEF pv
    <3> QED BY <1>d DEF Row
  <2> HIDE DEF new, seen, pv
  <2>6. RowSound(new, decided'[at[b]])
    BY <1>d, <2>2, <2>4, <2>5 DEF RowSound, LastPhase
  <2>7. ColumnsStand => CopySound(b)'
    BY <1>d, <2>2, <2>4, <2>5
       DEF CopySound, ColumnsStand, Reviewable, Idle, TypeOK
  <2>8. \A c \in Tabs \ {b} :
           pc'[c] = pc[c] /\ snap'[c] = snap[c] /\ at'[c] = at[c]
    BY <2>2 DEF TypeOK
  <2> QED BY <1>b, <2>1, <2>3, <2>5, <2>6, <2>7, <2>8
<1>16. ASSUME NEW b \in Tabs, RequestAccess(b)
       PROVE  Goal
  <2> DEFINE new == [tasks[at[b]] EXCEPT !.requested = TRUE,
                                         !.access = "pending"]
  <2>1. PICK ok \in Reply : Update(b, new, ok) /\ Unless(b, ok)
    BY <1>16 DEF RequestAccess
  <2>2. UNCHANGED <<at, decided>> /\ pc[b] # "closed" /\ DecisionsStand
    BY <1>16, <1>c DEF RequestAccess, Idle
  <2>3. /\ new.pv = tasks[at[b]].pv /\ new.exists = tasks[at[b]].exists
        /\ new.active = tasks[at[b]].active /\ new.access = "pending"
        /\ new.status = tasks[at[b]].status /\ new.closed = tasks[at[b]].closed
    BY <1>d DEF Row
  <2> HIDE DEF new
  <2>4. RowSound(new, decided'[at[b]])
    BY <1>d, <2>2, <2>3 DEF RowSound, LastPhase
  <2> QED BY <1>7, <1>b, <2>1, <2>2, <2>3, <2>4
\* A handler that dismisses the task after one update of its row.
<1>17. ASSUME NEW b \in Tabs, NEW row, NEW ok, Update(b, row, ok),
              Dismissed(b), UNCHANGED <<at, decided>>,
              RowSound(row, decided[at[b]]),
              row.exists = tasks[at[b]].exists, row.active = tasks[at[b]].active
       PROVE  Goal
  <2>1. CopySound(b)' /\ DecisionsStand
    BY <1>17, <1>c, DismissSound
  <2>2. \A c \in Tabs \ {b} :
           pc'[c] = pc[c] /\ snap'[c] = snap[c] /\ at'[c] = at[c]
    BY <1>17 DEF Dismissed, TypeOK
  <2> QED BY <1>17, <1>b, <2>1, <2>2
<1>18. ASSUME NEW b \in Tabs
       PROVE  LET closed == ClosedRow(tasks[at[b]])
              IN  /\ RowSound(closed, decided[at[b]])
                  /\ closed.exists = tasks[at[b]].exists
                  /\ closed.active = tasks[at[b]].active
  <2> DEFINE closed == ClosedRow(tasks[at[b]])
  <2>1. /\ closed.pv = tasks[at[b]].pv /\ closed.exists = tasks[at[b]].exists
        /\ closed.active = tasks[at[b]].active /\ closed.access = "rejected"
        /\ closed.closed
    BY <1>d DEF ClosedRow, Row
  <2> HIDE DEF closed
  <2>2. RowSound(closed, decided[at[b]])
    BY <1>d, <2>1 DEF RowSound
  <2> QED BY <2>1, <2>2 DEF closed
<1>19. ASSUME NEW b \in Tabs, ApproveAccess(b)
       PROVE  Goal
  <2> DEFINE new == [tasks[at[b]] EXCEPT !.access = "approved",
                                         !.locked = FALSE]
  <2>1. PICK ok \in Reply : Update(b, new, ok)
    BY <1>19 DEF ApproveAccess
  <2>2. Dismissed(b) /\ UNCHANGED <<at, decided>>
    BY <1>19 DEF ApproveAccess
  <2>3. /\ new.pv = tasks[at[b]].pv /\ new.exists = tasks[at[b]].exists
        /\ new.active = tasks[at[b]].active /\ ~new.locked
        /\ new.status = tasks[at[b]].status /\ new.closed = tasks[at[b]].closed
    BY <1>d DEF Row
  <2> HIDE DEF new
  <2>4. RowSound(new, decided[at[b]])
    BY <1>d, <2>3 DEF RowSound, LastPhase
  <2> QED BY <1>17, <2>1, <2>2, <2>3, <2>4
<1>20. ASSUME NEW b \in Tabs, CloseTask(b)
       PROVE  Goal
  <2>1. PICK ok \in Reply : Update(b, ClosedRow(tasks[at[b]]), ok)
    BY <1>20 DEF CloseTask
  <2>2. Dismissed(b) /\ UNCHANGED <<at, decided>>
    BY <1>20 DEF CloseTask
  <2> QED BY <1>17, <1>18, <2>1, <2>2
<1>21. ASSUME NEW b \in Tabs, NEW u \in Users, ReassignTask(b, u)
       PROVE  Goal
  <2>1. PICK ok \in Reply : Update(b, ClosedRow(tasks[at[b]]), ok)
    BY <1>21 DEF ReassignTask
  <2>2. /\ pc[b] = "open" /\ pc' = [pc EXCEPT ![b] = "reassign"]
        /\ UNCHANGED <<at, snap, decided>>
    BY <1>21 DEF ReassignTask, ReviewAsked, Idle
  <2>3. DecisionsStand
    BY <1>c, <2>2
  <2>4. /\ pc'[b] # "complete"
        /\ \A c \in Tabs \ {b} :
              pc'[c] = pc[c] /\ snap'[c] = snap[c] /\ at'[c] = at[c]
    BY <2>2 DEF TypeOK
  <2>5. ColumnsStand => CopySound(b)'
    BY <2>2, <2>3, <2>4, OpenSound
  <2> QED BY <1>18, <1>b, <2>1, <2>2, <2>3, <2>4, <2>5
<1>22. ASSUME NEW b \in Tabs, NEW t \in Tasks, InsertReassigned(b, t)
       PROVE  Goal
  <2> DEFINE new == ReassignedRow(snap[b], target[b])
  <2>1. /\ ~tasks[t].exists /\ Dismissed(b) /\ UNCHANGED <<at, decided>>
        /\ \/ tasks' = [tasks EXCEPT ![t] = new]
           \/ tasks' = tasks
    BY <1>22 DEF InsertReassigned
  <2>2. DecisionsStand /\ ColumnsStand
    <3> HIDE DEF new
    <3> QED BY <2>1 DEF DecisionsStand, ColumnsStand, TypeOK
  <2>3. RowSound(new, decided[t])
    BY DEF ReassignedRow, BlankRow, NoEntry, RowSound, ReviewsSound
  <2>4. TableSound'
    <3> HIDE DEF new
    <3> QED BY <2>1, <2>3 DEF TableSound, TypeOK
  <2>5. CopySound(b)'
    BY <2>1, DismissSound
  <2>6. \A c \in Tabs \ {b} :
           pc'[c] = pc[c] /\ snap'[c] = snap[c] /\ at'[c] = at[c]
    BY <2>1 DEF Dismissed, TypeOK
  <2> QED BY <2>2, <2>4, <2>5, <2>6, CopiesStep
<1>23. ASSUME NEW b \in Tabs, ArchiveTask(b)
       PROVE  Goal
  <2> DEFINE new == [tasks[at[b]] EXCEPT !.status = "archived"]
  <2>1. PICK ok \in Reply : Update(b, new, ok)
    BY <1>23 DEF ArchiveTask
  <2>2. Dismissed(b) /\ UNCHANGED <<at, decided>>
    BY <1>23 DEF ArchiveTask
  <2>3. /\ new.pv = tasks[at[b]].pv /\ new.exists = tasks[at[b]].exists
        /\ new.active = tasks[at[b]].active /\ new.access = tasks[at[b]].access
        /\ new.locked = tasks[at[b]].locked /\ new.status = "archived"
    BY <1>d DEF Row
  <2> HIDE DEF new
  <2>4. RowSound(new, decided[at[b]])
    BY <1>d, <2>3 DEF RowSound
  <2> QED BY <1>17, <2>1, <2>2, <2>3, <2>4
<1>24. ASSUME NEW b \in Tabs, NEW p \in Phase, NEW f \in Files,
              DeleteProofFile(b, p, f)
       PROVE  Goal
  <2>1. /\ UNCHANGED <<tasks, decided, at, snap>>
        /\ pc[b] # "closed" /\ pc'[b] # "complete"
        /\ \A c \in Tabs \ {b} : pc'[c] = pc[c]
    BY <1>24 DEF DeleteProofFile, Idle, TypeOK
  <2>2. CopySound(b)'
    BY <2>1, OpenSound DEF DecisionsStand, ColumnsStand
  <2> QED BY <1>a, <2>1, <2>2
<1>25. CASE UNCHANGED vars
  BY <1>25 DEF vars, TableSound, CopySound
<1> QED BY <1>1, <1>2, <1>3, <1>4, <1>5, <1>6, <1>8, <1>10, <1>11, <1>12,
           <1>13, <1>14, <1>15, <1>16, <1>19, <1>20, <1>21, <1>22, <1>23, <1>24, <1>25
           DEF Next, Continue

\* The inductive invariant holds throughout, for every number of tabs and
\* phases and whichever writes are refused.
THEOREM InvCorrect == Spec => []IInv
<1> QED BY InvInit, InvStep, PTL DEF Spec

\* No stale write gives the table a reviewed phase without proof, and the proof
\* it names is stored, unless a refused write or an old copy left its name.
THEOREM ReviewsHaveProof == Spec => []ReviewedHasProof
<1>1. IInv => ReviewedHasProof
  BY DEF IInv, ReviewsNamed, FilesSound, NamesKept, ReviewedHasProof
<1> QED BY <1>1, InvCorrect, PTL

\* No submission, reassignment or stale write forges an approval.
THEOREM ApprovalsDecided == Spec => []ApprovedWasDecided
<1>1. IInv => ApprovedWasDecided
  BY DEF IInv
<1> QED BY <1>1, InvCorrect, PTL

\* A task is completed only by a manager's closing it or once a reviewer has
\* approved its last required phase, though the two updates of an approval are
\* apart and other tabs write in between.
THEOREM CompletionsJustified == Spec => []CompletionJustified
<1>1. IInv => CompletionJustified
  BY DEF IInv
<1> QED BY <1>1, InvCorrect, PTL

\* Approved access never meets a locked row, in whatever order reviews land.
THEOREM AccessApprovedUnlocks == Spec => []AccessUnlocks
<1>1. IInv => AccessUnlocks
  BY DEF IInv
<1> QED BY <1>1, InvCorrect, PTL

\* Every copy a tab holds, and may write back, is as sound as the table.
THEOREM CopiesAreSound == Spec => []CopiesSound
<1>1. IInv => CopiesSound
  BY DEF IInv
<1> QED BY <1>1, InvCorrect, PTL

(***************************************************************************)
(* Action properties: what a single step never does, from any state that   *)
(* satisfies the invariant.                                                *)
(***************************************************************************)

\* First is below the rest of its set, and no handler moves a task back from
\* the phase it submits for.
LEMMA PhasesForward ==
    ASSUME NEW row \in Row
    PROVE  /\ row.life <= ServiceNextPhase(row)
           /\ OverlayPhase(row) <= OverlayNextPhase(row)
<1> USE PhasesAssumption DEF Phase
<1>1. row.life \in Phase /\ OverlayPhase(row) \in Phase /\ Active(row) \in SUBSET Phase
  BY RowPhases DEF Row
<1>2. row.life <= ServiceNextPhase(row)
  <2> DEFINE unproved == {p \in row.life + 1 .. NumPhases - 1 : ~HasProof(row, p)}
  <2>1. unproved \in SUBSET Phase
    BY <1>1
  <2>2. unproved # {} => First(unproved) \in unproved
    BY <2>1, FirstLast
  <2>3. \A p \in unproved : row.life <= p
    BY <1>1
  <2>4. row.life <= NumPhases /\ row.life <= row.life
    BY <1>1
  <2> QED BY <2>2, <2>3, <2>4 DEF ServiceNextPhase
<1>3. OverlayPhase(row) <= OverlayNextPhase(row)
  <2> DEFINE later == {p \in Active(row) : p > OverlayPhase(row)}
  <2>1. later \in SUBSET Phase
    BY <1>1
  <2>2. later # {} => First(later) \in later
    BY <2>1, FirstLast
  <2>3. \A p \in later : OverlayPhase(row) <= p
    BY <1>1
  <2>4. OverlayPhase(row) <= OverlayPhase(row)
    BY <1>1
  <2> QED BY <2>2, <2>3, <2>4 DEF OverlayNextPhase
<1> QED BY <1>2, <1>3

\* A phase whose proof is on the board, waiting for its review.
Submitted(row, p) == row.pv[p].status = "pending" /\ row.pv[p].proof # {}
Brought(row) == \E p \in 1 .. row.life : Submitted(row, p)

\* The row a submission writes has its new proof at the phase of the copy.
LEMMA SubmittedProof ==
    ASSUME NEW row \in Row, NEW p \in Phase, NEW items \in SUBSET Items, items # {}
    PROVE  /\ ServiceProof(row.pv[p].proof, items) # {}
           /\ row.pv[p].proof \cup items # {}
BY DEF ServiceProof

\* An update that leaves lifecycle_state as the table has it moves nothing.
LEMMA UpdateStays ==
    ASSUME TypeOK, NEW b \in Tabs, NEW row, NEW ok, Update(b, row, ok),
           row.life = tasks[at[b]].life
    PROVE  \A t \in Tasks : tasks'[t].life = tasks[t].life
BY DEF TypeOK, Update

\* One that moves it has to bring the proof.
LEMMA UpdateMoves ==
    ASSUME TypeOK, NEW b \in Tabs, NEW row, NEW ok, Update(b, row, ok),
           row.life = tasks[at[b]].life \/ Brought(row)
    PROVE  \A t \in Tasks : tasks'[t].life # tasks[t].life => Brought(tasks'[t])
<1> TAKE t \in Tasks
<1>1. tasks'[t] = tasks[t] \/ (t = at[b] /\ tasks'[t] = row)
  BY DEF TypeOK, Update
<1> QED BY <1>1

LEMMA AdvanceStep ==
    ASSUME TypeOK, [Next]_vars
    PROVE  \A t \in Tasks :
              tasks[t].exists /\ tasks'[t].life # tasks[t].life => Brought(tasks'[t])
<1> DEFINE Goal == \A t \in Tasks :
                     tasks[t].exists /\ tasks'[t].life # tasks[t].life => Brought(tasks'[t])
<1>a. ASSUME NEW b \in Tabs
      PROVE  tasks[at[b]] \in Row /\ snap[b] \in Row /\ snap[b].pv \in [Phase -> Entry]
  BY DEF TypeOK, Row
<1>1. ASSUME UNCHANGED tasks PROVE Goal
  BY <1>1
<1>2. ASSUME NEW t \in Tasks, NEW row, ~tasks[t].exists,
             tasks' = [tasks EXCEPT ![t] = row] \/ tasks' = tasks
      PROVE  Goal
  BY <1>2 DEF TypeOK
<1>3. ASSUME NEW b \in Tabs, NEW items \in SUBSET Items, SubmitProof(b, items) PROVE Goal
  <2> DEFINE row == snap[b]
             next == ServiceNextPhase(row)
             proof == ServiceProof(row.pv[row.life].proof, items)
             pv == [row.pv EXCEPT ![row.life] = [status |-> "pending", proof |-> proof]]
             now == [tasks[at[b]] EXCEPT !.pv = pv]
             new == IF next = row.life THEN now
                    ELSE [now EXCEPT !.life = next, !.sub = "in_progress"]
  <2>1. PICK ok \in Reply : Update(b, new, ok)
    BY <1>3 DEF SubmitProof, UpdatePhases
  <2>2. items # {}
    BY <1>3 DEF SubmitProof
  <2>3. row.life \in Phase /\ next \in Phase /\ row.life <= next
    BY <1>a, RowPhases, PhasesForward DEF Row
  <2>4. proof # {}
    BY <1>a, <2>2, <2>3, SubmittedProof
  <2>5. pv[row.life].status = "pending" /\ pv[row.life].proof # {}
    <3> HIDE DEF proof
    <3> QED BY <1>a, <2>3, <2>4
  <2>6. new.life = tasks[at[b]].life \/ (new.pv = pv /\ new.life = next)
    <3> HIDE DEF pv, next
    <3> QED BY <1>a DEF Row
  <2>7. row.life \in 1 .. next
    BY <2>3 DEF Phase
  <2> HIDE DEF new, pv, next
  <2>8. new.life = tasks[at[b]].life \/ Brought(new)
    BY <2>5, <2>6, <2>7 DEF Brought, Submitted
  <2> QED BY <2>1, <2>8, UpdateMoves
<1>4. ASSUME NEW b \in Tabs, NEW items \in SUBSET Items, OverlaySubmit(b, items) PROVE Goal
  <2> DEFINE row == snap[b]
             cur == OverlayPhase(row)
             next == OverlayNextPhase(row)
             proof == row.pv[cur].proof \cup items
             pv == [row.pv EXCEPT ![cur] = [status |-> "pending", proof |-> proof]]
             sub == IF next # cur THEN "in_progress" ELSE "pending_validation"
             new == [tasks[at[b]] EXCEPT !.sub = sub, !.status = "in_progress",
                                         !.life = next, !.pv = pv]
  <2>1. PICK ok \in Reply : Update(b, new, ok)
    BY <1>4 DEF OverlaySubmit, UpdatePhases
  <2>2. items # {}
    BY <1>4 DEF OverlaySubmit
  <2>3. cur \in Phase /\ next \in Phase /\ cur <= next
    BY <1>a, RowPhases, PhasesForward
  <2>4. proof # {}
    BY <2>2
  <2>5. pv[cur].status = "pending" /\ pv[cur].proof # {}
    <3> HIDE DEF proof, cur
    <3> QED BY <1>a, <2>3, <2>4
  <2>6. new.pv = pv /\ new.life = next
    <3> HIDE DEF pv, next, sub
    <3> QED BY <1>a DEF Row
  <2>7. cur \in 1 .. next
    BY <2>3 DEF Phase
  <2> HIDE DEF new, pv, next, cur
  <2>8. Brought(new)
    BY <2>5, <2>6, <2>7 DEF Brought, Submitted
  <2> QED BY <2>1, <2>8, UpdateMoves
\* A handler that does not write lifecycle_state.
<1>5. ASSUME NEW b \in Tabs, NEW row, NEW ok, Update(b, row, ok), row.life = tasks[at[b]].life
      PROVE  Goal
  BY <1>5, UpdateStays
<1>6. ASSUME NEW b \in Tabs, NEW p \in Phase, NEW f \in Files, DeleteProofEntry(b, p, f) PROVE Goal
  <2> DEFINE pv == [snap[b].pv EXCEPT ![p] = WithoutFile(@, f)]
  <2>1. PICK ok \in Reply : Update(b, [tasks[at[b]] EXCEPT !.pv = pv], ok)
    BY <1>6 DEF DeleteProofEntry
  <2>2. [tasks[at[b]] EXCEPT !.pv = pv].life = tasks[at[b]].life
    BY <1>a DEF Row
  <2> QED BY <1>5, <2>1, <2>2
<1>7. ASSUME NEW b \in Tabs, NEW p \in Phase, ApprovePhase(b, p) PROVE Goal
  <2> DEFINE pv == Approved(snap[b].pv, p)
             new == [tasks[at[b]] EXCEPT !.pv = pv, !.sub = SubStateAfter(pv, p)]
  <2>1. PICK ok \in Reply : Update(b, new, ok)
    BY <1>7 DEF ApprovePhase, UpdatePhases
  <2>2. new.life = tasks[at[b]].life
    BY <1>a DEF Row
  <2> QED BY <1>5, <2>1, <2>2
<1>8. ASSUME NEW b \in Tabs, NEW p \in Phase, RejectPhase(b, p) PROVE Goal
  <2> DEFINE pv == [snap[b].pv EXCEPT ![p].status = "rejected"]
             new == [tasks[at[b]] EXCEPT !.pv = pv, !.sub = "in_progress"]
  <2>1. PICK ok \in Reply : Update(b, new, ok)
    BY <1>8 DEF RejectPhase, UpdatePhases
  <2>2. new.life = tasks[at[b]].life
    BY <1>a DEF Row
  <2> QED BY <1>5, <2>1, <2>2
<1>9. ASSUME NEW b \in Tabs, CompleteTask(b) PROVE Goal
  <2> DEFINE new == [tasks[at[b]] EXCEPT !.status = "completed"]
  <2>1. PICK ok \in Reply : Update(b, new, ok)
    BY <1>9 DEF CompleteTask
  <2>2. new.life = tasks[at[b]].life
    BY <1>a DEF Row
  <2> QED BY <1>5, <2>1, <2>2
<1>10. ASSUME NEW b \in Tabs, RequestAccess(b) PROVE Goal
  <2> DEFINE new == [tasks[at[b]] EXCEPT !.requested = TRUE, !.access = "pending"]
  <2>1. PICK ok \in Reply : Update(b, new, ok)
    BY <1>10 DEF RequestAccess
  <2>2. new.life = tasks[at[b]].life
    BY <1>a DEF Row
  <2> QED BY <1>5, <2>1, <2>2
<1>11. ASSUME NEW b \in Tabs, ApproveAccess(b) PROVE Goal
  <2> DEFINE new == [tasks[at[b]] EXCEPT !.access = "approved", !.locked = FALSE]
  <2>1. PICK ok \in Reply : Update(b, new, ok)
    BY <1>11 DEF ApproveAccess
  <2>2. new.life = tasks[at[b]].life
    BY <1>a DEF Row
  <2> QED BY <1>5, <2>1, <2>2
<1>12. ASSUME NEW b \in Tabs, CloseTask(b) \/ \E u \in Users : ReassignTask(b, u) PROVE Goal
  <2>1. PICK ok \in Reply : Update(b, ClosedRow(tasks[at[b]]), ok)
    BY <1>12 DEF CloseTask, ReassignTask
  <2>2. ClosedRow(tasks[at[b]]).life = tasks[at[b]].life
    BY <1>a DEF Row, ClosedRow
  <2> QED BY <1>5, <2>1, <2>2
<1>13. ASSUME NEW b \in Tabs, ArchiveTask(b) PROVE Goal
  <2> DEFINE new == [tasks[at[b]] EXCEPT !.status = "archived"]
  <2>1. PICK ok \in Reply : Update(b, new, ok)
    BY <1>13 DEF ArchiveTask
  <2>2. new.life = tasks[at[b]].life
    BY <1>a DEF Row
  <2> QED BY <1>5, <2>1, <2>2
<1>14. ASSUME NEW b \in Tabs,
              \/ \E t \in Tasks : Open(b, t)
              \/ Close(b) \/ LookupSubmission(b) \/ UpdateSubmission(b)
              \/ InsertSubmission(b) \/ Refetch(b)
              \/ \E p \in Phase, f \in Files : DeleteProofFile(b, p, f)
       PROVE  Goal
  BY <1>1, <1>14 DEF Open, Close, LookupSubmission, UpdateSubmission, InsertSubmission, Refetch,
                    DeleteProofFile
<1>15. ASSUME NEW b \in Tabs, NEW t \in Tasks, InsertReassigned(b, t) PROVE Goal
  <2>1. /\ ~tasks[t].exists
        /\ \/ tasks' = [tasks EXCEPT ![t] = ReassignedRow(snap[b], target[b])]
           \/ tasks' = tasks
    BY <1>15 DEF InsertReassigned
  <2> QED BY <1>2, <2>1
<1>16. ASSUME NEW t \in Tasks, NEW u \in Users \cup {Nobody}, NEW required \in PhaseChoices,
              CreateTask(t, u, required)
       PROVE  Goal
  <2>1. PICK row : ~tasks[t].exists /\ tasks' = [tasks EXCEPT ![t] = row]
    BY <1>16 DEF CreateTask
  <2> QED BY <1>2, <2>1
<1>17. ASSUME NEW t \in Tasks, DueDatePasses(t) PROVE Goal
  BY <1>1, <1>17 DEF DueDatePasses
<1>18. CASE UNCHANGED vars
  BY <1>1, <1>18 DEF vars
<1> QED BY <1>3, <1>4, <1>6, <1>7, <1>8, <1>9, <1>10, <1>11, <1>12, <1>13, <1>14, <1>15,
           <1>16, <1>17, <1>18 DEF Next, Continue

\* However old the copy that is written back, a step that moves the lifecycle
\* of a task brings the pending proof that moved it: the two columns go out in
\* one write (workflow.js 98-112).
THEOREM AdvancesCarryProof == Spec => AdvanceCarriesProof
<1> DEFINE Carried ==
      \A t \in Tasks :
         tasks[t].exists /\ tasks'[t].life # tasks[t].life =>
            \E p \in 1 .. tasks'[t].life :
                /\ tasks'[t].pv[p].status = "pending"
                /\ tasks'[t].pv[p].proof # {}
<1>1. TypeOK /\ [Next]_vars => Carried
  BY AdvanceStep DEF Brought, Submitted
<1>2. TypeOK /\ [Next]_vars => [Carried]_vars
  BY <1>1
<1> HIDE DEF Carried
<1>3. Spec => [][Carried]_vars
  BY <1>2, TypeCorrect, PTL DEF Spec
<1> QED BY <1>3 DEF Carried, AdvanceCarriesProof

\* Only InsertReassigned ends a reassignment.
LEMMA ReassignEnds ==
    ASSUME TypeOK, [Next]_vars, NEW b \in Tabs, pc[b] = "reassign", pc'[b] = "closed"
    PROVE  \E t \in Tasks : InsertReassigned(b, t)
<1>1. pc' # pc
  OBVIOUS
<1>2. ASSUME NEW c \in Tabs, c # b
      PROVE  /\ \A st : pc' # [pc EXCEPT ![c] = st]
             /\ ~Dismissed(c) /\ \A ok : ~Unless(c, ok)
  BY <1>2 DEF TypeOK, Dismissed, Unless
<1>3. PICK c \in Tabs :
          \/ \E t \in Tasks : Open(c, t)
          \/ Close(c)
          \/ \E items \in SUBSET Items : SubmitProof(c, items)
          \/ \E items \in SUBSET Items : OverlaySubmit(c, items)
          \/ \E p \in Phase, f \in Files : DeleteProofFile(c, p, f)
          \/ \E p \in Phase : ApprovePhase(c, p)
          \/ RequestAccess(c)
          \/ ApproveAccess(c)
          \/ CloseTask(c)
          \/ \E u \in Users : ReassignTask(c, u)
          \/ ArchiveTask(c)
          \/ Continue(c)
  BY <1>1 DEF Next, vars, CreateTask, DueDatePasses, RejectPhase, tabVars
<1>4. c = b
  BY <1>2, <1>3 DEF Open, Close, SubmitProof, OverlaySubmit, DeleteProofFile, ApprovePhase,
                    RequestAccess, ApproveAccess, CloseTask, ReassignTask, ArchiveTask, Continue,
                    LookupSubmission, UpdateSubmission, InsertSubmission, Refetch, CompleteTask,
                    InsertReassigned, AfterOverlayWrite, DeleteProofEntry
<1> QED BY <1>3, <1>4 DEF Open, Close, SubmitProof, OverlaySubmit, DeleteProofFile, ApprovePhase,
                    RequestAccess, ApproveAccess, CloseTask, ReassignTask, ArchiveTask, Continue,
                    LookupSubmission, UpdateSubmission, InsertSubmission, Refetch, CompleteTask,
                    ReviewAsked, Reviewable, Idle, DeleteProofEntry

\* The row that is inserted asks what the copy asks.
LEMMA ReassignedInherits ==
    ASSUME NEW row \in Row, NEW old \in Row, NEW u \in Users \cup {Nobody}, row.active = old.active
    PROVE  Inherits(old, ReassignedRow(row, u))
<1> DEFINE new == ReassignedRow(row, u)
<1>1. Active(row) = Active(old) /\ Active(row) # {}
  BY PhasesAssumption DEF Active, Phase
<1>2. /\ new.active = Active(row) /\ new.status = "pending" /\ new.life = 1
      /\ new.access = "approved" /\ new.locked = FALSE
      /\ new.pv = [p \in Phase |-> NoEntry]
  BY DEF ReassignedRow, BlankRow
<1> HIDE DEF new
<1>3. Active(new) = Active(old)
  BY <1>1, <1>2 DEF Active
<1> QED BY <1>2, <1>3 DEF Inherits, new

LEMMA ReassignStep ==
    ASSUME IInv, [Next]_vars, NEW b \in Tabs, NEW t \in Tasks,
           pc[b] = "reassign", pc'[b] = "closed", ~tasks[t].exists, tasks'[t].exists
    PROVE  Inherits(tasks[at[b]], tasks'[t])
<1>1. TypeOK
  BY DEF IInv
<1>2. PICK x \in Tasks : InsertReassigned(b, x)
  BY <1>1, ReassignEnds
<1>3. tasks' = [tasks EXCEPT ![x] = ReassignedRow(snap[b], target[b])] \/ tasks' = tasks
  BY <1>2 DEF InsertReassigned
<1>4. tasks'[t] = ReassignedRow(snap[b], target[b])
  BY <1>1, <1>3 DEF TypeOK
<1>5. snap[b].active = tasks[at[b]].active
  BY DEF IInv, CopiesSound
<1>6. snap[b] \in Row /\ tasks[at[b]] \in Row /\ target[b] \in Users \cup {Nobody}
  BY <1>1 DEF TypeOK
<1> QED BY <1>4, <1>5, <1>6, ReassignedInherits

\* The row that a reassignment inserts, a call after it closed the old one,
\* asks the phases of the row it closed: no write in between altered them.
THEOREM ReassignmentsInherit == Spec => ReassignmentInherits
<1> DEFINE Inherited ==
      \A b \in Tabs, t \in Tasks :
          /\ pc[b] = "reassign" /\ pc'[b] = "closed"
          /\ ~tasks[t].exists /\ tasks'[t].exists
          => Inherits(tasks[at[b]], tasks'[t])
<1>1. IInv /\ [Next]_vars => [Inherited]_vars
  BY ReassignStep
<1> HIDE DEF Inherited
<1>2. Spec => [][Inherited]_vars
  BY <1>1, InvCorrect, PTL DEF Spec
<1> QED BY <1>2 DEF Inherited, ReassignmentInherits

(***************************************************************************)
(* The task workflow implements PhaseBoard: the refinement.                *)
(***************************************************************************)

\* The mapped variables, under names of their own.
MExists == {t \in Tasks : tasks[t].exists}
MBoard  == [t \in Tasks |-> tasks[t].pv]
MCopy   == [b \in Tabs |-> snap[b].pv]

\* An update that keeps the entries of its row, or one the database refuses,
\* is not seen on the board.
LEMMA UpdateUnseen ==
    ASSUME TypeOK, NEW b \in Tabs, NEW row, NEW ok, Update(b, row, ok),
           ok => /\ row.pv = tasks[at[b]].pv
                 /\ row.exists = tasks[at[b]].exists
    PROVE  UNCHANGED <<MExists, MBoard>>
<1>1. at[b] \in Tasks /\ tasks = [t \in Tasks |-> tasks[t]]
  BY DEF TypeOK
<1>2. \A t \in Tasks : /\ tasks'[t].pv = tasks[t].pv
                       /\ tasks'[t].exists = tasks[t].exists
  BY <1>1 DEF Update, TypeOK
<1> QED BY <1>2 DEF MExists, MBoard

\* An update whose row carries other entries writes them, or nothing.
LEMMA UpdateSeen ==
    ASSUME TypeOK, NEW b \in Tabs, NEW row, NEW ok, Update(b, row, ok),
           row.exists = tasks[at[b]].exists
    PROVE  /\ UNCHANGED MExists
           /\ MBoard' = [MBoard EXCEPT ![at[b]] = row.pv] \/ UNCHANGED MBoard
<1>1. at[b] \in Tasks /\ tasks \in [Tasks -> Row]
  BY DEF TypeOK
<1>2. CASE ok
  <2>1. \A t \in Tasks : tasks'[t] = IF t = at[b] THEN row ELSE tasks[t]
    BY <1>1, <1>2 DEF Update
  <2>2. UNCHANGED MExists
    BY <2>1 DEF MExists
  <2>3. MBoard' = [MBoard EXCEPT ![at[b]] = row.pv]
    BY <2>1, <1>1 DEF MBoard
  <2> QED BY <2>2, <2>3
<1>3. CASE ~ok
  BY <1>3, UpdateUnseen
<1> QED BY <1>2, <1>3

\* A handler that puts back its copy with one entry edited is a Write.
LEMMA WriteSeen ==
    ASSUME TypeOK, CopiesSound, NEW b \in Tabs, pc[b] # "closed",
           NEW p \in Phase, NEW new \in Entry, Board!Edited(snap[b].pv[p], new),
           NEW row, NEW ok, Update(b, row, ok),
           row.pv = [snap[b].pv EXCEPT ![p] = new],
           row.exists = tasks[at[b]].exists,
           UNCHANGED at,
           \/ UNCHANGED snap
           \/ \E r : r.pv = row.pv /\ snap' = [snap EXCEPT ![b] = r]
    PROVE  Board!Next
<1>1. at[b] \in MExists
  BY DEF CopiesSound, MExists, TypeOK
<1>2. /\ UNCHANGED MExists
      /\ MBoard' = [MBoard EXCEPT ![at[b]] = row.pv] \/ UNCHANGED MBoard
  BY UpdateSeen
<1>3. MCopy[b] = snap[b].pv
  BY DEF MCopy
<1>4. MCopy' = [MCopy EXCEPT ![b] = row.pv] \/ UNCHANGED MCopy
  <2>1. CASE UNCHANGED snap
    BY <2>1 DEF MCopy
  <2>2. ASSUME NEW r, r.pv = row.pv, snap' = [snap EXCEPT ![b] = r]
        PROVE  MCopy' = [MCopy EXCEPT ![b] = row.pv]
    <3>1. \A c \in Tabs : snap'[c] = IF c = b THEN r ELSE snap[c]
      BY <2>2 DEF TypeOK
    <3>2. \A c \in Tabs : snap'[c].pv = IF c = b THEN row.pv ELSE snap[c].pv
      BY <3>1, <2>2
    <3>3. MCopy' = [c \in Tabs |-> IF c = b THEN row.pv ELSE snap[c].pv]
      BY <3>2 DEF MCopy
    <3> QED BY <3>3 DEF MCopy
  <2> QED BY <2>1, <2>2
<1>5. Board!Write(b, p, new)
  BY <1>1, <1>2, <1>3, <1>4 DEF Board!Write, MExists, MBoard, MCopy
<1>6. Entry = Board!Entry
  BY DEF Entry, Board!Entry
<1> QED BY <1>5, <1>6 DEF Board!Next

\* A tab that closes its task forgets its copy.
LEMMA DismissSeen ==
    ASSUME TypeOK, NEW b \in Tabs, Dismissed(b)
    PROVE  MCopy' = [MCopy EXCEPT ![b] = Board!Empty]
<1>1. BlankRow.pv = Board!Empty
  BY DEF BlankRow, NoEntry, Board!Empty, Board!NoEntry
<1>2. \A c \in Tabs : snap'[c] = IF c = b THEN BlankRow ELSE snap[c]
  BY DEF Dismissed, TypeOK
<1> QED BY <1>1, <1>2 DEF MCopy

LEMMA ForgetSeen ==
    ASSUME TypeOK, NEW b \in Tabs, Dismissed(b), UNCHANGED <<MExists, MBoard, at>>
    PROVE  Board!Next
<1>1. Board!Forget(b)
  BY DismissSeen DEF Board!Forget, MExists, MBoard, MCopy
<1> QED BY <1>1 DEF Board!Next

LEMMA BoardInit == Init => Board!Init
<1> SUFFICES ASSUME Init PROVE Board!Init
  OBVIOUS
<1>1. BlankRow.pv = Board!Empty /\ BlankRow.exists = FALSE
  BY DEF BlankRow, NoEntry, Board!Empty, Board!NoEntry
<1>2. at \in [Tabs -> Tasks]
  BY TypeInit DEF TypeOK
<1> QED BY <1>1, <1>2 DEF Init, Board!Init

(***************************************************************************)
(* Every step of the workflow is a step of the board, or leaves it alone.  *)
(***************************************************************************)
LEMMA BoardStep ==
    TypeOK /\ CopiesSound /\ FilesSound /\ [Next]_vars => [Board!Next]_Board!vars
<1> SUFFICES ASSUME TypeOK, CopiesSound, FilesSound, [Next]_vars
             PROVE  Board!Next \/ UNCHANGED <<MExists, MBoard, at, MCopy>>
  BY DEF Board!vars, MExists, MBoard, MCopy
<1> DEFINE Goal == Board!Next \/ UNCHANGED <<MExists, MBoard, at, MCopy>>
<1>u. ASSUME UNCHANGED <<tasks, at, snap>> PROVE Goal
  BY <1>u DEF MExists, MBoard, MCopy
\* An update that keeps the board, and the copy kept or dropped.
<1>k. ASSUME NEW b \in Tabs, NEW row, NEW ok, Update(b, row, ok), UNCHANGED at,
             row.pv = tasks[at[b]].pv, row.exists = tasks[at[b]].exists,
             Dismissed(b) \/ UNCHANGED MCopy
      PROVE  Goal
  BY <1>k, UpdateUnseen, ForgetSeen
<1>t. ASSUME NEW b \in Tabs
      PROVE  /\ at[b] \in Tasks /\ tasks[at[b]] \in Row /\ snap[b] \in Row
             /\ snap[b].pv \in [Phase -> Entry]
  BY DEF TypeOK, Row
<1>1. ASSUME NEW t \in Tasks, NEW u \in Users \cup {Nobody}, NEW required \in PhaseChoices,
             CreateTask(t, u, required)
      PROVE  Goal
  <2> DEFINE pv == [p \in Phase |-> IF p \in required
                                    THEN [status |-> "pending", proof |-> {}]
                                    ELSE NoEntry]
             row == [BlankRow EXCEPT !.exists = TRUE, !.assignee = u,
                                     !.active = required, !.pv = pv]
  <2>1. /\ ~tasks[t].exists
        /\ tasks' = [tasks EXCEPT ![t] = row]
        /\ UNCHANGED <<at, snap>>
    BY <1>1 DEF CreateTask, tabVars
  <2>2. row.pv = pv /\ row.exists = TRUE
    <3> HIDE DEF pv
    <3> QED BY DEF BlankRow
  <2>3. \A s \in Tasks : tasks'[s] = IF s = t THEN row ELSE tasks[s]
    <3> HIDE DEF row
    <3> QED BY <2>1 DEF TypeOK
  <2> HIDE DEF row
  <2>4. MExists' = MExists \cup {t} /\ t \notin MExists
    BY <2>1, <2>2, <2>3 DEF MExists
  <2>5. MBoard' = [MBoard EXCEPT ![t] = pv]
    <3>1. \A s \in Tasks : tasks'[s].pv = IF s = t THEN pv ELSE tasks[s].pv
      BY <2>2, <2>3
    <3> HIDE DEF pv
    <3> QED BY <3>1 DEF MBoard
  <2>6. required \in SUBSET Phase
    BY TabsAssumption
  <2>7. pv = [p \in Phase |-> IF p \in required
                              THEN [status |-> "pending", proof |-> {}]
                              ELSE Board!NoEntry]
    BY DEF NoEntry, Board!NoEntry
  <2>8. UNCHANGED MCopy
    BY <2>1 DEF MCopy
  <2>9. Board!Create(t)
    <3> HIDE DEF pv
    <3>1. \E asked \in SUBSET Phase :
             MBoard' = [MBoard EXCEPT ![t] =
                          [p \in Phase |-> IF p \in asked
                                           THEN [status |-> "pending", proof |-> {}]
                                           ELSE Board!NoEntry]]
      BY <2>5, <2>6, <2>7
    <3> QED BY <3>1, <2>1, <2>4, <2>8
            DEF Board!Create, Board!Forgets, MExists, MBoard, MCopy
  <2> QED BY <2>9 DEF Board!Next
<1>2. ASSUME NEW t \in Tasks, DueDatePasses(t)
      PROVE  Goal
  BY <1>2, <1>u DEF DueDatePasses, tabVars
<1>3. ASSUME NEW b \in Tabs, NEW t \in Tasks, Open(b, t)
      PROVE  Goal
  <2>1. /\ t \in MExists /\ at' = [at EXCEPT ![b] = t]
        /\ UNCHANGED <<MExists, MBoard>>
    BY <1>3 DEF Open, MExists, MBoard
  <2>2. MCopy' = [MCopy EXCEPT ![b] = MBoard[t]]
    <3>1. \A c \in Tabs : snap'[c] = IF c = b THEN tasks[t] ELSE snap[c]
      BY <1>3 DEF Open, TypeOK
    <3>2. MBoard[t] = tasks[t].pv
      BY DEF MBoard
    <3> QED BY <3>1, <3>2 DEF MCopy
  <2>3. Board!Fetch(b, t)
    BY <2>1, <2>2 DEF Board!Fetch, MExists, MBoard, MCopy
  <2> QED BY <2>3 DEF Board!Next
<1>4. ASSUME NEW b \in Tabs, Close(b)
      PROVE  Goal
  <2>1. Dismissed(b) /\ UNCHANGED <<MExists, MBoard, at>>
    BY <1>4 DEF Close, MExists, MBoard
  <2> QED BY <2>1, ForgetSeen
<1>5. ASSUME NEW b \in Tabs, NEW items \in SUBSET Items, SubmitProof(b, items)
      PROVE  Goal
  <2> DEFINE old == snap[b].pv[snap[b].life]
             new == [status |-> "pending", proof |-> ServiceProof(old.proof, items)]
             pv == [snap[b].pv EXCEPT ![snap[b].life] = new]
             now == [tasks[at[b]] EXCEPT !.pv = pv]
             next == ServiceNextPhase(snap[b])
             row == IF next = snap[b].life THEN now
                    ELSE [now EXCEPT !.life = next, !.sub = "in_progress"]
  <2>1. PICK ok \in Reply : Update(b, row, ok)
    BY <1>5 DEF SubmitProof, UpdatePhases
  <2>2. UNCHANGED <<at, snap>> /\ pc[b] # "closed" /\ items # {}
    BY <1>5 DEF SubmitProof, Idle
  <2>3. row.pv = pv /\ row.exists = tasks[at[b]].exists
    <3> HIDE DEF pv, next
    <3> QED BY <1>t DEF Row
  <2>4. snap[b].life \in Phase
    BY <1>t DEF Row
  <2>5. ServiceProof(old.proof, items) # {} /\ ServiceProof(old.proof, items) \in SUBSET Items
    <3>1. old.proof \in SUBSET Items
      BY <1>t, <2>4 DEF Entry
    <3> HIDE DEF old
    <3> QED BY <2>2, <3>1 DEF ServiceProof
  <2>6. new \in Entry /\ Board!Edited(old, new)
    BY <2>5 DEF Entry, Board!Edited, Board!Submitted
  <2> HIDE DEF row, new
  <2> QED BY <2>1, <2>2, <2>3, <2>4, <2>6, WriteSeen
<1>6. ASSUME NEW b \in Tabs, LookupSubmission(b)
      PROVE  Goal
  BY <1>6, <1>u DEF LookupSubmission
<1>7. ASSUME NEW b \in Tabs, UpdateSubmission(b)
      PROVE  Goal
  <2>1. UNCHANGED <<tasks, at>> /\ (Dismissed(b) \/ UNCHANGED snap)
    BY <1>7 DEF UpdateSubmission, Unless
  <2> QED BY <2>1, <1>u, ForgetSeen DEF MExists, MBoard
<1>8. ASSUME NEW b \in Tabs, InsertSubmission(b)
      PROVE  Goal
  <2>1. UNCHANGED <<tasks, at>> /\ (Dismissed(b) \/ UNCHANGED snap)
    BY <1>8 DEF InsertSubmission, Unless
  <2> QED BY <2>1, <1>u, ForgetSeen DEF MExists, MBoard
<1>9. ASSUME NEW b \in Tabs, NEW items \in SUBSET Items, OverlaySubmit(b, items)
      PROVE  Goal
  <2> DEFINE cur == OverlayPhase(snap[b])
             next == OverlayNextPhase(snap[b])
             sub == IF next # cur THEN "in_progress" ELSE "pending_validation"
             new == [status |-> "pending",
                     proof |-> snap[b].pv[cur].proof \cup items]
             pv == [snap[b].pv EXCEPT ![cur] = new]
             row == [tasks[at[b]] EXCEPT !.sub = sub, !.status = "in_progress",
                                         !.life = next, !.pv = pv]
  <2>1. PICK ok \in Reply : Update(b, row, ok)
    BY <1>9 DEF OverlaySubmit, UpdatePhases
  <2>2. UNCHANGED <<at, snap>> /\ pc[b] # "closed" /\ items # {}
    BY <1>9 DEF OverlaySubmit, Idle
  <2>3. row.pv = pv /\ row.exists = tasks[at[b]].exists
    <3> HIDE DEF pv, next, sub
    <3> QED BY <1>t DEF Row
  <2>4. cur \in Phase
    BY <1>t, RowPhases
  <2>5. new \in Entry /\ Board!Edited(snap[b].pv[cur], new)
    <3> HIDE DEF cur
    <3> QED BY <1>t, <2>2, <2>4 DEF Entry, Board!Edited, Board!Submitted
  <2> HIDE DEF row, new, cur
  <2> QED BY <2>1, <2>2, <2>3, <2>4, <2>5, WriteSeen
<1>10. ASSUME NEW b \in Tabs, NEW p \in Phase, NEW f \in Files,
              DeleteProofEntry(b, p, f)
       PROVE  Goal
  <2> DEFINE old == snap[b].pv[p]
             new == WithoutFile(old, f)
             pv == [snap[b].pv EXCEPT ![p] = new]
             row == [tasks[at[b]] EXCEPT !.pv = pv]
  <2>1. PICK ok \in Reply : Update(b, row, ok)
    BY <1>10 DEF DeleteProofEntry
  <2>2. UNCHANGED <<at, snap>> /\ pc[b] # "closed" /\ f \in old.proof
    BY <1>10, <1>t, NamedDeletion DEF DeleteProofEntry
  <2>3. row.pv = pv /\ row.exists = tasks[at[b]].exists
    <3> HIDE DEF pv
    <3> QED BY <1>t DEF Row
  <2>4. new \in Entry
    <3>1. old \in Entry
      BY <1>t
    <3> HIDE DEF old
    <3> QED BY <3>1, BlankRowType DEF WithoutFile, Entry
  <2>5. Board!Edited(old, new)
    BY <2>2 DEF Board!Edited, Board!Withdrawn, WithoutFile, NoEntry, Board!NoEntry
  <2> HIDE DEF row, new
  <2> QED BY <2>1, <2>2, <2>3, <2>4, <2>5, WriteSeen
<1>11. ASSUME NEW b \in Tabs, Refetch(b)
       PROVE  Goal
  <2>1. PICK t \in Tasks : t = at[b]
    BY <1>t
  <2>2. /\ t \in MExists /\ at' = [at EXCEPT ![b] = t]
        /\ UNCHANGED <<MExists, MBoard>>
    BY <1>11, <2>1 DEF Refetch, CopiesSound, TypeOK, MExists, MBoard
  <2>3. MCopy' = [MCopy EXCEPT ![b] = MBoard[t]]
    <3>1. \A c \in Tabs : snap'[c] = IF c = b THEN tasks[t] ELSE snap[c]
      BY <1>11, <2>1 DEF Refetch, TypeOK
    <3>2. MBoard[t] = tasks[t].pv
      BY DEF MBoard
    <3> QED BY <3>1, <3>2 DEF MCopy
  <2>4. Board!Fetch(b, t)
    BY <2>2, <2>3 DEF Board!Fetch, MExists, MBoard, MCopy
  <2> QED BY <2>4 DEF Board!Next
<1>12. ASSUME NEW b \in Tabs, NEW p \in Phase, ApprovePhase(b, p)
       PROVE  Goal
  <2> DEFINE old == snap[b].pv[p]
             new == [old EXCEPT !.status = "approved"]
             pv == Approved(snap[b].pv, p)
             sub == SubStateAfter(pv, p)
             seen == [snap[b] EXCEPT !.pv = pv, !.sub = sub]
             row == [tasks[at[b]] EXCEPT !.pv = pv, !.sub = sub]
  <2>1. PICK ok \in Reply : Update(b, row, ok)
    BY <1>12 DEF ApprovePhase, UpdatePhases
  <2>2. /\ snap' = [snap EXCEPT ![b] = seen] /\ at' = at
        /\ Reviewable(b, p)
    BY <1>12 DEF ApprovePhase
  <2>3. /\ row.pv = pv /\ row.exists = tasks[at[b]].exists /\ seen.pv = pv
    <3> HIDE DEF pv, sub
    <3> QED BY <1>t DEF Row
  <2>4. pv = [snap[b].pv EXCEPT ![p] = new]
    BY Zenon DEF Approved
  <2>5. /\ old \in Entry /\ old.status = "pending" /\ old.proof # {}
        /\ pc[b] # "closed"
    BY <1>t, <2>2 DEF Reviewable, HasProof, Idle
  <2>6. new \in Entry /\ Board!Edited(old, new)
    <3> HIDE DEF old
    <3> QED BY <2>5 DEF Entry, Board!Edited, Board!Reviewed
  <2> HIDE DEF row, new, seen, pv
  <2>7. \E r : r.pv = row.pv /\ snap' = [snap EXCEPT ![b] = r]
    BY <2>2, <2>3
  <2>8. /\ row.pv = [snap[b].pv EXCEPT ![p] = new]
        /\ Board!Edited(snap[b].pv[p], new)
    BY <2>3, <2>4, <2>6
  <2>9. Board!Next
    <3> HIDE DEF old
    <3> QED BY <2>1, <2>2, <2>3, <2>5, <2>6, <2>7, <2>8, WriteSeen
  <2> QED BY <2>9
<1>13. ASSUME NEW b \in Tabs, NEW p \in Phase, RejectPhase(b, p)
       PROVE  Goal
  <2> DEFINE old == snap[b].pv[p]
             new == [old EXCEPT !.status = "rejected"]
             pv == [snap[b].pv EXCEPT ![p].status = "rejected"]
             seen == [snap[b] EXCEPT !.pv = pv, !.sub = "in_progress"]
             row == [tasks[at[b]] EXCEPT !.pv = pv, !.sub = "in_progress"]
  <2>1. PICK ok \in Reply : Update(b, row, ok)
    BY <1>13 DEF RejectPhase, UpdatePhases
  <2>2. /\ snap' = [snap EXCEPT ![b] = seen] /\ at' = at
        /\ Reviewable(b, p)
    BY <1>13 DEF RejectPhase
  <2>3. /\ row.pv = pv /\ row.exists = tasks[at[b]].exists /\ seen.pv = pv
    <3> HIDE DEF pv
    <3> QED BY <1>t DEF Row
  <2>4. pv = [snap[b].pv EXCEPT ![p] = new]
    BY Zenon
  <2>5. /\ old \in Entry /\ old.status = "pending" /\ old.proof # {}
        /\ pc[b] # "closed"
    BY <1>t, <2>2 DEF Reviewable, HasProof, Idle
  <2>6. new \in Entry /\ Board!Edited(old, new)
    <3> HIDE DEF old
    <3> QED BY <2>5 DEF Entry, Board!Edited, Board!Reviewed
  <2> HIDE DEF row, new, seen, pv
  <2>7. \E r : r.pv = row.pv /\ snap' = [snap EXCEPT ![b] = r]
    BY <2>2, <2>3
  <2>8. /\ row.pv = [snap[b].pv EXCEPT ![p] = new]
        /\ Board!Edited(snap[b].pv[p], new)
    BY <2>3, <2>4, <2>6
  <2>9. Board!Next
    <3> HIDE DEF old
    <3> QED BY <2>1, <2>2, <2>3, <2>5, <2>6, <2>7, <2>8, WriteSeen
  <2> QED BY <2>9
<1>14. ASSUME NEW b \in Tabs, CompleteTask(b)
       PROVE  Goal
  <2> DEFINE row == [tasks[at[b]] EXCEPT !.status = "completed"]
             seen == [snap[b] EXCEPT !.status = "completed"]
  <2>1. PICK ok \in Reply : Update(b, row, ok)
    BY <1>14 DEF CompleteTask
  <2>2. snap' = [snap EXCEPT ![b] = seen] /\ at' = at
    BY <1>14 DEF CompleteTask
  <2>3. /\ row.pv = tasks[at[b]].pv /\ row.exists = tasks[at[b]].exists
        /\ seen.pv = snap[b].pv
    BY <1>t DEF Row
  <2> HIDE DEF row, seen
  <2>4. UNCHANGED MCopy
    BY <2>2, <2>3 DEF MCopy, TypeOK
  <2> QED BY <1>k, <2>1, <2>2, <2>3, <2>4
<1>15. ASSUME NEW b \in Tabs, RequestAccess(b)
       PROVE  Goal
  <2> DEFINE row == [tasks[at[b]] EXCEPT !.requested = TRUE,
                                         !.access = "pending"]
  <2>1. PICK ok \in Reply : Update(b, row, ok) /\ Unless(b, ok)
    BY <1>15 DEF RequestAccess
  <2>2. row.pv = tasks[at[b]].pv /\ row.exists = tasks[at[b]].exists
    BY <1>t DEF Row
  <2> HIDE DEF row
  <2>3. at' = at /\ (Dismissed(b) \/ UNCHANGED MCopy)
    BY <1>15, <2>1 DEF RequestAccess, Unless, MCopy
  <2> QED BY <1>k, <2>1, <2>2, <2>3
<1>16. ASSUME NEW b \in Tabs, ApproveAccess(b)
       PROVE  Goal
  <2> DEFINE row == [tasks[at[b]] EXCEPT !.access = "approved", !.locked = FALSE]
  <2>1. PICK ok \in Reply : Update(b, row, ok)
    BY <1>16 DEF ApproveAccess
  <2>2. row.pv = tasks[at[b]].pv /\ row.exists = tasks[at[b]].exists
    BY <1>t DEF Row
  <2> HIDE DEF row
  <2> QED BY <1>16, <1>k, <2>1, <2>2 DEF ApproveAccess
<1>17. ASSUME NEW b \in Tabs
       PROVE  /\ ClosedRow(tasks[at[b]]).pv = tasks[at[b]].pv
              /\ ClosedRow(tasks[at[b]]).exists = tasks[at[b]].exists
  BY <1>t DEF ClosedRow, Row
<1>18. ASSUME NEW b \in Tabs, CloseTask(b)
       PROVE  Goal
  <2>1. PICK ok \in Reply : Update(b, ClosedRow(tasks[at[b]]), ok)
    BY <1>18 DEF CloseTask
  <2> QED BY <1>18, <1>k, <1>17, <2>1 DEF CloseTask
<1>19. ASSUME NEW b \in Tabs, NEW u \in Users, ReassignTask(b, u)
       PROVE  Goal
  <2>1. PICK ok \in Reply : Update(b, ClosedRow(tasks[at[b]]), ok)
    BY <1>19 DEF ReassignTask
  <2>2. UNCHANGED <<at, MCopy>>
    BY <1>19 DEF ReassignTask, MCopy
  <2> QED BY <1>k, <1>17, <2>1, <2>2
<1>20. ASSUME NEW b \in Tabs, NEW t \in Tasks, InsertReassigned(b, t)
       PROVE  Goal
  <2> DEFINE row == ReassignedRow(snap[b], target[b])
  <2>1. PICK ok \in Reply :
           tasks' = IF ok THEN [tasks EXCEPT ![t] = row] ELSE tasks
    BY <1>20 DEF InsertReassigned
  <2>2. ~tasks[t].exists /\ Dismissed(b) /\ UNCHANGED at
    BY <1>20 DEF InsertReassigned
  <2>3. CASE ~ok
    <3>1. UNCHANGED <<MExists, MBoard>>
      BY <2>1, <2>3 DEF MExists, MBoard
    <3> QED BY <2>2, <3>1, ForgetSeen
  <2>4. CASE ok
    <3>1. row.exists = TRUE /\ row.pv = Board!Empty
      BY DEF ReassignedRow, BlankRow, NoEntry, Board!Empty, Board!NoEntry
    <3>2. \A s \in Tasks : tasks'[s] = IF s = t THEN row ELSE tasks[s]
      <4> HIDE DEF row
      <4> QED BY <2>1, <2>4 DEF TypeOK
    <3> HIDE DEF row
    <3>3. MExists' = MExists \cup {t} /\ t \notin MExists
      BY <2>2, <3>1, <3>2 DEF MExists
    <3>4. MBoard' = [MBoard EXCEPT ![t] = Board!Empty]
      <4>1. \A s \in Tasks : tasks'[s].pv = IF s = t THEN Board!Empty
                                            ELSE tasks[s].pv
        BY <3>1, <3>2
      <4> QED BY <4>1 DEF MBoard
    <3>5. \E asked \in SUBSET Phase :
             MBoard' = [MBoard EXCEPT ![t] =
                          [p \in Phase |-> IF p \in asked
                                           THEN [status |-> "pending", proof |-> {}]
                                           ELSE Board!NoEntry]]
      <4>1. {} \in SUBSET Phase
        OBVIOUS
      <4>2. Board!Empty = [p \in Phase |-> IF p \in {}
                                           THEN [status |-> "pending", proof |-> {}]
                                           ELSE Board!NoEntry]
        BY DEF Board!Empty
      <4> QED BY <3>4, <4>1, <4>2
    <3>6. MCopy' = [MCopy EXCEPT ![b] = Board!Empty]
      BY <2>2, DismissSeen
    <3>7. Board!Create(t)
      BY <2>2, <3>3, <3>5, <3>6
         DEF Board!Create, Board!Forgets, MExists, MBoard, MCopy
    <3> QED BY <3>7 DEF Board!Next
  <2> QED BY <2>3, <2>4
<1>21. ASSUME NEW b \in Tabs, ArchiveTask(b)
       PROVE  Goal
  <2> DEFINE row == [tasks[at[b]] EXCEPT !.status = "archived"]
  <2>1. PICK ok \in Reply : Update(b, row, ok)
    BY <1>21 DEF ArchiveTask
  <2>2. row.pv = tasks[at[b]].pv /\ row.exists = tasks[at[b]].exists
    BY <1>t DEF Row
  <2> HIDE DEF row
  <2> QED BY <1>21, <1>k, <2>1, <2>2 DEF ArchiveTask
<1>22. CASE UNCHANGED vars
  BY <1>22, <1>u DEF vars
<1>23. ASSUME NEW b \in Tabs, NEW p \in Phase, NEW f \in Files,
              DeleteProofFile(b, p, f)
       PROVE  Goal
  BY <1>23, <1>u DEF DeleteProofFile
<1>24. Goal
  BY <1>1, <1>2, <1>3, <1>4, <1>5, <1>6, <1>7, <1>8, <1>9, <1>10, <1>11,
     <1>12, <1>13, <1>14, <1>15, <1>16, <1>18, <1>19, <1>20, <1>21, <1>22, <1>23
     DEF Next, Continue
<1> QED BY <1>24 DEF Goal

\* Seen through phase_validations, the handlers keep PhaseBoard's contract for
\* every number of tabs, tasks, phases and files: whatever a tab writes is its
\* copy of the open task with one phase edited (workflow.js 93-96, 303-310).
THEOREM BoardImplemented == Spec => ImplementsBoard
<1>1. Init => Board!Init
  BY BoardInit
<1>2. IInv /\ [Next]_vars => [Board!Next]_Board!vars
  BY BoardStep DEF IInv
<1> QED BY <1>1, <1>2, InvCorrect, PTL
        DEF Spec, ImplementsBoard, Board!Spec
=============================================================================
