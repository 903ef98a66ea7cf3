---------------------------- MODULE TaskWorkflow ----------------------------
(***************************************************************************)
(* Talent Ops tasks: proof submission, review of phases, access requests,  *)
(* closing and reassignment (services/modules/task/workflow.js and         *)
(* mutations.js, driven by AllTasksView.jsx, MyTasksPage.jsx and           *)
(* TaskDetailOverlay.jsx).                                                 *)
(*                                                                         *)
(* There is no server logic: every handler runs in a browser tab, computes *)
(* the new columns from the row the tab has open, which may be old, and    *)
(* sends an UPDATE by id.  One action is the code between two awaits whose *)
(* result matters, so other tabs act between the calls of a handler.  The  *)
(* files of a proof are in a storage bucket that no transaction joins to   *)
(* the table: a row only names them.                                       *)
(***************************************************************************)
EXTENDS Integers, FiniteSets

CONSTANTS
    Tasks,          \* ids the tasks table can hand out
    Users,          \* people a task can be assigned to
    Nobody,         \* assigned_to is null
    Reviewers,      \* users whose role shows the review controls
    Tabs,           \* browser tabs
    UserOf,         \* the user signed in to each tab
    View,           \* the page a tab shows: "all_tasks" or "my_tasks"
    NumPhases,      \* LIFECYCLE_PHASES.length (5 in the code)
    Files,          \* files that can be uploaded as proof
    Text,           \* the text of a proof
    PhaseChoices,   \* the sets of required phases a task is created with
    ModalOpens,     \* whether some control opens the proof modal of
                    \* AllTasksView; none does, the service is still exported
    Lossy,          \* whether a write may be refused by the database
    MaxHandlers     \* bound: handlers that write, over a behaviour

Phase == 1 .. NumPhases
Items == Files \cup {Text}

ASSUME PhasesAssumption == NumPhases \in Nat /\ NumPhases >= 3
ASSUME TasksAssumption == Tasks # {} /\ MaxHandlers \in Nat
ASSUME TabsAssumption ==
    /\ UserOf \in [Tabs -> Users]
    /\ View \in [Tabs -> {"all_tasks", "my_tasks"}]
    /\ Reviewers \subseteq Users
    /\ ModalOpens \in BOOLEAN /\ Lossy \in BOOLEAN
    /\ PhaseChoices \subseteq (SUBSET Phase) \ {{}}
ASSUME ItemsAssumption == Text \notin Files

\* One key of phase_validations; "none" is a missing key.
Entry == [status : {"none", "pending", "approved", "rejected"},
          proof : SUBSET Items]

\* A row of the tasks table, the columns the workflow reads or writes.
Row == [exists   : BOOLEAN,
        status   : {"pending", "in_progress", "completed", "archived"},
        life     : Phase,
        sub      : {"in_progress", "pending_validation"},
        pv       : [Phase -> Entry],
        active   : SUBSET Phase,
        assignee : Users \cup {Nobody},
        requested: BOOLEAN,
        access   : {"none", "pending", "approved", "rejected"},
        locked   : BOOLEAN,
        closed   : BOOLEAN]

NoEntry == [status |-> "none", proof |-> {}]

\* What an insert leaves in the columns it does not mention.
BlankRow == [exists |-> FALSE, status |-> "pending", life |-> 1,
             sub |-> "in_progress", pv |-> [p \in Phase |-> NoEntry],
             active |-> {}, assignee |-> Nobody, requested |-> FALSE,
             access |-> "none", locked |-> FALSE, closed |-> FALSE]

VARIABLES
    tasks,      \* the tasks table
    subs,       \* number of task_submissions rows of a task and user
    overdue,    \* the tasks whose due date and time have passed
    pc,         \* what each tab is doing
    at,         \* the task each tab has open
    snap,       \* the row each tab has open, as it was when fetched
    target,     \* the new assignee of a reassignment in progress
    bucket,     \* the files of each task that the task-proofs bucket stores
    removing,   \* the phase and file of a deletion in progress
    home,       \* history: the phase each file was uploaded for, 0 if none
    torn,       \* history: the tasks whose row was left naming lost files, by
                \* a deletion refused or by names an old copy brought back
    decided,    \* history: the phases a reviewer has approved, per task
    started     \* number of writing handlers started, for the bound

tabVars == <<pc, at, snap, target>>
fileVars == <<bucket, removing, home, torn>>
vars == <<tasks, subs, overdue, pc, at, snap, target, decided, started, fileVars>>

(***************************************************************************)
(* Computations on a row.                                                  *)
(***************************************************************************)
First(S) == CHOOSE p \in S : \A q \in S : p <= q
Last(S)  == CHOOSE p \in S : \A q \in S : q <= p

HasProof(row, p) == row.pv[p].proof # {}

\* Phases the completion check looks at: active_phases, or all when absent.
LastPhase(row) == Last(IF row.active = {} THEN Phase ELSE row.active)
LastApproved_AnyPhase(row) == \E p \in Phase : row.pv[p].status = "approved"
LastApproved(row) == row.pv[LastPhase(row)].status = "approved"

\* The lock every submission handler computes from its copy of the row.
IsLocked(t, row) ==
    /\ row.locked \/ t \in overdue
    /\ row.status # "completed"
    /\ row.access # "approved"

\* submitTaskProof: probe from the next phase to the one before the last.
ServiceNextPhase_PastTheEnd(row) ==
    LET unproved == {p \in row.life + 1 .. NumPhases - 1 : ~HasProof(row, p)}
    IN  IF unproved # {} THEN First(unproved) ELSE row.life + 1
ServiceNextPhase(row) ==
    LET unproved == {p \in row.life + 1 .. NumPhases - 1 : ~HasProof(row, p)}
    IN  IF row.life >= NumPhases - 1 THEN row.life
        ELSE IF unproved # {} THEN First(unproved) ELSE NumPhases

\* The overlay submits for the current phase if active, else the first active
\* one, and moves to the next active phase.
Active(row) == IF row.active = {} THEN Phase ELSE row.active
OverlayPhase(row) ==
    IF row.life \in Active(row) THEN row.life ELSE First(Active(row))
OverlayNextPhase(row) ==
    LET later == {p \in Active(row) : p > OverlayPhase(row)}
    IN  IF later # {} THEN First(later) ELSE OverlayPhase(row)

\* A new file replaces proof_url; text replaces proof_text.
ServiceProof_DropsText(old, new) ==
    IF new \cap Files # {} THEN (old \ Files) \cup new ELSE old
ServiceProof(old, new) ==
    IF new \cap Files # {} THEN (old \ Files) \cup new ELSE old \cup new

\* One key approved; the key left when file f of its proof is deleted.
Approved_ThroughPhase(pv, p) ==
    [q \in Phase |-> IF q <= p /\ pv[q].proof # {}
                     THEN [pv[q] EXCEPT !.status = "approved"] ELSE pv[q]]
Approved(pv, p) == [pv EXCEPT ![p].status = "approved"]

WithoutFile_KeepsEntry(entry, f) == [entry EXCEPT !.proof = @ \ {f}]
WithoutFile(entry, f) ==
    IF entry.proof = {f} THEN NoEntry ELSE [entry EXCEPT !.proof = @ \ {f}]

\* sub_state after an approval: is any phase but p still pending?
SubStateAfter(pv, p) ==
    IF \E q \in Phase \ {p} : pv[q].status = "pending"
    THEN "pending_validation" ELSE "in_progress"

\* The database's answer to a write, and an UPDATE by id: it names the columns
\* it sets, `row` takes the others from the row as it is now.
Reply == IF Lossy THEN BOOLEAN ELSE {TRUE}
Update(b, row, ok) ==
    tasks' = IF ok THEN [tasks EXCEPT ![at[b]] = row] ELSE tasks

\* An UPDATE of phase_validations: the whole column of the tab's copy goes out,
\* and may bring back names of files that the row no longer has.
BringsBack(b) ==
    \E p \in Phase : ~(snap[b].pv[p].proof \subseteq tasks[at[b]].pv[p].proof)
UpdatePhases(b, row, ok) ==
    /\ Update(b, row, ok)
    /\ torn' = IF ok /\ BringsBack(b) THEN torn \cup {at[b]} ELSE torn

\* Every upload has a name of its own (Date.now()) and comes before the write
\* of the row, whose refusal leaves the file stored.
Upload(b, p, items) ==
    /\ \A f \in items \cap Files : home[at[b]][f] = 0
    /\ home' = [home EXCEPT ![at[b]] =
                  [f \in Files |-> IF f \in items THEN p ELSE home[at[b]][f]]]
    /\ bucket' = [bucket EXCEPT ![at[b]] = @ \cup (items \cap Files)]

Start == started < MaxHandlers /\ started' = started + 1
Idle(b) == pc[b] = "open"
TeamView(b) == View[b] = "all_tasks"

\* The modal or overlay of a tab is dismissed, with its copy of the row.
Dismissed(b) ==
    /\ pc' = [pc EXCEPT ![b] = "closed"]
    /\ snap' = [snap EXCEPT ![b] = BlankRow]
Unless(b, ok) ==
    IF ok THEN Dismissed(b) ELSE pc' = [pc EXCEPT ![b] = "open"] /\ UNCHANGED snap

\* Ids left once every reassignment in progress has taken one (a bound).
SpareId == Cardinality({t \in Tasks : ~tasks[t].exists})
             > Cardinality({b \in Tabs : pc[b] = "reassign"})

(***************************************************************************)
(* Opening and closing a task in a tab; time; creation.                    *)
(***************************************************************************)
\* MyTasksPage lists the user's own tasks, AllTasksView the whole project's.
Open(b, t) ==
    /\ pc[b] = "closed"
    /\ tasks[t].exists
    /\ TeamView(b) \/ tasks[t].assignee = UserOf[b]
    /\ pc' = [pc EXCEPT ![b] = "open"]
    /\ at' = [at EXCEPT ![b] = t]
    /\ snap' = [snap EXCEPT ![b] = tasks[t]]
    /\ UNCHANGED <<tasks, subs, overdue, target, decided, started, fileVars>>

Close(b) ==
    /\ Idle(b)
    /\ Dismissed(b)
    /\ UNCHANGED <<tasks, subs, overdue, at, target, decided, started, fileVars>>

DueDatePasses(t) ==
    /\ tasks[t].exists /\ t \notin overdue
    /\ overdue' = overdue \cup {t}
    /\ UNCHANGED <<tasks, subs, tabVars, decided, started, fileVars>>

\* AddTaskModal marks every required phase pending at once, with no proof.
CreateTask(t, u, required) ==
    /\ ~tasks[t].exists /\ SpareId
    /\ Start
    /\ tasks' = [tasks EXCEPT ![t] =
          [BlankRow EXCEPT
              !.exists = TRUE,
              !.assignee = u,
              !.active = required,
              !.pv = [p \in Phase |->
                        IF p \in required
                        THEN [status |-> "pending", proof |-> {}]
                        ELSE NoEntry]]]
    /\ UNCHANGED <<subs, overdue, tabVars, decided, fileVars>>

(***************************************************************************)
(* Proof submission through taskService.submitTaskProof.                   *)
(***************************************************************************)
SubmitProof(b, items) ==
    LET row == snap[b]
        next == ServiceNextPhase(row)
        pv == [row.pv EXCEPT ![row.life] =
                 [status |-> "pending",
                  proof |-> ServiceProof(row.pv[row.life].proof, items)]]
        now == [tasks[at[b]] EXCEPT !.pv = pv]
    IN
    /\ Idle(b) /\ TeamView(b) /\ ModalOpens
    /\ ~IsLocked(at[b], row)
    /\ Start
    /\ items # {} /\ Cardinality(items \cap Files) <= 1
    /\ Upload(b, row.life, items)
    /\ \E ok \in Reply :
          /\ UpdatePhases(b, IF next = row.life THEN now
                             ELSE [now EXCEPT !.life = next, !.sub = "in_progress"],
                          ok)
          /\ pc' = [pc EXCEPT ![b] = IF ok THEN "lookup" ELSE "open"]
    /\ UNCHANGED <<subs, overdue, at, snap, target, decided, removing>>

\* .single() answers a row only when exactly one matches; its error is dropped.
LookupSubmission(b) ==
    /\ pc[b] = "lookup"
    /\ pc' = [pc EXCEPT ![b] =
                IF subs[at[b]][UserOf[b]] = 1 THEN "resubmit" ELSE "record"]
    /\ UNCHANGED <<tasks, subs, overdue, at, snap, target, decided, started, fileVars>>

\* Update or insert of the submission; a refusal leaves the modal open.
UpdateSubmission(b) ==
    /\ pc[b] = "resubmit"
    /\ \E ok \in Reply : Unless(b, ok)
    /\ UNCHANGED <<tasks, subs, overdue, at, target, decided, started, fileVars>>

InsertSubmission(b) ==
    /\ pc[b] = "record"
    /\ \E ok \in Reply :
          /\ Unless(b, ok)
          /\ subs' = IF ok THEN [subs EXCEPT ![at[b]][UserOf[b]] = @ + 1]
                     ELSE subs
    /\ UNCHANGED <<tasks, overdue, at, target, decided, started, fileVars>>

(***************************************************************************)
(* The task overlay: submission and deletion of a proof file.  The page    *)
(* refetches after both; only MyTasksPage refreshes the row that is open.  *)
(***************************************************************************)
AfterOverlayWrite(b, ok) ==
    pc' = [pc EXCEPT ![b] =
             IF ok /\ View[b] = "my_tasks" THEN "refetch" ELSE "open"]

OverlaySubmit(b, items) ==
    LET row == snap[b]
        cur == OverlayPhase(row)
        next == OverlayNextPhase(row)
        pv == [row.pv EXCEPT ![cur] =
                 [status |-> "pending", proof |-> row.pv[cur].proof \cup items]]
    IN
    /\ Idle(b) /\ UserOf[b] = row.assignee
    /\ items # {}
    /\ Start
    /\ Upload(b, cur, items)
    /\ \E ok \in Reply :
          /\ UpdatePhases(b, [tasks[at[b]] EXCEPT
                                !.sub = IF next # cur THEN "in_progress"
                                        ELSE "pending_validation",
                                !.status = "in_progress",
                                !.life = next,
                                !.pv = pv], ok)
          /\ AfterOverlayWrite(b, ok)
    /\ UNCHANGED <<subs, overdue, at, snap, target, decided, removing>>

\* handleDeleteProof deletes the file first. Storage may keep it (a policy, a
\* name that its URL spells otherwise): the answer is not looked at.
DeleteProofFile(b, p, f) ==
    /\ Idle(b) /\ f \in snap[b].pv[p].proof
    /\ Start
    /\ \E gone \in BOOLEAN :
          bucket' = IF gone THEN [bucket EXCEPT ![at[b]] = @ \ {f}] ELSE bucket
    /\ removing' = [removing EXCEPT ![b] = <<p, f>>]
    /\ pc' = [pc EXCEPT ![b] = "delete"]
    /\ UNCHANGED <<tasks, subs, overdue, at, snap, target, decided, home, torn>>

\* Then it updates the row, from the copy it had before.
DeleteProofEntry(b, p, f) ==
    LET pv == [snap[b].pv EXCEPT ![p] = WithoutFile(@, f)]
    IN
    /\ pc[b] = "delete" /\ removing[b] = <<p, f>>
    /\ \E ok \in Reply :
          /\ Update(b, [tasks[at[b]] EXCEPT !.pv = pv], ok)
          /\ AfterOverlayWrite(b, ok)
          /\ torn' = IF (IF ok THEN BringsBack(b) ELSE f \notin bucket[at[b]])
                     THEN torn \cup {at[b]} ELSE torn
    /\ removing' = [removing EXCEPT ![b] = <<>>]
    /\ UNCHANGED <<subs, overdue, at, snap, target, decided, started, bucket, home>>

Refetch(b) ==
    /\ pc[b] = "refetch"
    /\ pc' = [pc EXCEPT ![b] = "open"]
    /\ snap' = [snap EXCEPT ![b] = tasks[at[b]]]
    /\ UNCHANGED <<tasks, subs, overdue, at, target, decided, started, fileVars>>

(***************************************************************************)
(* Review of a phase.  The overlay offers it for pending phases with proof *)
(* in its copy; answers to the writes are not looked at.                   *)
(***************************************************************************)
Reviewable_NoProof(b, p) ==
    /\ Idle(b) /\ UserOf[b] \in Reviewers /\ TeamView(b)
    /\ snap[b].pv[p].status = "pending"
Reviewable(b, p) ==
    /\ Idle(b) /\ UserOf[b] \in Reviewers /\ TeamView(b)
    /\ snap[b].pv[p].status = "pending" /\ HasProof(snap[b], p)

ApprovePhase(b, p) ==
    LET row == snap[b]
        pv == Approved(row.pv, p)
        sub == SubStateAfter(pv, p)
        seen == [row EXCEPT !.pv = pv, !.sub = sub]
        finish == LastApproved(seen) /\ row.status # "completed"
    IN
    /\ Reviewable(b, p)
    /\ Start
    /\ \E ok \in Reply :
          UpdatePhases(b, [tasks[at[b]] EXCEPT !.pv = pv, !.sub = sub], ok)
    /\ snap' = [snap EXCEPT ![b] = seen]
    /\ pc' = [pc EXCEPT ![b] = IF finish THEN "complete" ELSE "open"]
    /\ decided' = [decided EXCEPT ![at[b]] = @ \cup {p}]
    /\ UNCHANGED <<subs, overdue, at, target, bucket, removing, home>>

\* The second update of approveTaskPhase.
CompleteTask(b) ==
    /\ pc[b] = "complete"
    /\ \E ok \in Reply :
          Update(b, [tasks[at[b]] EXCEPT !.status = "completed"], ok)
    /\ snap' = [snap EXCEPT ![b].status = "completed"]
    /\ pc' = [pc EXCEPT ![b] = "open"]
    /\ UNCHANGED <<subs, overdue, at, target, decided, started, fileVars>>

RejectPhase(b, p) ==
    LET pv == [snap[b].pv EXCEPT ![p].status = "rejected"]
    IN
    /\ Reviewable(b, p)
    /\ Start
    /\ \E ok \in Reply :
          UpdatePhases(b, [tasks[at[b]] EXCEPT !.pv = pv, !.sub = "in_progress"], ok)
    /\ snap' = [snap EXCEPT ![b].pv = pv, ![b].sub = "in_progress"]
    /\ UNCHANGED <<subs, overdue, pc, at, target, decided, bucket, removing, home>>

(***************************************************************************)
(* Access requests on a locked task, and their review.                     *)
(***************************************************************************)
\* The list offers it on the user's own tasks until a request is pending, the
\* overlay of AllTasksView to anyone, on a task never requested before.
MayRequest(b) ==
    \/ /\ UserOf[b] = snap[b].assignee
       /\ ~(snap[b].requested /\ snap[b].access = "pending")
    \/ TeamView(b) /\ ~snap[b].requested

RequestAccess(b) ==
    /\ Idle(b) /\ IsLocked(at[b], snap[b])
    /\ MayRequest(b)
    /\ Start
    /\ \E ok \in Reply :
          /\ Update(b, [tasks[at[b]] EXCEPT !.requested = TRUE,
                                            !.access = "pending"], ok)
          /\ Unless(b, ok)
    /\ UNCHANGED <<subs, overdue, at, target, decided, fileVars>>

ReviewAsked(b) ==
    /\ Idle(b) /\ UserOf[b] \in Reviewers /\ TeamView(b)
    /\ snap[b].requested /\ snap[b].access = "pending"
    /\ Start

ApproveAccess(b) ==
    /\ ReviewAsked(b)
    /\ \E ok \in Reply :
          Update(b, [tasks[at[b]] EXCEPT !.access = "approved",
                                         !.locked = FALSE], ok)
    /\ Dismissed(b)
    /\ UNCHANGED <<subs, overdue, at, target, decided, fileVars>>

ClosedRow_KeepsAccess(row) ==
    [row EXCEPT !.status = "completed", !.closed = TRUE, !.locked = TRUE]
ClosedRow(row) == [row EXCEPT !.status = "completed", !.closed = TRUE,
                              !.access = "rejected", !.locked = TRUE]

CloseTask(b) ==
    /\ ReviewAsked(b)
    /\ \E ok \in Reply : Update(b, ClosedRow(tasks[at[b]]), ok)
    /\ Dismissed(b)
    /\ UNCHANGED <<subs, overdue, at, target, decided, fileVars>>

\* The columns of a reassigned task, taken from the copy of the old one.
ReassignedRow_Spread(row, u) ==
    [row EXCEPT !.assignee = u, !.sub = "pending_validation",
                !.status = "pending", !.life = 1, !.access = "approved"]
ReassignedRow(row, u) ==
    [BlankRow EXCEPT !.exists = TRUE, !.assignee = u,
                     !.sub = "pending_validation", !.active = Active(row),
                     !.access = "approved"]

\* Reassignment closes the old task, then inserts a copy for the new assignee,
\* due when the old one was; neither answer is looked at.
ReassignTask(b, u) ==
    /\ ReviewAsked(b)
    /\ u # snap[b].assignee /\ SpareId
    /\ \E ok \in Reply : Update(b, ClosedRow(tasks[at[b]]), ok)
    /\ target' = [target EXCEPT ![b] = u]
    /\ pc' = [pc EXCEPT ![b] = "reassign"]
    /\ UNCHANGED <<subs, overdue, at, snap, decided, fileVars>>

InsertReassigned(b, t) ==
    /\ pc[b] = "reassign"
    /\ ~tasks[t].exists
    /\ \E ok \in Reply :
          /\ tasks' = IF ok
                      THEN [tasks EXCEPT ![t] = ReassignedRow(snap[b], target[b])]
                      ELSE tasks
          /\ overdue' = IF ok /\ at[b] \in overdue THEN overdue \cup {t}
                        ELSE overdue
    /\ target' = [target EXCEPT ![b] = Nobody]
    /\ Dismissed(b)
    /\ UNCHANGED <<subs, at, decided, started, fileVars>>

ArchiveTask(b) ==
    /\ Idle(b) /\ TeamView(b) /\ snap[b].status # "archived"
    /\ Start
    /\ \E ok \in Reply :
          Update(b, [tasks[at[b]] EXCEPT !.status = "archived"], ok)
    /\ Dismissed(b)
    /\ UNCHANGED <<subs, overdue, at, target, decided, fileVars>>

(***************************************************************************)
Init ==
    /\ tasks = [t \in Tasks |-> BlankRow]
    /\ subs = [t \in Tasks |-> [u \in Users |-> 0]]
    /\ overdue = {}
    /\ pc = [b \in Tabs |-> "closed"]
    /\ at = [b \in Tabs |-> CHOOSE t \in Tasks : TRUE]
    /\ snap = [b \in Tabs |-> BlankRow]
    /\ target = [b \in Tabs |-> Nobody]
    /\ bucket = [t \in Tasks |-> {}]
    /\ removing = [b \in Tabs |-> <<>>]
    /\ home = [t \in Tasks |-> [f \in Files |-> 0]]
    /\ torn = {}
    /\ decided = [t \in Tasks |-> {}]
    /\ started = 0

\* The step a handler takes when its pending call answers.
Continue(b) ==
    \/ LookupSubmission(b)
    \/ UpdateSubmission(b)
    \/ InsertSubmission(b)
    \/ Refetch(b)
    \/ CompleteTask(b)
    \/ \E t \in Tasks : InsertReassigned(b, t)
    \/ \E p \in Phase, f \in Files : DeleteProofEntry(b, p, f)

Next ==
    \/ \E t \in Tasks, u \in Users \cup {Nobody}, required \in PhaseChoices :
          CreateTask(t, u, required)
    \/ \E t \in Tasks : DueDatePasses(t)
    \/ \E b \in Tabs :
          \/ \E t \in Tasks : Open(b, t)
          \/ Close(b)
          \/ \E items \in SUBSET Items : SubmitProof(b, items)
          \/ \E items \in SUBSET Items : OverlaySubmit(b, items)
          \/ \E p \in Phase, f \in Files : DeleteProofFile(b, p, f)
          \/ \E p \in Phase : ApprovePhase(b, p)
          \/ \E p \in Phase : RejectPhase(b, p)
          \/ RequestAccess(b)
          \/ ApproveAccess(b)
          \/ CloseTask(b)
          \/ \E u \in Users : ReassignTask(b, u)
          \/ ArchiveTask(b)
          \/ Continue(b)

Spec == Init /\ [][Next]_vars

(***************************************************************************)
(* Properties.                                                             *)
(***************************************************************************)
\* What a tab is doing: nothing, a task open, or between two calls.
Stages == {"closed", "open", "lookup", "resubmit", "record", "refetch",
           "complete", "reassign", "delete"}

TypeOK ==
    /\ tasks \in [Tasks -> Row]
    /\ subs \in [Tasks -> [Users -> Nat]]
    /\ overdue \subseteq Tasks
    /\ pc \in [Tabs -> Stages]
    /\ at \in [Tabs -> Tasks]
    /\ snap \in [Tabs -> Row]
    /\ target \in [Tabs -> Users \cup {Nobody}]
    /\ bucket \in [Tasks -> SUBSET Files]
    /\ removing \in [Tabs -> (Phase \X Files) \cup {<<>>}]
    /\ home \in [Tasks -> [Files -> 0 .. NumPhases]]
    /\ torn \subseteq Tasks
    /\ decided \in [Tasks -> SUBSET Phase]
    /\ started \in Nat

\* What a row names as proof is there to be looked at: it is text, or a file
\* still stored, or one whose deletion is about to update the row.
Kept(t, i) ==
    \/ i = Text \/ i \in bucket[t]
    \/ \E b \in Tabs : pc[b] = "delete" /\ at[b] = t /\ removing[b][2] = i

\* However old the copies the tabs write back, a phase the table shows as
\* approved or rejected names proof (TaskDetailOverlay.jsx 1167, 1264, 472-474).
\* The proof is there too, the file of a deletion under way excepted, unless a
\* refused write left the row naming the file deleted before it (455, 477), or
\* an old copy brought back names the row no longer had.
ReviewedHasProof ==
    \A t \in Tasks, p \in Phase :
        tasks[t].pv[p].status \in {"approved", "rejected"} =>
            /\ HasProof(tasks[t], p)
            /\ \A i \in tasks[t].pv[p].proof : Kept(t, i) \/ t \in torn

\* No submission, deletion, reassignment or stale write forges an approval: a
\* phase the table shows as approved was approved by a reviewer at some time.
ApprovedWasDecided ==
    \A t \in Tasks, p \in Phase :
        tasks[t].pv[p].status = "approved" => p \in decided[t]

\* A task is completed only because a manager closed it or because a reviewer
\* approved its last required phase (workflow.js 188-190, 227-229, 328-330).
CompletionJustified ==
    \A t \in Tasks :
        tasks[t].status = "completed" =>
            tasks[t].closed \/ LastPhase(tasks[t]) \in decided[t]

\* Whatever order two managers' reviews and the employee's requests land in,
\* approved access never meets a locked row (workflow.js 172-175, 188-194).
AccessUnlocks ==
    \A t \in Tasks : tasks[t].access = "approved" => ~tasks[t].locked

\* A handler writes whole columns from its copy, so an invariant of the table
\* has to hold of every copy, up to the moment its last write lands: reviewed
\* phases have proof and approved ones were decided, the phases asked are still
\* the task's, and a tab about to complete the task saw the last one approved.
CopiesSound ==
    \A b \in Tabs :
        /\ \A p \in Phase :
              /\ snap[b].pv[p].status \in {"approved", "rejected"}
                    => HasProof(snap[b], p)
              /\ snap[b].pv[p].status = "approved" => p \in decided[at[b]]
        /\ pc[b] # "closed" => /\ tasks[at[b]].exists
                               /\ snap[b].active = tasks[at[b]].active
        /\ pc[b] = "complete" => LastPhase(snap[b]) \in decided[at[b]]

\* A step that moves the lifecycle brings the proof that moved it, pending, at
\* or before the new phase: lifecycle_state and phase_validations go out in one
\* write (workflow.js 98-112), so no stale copy moves the one without the other.
AdvanceCarriesProof ==
    [][\A t \in Tasks :
          tasks[t].exists /\ tasks'[t].life # tasks[t].life =>
             \E p \in 1 .. tasks'[t].life :
                 /\ tasks'[t].pv[p].status = "pending"
                 /\ tasks'[t].pv[p].proof # {}]_vars

\* Reassignment hands the work over whole: the row it inserts asks the same
\* phases as the row it closes, whose active_phases no stale write altered.
Inherits(old, new) ==
    /\ Active(new) = Active(old)
    /\ new.status = "pending" /\ new.life = 1
    /\ new.access = "approved" /\ ~new.locked
    /\ \A p \in Phase : new.pv[p] = NoEntry
ReassignmentInherits ==
    [][\A b \in Tabs, t \in Tasks :
          /\ pc[b] = "reassign" /\ pc'[b] = "closed"
          /\ ~tasks[t].exists /\ tasks'[t].exists
          => Inherits(tasks[at[b]], tasks'[t])]_vars

\* Seen through phase_validations alone, the handlers keep the contract of
\* PhaseBoard: whatever else they do, a write puts back the tab's copy of the
\* task it has open with one phase submitted, reviewed or with a file deleted
\* (workflow.js 93-96, 303-310, 340-347; TaskDetailOverlay.jsx 376-384, 461-474).
Board == INSTANCE PhaseBoard WITH
    Phases <- Phase,
    exists <- {t \in Tasks : tasks[t].exists},
    board <- [t \in Tasks |-> tasks[t].pv],
    of <- at,
    copy <- [b \in Tabs |-> snap[b].pv]
ImplementsBoard == Board!Spec

(***************************************************************************)
(* Claims of the documentation and of comments that the code does not keep *)
(***************************************************************************)
\* docs/SYNC_ASYNC_ANALYSIS.md:136, of phase approval: "Prevents race
\* conditions in state machine".  An approval leaves the others standing.
ApprovalsStand ==
    [][(\E b \in Tabs, p \in Phase : ApprovePhase(b, p)) =>
          \A t \in Tasks, p \in Phase :
              tasks[t].pv[p].status = "approved"
                  => tasks'[t].pv[p].status = "approved"]_vars
=============================================================================
