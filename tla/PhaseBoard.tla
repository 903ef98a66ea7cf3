----------------------------- MODULE PhaseBoard -----------------------------
(***************************************************************************)
(* What the phase_validations column promises although no handler locks a  *)
(* row: a board of entries per task, edited through copies.  A tab fetches *)
(* a task, and a write replaces the whole board of that task by the tab's  *)
(* copy with one entry changed, in one of three ways.  The write may be    *)
(* lost, and the tab may keep its old copy or take the new one.            *)
(***************************************************************************)
CONSTANTS Tasks, Tabs, Phases, Items, Files

VARIABLES
    exists,     \* the tasks created so far
    board,      \* the entries of each task
    of,         \* the task each tab has open
    copy        \* the entries each tab has, empty when it has none open

vars == <<exists, board, of, copy>>

Entry == [status : {"none", "pending", "approved", "rejected"},
          proof : SUBSET Items]
NoEntry == [status |-> "none", proof |-> {}]
Empty == [p \in Phases |-> NoEntry]

\* What may become of an entry: proof is submitted, which asks for a review;
\* pending proof is reviewed; a file is withdrawn, the last one with its entry.
Submitted(new) == new.status = "pending" /\ new.proof # {}
Reviewed(old, new) ==
    /\ old.status = "pending" /\ old.proof # {}
    /\ new.status \in {"approved", "rejected"} /\ new.proof = old.proof
Withdrawn(old, new) ==
    \E f \in Files \cap old.proof :
        new = IF old.proof = {f} THEN NoEntry
              ELSE [old EXCEPT !.proof = @ \ {f}]
Edited(old, new) ==
    Submitted(new) \/ Reviewed(old, new) \/ Withdrawn(old, new)

Forgets == \/ UNCHANGED copy
           \/ \E b \in Tabs : copy' = [copy EXCEPT ![b] = Empty]

Init ==
    /\ exists = {}
    /\ board = [t \in Tasks |-> Empty]
    /\ of \in [Tabs -> Tasks]
    /\ copy = [b \in Tabs |-> Empty]

\* A task is created with no proof on its board.
Create(t) ==
    /\ t \notin exists
    /\ exists' = exists \cup {t}
    /\ \E asked \in SUBSET Phases :
          board' = [board EXCEPT ![t] =
                      [p \in Phases |->
                         IF p \in asked THEN [status |-> "pending", proof |-> {}]
                         ELSE NoEntry]]
    /\ Forgets
    /\ UNCHANGED of

Fetch(b, t) ==
    /\ t \in exists
    /\ of' = [of EXCEPT ![b] = t]
    /\ copy' = [copy EXCEPT ![b] = board[t]]
    /\ UNCHANGED <<exists, board>>

Forget(b) ==
    /\ copy' = [copy EXCEPT ![b] = Empty]
    /\ UNCHANGED <<exists, board, of>>

Write(b, p, new) ==
    LET edited == [copy[b] EXCEPT ![p] = new]
    IN
    /\ of[b] \in exists
    /\ Edited(copy[b][p], new)
    /\ board' = [board EXCEPT ![of[b]] = edited] \/ UNCHANGED board
    /\ copy' = [copy EXCEPT ![b] = edited] \/ UNCHANGED copy
    /\ UNCHANGED <<exists, of>>

Next ==
    \/ \E t \in Tasks : Create(t)
    \/ \E b \in Tabs, t \in Tasks : Fetch(b, t)
    \/ \E b \in Tabs : Forget(b)
    \/ \E b \in Tabs, p \in Phases, new \in Entry : Write(b, p, new)

Spec == Init /\ [][Next]_vars
=============================================================================
