SPECIFICATION Spec
CONSTANTS
    t1 = t1  t2 = t2  emp = emp  mgr = mgr
    e1 = e1  m1 = m1  m2 = m2
    Users = {emp, mgr}
    Nobody = Nobody
    Reviewers = {mgr}
    Text = Text
    NumPhases = 3
    Tasks = {t1}
    Tabs = {e1, m1, m2}
    UserOf <- TrioUserOf
    View <- TrioView
    PhaseChoices <- AllPhases
    Files = {f1}
    ModalOpens = FALSE
    Lossy = FALSE
    MaxHandlers = 5
PROPERTIES ApprovalsStand
