SPECIFICATION Spec
CONSTANTS
    t1 = t1  t2 = t2  emp = emp  mgr = mgr
    e1 = e1  m1 = m1  m2 = m2
    Users = {emp, mgr}
    Nobody = Nobody
    Reviewers = {mgr}
    Text = Text
    Tasks = {t1, t2}
    Tabs = {e1, m1, m2}
    UserOf <- DeskUserOf
    View <- DeskView
    NumPhases = 3
    PhaseChoices <- EndsOnly
    Files = {f1}
    ModalOpens = TRUE
    Lossy = TRUE
    MaxHandlers = 4
INVARIANTS TypeOK ReviewedHasProof ApprovedWasDecided CompletionJustified CopiesSound AccessUnlocks
PROPERTIES AdvanceCarriesProof ReassignmentInherits ImplementsBoard
SYMMETRY Symmetry
