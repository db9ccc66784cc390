\* One handler at a time.
CONSTANTS
    Employees = {emp}
    HRs = {}
    AdminUsers = {ada, ben}
    AdminChoices = {{ada}, {ben}, {ada, ben}}
    Nobody = Nobody
    Runs = {1, 2, 3}
    Periods = {1}
    NoRun = NoRun
    LastRun = 3
    Pays = {1, 2}
    Extras = {0, 1}
    MaxVersion = 2
    HasDob = {emp}
    Threads = {t1}
SPECIFICATION Spec
INVARIANTS PayAddsUp
PROPERTIES RunsAreFrozen
SYMMETRY MCSymmetry
