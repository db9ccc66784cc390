\* Two handlers at a time, any of which may be lost between two statements.
CONSTANTS
    Employees = {emp}
    HRs = {}
    AdminUsers = {ada, ben}
    AdminChoices = {{ada, ben}}
    Nobody = Nobody
    Runs = {1, 2}
    Periods = {1}
    NoRun = NoRun
    LastRun = NoRun
    Pays = {1}
    Extras = {0}
    MaxVersion = 2
    HasDob = {emp}
    Threads = {t1, t2}
SPECIFICATION Spec
INVARIANTS TwoApprovers ProcessedHasPayslips RunsAreWhole
SYMMETRY MCSymmetry
