\* Two calls at a time, any of which may be lost between two statements.
CONSTANTS
    ann = ann
    mia = mia
    boss = boss
    hr1 = hr1
    hr2 = hr2
    NoOne = NoOne
    h1 = h1
    h2 = h2
    Handlers = {h1, h2}
    MaxCalls = 5
    Staff = {ann}
    Managers = {mia}
    LastDay = 1
    Calendars <- MCCalendars
    LineManagers = {boss}
    Subtree <- MCSubtree
    Admins = {hr1}
    GoLive = 0
    CutoffDays = {1}
    Limits <- MCLimits
    Asks <- MCAsks
    Requests = {1, 2}
    Marks <- MCMarks
    Behaviors = {"AUTO_APPROVE", "AUTO_REJECT"}
    MaxBreaks = 2
    MaxCredit = 2
    Overtimers = {ann}
    HR = {hr1, hr2}
    Callers = {boss, hr1, hr2}
    EmployeeOf <- MCEmployeeOf
    ShiftIds = {1, 2, 3}
SYMMETRY MCSymmetry
SPECIFICATION MCSpec
INVARIANTS DaysAreExplained CompOffAddsUp LimitsHold
PROPERTIES DecisionsAreFinal
CHECK_DEADLOCK FALSE
