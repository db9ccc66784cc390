\* Event-based leave: a type that HR switches, a document that HR may delete, and
\* the escalation job on a queue of its own under fairness.
CONSTANTS
    emp = emp
    mgr = mgr
    hr = hr
    Employees = {emp, mgr, hr}
    Applicants = {emp}
    Nobody = Nobody
    NoReq = NoReq
    NoDay = NoDay
    Admins = {hr}
    LineManagers = {mgr}
    Mgr <- MCMgr
    Reqs = {1, 2}
    UserCalls = {1, 2, 3, 4}
    Worker = worker
    MaxInFlight = 1
    MayFail = FALSE
    SharedQueue = FALSE
    Days <- MCOneDay
    CalMonth <- MCCalMonth
    CalYear <- MCCalYear
    WeeklyOff = {}
    HolidayChoices <- MCNoHolidays
    OptionalDays = {}
    HalfDays = {FALSE}
    Today = 0
    Types = {casual}
    PolicyChoices <- MCAccruedOrMarriage
    SettingsChoices <- MCManagerOnly
    Eligible <- MCApplicantOnly
    EventDates = {1}
    OpeningYears = {}
    OpeningDays = 2
    AdjustDeltas = {}
    ClockDays = {}
SPECIFICATION FairSpec
INVARIANTS EventLeaveAddsUp
PROPERTIES EscalationMovesOn
CHECK_DEADLOCK FALSE
