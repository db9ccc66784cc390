\* INV-1 under two overlapping approvals.
CONSTANTS
    emp = emp
    mgr = mgr
    hr = hr
    Employees = {emp, mgr, hr}
    Applicants = {emp}
    Nobody = Nobody
    NoReq = NoReq
    NoDay = NoDay
    Admins = {hr}
    LineManagers = {mgr}
    Mgr <- MCMgr
    Reqs = {1}
    UserCalls = {1, 2, 3}
    Worker = worker
    MaxInFlight = 2
    MayFail = FALSE
    SharedQueue = TRUE
    Days <- MCOneDay
    CalMonth <- MCCalMonth
    CalYear <- MCCalYear
    WeeklyOff = {}
    HolidayChoices <- MCNoHolidays
    OptionalDays = {}
    HalfDays = {FALSE}
    Today = 0
    Types = {casual}
    PolicyChoices <- MCAccrued
    SettingsChoices <- MCManagerOnly
    Eligible <- MCApplicantOnly
    EventDates = {}
    OpeningYears = {0, 1}
    OpeningDays = 2
    AdjustDeltas = {}
    ClockDays = {}
SPECIFICATION Spec
INVARIANTS DeductedAtMostOnce
CHECK_DEADLOCK FALSE
