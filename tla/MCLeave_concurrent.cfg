\* Two overlapping handlers, any of which may die half way; a holiday added
\* or a balance adjusted meanwhile.
CONSTANTS
    emp = emp
    mgr = mgr
    hr = hr
    Employees = {emp, mgr, hr}
    Applicants = {emp}
    Nobody = Nobody
    NoReq = NoReq
    NoDay = NoDay
    Admins = {hr}
    LineManagers = {mgr}
    Mgr <- MCMgr
    Reqs = {1}
    UserCalls = {1, 2, 3}
    Worker = worker
    MaxInFlight = 2
    MayFail = TRUE
    SharedQueue = TRUE
    Days <- MCOneDay
    CalMonth <- MCCalMonth
    CalYear <- MCCalYear
    WeeklyOff = {}
    HolidayChoices <- MCHolidayEdits
    OptionalDays = {}
    HalfDays = {TRUE, FALSE}
    Today = 0
    Types = {casual}
    PolicyChoices <- MCAccrued
    SettingsChoices <- MCTwoLevels
    Eligible <- MCApplicantOnly
    EventDates = {}
    OpeningYears = {0, 1}
    OpeningDays = 1
    AdjustDeltas = {2}
    ClockDays = {}
SPECIFICATION ConcurrentSpec
ACTION_CONSTRAINT HolidayOrAdjustment
INVARIANTS TypeOK ApprovedWasDeducted RefundNeedsDeduction HumanApproved LeaveIsExplained
CHECK_DEADLOCK FALSE
