\* One handler at a time over two requests for the same day; a type and an
\* approval chain that change, or one request and clock-ins.
CONSTANTS
    emp = emp
    mgr = mgr
    hr = hr
    Employees = {emp, mgr, hr}
    Applicants = {emp}
    Nobody = Nobody
    NoReq = NoReq
    NoDay = NoDay
    Admins = {hr}
    LineManagers = {mgr}
    Mgr <- MCMgr
    Reqs = {1, 2}
    UserCalls = {1, 2, 3, 4}
    Worker = worker
    MaxInFlight = 1
    MayFail = FALSE
    SharedQueue = FALSE
    Days <- MCOneDay
    CalMonth <- MCCalMonth
    CalYear <- MCCalYear
    WeeklyOff = {}
    HolidayChoices <- MCNoHolidays
    OptionalDays = {}
    HalfDays = {FALSE}
    Today = 0
    Types = {casual}
    PolicyChoices <- MCAccruedOrEvent
    SettingsChoices <- MCAnyChain
    Eligible <- MCApplicantOnly
    EventDates = {1}
    OpeningYears <- Years
    OpeningDays = 2
    AdjustDeltas = {}
    ClockDays = {1}
SPECIFICATION Spec
CONSTRAINT OneRequestOrNoClock
INVARIANTS ApprovedIsCarriedOut
CHECK_DEADLOCK FALSE
