CONSTANTS
    ann = ann
    bob = bob
    casual = casual
    YearLen = 4
    Step <- MCStep
    Emps = {ann, bob}
    Hired <- MCHired
    JoinDays = {1}
    LeaveTypes = {casual}
    TypeChoices <- MCRetired
    Openings <- MCOpening
    OpeningAmount = 200
    GoLives = {0, 1}
    FirstWeek = 2
    LastDay = 4
    MaxUsed = 100
    Handlers = {1, 2, 3}
    Concurrency = 2
    MayDie = TRUE
    Quotas <- MCQuotas
    Starts <- MCStarts
SPECIFICATION MCSpec
INVARIANTS CreditsAreBacked CreditsAddUp
PROPERTIES CreditsCatchUp
CHECK_DEADLOCK FALSE
