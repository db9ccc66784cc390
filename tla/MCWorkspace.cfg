\* Two calls at a time; Razorpay delivers in any order and more than once.
CONSTANTS
    h1 = h1
    h2 = h2
    Handlers = {h1, h2}
    MaxCalls = 6
    Plans = {"STARTER", "GROWTH"}
    Definitions <- MCDefinitions
    Rates = {2}
    SeatCounts = {2}
    Charges = {1, 2}
    None = None
    Year = 1
    LastTick = 2
    Subdomains = {"acme", "bolt"}
    AdminEmails = {"ann", "bob"}
    NoTenant = NoTenant
    i1 = i1
    i2 = i2
    Instances = {i1, i2}
    Routes <- MCRoutes
    TTL = 1
    Latency = 0
    Horizon = 1
    Nobody = Nobody
    u1 = u1
    u2 = u2
    u3 = u3
    Accounts = {u1, u2, u3}
    Emails = {"ann", "bob", "cay"}
    Staff = {"E1", "E2"}
    Roles = {"COMPANY_ADMIN", "HR_MANAGER"}
    Workspaces <- MCWorkspaces
    Nothing = Nothing
    People = {"p", "q", "r"}
    Departments = {"eng", "ops"}
    Contacts = {1, 2, 3}
    Photos = {1, 2, 3}
    NoOne = NoOne
    Codes = {"A", "B", "C", "X"}
    Sheets <- MCSheets
    Books <- MCBooks
    Elsewhere = {"zed"}
    NoCode = NoCode
    a1 = a1
    a2 = a2
    t1 = t1
    t2 = t2
    Admins = {a1, a2}
    Texts = {t1, t2}
    Hires = {"p", "q"}
    Unsaved = Unsaved
SYMMETRY MCSymmetry
SPECIFICATION MCSpec
INVARIANTS RestrictedForReason TenancyAddsUp OnboardingIsWhole AnAdminRemains LoginsInStep OrgIsWhole EntriesLand
PROPERTIES OperatorsWordStands DecidesOnRecentRows StaysDecided
CHECK_DEADLOCK FALSE
