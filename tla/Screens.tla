------------------------------ MODULE Screens ------------------------------
(***************************************************************************)
(* What a screen of the web client does with the API: the calls it makes   *)
(* when it opens, the rows it lists, what it offers on a row and to whom,  *)
(* and what becomes of an answer.  A component of the client is a set of   *)
(* such uses, or a screen put together from them; wording and layout are   *)
(* left out.                                                               *)
(***************************************************************************)
EXTENDS Api

EveryRole == TenantRoles
NotAuditor == TenantRoles \ {AUD}
AnyOf == UNION {States[k] : k \in Kinds}
PlainRow == {"SAVED"}

(* One use of the API.  What a field is by default:                         *)
Use(call, who) ==
    [call |-> call, who |-> who,    \* the roles the client shows it to
     of |-> Rels,                   \* the rows it is for
     on |-> AnyOf,                  \* the states it is shown on
     linked |-> FALSE,              \* only with an employee record
     to |-> AnyState,               \* the state it asks for
     held |-> TRUE,                 \* disabled while its call is under way
     names |-> "shown",             \* the row the call names: the one shown, or the one last asked for
     creates |-> FALSE,             \* a row of its own for every call
     after |-> "reload"]            \* then asks again, keeps the view ("stay") or leaves the screen
On(states, u) == [u EXCEPT !.on = states]
About(rels, u) == [u EXCEPT !.of = rels]
Linked(u) == [u EXCEPT !.linked = TRUE]
Mine(u) == [u EXCEPT !.linked = TRUE, !.of = {"own"}]
Towards(state, u) == [u EXCEPT !.to = state]
Unheld(u) == [u EXCEPT !.held = FALSE]
Asked(u) == [u EXCEPT !.names = "asked"]
Creates(u) == [u EXCEPT !.creates = TRUE]
Then(after, u) == [u EXCEPT !.after = after]
Uses(who, callNames) == {Use(c, who) : c \in callNames}

(* The rows a list call answers with, by role.                              *)
Listed(scope, states) == [r \in DOMAIN scope |-> scope[r] \X states]
Both(a, b) == [r \in DOMAIN a |-> a[r] \cup b[r]]
OnePage == Listed(Scope(EveryRole, {}, {}), PlainRow)
WholeCompany == Scope({}, {}, EveryRole)

Screen(kind, who, list) ==
    [kind |-> kind, who |-> who, rows |-> list, loads |-> {}, offers |-> {},
     links |-> {},        \* the screens it leads to, and for whom
     keyed |-> FALSE,     \* what it asks for can change while it is open
     cleared |-> TRUE,    \* shows nothing until the answer
     latest |-> FALSE]    \* the answer to an earlier question is dropped
Plain(who) == Screen("plain", who, OnePage)
(* A link to a screen, or to the page of one row: of those rows.            *)
Link(target, who) == [page |-> target, who |-> who, of |-> Rels, row |-> FALSE]
LinkToRow(target, who, rels) == [page |-> target, who |-> who, of |-> rels, row |-> TRUE]

(* The import panel: the file is tried first, then sent again for good.     *)
ImportPanel(call, who) == {Then("stay", Use(call, who)), Then("leave", Use(call, who))}

(***************************************************************************)
(* The screens of leave, attendance and payroll.                           *)
(***************************************************************************)

(***************************************************************************)
(* The leave screens: pages/leave.                                         *)
(***************************************************************************)

Pending == {"PENDING_L1", "PENDING_L2"}

(* What the API lists: the register, a person's own requests, and the queue *)
(* of those who decide, first level for the manager and second for HR.      *)
Register == Listed(Scope({}, {}, Overseers), States.leave)
OwnRequests == Listed(OwnOnly, States.leave)
ApprovalQueue == Both([r \in TenantRoles |-> {<<"direct", "PENDING_L1">>}],
                      Listed(Scope({}, {}, HrAdmins), {"PENDING_L2"}))

(* The sheet of one request has its buttons only while it is pending.       *)
DetailSheet == {}
DecideSheet(who) ==
    {On(Pending, Use(c, who)) : c \in {"POST leave/requests/:id/approve", "POST leave/requests/:id/reject"}}
CancelSheet(who) == {On(Pending, Use("POST leave/requests/:id/cancel", who))}
Attachment(who) == {Then("stay", Use("GET leave/requests/:id", who))}
NoProfile == {Link("employee_new", HrAdmins)}

LeaveOverview ==
    [Screen("leave", NotAuditor, OwnRequests) EXCEPT
        !.loads = {Mine(u) : u \in Uses(EveryRole, {"GET leave/balances/:employeeId", "GET leave/event-leave/:employeeId",
                                                    "GET leave/requests/employee/:employeeId", "GET leave/holidays"})},
        !.offers = DetailSheet,
        !.links = NoProfile]

(* Applying: a preview for the dates typed last, then the request and its   *)
(* file; the dates are the question.                                        *)
ApplyQuestions ==
    Uses(EveryRole, {"GET leave/types", "GET leave/holidays", "GET leave/calendar"})
    \cup {Mine(u) : u \in Uses(EveryRole, {"GET leave/event-leave/:employeeId", "GET leave/balances/:employeeId"})}
ApplyForm == {Then("stay", Creates(Mine(Use("POST leave/requests", EveryRole))))}
LeaveApply ==
    [Plain(NotAuditor) EXCEPT
        !.loads = ApplyQuestions, !.offers = ApplyForm, !.links = NoProfile, !.keyed = TRUE, !.latest = TRUE]

MyRequests ==
    [Screen("leave", NotAuditor, OwnRequests) EXCEPT
        !.loads = {Mine(Use("GET leave/requests/employee/:employeeId", EveryRole))},
        !.offers = CancelSheet(EveryRole),
        !.links = NoProfile]

LeaveApprovals ==
    [Screen("leave", Deciders, ApprovalQueue) EXCEPT
        !.loads = Uses(EveryRole, {"GET leave/requests/pending-approvals"}),
        !.offers = DecideSheet(EveryRole)
                   \cup Uses(EveryRole, {"POST leave/requests/:id/approve", "POST leave/requests/:id/reject"})]

(* The register asks again on every change of a filter and takes whatever   *)
(* answer comes last.                                                       *)
RegisterQuestions == Uses(EveryRole, {"GET leave/types", "GET employees", "GET leave/requests"})
RegisterView == DecideSheet(HrAdmins)
AllRequests ==
    [Screen("leave", Overseers, Register) EXCEPT
        !.loads = RegisterQuestions, !.offers = RegisterView, !.keyed = TRUE]

TypeForm ==
    {Creates(Use("POST leave/types", HrAdmins)), Use("PATCH leave/types/:id", HrAdmins)}
InitializeYear == {Then("stay", Use("POST leave/types/:id/initialize/:year", HrAdmins))}
LeaveTypes ==
    [Plain(Overseers) EXCEPT
        !.loads = Uses(EveryRole, {"GET leave/types"}),
        !.offers = TypeForm \cup InitializeYear]

(* Removing a holiday posts to a path that no controller has.               *)
RemoveHoliday == Unheld(Use("POST leave/holidays/:id/delete", HrAdmins))
AddHoliday == Creates(Use("POST leave/holidays", HrAdmins))
Holidays ==
    [Plain(EveryRole) EXCEPT
        !.loads = Uses(EveryRole, {"GET leave/holidays"}),
        !.offers = {RemoveHoliday, AddHoliday},
        !.links = {Link("holiday_import", HrAdmins)},
        !.keyed = TRUE]
HolidayImport == [Plain(EveryRole) EXCEPT !.offers = ImportPanel("POST leave/holidays/import", EveryRole)]

Recalculate == Uses({CA}, {"POST leave/policy/recalculate"})
LeaveSettings ==
    [Plain({CA, AUD}) EXCEPT
        !.loads = Uses(EveryRole, {"GET leave/settings"}) \cup Uses({CA}, {"GET tenant-config/company-profile"}),
        !.offers = {Then("stay", Use("PATCH leave/settings", {CA}))} \cup {Then("stay", u) : u \in Recalculate}]

BalanceAdjustments ==
    [Plain(HrAdmins) EXCEPT
        !.loads = Uses(EveryRole, {"GET employees", "GET leave/types", "GET leave/balances/ledger"}),
        !.offers = {Creates(Use("POST leave/balances/adjust", EveryRole))}]
Ledger ==
    [Plain(Overseers) EXCEPT
        !.loads = Uses(EveryRole, {"GET employees", "GET leave/types", "GET leave/balances/ledger"}), !.keyed = TRUE]
TeamBalances ==
    [Plain(Deciders) EXCEPT !.loads = Uses(EveryRole, {"GET leave/types", "GET leave/team/balances"}), !.keyed = TRUE]
TeamCalendar ==
    [Plain(Deciders) EXCEPT !.loads = Uses(EveryRole, {"GET leave/calendar", "GET leave/holidays"}), !.keyed = TRUE]

(* The tabs, by who is shown them.                                          *)
LeavePages ==
    [overview |-> LeaveOverview, apply |-> LeaveApply, my_requests |-> MyRequests, approvals |-> LeaveApprovals,
     all_requests |-> AllRequests, leave_types |-> LeaveTypes, holidays |-> Holidays,
     holiday_import |-> HolidayImport, leave_settings |-> LeaveSettings, adjustments |-> BalanceAdjustments,
     ledger |-> Ledger, team_balances |-> TeamBalances, team_calendar |-> TeamCalendar]

-----------------------------------------------------------------------------
(***************************************************************************)
(* The attendance screens: pages/attendance.                               *)
(***************************************************************************)

OwnDay == Listed(OwnOnly, States.day)
TeamRows == Listed(BelowAnyone, PlainRow)
PendingRegularizations == Listed(BelowAnyone, {"PENDING"})

(* One button clocks in and out, one starts and ends the break; leaving     *)
(* before the day's hours are done asks first.                              *)
ClockButtons ==
    {On({"OUT", "DONE"}, Mine(Use("POST attendance/clock-in", EveryRole))),
     On({"IN"}, Mine(Use("POST attendance/clock-out", EveryRole))),
     On({"IN"}, Mine(Use("POST attendance/break/start", EveryRole))),
     On({"BREAK"}, Mine(Use("POST attendance/break/end", EveryRole)))}
EarlyClockOut == {On({"IN"}, Mine(Use("POST attendance/clock-out", EveryRole)))}
RaiseRegularization == {Creates(Mine(Use("POST attendance/regularization", EveryRole)))}
MonthShown == Uses(EveryRole, {"GET attendance/calendar", "GET attendance/stats"})

(* The page loads for its own employee even where the login has none, and   *)
(* then shows the refusal.                                                  *)
MyAttendance ==
    [Screen("day", EveryRole, OwnDay) EXCEPT
        !.loads = {About({"own"}, u) : u \in MonthShown \cup Uses(EveryRole, {"GET attendance/today"})},
        !.offers = ClockButtons \cup EarlyClockOut \cup RaiseRegularization,
        !.links = {Link("attendance_month", EveryRole)}]
(* The calendar on it asks for the month picked last and shows the one      *)
(* whose answer came last.                                                  *)
AttendanceMonth ==
    [Plain(EveryRole) EXCEPT !.loads = {Linked(u) : u \in MonthShown}, !.keyed = TRUE, !.cleared = FALSE]

(* The roster of a day; a mark names the person on the row and the day      *)
(* picked last.                                                             *)
MarkDialog == {Asked(Use("POST attendance/mark", HrAdmins))}
AttendanceTeam ==
    [Screen("plain", Deciders, TeamRows) EXCEPT
        !.loads = Uses(EveryRole, {"GET attendance/team/roster"}), !.offers = MarkDialog, !.keyed = TRUE]

AttendanceApprovals ==
    [Screen("regularization", Deciders, PendingRegularizations) EXCEPT
        !.loads = Uses(EveryRole, {"GET attendance/regularization/pending"}),
        !.offers = Uses(EveryRole, {"POST attendance/regularization/:id/approve",
                                    "POST attendance/regularization/:id/reject",
                                    "POST attendance/regularization/bulk-approve"})]

(* Saving the settings is offered to both HR roles.                         *)
SaveAttendanceSettings == Then("stay", Use("PATCH attendance/settings", EveryRole))
ShiftDialog == {Creates(Use("POST attendance/shifts", EveryRole)), Use("PATCH attendance/shifts/:id", EveryRole)}
AttendanceSettings ==
    [Screen("shift", HrAdmins, Listed(Scope({}, {}, HrAdmins), States.shift)) EXCEPT
        !.loads = Uses(EveryRole, {"GET attendance/shifts", "GET attendance/settings"}),
        !.offers = {On({"OTHER"}, Unheld(Use("DELETE attendance/shifts/:id", EveryRole))), SaveAttendanceSettings}
                   \cup ShiftDialog]

AttendancePages ==
    [my_attendance |-> MyAttendance, attendance_month |-> AttendanceMonth, attendance_team |-> AttendanceTeam,
     attendance_approvals |-> AttendanceApprovals, attendance_settings |-> AttendanceSettings]

-----------------------------------------------------------------------------
(***************************************************************************)
(* The payroll screens: pages/payroll.                                     *)
(***************************************************************************)

CompanyRuns == Listed(Scope({}, {}, Overseers), States.run)
Salaries(states) == Listed(Scope({}, {}, HrAdmins), states)
Unlocked == {"DRAFT", "REVIEW"}
Locked == {"PROCESSED", "DISBURSED"}

PayrollOverview ==
    [Screen("run", Overseers, CompanyRuns) EXCEPT
        !.loads = Uses(EveryRole, {"GET payroll/runs"}) \cup Uses(HrAdmins, {"GET payroll/readiness"}),
        !.links = {Link(p, EveryRole) : p \in {"runs", "run"}}]
ReadinessPanel == {Link("people", HrAdmins)}
NewRunDialog ==
    {Then("leave", Creates(Use("POST payroll/runs", HrAdmins))), Then("stay", Unheld(Use("GET payroll/readiness", HrAdmins)))}
RunsTab ==
    [Screen("run", Overseers, CompanyRuns) EXCEPT
        !.loads = Uses(EveryRole, {"GET payroll/runs"}), !.offers = NewRunDialog,
        !.links = ReadinessPanel \cup {Link("run", EveryRole)}]

(* A run offers the one step its state is ready for, after a confirmation   *)
(* that waits for the answer.                                               *)
RunStep(state, call) == On({state}, Use(call, HrAdmins))
RunButtons ==
    {On(Unlocked, Use("POST payroll/runs/:id/recalculate", HrAdmins)),
     RunStep("DRAFT", "POST payroll/runs/:id/submit-review"),
     RunStep("REVIEW", "POST payroll/runs/:id/approve"),
     RunStep("APPROVED", "POST payroll/runs/:id/process"),
     RunStep("PROCESSED", "POST payroll/runs/:id/disburse")}
ReviewTable == Uses(HrAdmins, {"GET payroll/runs/:id/line-items"})
(* The formats come first, then the preview of the one chosen last.         *)
BankFileDialog ==
    {On(Locked, Then("stay", Use(c, HrAdmins))) :
        c \in {"GET payroll/bank-formats", "GET payroll/config/bank", "GET payroll/runs/:id/bank-file/preview",
               "GET payroll/runs/:id/bank-file"}}
Run ==
    [Screen("run", Overseers, CompanyRuns) EXCEPT
        !.loads = Uses(EveryRole, {"GET payroll/runs/:id/summary"}) \cup ReviewTable,
        !.offers = RunButtons \cup BankFileDialog]
(* The drawer of one employee in a run: the payslip and the adjustments are *)
(* for the employee opened last, the figures those that arrived last.  It   *)
(* offers to adjust any run that is not locked.                             *)
AdjustmentsDialog == {On(States.run \ Locked, Asked(Use("PATCH payroll/runs/:id/line-items/:employeeId", HrAdmins)))}
OpenPayslip == {On(Locked, Unheld(Asked(Then("stay", Use("GET payroll/payslips/:employeeId", HrAdmins)))))}
EmployeeDrawer ==
    [Screen("run", HrAdmins, CompanyRuns) EXCEPT
        !.loads = Uses(EveryRole, {"GET payroll/runs/:id/line-items/:employeeId"}),
        !.offers = AdjustmentsDialog \cup OpenPayslip, !.keyed = TRUE]

PayrollPeople ==
    [Plain(HrAdmins) EXCEPT
        !.loads = Uses(EveryRole, {"GET payroll/people"}),
        !.offers = Uses(EveryRole, {"POST payroll/people/work-state"}),
        !.links = {Link("salary_import", EveryRole), LinkToRow("structure", EveryRole, Rels),
                   LinkToRow("fnf", EveryRole, Rels)}]
SalaryImport == [Plain(HrAdmins) EXCEPT !.offers = ImportPanel("POST payroll/structures/bulk-import", EveryRole)]

(* Creates the structure where there is none, changes the one there is.     *)
ComponentBuilder ==
    {On({"NONE"}, Use("POST payroll/structures/:employeeId", HrAdmins)),
     On({"ACTIVE"}, Use("PATCH payroll/structures/:employeeId", HrAdmins))}
ReviseCard == {On({"ACTIVE"}, Use("POST payroll/structures/:employeeId/revise", HrAdmins))}
TaxRegimeControl == {Then("stay", Use("PUT payroll/tds-regime/:employeeId", HrAdmins))}
StructureEditor ==
    [Screen("structure", HrAdmins, Salaries(States.structure)) EXCEPT
        !.loads = Uses(EveryRole, {"GET payroll/config/settings", "GET payroll/structures/:employeeId",
                                   "GET payroll/tds-regime/:employeeId"}),
        !.offers = ComponentBuilder \cup ReviseCard \cup TaxRegimeControl, !.keyed = TRUE]

FullAndFinal ==
    [Screen("settlement", HrAdmins, Salaries(States.settlement)) EXCEPT
        !.loads = Uses(EveryRole, {"GET payroll/fnf/:employeeId"}),
        !.offers = {On({"NONE"}, Use("POST payroll/fnf/:employeeId", HrAdmins)),
                    On({"DRAFT"}, Use("PATCH payroll/fnf/:employeeId", HrAdmins)),
                    On({"DRAFT"}, Use("POST payroll/fnf/:employeeId/approve", HrAdmins)),
                    On({"APPROVED"}, Use("POST payroll/fnf/:employeeId/mark-paid", HrAdmins))}]

-----------------------------------------------------------------------------
BankSettings ==
    [Plain(HrAdmins) EXCEPT
        !.loads = Uses(EveryRole, {"GET payroll/config/bank"}),
        !.offers = {Then("stay", Use("PUT payroll/config/bank", HrAdmins))}]
(* The slabs are asked for by state, or by year and regime; saving sends    *)
(* the rows shown under the state or year picked last.                      *)
PtSlabEditor ==
    [Plain(Overseers) EXCEPT
        !.loads = Uses(EveryRole, {"GET payroll/config/pt-slabs"}),
        !.offers = {Asked(Use("PUT payroll/config/pt-slabs/:state", HrAdmins))}, !.keyed = TRUE]
TaxSlabEditor ==
    [Plain(Overseers) EXCEPT
        !.loads = Uses(EveryRole, {"GET payroll/config/tax-config"}),
        !.offers = {Asked(u) : u \in Uses(HrAdmins, {"PUT payroll/config/tax-slabs/:regime",
                                                     "PATCH payroll/config/tax-regime-config/:regime"})},
        !.keyed = TRUE]
SettingsTab ==
    [Plain(Overseers) EXCEPT
        !.loads = Uses(EveryRole, {"GET payroll/config/settings"}),
        !.offers = {Then("stay", Use("PATCH payroll/config/settings", HrAdmins))},
        !.links = {Link(p, EveryRole) : p \in {"pt_slabs", "tax_slabs"}} \cup {Link("bank_settings", HrAdmins)}]

(* An employee's own pay; a payslip that is not there yet is answered with  *)
(* a message.                                                               *)
MyPay ==
    [Screen("structure", {EMP}, Listed(OwnOnly, States.structure)) EXCEPT
        !.loads = {Mine(u) : u \in Uses(EveryRole, {"GET payroll/structures/:employeeId",
                                                    "GET payroll/tds-regime/:employeeId"})},
        !.offers = {Mine(Then("stay", Use("PUT payroll/tds-regime/:employeeId", {EMP}))),
                    Mine(Then("stay", Use("GET payroll/payslips/:employeeId", {EMP})))}]

PayrollTabs == {"payroll_overview", "runs", "people", "payroll_settings"}
PayrollPages ==
    [payroll_overview |-> PayrollOverview, runs |-> RunsTab, run |-> Run, drawer |-> EmployeeDrawer,
     people |-> PayrollPeople, salary_import |-> SalaryImport, structure |-> StructureEditor, fnf |-> FullAndFinal,
     payroll_settings |-> SettingsTab, bank_settings |-> BankSettings, pt_slabs |-> PtSlabEditor,
     tax_slabs |-> TaxSlabEditor, my_pay |-> MyPay]

-----------------------------------------------------------------------------
(***************************************************************************)
(* The people screens: pages/employees, pages/departments, pages/org-chart.*)
(* The page of one employee shows several kinds of rows; it is modelled    *)
(* once for each of them.                                                  *)
(***************************************************************************)

People(states) == Listed(SeenInScope, states)

(* The list, which for employees and line managers is a directory of the    *)
(* company where only some profiles open.                                   *)
MayOpen == [r \in TenantRoles |-> IF r = EMP THEN {"own"} ELSE IF r = LM THEN {"own", "direct", "below"} ELSE Rels]
ProfileLinks == {LinkToRow("employee", {r}, MayOpen[r]) : r \in TenantRoles}
QuickView == {[Then("stay", Use("GET employees/:id", {r})) EXCEPT !.of = MayOpen[r]] : r \in TenantRoles}
EmployeeList ==
    [Screen("lifecycle", EveryRole, Listed(WholeCompany, States.lifecycle)) EXCEPT
        !.loads = Uses(EveryRole, {"GET employees", "GET departments"}),
        !.offers = QuickView,
        !.links = ProfileLinks \cup {Link("employee_new", HrAdmins), Link("employee_import", HrAdmins)}]

NewEmployee ==
    [Plain(EveryRole) EXCEPT
        !.loads = Uses(EveryRole, {"GET departments", "GET employees", "GET access/users"}),
        !.offers = {Then("leave", Creates(Use("POST employees", EveryRole))),
                    Then("stay", Unheld(Use("GET employees/code-available", EveryRole)))},
        !.latest = TRUE]
EmployeesImport == [Plain(EveryRole) EXCEPT !.offers = ImportPanel("POST employees/bulk-import", EveryRole)]

-----------------------------------------------------------------------------
(* The page of one employee: opening another keeps showing the one before   *)
(* until the answer is there; photo, upload and sync carry the id of the    *)
(* page, everything else the id of the employee shown.                      *)
ProfileLoads ==
    Uses(EveryRole, {"GET employees/:id", "GET employees/:id/documents", "GET employees/:id/emergency-contacts"})
ProfilePage(kind) ==
    [Screen(kind, EveryRole, People(States[kind])) EXCEPT
        !.loads = ProfileLoads, !.keyed = TRUE, !.cleared = FALSE]
SelfOrAdmin(call) == {Use(call, HrAdmins), About({"own"}, Use(call, {EMP}))}

ChangePhoto == {Asked(u) : u \in SelfOrAdmin("POST employees/:id/photo")}
RevealField == {Then("stay", Use("POST employees/:id/reveal", HrAdmins))}
ProfileFields == SelfOrAdmin("PATCH employees/:id")
SensitiveFields == {Use("PATCH employees/:id/sensitive-fields", HrAdmins)}
ContactForm ==
    {Creates(u) : u \in SelfOrAdmin("POST employees/:id/emergency-contacts")}
    \cup SelfOrAdmin("PATCH employees/:id/emergency-contacts/:contactId")
RemoveContact == {Unheld(u) : u \in SelfOrAdmin("DELETE employees/:id/emergency-contacts/:contactId")}
ReportingCard ==
    {Link("org_chart", EveryRole)}
    \cup {LinkToRow("employee", {r}, IF r = EMP THEN {"direct"} ELSE MayOpen[r] \ {"own"}) : r \in EveryRole}
EmployeeProfile ==
    [ProfilePage("plain") EXCEPT
        !.offers = ChangePhoto \cup RevealField \cup ProfileFields \cup SensitiveFields \cup ContactForm \cup RemoveContact,
        !.links = ReportingCard \cup {Link("employees", EveryRole)}]

(* The graph of lifecycle changes, as the dialog has it.                    *)
LIFECYCLE_TRANSITIONS ==
    [PRE_JOINING |-> {"PROBATION"}, PROBATION |-> {"CONFIRMED", "SEPARATED", "SUSPENDED"},
     CONFIRMED |-> {"NOTICE_PERIOD", "SUSPENDED"}, NOTICE_PERIOD |-> {"SEPARATED", "CONFIRMED"},
     SUSPENDED |-> {"PROBATION", "CONFIRMED"}, SEPARATED |-> {}]
LifecycleDialog ==
    UNION {{On({s}, Towards(t, Use("PATCH employees/:id/lifecycle", HrAdmins))) : t \in LIFECYCLE_TRANSITIONS[s]} :
              s \in States.lifecycle}
EmployeeStatus == [ProfilePage("lifecycle") EXCEPT !.offers = LifecycleDialog]

CreateLoginDialog == {On({"NONE"}, Use("POST employees/:id/login", HrAdmins))}
LinkLoginDialog == {On({"NONE"}, Use("PATCH employees/:id/login", HrAdmins))}
SendResetDialog == {On({"LINKED"}, Then("stay", Use("POST access/users/:id/password-reset", HrAdmins)))}
SyncLoginEmail == {On({"LINKED"}, Asked(Use("POST employees/:id/login/sync-email", HrAdmins)))}
useLinkableLogins == Uses(HrAdmins, {"GET access/users"})
EmployeeLogin ==
    [ProfilePage("account") EXCEPT
        !.loads = ProfileLoads \cup useLinkableLogins,
        !.offers = CreateLoginDialog \cup LinkLoginDialog \cup SendResetDialog \cup SyncLoginEmail]

(* Uploading is offered to whoever sees the page; only a clean file opens.  *)
UploadDocument == {Asked(Use("POST employees/:id/documents", EveryRole))}
canDownload == {"CLEAN"}
OpenDocument(who) == {On(canDownload, Then("stay", Use("GET documents/:id/download-url", who)))}
DocumentList ==
    OpenDocument(EveryRole)
    \cup {Then("stay", Unheld(u)) : u \in Uses(HrAdmins, {"PATCH documents/:id/category", "DELETE documents/:id"})}
EmployeeDocuments == [ProfilePage("document") EXCEPT !.offers = UploadDocument \cup DocumentList]

-----------------------------------------------------------------------------
DepartmentForm == {Creates(Use("POST departments", HrAdmins)), Use("PATCH departments/:id", HrAdmins)}
DeleteDepartment == {Use("DELETE departments/:id", HrAdmins)}
DepartmentCard == {Link("employees", EveryRole)}
Departments ==
    [Plain(EveryRole) EXCEPT
        !.loads = Uses(EveryRole, {"GET departments"}) \cup Uses(Overseers, {"GET employees"}),
        !.offers = DepartmentForm \cup DeleteDepartment,
        !.links = DepartmentCard]

(* The chart of an employee or manager starts at themselves; every node     *)
(* opens a sheet with a link to the full profile.                           *)
ChartNodes == Listed(Scope({}, {EMP, LM}, Overseers), PlainRow)
PersonSheet == {LinkToRow("employee", {r}, {n[1] : n \in ChartNodes[r]}) : r \in EveryRole}
OrgChart ==
    [Screen("plain", EveryRole, ChartNodes) EXCEPT
        !.loads = Uses(EveryRole, {"GET employees/org-chart"}), !.links = PersonSheet]

EmployeePages ==
    [employees |-> EmployeeList, employee_new |-> NewEmployee, employee_import |-> EmployeesImport,
     employee |-> EmployeeProfile, employee_status |-> EmployeeStatus, employee_login |-> EmployeeLogin,
     employee_documents |-> EmployeeDocuments, departments |-> Departments, org_chart |-> OrgChart]

-----------------------------------------------------------------------------
(***************************************************************************)
(* The home page and its detail pages, access, audit, reports, the mail    *)
(* log, the company's settings and its setup, and what a visitor who is    *)
(* not signed in can send.                                                 *)
(***************************************************************************)

(* The menu at the side, by role and the tab it opens first; the plan's      *)
(* modules do not narrow it.                                                *)
NAV ==
    For(EveryRole, {"home", "home_day", "employees", "my_attendance", "account"})
    @@ For(NotAuditor, {"overview"}) @@ For({AUD}, {"all_requests"})
    @@ For({CA, HR, LM, AUD}, {"org_chart", "departments"})
    @@ For(HrAdmins, {"reports"})
    @@ For({CA, HR, AUD}, {"payroll_overview", "access", "company", "notifications"})
    @@ For({EMP}, {"my_pay"})

-----------------------------------------------------------------------------
(* Home: for admins and managers the requests that wait for them, for       *)
(* whoever has an employee record today's clock.                            *)
AdminOverview ==
    {On(Pending, Use(c, HrAdmins)) : c \in {"POST leave/requests/:id/approve", "POST leave/requests/:id/reject"}}
EmployeeInsights ==
    {On(Pending, Use(c, {LM})) : c \in {"POST leave/requests/:id/approve", "POST leave/requests/:id/reject"}}
Kpi == {Link(p, HrAdmins) : p \in {"headcount", "present_today", "on_leave", "pending_approvals",
                                    "overview", "my_attendance", "employees", "departments", "payroll_overview"}}
InsightLinks == {Link(p, {EMP, LM}) : p \in {"leave_balance", "own_stats", "employees"}}
SetupFollowUps == {Then("stay", Use("POST setup/logins/retry", {CA}))}
Dashboard ==
    [Screen("leave", EveryRole, ApprovalQueue) EXCEPT
        !.loads = Uses(EveryRole, {"GET dashboard"}) \cup Uses({CA}, {"GET setup/status"}),
        !.offers = AdminOverview \cup EmployeeInsights \cup SetupFollowUps,
        !.links = Kpi \cup InsightLinks]
TodayAttendanceCard ==
    {On({"OUT"}, Mine(Use("POST attendance/clock-in", EveryRole))),
     On({"IN"}, Mine(Use("POST attendance/clock-out", EveryRole))),
     On({"IN"}, Mine(Use("POST attendance/break/start", EveryRole))),
     On({"BREAK"}, Mine(Use("POST attendance/break/end", EveryRole)))}
HomeDay ==
    [Screen("day", EveryRole, Listed(OwnOnly, States.day)) EXCEPT
        !.loads = Uses(EveryRole, {"GET dashboard"}), !.offers = TodayAttendanceCard]

(* A detail page keeps what it showed until the next answer and drops the   *)
(* answers to earlier questions.                                            *)
useFetch(s) == [s EXCEPT !.latest = TRUE, !.cleared = FALSE]
HeadcountDetail == useFetch([Plain(HrAdmins) EXCEPT !.loads = Uses(EveryRole, {"GET dashboard"})])
PresentTodayDetail ==
    useFetch([Plain(HrAdmins) EXCEPT !.loads = Uses(EveryRole, {"GET attendance/team/roster", "GET dashboard"})])
OnLeaveDetail == useFetch([Plain(HrAdmins) EXCEPT !.loads = Uses(EveryRole, {"GET dashboard/on-leave"})])
PendingApprovalsDetail ==
    useFetch([Plain(HrAdmins) EXCEPT !.loads = Uses(EveryRole, {"GET dashboard/pending-approvals"})])
AttendanceDetail == Linked(Use("GET attendance/stats", EveryRole))
PunctualityDetail == Linked(Use("GET attendance/stats", EveryRole))
OvertimeDetail == Linked(Use("GET attendance/stats", EveryRole))
OwnStats ==
    useFetch([Plain({EMP, LM}) EXCEPT
        !.loads = {AttendanceDetail, PunctualityDetail, OvertimeDetail}, !.keyed = TRUE])
LeaveBalanceDetail ==
    useFetch([Plain({EMP, LM}) EXCEPT !.loads = {Mine(Use("GET leave/balances/:employeeId", EveryRole))}])

-----------------------------------------------------------------------------
(* Access: nobody deactivates themselves, and a change of role is asked of  *)
(* the company admin alone, their own row included.                         *)
SetStatusDialog ==
    {About(Rels \ {"own"}, On({"ACTIVE"}, Towards("INACTIVE", Use("PATCH access/users/:id/status", HrAdmins)))),
     On({"INACTIVE"}, Towards("ACTIVE", Use("PATCH access/users/:id/status", HrAdmins)))}
ChangeRoleDialog == {Use("PATCH access/users/:id/role", {CA})}
SendResetToUser == {Then("stay", Use("POST access/users/:id/password-reset", HrAdmins))}
UserDetailSheet == {Then("stay", Use("GET access/users/:id/activity", EveryRole))}
RowActions == SetStatusDialog \cup ChangeRoleDialog \cup SendResetToUser
AccessUsers ==
    [Screen("login", Overseers, Listed(Scope({}, {}, Overseers), States.login)) EXCEPT
        !.loads = Uses(EveryRole, {"GET access/users"}),
        !.offers = RowActions \cup UserDetailSheet,
        !.links = ProfileLinks \cup {Link("employee_new", HrAdmins), Link("audit", {CA, AUD})}]
AuditTab ==
    [Plain({CA, AUD}) EXCEPT
        !.loads = Uses(EveryRole, {"GET audit", "GET audit/modules", "GET access/audit"}), !.keyed = TRUE]
MyAccount == [Plain(EveryRole) EXCEPT !.loads = Uses(EveryRole, {"GET access/me"})]

(* Reports drop late answers; the mail log shows whatever comes last.       *)
Reports ==
    [Plain(HrAdmins) EXCEPT
        !.loads = Uses(EveryRole, {"GET reports/:report"}),
        !.offers = {Then("stay", Use("GET reports/:report/export", EveryRole))},
        !.keyed = TRUE, !.latest = TRUE]
NotificationLog ==
    [Screen("email", Overseers, Listed(Scope({}, {}, Overseers), States.email)) EXCEPT
        !.loads = Uses(EveryRole, {"GET notifications/log"}),
        !.offers = {On({"FAILED"}, Use("POST notifications/log/:id/retry", HrAdmins))},
        !.keyed = TRUE]
CompanySettings ==
    [Plain(Overseers) EXCEPT
        !.loads = Uses(EveryRole, {"GET tenant-config/company-profile"}),
        !.offers = {Then("stay", Use("PATCH tenant-config/company-profile", {CA}))}]

-----------------------------------------------------------------------------
(* The setup of a company, one draft saved as it is typed and sent at the   *)
(* end; whoever else signs in meanwhile is shown that it is not done.       *)
AutoSave == Unheld(Then("stay", Use("PUT setup/draft", {CA})))
WizardCalls ==
    {Then("stay", Use(c, {CA})) : c \in {"PUT setup/draft", "POST setup/validate", "POST setup/files/:kind",
                                         "DELETE setup/files/:kind", "POST setup/holidays/import"}}
SetupSubmit == {Then("leave", Use("POST setup/submit", {CA}))}
SetupWizard ==
    [Screen("setup", {CA}, Listed(Scope({}, {}, {CA}), {"OPEN"})) EXCEPT
        !.loads = Uses(EveryRole, {"GET setup/draft", "POST setup/validate"}),
        !.offers = {AutoSave} \cup WizardCalls \cup SetupSubmit]

AdminPages ==
    [home |-> Dashboard, home_day |-> HomeDay, headcount |-> HeadcountDetail,
     present_today |-> PresentTodayDetail, on_leave |-> OnLeaveDetail,
     pending_approvals |-> PendingApprovalsDetail, own_stats |-> OwnStats, leave_balance |-> LeaveBalanceDetail,
     access |-> AccessUsers, audit |-> AuditTab, account |-> MyAccount, reports |-> Reports,
     notifications |-> NotificationLog, company |-> CompanySettings, setup |-> SetupWizard]

(***************************************************************************)
(* The console of the platform's operators: pages/platform-admin.          *)
(***************************************************************************)
Operators == {OPS}
TenantRows(states) == OPS :> ({"other"} \X states)
ConsolePage(kind, states) == Screen(kind, Operators, TenantRows(states))
ConsolePlain == ConsolePage("plain", PlainRow)
InTrial == {"TRIAL", "READ_ONLY"}

(* The dialogs.                                                             *)
SuspendDialog ==
    {On(States.tenant \ {"SUSPENDED"}, Towards("SUSPENDED", Use("PATCH platform-admin/tenants/:id/status", Operators))),
     On({"SUSPENDED"}, Towards("ACTIVE", Use("PATCH platform-admin/tenants/:id/status", Operators)))}
(* Mutant of TrialDialog: offered for every tenant. *)
TrialDialogAlways ==
    Uses(Operators, {"PATCH platform-admin/tenants/:id/trial", "POST platform-admin/tenants/:id/convert"})
TrialDialog ==
    {On(InTrial, Use("PATCH platform-admin/tenants/:id/trial", Operators)),
     On(InTrial, Use("POST platform-admin/tenants/:id/convert", Operators))}
ChangePlanDialog == {Use("PATCH platform-admin/tenants/:id/plan", Operators)}
AdjustPricingDialog == {Use("PATCH platform-admin/tenants/:id/pricing", Operators)}
PlanEditDialog == {Use("PATCH platform-admin/plans/:key", Operators)}
PlanPicker == Uses(Operators, {"GET platform-admin/plans"})
BreakGlassDialog == {On({"NONE"}, Use("POST platform-admin/tenants/:id/breakglass", Operators))}
BreakGlassStatusSheet ==
    {On({"ACTIVE"}, Use("POST platform-admin/tenants/:id/breakglass/:grantId/revoke", Operators))}
BillingCard == {On({"NONE"}, Use("POST platform-admin/tenants/:id/billing/subscribe", Operators))}
ActivityTab == Uses(Operators, {"GET platform-admin/audit"})
SuppressionsCard == {Then("stay", Use("DELETE platform-admin/email-suppressions/:email", Operators))}

-----------------------------------------------------------------------------
Tenants ==
    [ConsolePage("tenant", States.tenant) EXCEPT
        !.loads = Uses(EveryRole \cup Operators, {"GET platform-admin/tenants"}),
        !.offers = SuspendDialog \cup ChangePlanDialog
                   \cup Uses(Operators, {"POST platform-admin/tenants/:id/refresh-headcount"}),
        !.links = {Link("tenant_new", Operators), LinkToRow("tenant", Operators, Rels),
                   LinkToRow("tenant_grant", Operators, Rels), LinkToRow("tenant_billing", Operators, Rels)}]
SubdomainField == Uses(Operators, {"GET platform-admin/tenants"})
TenantNew ==
    [ConsolePlain EXCEPT
        !.loads = PlanPicker \cup SubdomainField,
        !.offers = {Then("leave", Creates(Use("POST platform-admin/tenants", Operators)))}]

(* The page of one tenant, of its break-glass grant and of its billing.     *)
TenantDetail ==
    [ConsolePage("tenant", States.tenant) EXCEPT
        !.loads = Uses(Operators, {"GET platform-admin/tenants/:id", "GET platform-admin/tenants/:id/breakglass"})
                  \cup ActivityTab,
        !.offers = SuspendDialog \cup TrialDialog \cup ChangePlanDialog \cup AdjustPricingDialog
                   \cup Uses(Operators, {"POST platform-admin/tenants/:id/renew",
                                         "POST platform-admin/tenants/:id/refresh-headcount"})
                   \cup {Then("stay", Use("POST platform-admin/tenants/:id/resend-admin-reset", Operators))}]
TenantGrant ==
    [ConsolePage("grant", States.grant) EXCEPT
        !.loads = Uses(Operators, {"GET platform-admin/tenants/:id", "GET platform-admin/tenants/:id/breakglass"}),
        !.offers = BreakGlassDialog \cup BreakGlassStatusSheet]
TenantBilling ==
    [ConsolePage("billing", States.billing) EXCEPT
        !.loads = Uses(Operators, {"GET platform-admin/tenants/:id", "GET platform-admin/tenants/:id/payments"}),
        !.offers = BillingCard]

Plans == [ConsolePlain EXCEPT !.loads = PlanPicker, !.offers = PlanEditDialog]
PlatformSettings ==
    [ConsolePlain EXCEPT
        !.loads = Uses(Operators, {"GET platform-admin/settings", "GET platform-admin/email-suppressions"}),
        !.offers = {Then("stay", Use("PATCH platform-admin/settings", Operators))} \cup SuppressionsCard]
PlatformAudit == [ConsolePlain EXCEPT !.loads = ActivityTab, !.keyed = TRUE]
Leads == [ConsolePlain EXCEPT !.loads = Uses(Operators, {"GET platform-admin/leads"})]

PlatformShell == For(Operators, {"tenants", "plans", "leads", "platform_settings", "platform_audit"})
ConsolePages ==
    [tenants |-> Tenants, tenant_new |-> TenantNew, tenant |-> TenantDetail, tenant_grant |-> TenantGrant,
     tenant_billing |-> TenantBilling, plans |-> Plans, platform_settings |-> PlatformSettings,
     platform_audit |-> PlatformAudit, leads |-> Leads]
=============================================================================
