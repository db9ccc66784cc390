-------------------------------- MODULE Api --------------------------------
(***************************************************************************)
(* What the API accepts, call by call.  Three guards stand in front of a   *)
(* handler and a fourth inside it: the roles the controller names, the     *)
(* plan's modules, the rows a service lets a role reach (by the relation   *)
(* of the row's employee to the caller) and the states a row must be in.   *)
(* A call is named by its verb and path.  A path that no controller names  *)
(* is answered with 404 whoever calls.                                     *)
(***************************************************************************)
EXTENDS TLC

CA == "COMPANY_ADMIN"
HR == "HR_MANAGER"
LM == "LINE_MANAGER"
EMP == "EMPLOYEE"
AUD == "AUDITOR"
OPS == "PLATFORM_ADMIN"     \* the operator of the platform, who has no tenant
TenantRoles == {CA, HR, LM, EMP, AUD}
HrAdmins == {CA, HR}
Deciders == {CA, HR, LM}
Overseers == {CA, HR, AUD}

(* The employee a row is about, seen from the caller: the caller, a direct *)
(* report, somebody further down, anybody else.                            *)
Rels == {"own", "direct", "below", "other"}

For(who, callNames) == [c \in callNames |-> who]

-----------------------------------------------------------------------------
(* The controllers: @Roles of each handler, everybody of the tenant where   *)
(* there is none.                                                           *)
AuthRoutes == For(TenantRoles, {"GET auth/workspace-status", "GET auth/me"})

AccessRoutes ==
    For(TenantRoles, {"GET access/me"})
    @@ For(Overseers, {"GET access/users", "GET access/users/:id/activity"})
    @@ For({CA, AUD}, {"GET access/audit"})
    @@ For({CA}, {"PATCH access/users/:id/role"})
    @@ For(HrAdmins, {"PATCH access/users/:id/status", "POST access/users/:id/password-reset"})

AuditRoutes == For({CA, AUD}, {"GET audit", "GET audit/modules"})

TenantConfigRoutes ==
    For(Overseers, {"GET tenant-config/company-profile"}) @@ For({CA}, {"PATCH tenant-config/company-profile"})

SetupRoutes ==
    For(TenantRoles, {"GET setup/status"})
    @@ For({CA}, {"GET setup/draft", "PUT setup/draft", "POST setup/validate", "POST setup/files/:kind",
                  "DELETE setup/files/:kind", "POST setup/holidays/import", "POST setup/submit",
                  "POST setup/logins/retry"})

NotificationRoutes ==
    For(Overseers, {"GET notifications/log"}) @@ For(HrAdmins, {"POST notifications/log/:id/retry"})

ReportRoutes == For(HrAdmins, {"GET reports/:report", "GET reports/:report/export"})

DashboardRoutes ==
    For(TenantRoles, {"GET dashboard"})
    @@ For(HrAdmins, {"GET dashboard/on-leave", "GET dashboard/pending-approvals"})

DocumentRoutes ==
    For(TenantRoles, {"GET documents/:id/download-url"})
    @@ For(HrAdmins, {"PATCH documents/:id/category", "DELETE documents/:id"})

EmployeeRoutes ==
    For(TenantRoles, {"GET employees", "GET employees/org-chart", "GET employees/:id", "PATCH employees/:id",
                      "GET employees/:id/emergency-contacts", "POST employees/:id/emergency-contacts",
                      "PATCH employees/:id/emergency-contacts/:contactId",
                      "DELETE employees/:id/emergency-contacts/:contactId",
                      "GET employees/:id/documents", "POST employees/:id/photo", "POST employees/:id/documents"})
    @@ For(HrAdmins, {"GET employees/code-available", "POST employees", "POST employees/:id/login",
                      "POST employees/:id/login/sync-email", "PATCH employees/:id/login",
                      "PATCH employees/:id/lifecycle", "PATCH employees/:id/sensitive-fields",
                      "POST employees/bulk-import"})
    @@ For(Overseers, {"POST employees/:id/reveal"})

DepartmentRoutes ==
    For(TenantRoles, {"GET departments"})
    @@ For(HrAdmins, {"POST departments", "PATCH departments/:id", "DELETE departments/:id"})

LeaveSetupRoutes ==
    For(TenantRoles, {"GET leave/types", "GET leave/holidays", "GET leave/settings"})
    @@ For(HrAdmins, {"POST leave/types", "PATCH leave/types/:id", "POST leave/types/:id/initialize/:year",
                      "POST leave/holidays/import", "POST leave/holidays", "PATCH leave/holidays/:id",
                      "DELETE leave/holidays/:id"})
    @@ For({CA}, {"POST leave/policy/recalculate", "PATCH leave/settings"})

LeaveRequestRoutes ==
    For(TenantRoles, {"GET leave/team/balances", "GET leave/balances/:employeeId", "GET leave/event-leave/:employeeId",
                      "POST leave/requests", "GET leave/requests/employee/:employeeId",
                      "GET leave/requests/pending-approvals", "GET leave/requests/:id",
                      "POST leave/requests/:id/attachment", "POST leave/requests/:id/cancel", "GET leave/calendar"})
    @@ For(HrAdmins, {"POST leave/balances/adjust"})
    @@ For(Overseers, {"GET leave/balances/ledger", "GET leave/requests"})
    @@ For(Deciders, {"POST leave/requests/:id/approve", "POST leave/requests/:id/reject"})

AttendanceRoutes ==
    For(TenantRoles, {"POST attendance/clock-in", "POST attendance/clock-out", "POST attendance/break/start",
                      "POST attendance/break/end", "GET attendance/today", "GET attendance/calendar",
                      "GET attendance/stats", "POST attendance/regularization", "GET attendance/regularization",
                      "GET attendance/regularization/pending", "POST attendance/regularization/:id/evidence",
                      "POST attendance/regularization/:id/cancel", "GET attendance/team/roster",
                      "POST attendance/overtime-claims", "GET attendance/overtime-claims", "GET attendance/shifts"})
    @@ For(Deciders, {"POST attendance/regularization/:id/approve", "POST attendance/regularization/:id/reject",
                      "POST attendance/regularization/bulk-approve", "POST attendance/overtime-claims/:id/approve",
                      "POST attendance/overtime-claims/:id/reject"})
    @@ For(HrAdmins, {"POST attendance/mark", "GET attendance/lop-days", "POST attendance/shifts",
                      "PATCH attendance/shifts/:id", "DELETE attendance/shifts/:id"})
    @@ For(Overseers, {"GET attendance/settings"})
    @@ For({CA}, {"PATCH attendance/settings"})

SalaryRoutes ==
    For(HrAdmins, {"POST payroll/structures/bulk-import", "POST payroll/structures/:employeeId",
                   "PATCH payroll/structures/:employeeId", "POST payroll/structures/:employeeId/revise",
                   "PATCH payroll/config/settings", "PUT payroll/config/pt-slabs/:state"})
    @@ For(TenantRoles, {"GET payroll/structures/:employeeId"})
    @@ For(Overseers, {"GET payroll/config/settings", "GET payroll/config/pt-slabs"})

RunRoutes ==
    For(HrAdmins, {"POST payroll/runs", "GET payroll/readiness", "GET payroll/people", "POST payroll/people/work-state",
                   "GET payroll/runs/:id/line-items", "GET payroll/runs/:id/line-items/:employeeId",
                   "PATCH payroll/runs/:id/line-items/:employeeId", "POST payroll/runs/:id/recalculate",
                   "POST payroll/runs/:id/submit-review", "POST payroll/runs/:id/approve",
                   "POST payroll/runs/:id/process", "POST payroll/runs/:id/disburse"})
    @@ For(Overseers, {"GET payroll/runs", "GET payroll/runs/:id/summary", "GET payroll/runs/:id"})

BankAndTaxRoutes ==
    For(HrAdmins, {"GET payroll/runs/:id/bank-file/preview", "GET payroll/runs/:id/bank-file",
                   "GET payroll/config/bank", "PUT payroll/config/bank", "GET payroll/bank-formats",
                   "PUT payroll/config/tax-slabs/:regime", "PATCH payroll/config/tax-regime-config/:regime",
                   "POST payroll/fnf/:employeeId", "PATCH payroll/fnf/:employeeId",
                   "POST payroll/fnf/:employeeId/approve", "POST payroll/fnf/:employeeId/mark-paid"})
    @@ For(Overseers, {"GET payroll/config/tax-config"})
    @@ For(TenantRoles, {"GET payroll/payslips/:employeeId", "GET payroll/tds-regime/:employeeId",
                         "PUT payroll/tds-regime/:employeeId", "GET payroll/fnf/:employeeId"})

(* The console of the platform: one role, checked by its own guard.         *)
ConsoleRoutes ==
    For({OPS}, {"GET platform-admin/tenants", "GET platform-admin/tenants/:id", "POST platform-admin/tenants",
                "POST platform-admin/tenants/:id/resend-admin-reset", "PATCH platform-admin/tenants/:id/status",
                "PATCH platform-admin/tenants/:id/plan", "PATCH platform-admin/tenants/:id/trial",
                "POST platform-admin/tenants/:id/convert", "POST platform-admin/tenants/:id/renew",
                "PATCH platform-admin/tenants/:id/pricing", "POST platform-admin/tenants/:id/refresh-headcount",
                "POST platform-admin/tenants/:id/breakglass", "GET platform-admin/tenants/:id/breakglass",
                "POST platform-admin/tenants/:id/breakglass/:grantId/revoke", "GET platform-admin/audit",
                "GET platform-admin/plans", "PATCH platform-admin/plans/:key", "GET platform-admin/settings",
                "PATCH platform-admin/settings", "GET platform-admin/leads"})
OperationsRoutes ==
    For({OPS}, {"POST platform-admin/tenants/:id/billing/subscribe", "GET platform-admin/tenants/:id/payments",
                "GET platform-admin/email-suppressions", "DELETE platform-admin/email-suppressions/:email"})

LeaveCalls == DOMAIN (LeaveSetupRoutes @@ LeaveRequestRoutes)
PayrollCalls == DOMAIN (SalaryRoutes @@ RunRoutes @@ BankAndTaxRoutes)
Routes ==
    AuthRoutes @@ AccessRoutes @@ AuditRoutes @@ TenantConfigRoutes @@ SetupRoutes @@ NotificationRoutes
    @@ ReportRoutes @@ DashboardRoutes @@ DocumentRoutes @@ EmployeeRoutes @@ DepartmentRoutes
    @@ LeaveSetupRoutes @@ LeaveRequestRoutes @@ AttendanceRoutes @@ SalaryRoutes @@ RunRoutes
    @@ BankAndTaxRoutes @@ ConsoleRoutes @@ OperationsRoutes

(* The module of the plan a call needs, for those that need one.            *)
Modules == {"LEAVE", "ATTENDANCE", "PAYROLL"}
ModuleOf ==
    For("LEAVE", LeaveCalls) @@ For("ATTENDANCE", DOMAIN AttendanceRoutes) @@ For("PAYROLL", PayrollCalls)
Entitled(modules, call) == call \in DOMAIN ModuleOf => ModuleOf[call] \in modules

-----------------------------------------------------------------------------
(* The rows a service lets each role reach.                                 *)
Scope(own, subtree, all) ==
    [r \in TenantRoles |-> IF r \in all THEN Rels
                           ELSE IF r \in subtree THEN {"own", "direct", "below"}
                           ELSE IF r \in own THEN {"own"} ELSE {}]
SeenInScope == Scope({EMP}, {LM}, Overseers)
OwnOrAdmin == Scope(TenantRoles, {}, HrAdmins)
OwnOnly == Scope(TenantRoles, {}, {})
EditableBy == Scope({EMP}, {}, HrAdmins)
SettlementReaders == Scope({EMP}, {}, Overseers)
ByManager == [r \in TenantRoles |-> IF r \in HrAdmins THEN Rels ELSE {"direct"}]
BelowManager == [r \in TenantRoles |-> IF r \in HrAdmins THEN Rels ELSE IF r = LM THEN {"direct", "below"} ELSE {}]
BelowAnyone == [r \in TenantRoles |-> IF r \in HrAdmins THEN Rels ELSE {"direct", "below"}]

EmployeeReach ==
    For(SeenInScope, {"GET employees/:id", "GET employees/:id/emergency-contacts"})
    @@ For(EditableBy, {"PATCH employees/:id", "POST employees/:id/emergency-contacts",
                        "PATCH employees/:id/emergency-contacts/:contactId",
                        "DELETE employees/:id/emergency-contacts/:contactId", "POST employees/:id/photo"})
DocumentReach ==
    For(SeenInScope, {"GET employees/:id/documents", "GET documents/:id/download-url"})
    @@ For(EditableBy, {"POST employees/:id/documents"})
LeaveReach ==
    For(Scope(TenantRoles, {LM}, Overseers),
        {"GET leave/balances/:employeeId", "GET leave/event-leave/:employeeId",
         "GET leave/requests/employee/:employeeId", "GET leave/requests/:id"})
    @@ For(OwnOrAdmin, {"POST leave/requests/:id/attachment", "POST leave/requests/:id/cancel"})
    @@ For(ByManager, {"POST leave/requests/:id/approve", "POST leave/requests/:id/reject"})
AttendanceReach ==
    For(OwnOnly, {"POST attendance/regularization/:id/evidence", "POST attendance/regularization/:id/cancel"})
    @@ For(BelowManager, {"POST attendance/regularization/:id/approve", "POST attendance/regularization/:id/reject",
                          "POST attendance/regularization/bulk-approve"})
    @@ For(ByManager, {"POST attendance/overtime-claims/:id/approve", "POST attendance/overtime-claims/:id/reject"})
PayReach ==
    For(EditableBy, {"GET payroll/structures/:employeeId", "GET payroll/tds-regime/:employeeId",
                     "PUT payroll/tds-regime/:employeeId"})
    @@ For(OwnOrAdmin, {"GET payroll/payslips/:employeeId"})
    @@ For(SettlementReaders, {"GET payroll/fnf/:employeeId"})
Reach == EmployeeReach @@ DocumentReach @@ LeaveReach @@ AttendanceReach @@ PayReach

(* The calls that act for the caller's own employee record.                 *)
NeedsRecord ==
    {"POST leave/requests", "POST attendance/clock-in", "POST attendance/clock-out", "POST attendance/break/start",
     "POST attendance/break/end", "GET attendance/today", "GET attendance/calendar", "GET attendance/stats",
     "POST attendance/regularization", "GET attendance/regularization", "POST attendance/overtime-claims",
     "GET attendance/overtime-claims"}

-----------------------------------------------------------------------------
(***************************************************************************)
(* The states of the rows that screens show, and what each call of the API *)
(* may do to them: the moves of a kind of row are triples of a call, the   *)
(* state it finds and a state it may leave.  A call is refused on a row it *)
(* has no move from, and leaves alone the rows of kinds it has no move of. *)
(***************************************************************************)

(* What the columns a screen reads can hold, and for a link to another row  *)
(* whether there is one.                                                    *)
States ==
    [leave |-> {"PENDING_L1", "PENDING_L2", "APPROVED", "REJECTED", "CANCELLED"},
     regularization |-> {"PENDING", "APPROVED", "REJECTED", "CANCELLED"},
     day |-> {"OUT", "IN", "BREAK", "DONE"},
     shift |-> {"DEFAULT", "OTHER"},
     login |-> {"ACTIVE", "INACTIVE"},
     lifecycle |-> {"PRE_JOINING", "PROBATION", "CONFIRMED", "NOTICE_PERIOD", "SUSPENDED", "SEPARATED"},
     account |-> {"NONE", "LINKED", "LEFT"},
     document |-> {"PENDING_SCAN", "CLEAN", "INFECTED", "SCAN_FAILED"},
     email |-> {"QUEUED", "SENT", "FAILED", "SUPPRESSED"},
     run |-> {"DRAFT", "REVIEW", "APPROVED", "PROCESSED", "DISBURSED"},
     settlement |-> {"NONE", "DRAFT", "APPROVED", "PAID"},
     structure |-> {"NONE", "ACTIVE"},
     tenant |-> {"TRIAL", "ACTIVE", "READ_ONLY", "SUSPENDED"},
     grant |-> {"NONE", "ACTIVE"},
     billing |-> {"NONE", "SUBSCRIBED"},
     setup |-> {"OPEN", "COMPLETE"},
     plain |-> {"SAVED"}]
Kinds == DOMAIN States

Moves(call, from, to) == {call} \X from \X to
Keeps(call, states) == {<<call, s, s>> : s \in states}

(* approve() needs a pending request and moves it on, or ends at once where *)
(* the chain has one level; reject() and cancel() look at no status.        *)
LeaveSteps ==
    Moves("POST leave/requests/:id/approve", {"PENDING_L1"}, {"PENDING_L2", "APPROVED"})
    \cup Moves("POST leave/requests/:id/approve", {"PENDING_L2"}, {"APPROVED"})
    \cup Moves("POST leave/requests/:id/reject", States.leave, {"REJECTED"})
    \cup Moves("POST leave/requests/:id/cancel", States.leave, {"CANCELLED"})
    \cup Keeps("POST leave/requests/:id/attachment", States.leave \ {"CANCELLED", "REJECTED"})
(* Mutant of RegularizationSteps: a decision looks at no status. *)
RegularizationStepsUnchecked ==
    Moves("POST attendance/regularization/:id/approve", States.regularization, {"APPROVED"})
    \cup Moves("POST attendance/regularization/bulk-approve", States.regularization, {"APPROVED"})
    \cup Moves("POST attendance/regularization/:id/reject", States.regularization, {"REJECTED"})
RegularizationSteps ==
    Moves("POST attendance/regularization/:id/approve", {"PENDING"}, {"APPROVED"})
    \cup Moves("POST attendance/regularization/bulk-approve", {"PENDING"}, {"APPROVED"})
    \cup Moves("POST attendance/regularization/:id/reject", {"PENDING"}, {"REJECTED"})
    \cup Moves("POST attendance/regularization/:id/cancel", {"PENDING"}, {"CANCELLED"})
    \cup Keeps("POST attendance/regularization/:id/evidence", {"PENDING"})
(* A clock-in after the clock-out starts the day again.                     *)
DaySteps ==
    Moves("POST attendance/clock-in", {"OUT", "DONE"}, {"IN"})
    \cup Moves("POST attendance/clock-out", {"IN"}, {"DONE"})
    \cup Moves("POST attendance/break/start", {"IN"}, {"BREAK"})
    \cup Moves("POST attendance/break/end", {"BREAK"}, {"IN"})
ShiftSteps == Keeps("DELETE attendance/shifts/:id", {"OTHER"})
LoginSteps == Moves("PATCH access/users/:id/status", States.login, States.login)
LifecycleSteps ==
    LET Goes(from, to) == Moves("PATCH employees/:id/lifecycle", {from}, to) IN
    Goes("PRE_JOINING", {"PROBATION"}) \cup Goes("PROBATION", {"CONFIRMED", "SEPARATED", "SUSPENDED"})
    \cup Goes("CONFIRMED", {"NOTICE_PERIOD", "SUSPENDED"}) \cup Goes("NOTICE_PERIOD", {"SEPARATED", "CONFIRMED"})
    \cup Goes("SUSPENDED", {"PROBATION", "CONFIRMED"})
(* LEFT is a separated employee without a login.                            *)
AccountSteps ==
    Moves("POST employees/:id/login", {"NONE"}, {"LINKED"})
    \cup Moves("PATCH employees/:id/login", {"NONE"}, {"LINKED"})
    \cup Keeps("POST employees/:id/login/sync-email", {"LINKED"})
DocumentSteps == Keeps("GET documents/:id/download-url", {"CLEAN"})
EmailSteps == Moves("POST notifications/log/:id/retry", {"FAILED"}, {"QUEUED"})
(* approve() leaves the run under review until a second admin approves.     *)
RunSteps ==
    Keeps("POST payroll/runs/:id/recalculate", {"DRAFT", "REVIEW"})
    \cup Keeps("PATCH payroll/runs/:id/line-items/:employeeId", {"DRAFT", "REVIEW"})
    \cup Moves("POST payroll/runs/:id/submit-review", {"DRAFT"}, {"REVIEW"})
    \cup Moves("POST payroll/runs/:id/approve", {"REVIEW"}, {"REVIEW", "APPROVED"})
    \cup Moves("POST payroll/runs/:id/process", {"APPROVED"}, {"PROCESSED"})
    \cup Moves("POST payroll/runs/:id/disburse", {"PROCESSED"}, {"DISBURSED"})
    \cup Keeps("GET payroll/payslips/:employeeId", {"PROCESSED", "DISBURSED"})
SettlementSteps ==
    Moves("POST payroll/fnf/:employeeId", {"NONE"}, {"DRAFT"})
    \cup Keeps("GET payroll/fnf/:employeeId", States.settlement \ {"NONE"})
    \cup Keeps("PATCH payroll/fnf/:employeeId", {"DRAFT"})
    \cup Moves("POST payroll/fnf/:employeeId/approve", {"DRAFT"}, {"APPROVED"})
    \cup Moves("POST payroll/fnf/:employeeId/mark-paid", {"APPROVED"}, {"PAID"})
StructureSteps ==
    Keeps("GET payroll/structures/:employeeId", {"ACTIVE"})
    \cup Moves("POST payroll/structures/:employeeId", {"NONE"}, {"ACTIVE"})
    \cup Keeps("PATCH payroll/structures/:employeeId", {"ACTIVE"})
    \cup Keeps("POST payroll/structures/:employeeId/revise", {"ACTIVE"})
TenantSteps ==
    Moves("PATCH platform-admin/tenants/:id/status", States.tenant, {"ACTIVE", "SUSPENDED", "TRIAL"})
    \cup Moves("PATCH platform-admin/tenants/:id/trial", {"TRIAL", "READ_ONLY"}, {"TRIAL"})
    \cup Moves("POST platform-admin/tenants/:id/convert", {"TRIAL", "READ_ONLY"}, {"ACTIVE"})
GrantSteps ==
    Moves("POST platform-admin/tenants/:id/breakglass", {"NONE"}, {"ACTIVE"})
    \cup Moves("POST platform-admin/tenants/:id/breakglass/:grantId/revoke", {"ACTIVE"}, {"NONE"})
BillingSteps == Moves("POST platform-admin/tenants/:id/billing/subscribe", {"NONE"}, {"SUBSCRIBED"})
SetupSteps ==
    UNION {Keeps(c, {"OPEN"}) : c \in {"GET setup/draft", "PUT setup/draft", "POST setup/validate",
                                       "POST setup/files/:kind", "DELETE setup/files/:kind"}}
    \cup Moves("POST setup/submit", {"OPEN"}, {"COMPLETE"})
    \cup Keeps("POST setup/logins/retry", {"COMPLETE"})

KindSteps ==
    [leave |-> LeaveSteps, regularization |-> RegularizationSteps, day |-> DaySteps, shift |-> ShiftSteps,
     login |-> LoginSteps, lifecycle |-> LifecycleSteps, account |-> AccountSteps, document |-> DocumentSteps,
     email |-> EmailSteps, run |-> RunSteps, settlement |-> SettlementSteps, structure |-> StructureSteps,
     tenant |-> TenantSteps, grant |-> GrantSteps, billing |-> BillingSteps, setup |-> SetupSteps, plain |-> {}]

(* The second level is HR's; nobody deactivates their own login.            *)
HrStage == {<<"POST leave/requests/:id/approve", "PENDING_L2">>}
NotOnesOwn == {<<"PATCH access/users/:id/status", "INACTIVE">>}

-----------------------------------------------------------------------------
AnyState == "ANY"

(* What stands in front of a call, whatever state the row is in: the roles  *)
(* of its handler, the plan, the caller's own record and the rows in reach. *)
(* The caller v has a role, a linked employee record or not, and a plan.    *)
Allowed(call, v, rel) ==
    /\ call \in DOMAIN Routes /\ v.role \in Routes[call]
    /\ Entitled(v.modules, call)
    /\ call \in NeedsRecord => v.linked
    /\ call \in DOMAIN Reach => rel \in Reach[call][v.role]

(* The states a row may be in after `call` asking for `to`, none where the  *)
(* API refuses.  The row has a kind, a relation to the caller and a state.  *)
After(call, to, v, row) ==
    LET steps == KindSteps[row.kind]
        next == IF \E m \in steps : m[1] = call THEN {m[3] : m \in {x \in steps : x[1] = call /\ x[2] = row.state}}
                ELSE {row.state}
    IN  IF /\ Allowed(call, v, row.rel)
           /\ <<call, row.state>> \in HrStage => v.role \in HrAdmins
           /\ row.rel = "own" => <<call, to>> \notin NotOnesOwn
        THEN next \cap (IF to = AnyState THEN next ELSE {to})
        ELSE {}
=============================================================================
