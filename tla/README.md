# Verification of the HRMS

TLA+ models of the HRMS: the API that decides about people's leave, attendance,
pay and access, the platform that bills and onboards workspaces, and the web
client in front of them; TLC configurations that check the models on small
instances, and proofs that the TLA+ proof system checks for every value of the
constants. Paths below are relative to the repository root (`src/` here).

The API is a multi-tenant NestJS service over Postgres, with BullMQ workers.
One fact shapes every model: `TenantPrismaService.client` runs **each Prisma
operation in a transaction of its own** (to set the tenant for row-level
security). A handler such as `LeaveService.finalApprove()` is therefore a
sequence of separately committed statements, other handlers run between any two
of them, and a lost process leaves the first few committed. Only
`TenantPrismaService.transaction()` groups statements. The models keep every
such boundary: one action per statement, or per group of reads with no write
between them.

## 1. Inventory

State, operations, interactions and hard behaviours of each part. The status of
each is in `PROJECT.json`, and the hazards with their lines too.

### Leave

**Leave requests** (`leave/leave.service.ts`, `event-leave.ts`).
State: requests, approval rows, balances and their ledger, attendance rows,
attachments. Operations: apply, attach, approve at level 1 and 2, finalApprove,
reject, cancel, manual balance adjustment. Interacts with attendance (ON_LEAVE
rows), the queue (escalation jobs), documents (HR may delete an attachment),
settings, leave types, holidays, notifications. Hard: approvals that overlap; death between the balance, ledger,
attendance and status statements; settings and policies that change while a
request is in flight. Correct when: no approval without a deduction, no refund
without one, balance and ledger never drift, only people approve, event leave
stays within its allowance.

**Leave escalation** (`leave-escalation.processor.ts`). State: delayed jobs.
A job moves a request undecided at level 1 to level 2, and reminds HR at
level 2. Hard: a job racing a decision; redelivery; a queue shared with the
accrual worker. Correct when an undecided request does not wait at level 1 for
ever, and a job never approves.

**Leave entitlement** (`leave-entitlement.ts`, `leave-entitlement.service.ts`,
`leave-accrual.processor.ts`, `leave-policy-recalc.service.ts`). State:
balances, ledger, go-live date. Operations: the daily job (carry-forward, then
credits), "apply policy now", the credit of a new employee, company setup's
credit, a recalculation. Hard: callers that overlap, runs that are missed,
repeated or die half way, part periods and rounding. Correct when missed days
are caught up, nothing is credited twice, before joining or ahead of time, and
the ledger explains the balance.

### Attendance

**Days and regularization** (`attendance/attendance.service.ts`,
`attendance-finalization.processor.ts`). State: daily records, breaks,
regularization requests, the tenant's settings. Operations: clock in and out,
break, punch, request, decide, cancel, manual mark; the nightly finalization and
the cutoff job. Interacts with leave (marks days, credits comp-off for work on a
holiday) and documents (evidence). Hard: jobs deciding what managers decide
meanwhile, base statuses recomputed from today's calendar. Correct when an
absence has a reason, a disputed day has a request, and decisions are final.

**Overtime and comp-off** (`attendance.service.ts`, `leave.service.ts` from
1490). State: claims, the comp-off balance and its ledger rows; which leave type
is the comp-off one, and the hours of shifts. Hard: a claim approved twice, or
with no type or hours to credit it to; a credit lost between balance and ledger.
Correct when each worked day off and each claim is credited once.

**Shifts and settings** (`attendance.service.ts`, `createShift()` and on). State:
shifts and the default one, the regularization window and cap. Hard: the default
is cleared before the write that may be refused; a cap lowered under live
requests. Correct when there is one default and the cap binds.

### Payroll

**Payroll runs** (`payroll/payroll-run.service.ts`, and the index and trigger of
migration `20261012090000_payroll_run_lifecycle`). State: runs (DRAFT, REVIEW,
APPROVED, PROCESSED, DISBURSED), approval rows, line items, payslips, folded
arrears. Hard: statuses checked and written in different statements; figures
read before the transaction that uses them. Correct when two people approved
what is paid, a period has one regular run, a processed run is frozen, payslips
exist and say what is paid.

**Salary structures** (`payroll/salary-structure.service.ts`). State: the active
structure, revisions, pending arrears. Correct when arrears are paid once and
never lost.

**Figures** (`payroll-calculator.ts`, `working-days.util.ts`, `tds-calculator.ts`, `tds.service.ts`,
`full-and-final-calculator.ts`): pure arithmetic over rate tables; the TDS of a
month depends on what earlier runs paid and deducted. Correct when the days of a
month partition, more days never pay less, a component satisfies its own
definition, and the year's deductions come to the year's tax.

**Settlements and settings** (`full-and-final.service.ts`,
`salary-import.service.ts`, `payroll-config.service.ts`,
`payroll-bank.service.ts`). State: settlements, structures, tax tables. Hard:
states checked and written apart, tables seeded by their first reader.

### People and workspace

**Logins** (`access/`, `employees/employees.service.ts`). State: `users` rows,
Firebase accounts and their claims, the login of each employee, the lifecycle.
Hard: every change is two writes in two systems; the last Company Admin; a login
linked while its employee is separated. Correct when the two systems agree, an
admin remains, and those who left cannot sign in.

**Organisation** (`employees.service.ts`). State: reporting lines, departments,
emergency contacts, photos. Hard: two edits closing a cycle, walks over it.

**Import and setup** (`employees/employee-import.service.ts`, `setup/`). State:
a plan of rows, the draft, an upload, logins that failed. Hard: rows that fail
half way, admins who save over one another, logins created after the commit.

**Identity cache and guards** (`common/tenancy/`, `common/guards/`). State:
three caches per instance. Hard: fills after an invalidation. Correct when every
decision rests on values that were true recently.

**Tenants and billing** (`platform-admin/`, `billing/`). State: status, trial,
grace, subscription, terms, support grants. Hard: Razorpay events late, twice,
out of order; jobs acting on stale reads. Correct when a workspace is restricted
for a reason that stands, a charge is one payment, an operator's suspension
stands.

**Onboarding** (`platform-admin.service.ts`, `createTenant()`). State: tenant
row, admin's login, the tenant's own rows, the invite; each step may fail and be
compensated. Correct when a whole tenant is left, or nothing.

### Services

**Notifications** (`notifications/`). State: the mail log, suppression list,
send jobs. Hard: at-least-once sends, late bounces, sweeps.
**Documents** (`documents/`). State: rows, objects, scan jobs. Hard: an object
deleted before its row says so; uploads that retire one another.

### Web client

**Screens** (`apps/web/src/pages`, `lib`). State: what is shown, what is asked,
what is being sent. Each screen repeats, as conditions on buttons and links, the
roles, scopes and states the API checks. Hard: the guards live in two places;
answers arrive out of order; decisions are taken on outdated rows.
**Setup wizard** (`pages/setup/index.tsx`). State: the draft being typed, saved
in the background. **Session** (`context/auth-context.tsx`). State: the token,
the user, the workspace every call names.

### Without a model

Field encryption, report and dashboard aggregations, the audit log, the contact
form, file layouts, static pages: see section 6.

## 2. Modules

| Module | Models |
|---|---|
| `LeaveRequests`, `LeaveProperties`, `MCLeave` | the request lifecycle, the escalation worker and their environment; what they promise; values for TLC |
| `LeaveCredits` | the pure arithmetic of `leave-entitlement.ts` |
| `LeaveEntitlement`, `EntitlementProperties`, `MCEntitlement` | the engine's callers and the recalculation, on top of `LeaveCredits`; what they promise, and a year of daily runs, any of them missed |
| `PayrollRun`, `PayrollProperties`, `MCPayroll` | payroll runs, approvals, salary structures and arrears |
| `Calls` | calls that run at the same time, `calm`; extended by all below |
| `Jobs` | BullMQ: jobs by id, attempts, workers lost and redelivery |
| `Attendance`, `AttendanceProperties`, `MCAttendance` | days, regularization, nightly jobs, shifts, overtime claims and comp-off credits; what they promise |
| `Tenants` | status, billing, terms and support grants of one tenant |
| `Provisioning` | onboarding and its rollback |
| `Identity`, `RecentReads` | the caches and guards; the abstract promise they implement |
| `Logins`, `Org`, `EmployeeImport`, `Setup` | accounts and lifecycle; reporting lines and everything derived from them; the import; company setup |
| `WorkspaceProperties`, `MCWorkspace` | what the seven modules above promise; values and budgets |
| `Notifications`, `Documents`, `Settlements` | the mail log and its worker; uploads and scans; settlements, salary import, tax tables |
| `PayrollFigures` | the calculator and the statutory rates |
| `ServicesProperties`, `MCServices` | what these four promise, and a year of TDS; values and budgets |
| `Api` | what the API accepts: role, plan module, scope and state, call by call |
| `Screens` | what a screen asks and offers; the screens themselves |
| `Client`, `Browser` | a user in front of a screen; the wizard's draft and the session |
| `ClientProperties`, `MCClient` | what client and API owe each other |
| `SumProofs` | sums over finite sets, for the ledgers |
| `LeaveRequestsProofs`, `EntitlementProofs`, `PayrollProofs`, `AttendanceProofs`, `WorkspaceProofs`, `ServicesProofs`, `ClientProofs` | the proofs, one module for each component's properties |

Operators marked "Mutant of" are not part of a model; each is a plausible
mistake in the definition it precedes and shows that some property can tell.

### LeaveRequests

A *call* is one HTTP request or one job run. Its record holds the program
counter and the locals of the handler: the request as read (`snap`), the planned
balance movements (`plan`), the status to write (`target`), the days to sync.
The variables are the tables. `ReadApply`, `ReadApprove`, `ReadReject`,
`ReadCancel`, `ReadAttach` and `StartAdjust` are the reads and early returns
with which a handler begins; `InsertRequest`, `Post`, `WriteLedger`, `SyncDay`,
`WriteStatus`, `RecordDecision` and the rest are its later statements.
`finalApprove` is `Settle` (the plan), then for each movement `Post` and
`WriteLedger`, then the attendance days one by one, then the status, then the
approval row; `cancel` has the same shape. `TakeJob` is the escalation worker,
`AccrualWorkerTakesJob` the accrual worker on the same queue, `Fail` the death
of a handler between two statements, with or without redelivery of its job.
Settings, leave types, holidays and clock-ins change at any moment, and
`softDelete` takes an attachment away whatever its request's status. `configured`
is history: every configuration a type has had, for properties about requests
that were made under one of them. Amounts are in half days. Left out:
notifications and who receives them, audit rows, read endpoints.

### LeaveCredits and LeaveEntitlement

Amounts are hundredths of a day, so that the code's `round2` is exact. The loop
of `creditsDue` is a recursive function over the periods. A leave year has
equal periods; the calendar's uneven months are abstracted. In
`LeaveEntitlement` a call reads the ledger and balances and plans, creates the
missing balance rows (one `createMany`, which fails as a whole when one exists
already), increments the others one by one, and writes the ledger rows last.
Setup's submit and a recalculation are one transaction, hence one step.

### PayrollRun

A *thread* runs one handler at a time and then the next, without a bound on how
many. The calculator is abstracted to one amount, the pay of the employee's
structure (`PayrollFigures` says how it comes about): what matters to the
properties is which structure was read, when, and what was added to it.
`StartOn` is the status check with which every handler on a run begins; the
write comes in a later step. `Immutable` is the database trigger, `PeriodTaken`
the partial unique index. `processed` in a run's row is `processedAt # null`.
`ChangeAdmins` and `ChangePayable` are edits made elsewhere, `Lost` the death of
a handler. Adjustments are split into folded arrears (identified, so that one
can say whether they are paid twice) and the total of the others.
`setLineItemAdjustments` replaces the whole list, so it may drop arrears.

### Calls, calm, and the parts of a run

From here on, a call `h` under way is `calls[h]`, a record whose `pc` names its
next statement and whose other fields are what it has read. `calm` is TRUE until
two calls overlap or one is lost half way. Many handlers of this code check and
write in separate statements, and promise nothing when they overlap; a property
of theirs reads `calm => P`, checked in the same run in which others hold
without `calm`, under every interleaving and loss. What overlap breaks is in
section 5.

The runs `attendance`, `workspace`, `services` and `client` each check several
modules that share no table. A variable `part`, chosen in the initial state and
never changed, says which of them a behaviour is about: their states add up
instead of multiplying. `MCBudget` bounds the calls of each part.

### Attendance

Records keep what their status depends on: whether there is a clock-in and
whether it was late, a check-out, and who wrote them. The nightly job handles
one employee at a time (`FinalizeOne`), the cutoff one request at a time
(`CutoffRequest`, `CutoffRecord`), and managers, HR and employees act between
any two. `leaveApproved` and `leaveCancelled` are what `LeaveService` writes to
a day. A comp-off credit is the read of the comp-off type, of the ledger, the
balance, the ledger row; it ends at the first of them when the tenant has no such
type (`designate` edits it). A claim's credit depends on the hours of the
employee's shift: none, zero (a ledger row of no days) or some; `lapsed` remembers
that a type or a shift's hours were ever missing. `updateAttendanceConfig` edits
the window and the cap at any moment (`widest` is the largest cap so far).
`createShift` and `updateShift` clear the default first; their write is then done,
or refused by the unique name (`RefuseShift`), or lost (`cleared` remembers).

### Tenants, Provisioning, Identity

`Tenants` has one tenant, since each job and call touches one at a time. An
event of Razorpay may be delivered any number of times and in any order; the
webhook reads the status first and decides on it in its transaction. Time is
counted in units of a trial. `Provisioning` follows `createTenant()` and its
compensations, each of which may fail too. `Identity` has two instances; a
lookup that misses reads the row in one step and fills the cache in another, so
that a write may come between. It implements `RecentReads`, which knows neither
instances nor caches: `DecidesOnRecentRows` is `Promise!RecentSpec` with the
tables of `Identity` for its own, checked as a property.

### Logins, Org, EmployeeImport, Setup

Firebase is external: an account exists, is disabled, has an email and claims,
and each call to it may be refused. `Logins` keeps the order of the two systems'
writes and their compensations. `Org` computes the scopes, the chart and the
counts from reporting lines as the code's walks do, so that they can be compared
with definitions by reachability. A file of the import is a sequence of rows
[code, manager, mail, bad]; `bad` stands for every check that looks at one cell.

### Notifications, Documents, Settlements, PayrollFigures

A mail is a row and a job with the row's id; the dispatcher, the sweep and a
retry add jobs, a worker claims, sends and writes SENT, SES may refuse, the
worker may be lost. `Documents` stores the object, writes the row, retires the
owner's previous attachment and adds the job. In `Settlements` the import plans
from the structures it read and then writes row by row, while HR creates and
revises structures. `PayrollFigures` are pure operators over paise or scaled
amounts; the variable `case` runs over their inputs. The tax year of
`ServicesProperties` drafts, recalculates and processes one employee's months:
a draft does not wait for the month before it, up to `MaxOpen` months are open at
a time, and a figure projects from the months that are PROCESSED when it is
computed (`buildContext`). Months with none open before them are summed up, so
that the state stays small.

### Api, Screens and Client

`Api` gives each call its four guards: roles (controllers), plan modules,
scope (which relation of the row's employee to the caller a service lets a role
reach) and its moves: triples of a call, the state a row is found in and a state
it may be left in. A call that has no move from a row's state is refused; one
that has none for a kind of row leaves those rows alone. A path no controller
names is refused. A *screen* is the calls made when it opens, the
kind of row it lists and whose, the calls it offers on a row (to which roles,
relations and states), and what becomes of an answer: refetched, patched into
the view, followed by another screen; whether it blanks itself while it loads
(`cleared`) and drops late answers (`latest`). `Client` opens screens by the
menu and by links, asks again, hears answers in any order, clicks on what is
shown, while other people change the rows. `Browser` is the setup wizard's
draft, by number of edits, and the session; while a save is under way, the step
buttons save again and the submit button does not (`submitting`).

## 3. Runs

Properties that hold for one reason are grouped: `LeaveIsExplained ==
OnLeaveHasApproval /\ LedgerReconstructs`. The parts are definitions with
comments of their own; the group is what a configuration names.

| Run | Instance | Shows |
|---|---|---|
| `leave_concurrent` | 1 request, 3 calls, 2 in flight, failures, shared queue; a holiday added, or a balance adjusted | `TypeOK`, `ApprovedWasDeducted`, `RefundNeedsDeduction`, `HumanApproved`, `LeaveIsExplained` under every interleaving and failure |
| `leave_serial` | 2 requests for one day, or one and clock-ins on it; 4 calls, one at a time, a type that changes its mode, an approval chain that changes | `ApprovedIsCarriedOut`: what was approved is deducted once and marked, what was cancelled nets to zero |
| `leave_event` | 2 requests of a type that is switched between accrued and event-based, a document that is uploaded and deleted, 4 calls, one at a time, the escalation job on a queue of its own under fairness | `EventLeaveAddsUp`: allowance, self-cancelling grant, document before approval; `EscalationMovesOn` |
| `leave_double` | two overlapping approvals | violates `DeductedAtMostOnce` |
| `leave_sharedqueue` | the queue as deployed | violates `EscalationMovesOn` |
| `entitlement` | 2 employees, 2 leave years; serial calls; two racing calls that may die; a year of daily runs, any of them missed, 3 frequencies, 4 quotas, 10 start days | `CreditsAddUp` (serial), `CreditsAreBacked` (all), `CreditsCatchUp` (daily) |
| `payroll_serial` | 1 employee, 2 runs and the draft of a third, 2 structures, 2 admins, one handler at a time | `PayAddsUp`, `RunsAreFrozen` |
| `payroll_racing` | 2 overlapping handlers that may be lost | `RunsAreWhole`, `TwoApprovers`, `ProcessedHasPayslips` |
| `attendance` | 1 employee, 2 days, 2 requests, 5 calls, 2 at a time that may be lost, from the default settings; overtime with a manager and two HR, a comp-off type and shift hours that come and go; 2 settings of the window and cap; shifts whose writes are refused or lost | `DaysAreExplained`, `CompOffAddsUp`, `LimitsHold`, `DecisionsAreFinal` |
| `workspace` | the twelve parts of `MCWorkspace`, 3 to 6 calls each, 2 at a time, Firebase refusing and processes lost at any step | `TenancyAddsUp`, `RestrictedForReason`, `OnboardingIsWhole`, `OperatorsWordStands`, `DecidesOnRecentRows`, `LoginsInStep`, `AnAdminRemains`, `OrgIsWhole`, `EntriesLand`, `StaysDecided` |
| `services` | 2 mails, 2 files (one malware), a settlement, an import of 2 rows while HR edits, a tax table, a year of TDS from month 7 or 10 with up to 2 months open, and every edge case of the figures | `MailAddsUp`, `DocumentsAddUp`, `PaySettingsAddUp`, `FiguresAreSound`, `WhatIsDecidedStands`, and `WorkIsSettled` under fairness |
| `client` | every screen for every role with and without an employee record, 3 questions, 2 clicks, 1 change by others; 3 edits and 4 saves of the wizard; 2 people of 2 workspaces signing in | `OffersHold`, `ViewsAreCurrent`, `BrowserIsTrue`, `SettledStaysSettled` |

**Bounds, and why they are enough.** Two calls at a time give every race between
two statement sequences; a third (or, in payroll, any number of further handlers
on the same two threads) lets a row be brought to the state in which the race
matters. One request is enough where the properties are about one request; two
where they share a day or an event; one day is enough, since what a handler does
to the days of a request it does to each alone, and two configurations of a type
give a switch there and back. Two runs of one period give two drafts at
once, or a run and its re-process; two structure versions give one revision that
reaches back to a processed run. Arrears could be paid twice only by two drafts
after that processed run, so `payroll_serial` drafts a third run and starts
nothing more (`LastRun`). Five days in years of four cover a change of leave
year in `entitlement`. Two open months give a figure computed without the month
before it. Three people are the least on which a cycle can be longer than two and a
scope deeper than one; three rows the least in which a refusal reaches a row
through another; two instances and one key at a time the least in which a cache
outlives a write made elsewhere. Two events of each kind let one overtake the
other. Every bound is a constant named in its module: `Reqs`, `UserCalls`,
`MaxInFlight`, `Handlers`, `Concurrency`, `MaxCalls`, `MCBudget`, `LastDay`,
`LastTick`, `Horizon`, `MaxUsed`, `MaxCredit`, `MaxBreaks`, `Runs`, `LastRun`,
`MaxVersion` (a structure at the last version is no longer edited), `MaxSends`,
`MaxFaults`, `MaxAsked`, `MaxClicked`, `MaxMoved`, `MaxTyped`, `MaxSaves`,
`MaxChecks`, `MaxOpen`. In `Client` a user follows links only from a screen as it opened
(`Untouched`), since what they do before leaving changes nothing on the next.
Symmetry is over admins, threads, call ids, instances and the texts of the
setup's profile, which the models treat alike, in runs that check no liveness. Most runs switch deadlock checking
off because ids of calls run out; the payroll runs keep it on.

**What the serial properties do not catch.** A property that is for calls one after
the other shows nothing of the hazards that overlap creates. Where the code is
wrong then, no property can hold: the hazard is listed in `PROJECT.json` with an
empty list, or with the weaker property that survives, and a note; section 5
says what happens. So it is for the second Company Admin, tax tables, comp-off
credited twice, two attachments, suspensions overwritten by a webhook, reporting
loops, the import's and setup's losses, and a payroll run that a stale call
reopens. `NetDeduction` counts deductions and refunds and not event grants:
these are `EventNetsToZero`'s.

**Fairness.** `FairSpec` (leave) assumes weak fairness of `TakeJob` (BullMQ
keeps polling for due jobs) and of each handler's `Step` (Node keeps executing
awaited statements), and that handlers do not die (`MayFail = FALSE`): a job has
one attempt and one that throws is not repeated. `MailFairness` and
`DocFairness` assume strong fairness of taking a job, since a busy worker comes
back to a queue that is first in, first out; weak fairness of a worker's next
statement; and weak fairness of the two sweeps, which are repeatable jobs.
There workers do die, up to `MaxFaults` times, and the sweeps and further
attempts make it good. Nothing is assumed of users: nobody has to decide a
request, approve a run or click.

**An abstract specification.** `RecentReads` says what the identity cache owes
the guards: each value a decision used was the row's value no longer ago than
`Slack`. `Identity`, with per-instance caches, fills that cross invalidations
and writes inside transactions, implements it with `Slack` the cache's lifetime
and the time requests take (`DecidesOnRecentRows`).

## 4. What is proved

TLC checks the instances of section 3; the theorems below hold for any number
of employees, users, requests, runs, handlers and calls, any calendar, policy
and settings, with handlers that overlap, fail and are lost wherever the model
lets them. "Serial" marks what a property promises only while calls do not
overlap (`calm`, or one handler).

| Theorem | States |
|---|---|
| `LeaveRequestsProofs.TypeCorrect` | `TypeOK` |
| `ApprovalIsHuman` | `HumanApproved` |
| `ApprovalsArePaidFor` | `ApprovedWasDeducted` |
| `RefundsAreEarned` | `RefundNeedsDeduction` |
| `LeaveStaysExplained` | `LeaveIsExplained`, where `Years \subseteq OpeningYears` |
| `DecisionsAreCarriedOut` | `ApprovedIsCarriedOut`, for handlers one at a time that do not fail |
| `EventLeaveIsSound` | `EventLeaveAddsUp`, likewise, however leave types are edited and documents deleted |
| `EntitlementProofs.CreditsStayBacked` | `CreditsAreBacked` |
| `PayrollProofs.TwoPersonRule` | `TwoApprovers` |
| `PayslipsAreThere` | `ProcessedHasPayslips` |
| `RunsStayWhole` | `RunsAreWhole` |
| `PayIsRight` | `PayAddsUp`, for one thread |
| `RunsGoForward` | `RunsAreFrozen`, for one thread |
| `AttendanceProofs.LimitsAreKept` | `LimitsHold` (types always, limits serial, settings edited and shift writes refused) |
| `DaysHaveReasons` | `DaysAreExplained` (serial) |
| `CompOffIsCredited` | `CompOffAddsUp` (the ledger always; serial, at most once per cause, and exactly once per claim unless a comp-off type or shift hours were missing) |
| `DecisionsStand` | `DecisionsAreFinal` (serial) |
| `WorkspaceProofs.OnboardingLeavesWholeTenants` | `OnboardingIsWhole` |
| `GuardsDecideOnRecentRows` | `DecidesOnRecentRows`: `Identity` implements `RecentReads` |
| `TenancyStaysWhole` | `TenancyAddsUp` (one row per charge always, the rest serial) |
| `ReadOnlyHasAReason` | `RestrictedForReason` (serial) |
| `OperatorsWordIsKept` | `OperatorsWordStands` (from `WritesBiteAtOnce`, `OperatorsDecisionsStand`) |
| `LoginsStayInStep` | `LoginsInStep` (strays always, the two systems in step serial) |
| `AdminsRemain` | `AnAdminRemains` (serial) |
| `WorkspaceProofs.DecisionsStand` | `StaysDecided` (from `LinksAndSeparationsStand`, `DepartmentsAreKept`, `OneSetupLands`) |
| `ServicesProofs.MailIsSentOnce` | `MailAddsUp` (one send per asking always, suppression serial) |
| `DocumentsStayWhole` | `DocumentsAddUp` (objects and rows always, one attachment serial) |
| `PaySettingsStayWhole` | `PaySettingsAddUp` (settlements and import always, tax tables serial) |
| `ServicesStand` | `WhatIsDecidedStands`, the one overwriting of HR's structure included (from `DownloadsAreClean`, `SalariesStand`) |
| `ClientProofs.BrowserStaysTrue` | `BrowserIsTrue` |
| `SettledRowsStand` | `SettledStaysSettled` |
| `ShownIsAsked` | `ShowsWhatItAsked`, a part of `ViewsAreCurrent` |

**Assumptions.** `LeaveConstants`, `PayrollConstants`, `CalendarAssumption`,
`EntitlementAssumption`, `CompOffAssumption`, `OvertimeAssumption`,
`AttendanceAssumption`, `CallsAssumption`, `JobsAssumption`,
`ProvisioningAssumption`, `TenantsAssumption`, `IdentityAssumption`,
`LoginsAssumption`, `OrgAssumption`, `MailAssumption`, `DocumentsAssumption`,
`SettlementsAssumption`, `ClientBounds` and `EditorBounds`: that null ids are
not ids, that bounds, days and amounts of the catalog are natural numbers, that
managers are finitely many, and that an initial workspace is one the code can
have produced. TLC evaluates each on the runs of its module. Five theorems
say more. `LeaveStaysExplained` supposes that every leave year has its opening row:
`adjustBalanceManual()` clamps at zero when it creates one (section 5), which is
the case it leaves out (`leave_event` starts without any such row).
`DecisionsAreCarriedOut` supposes `MaxInFlight <= 1` and `~MayFail`, as
`leave_serial` does; `EventLeaveIsSound` also that no type grants more reduced
days than days per event, which `eventTypeConfigProblems()` refuses; `PayIsRight` and `RunsGoForward` suppose one thread, as
`payroll_serial` does. What overlap breaks is in section 5.

A theorem is about the behaviours of the modules whose tables its property
reads: `AttendanceSpec`, `TenancySpec`, `OnboardingSpec`, `IdSpec`, `LoginsSpec`,
`StructureSpec`, `WizardSpec`, `MailSpec`, `DocSpec`, `SettlementsSpec`,
`EditorSpec`, `SessionSpec` and `ClientSpec` are the parts that `part` chooses
between in a run (section 2), without the budget of its MC module.
`PlatformSpec`, `PeopleSpec` and `ServicesSpec` say of a behaviour that it is one
of those, while the tables of the others stand still, as in the runs.

**Sums.** Ledgers are sums over sets of rows, `SumFunctionOnSet`, a fold that is
defined by a recursive function over subsets. Nothing about it follows without
induction over finite sets, and the library's induction theorem cannot be
instantiated; but strict inclusion of finite sets is well founded, and a
well-founded order gives every non-empty family of subsets a smallest member
(`MinimalSubset`). The lemmas of `SumProofs` rest on the smallest subset that
would refute them: that a sum is its recursive equation, that adding a row adds
its amount, that sums agree, are natural, bounded, monotone.

**Leave.** None of the properties is inductive: a handler about to write APPROVED
would break it unless its locals say it may. The invariant is layered. `Shape`
is `TypeOK` with what a program counter says of a handler's locals (`CallOK`)
and that an inserted request keeps its employee and loss-of-pay flag, on which
every snapshot therefore agrees for ever. `Signed` adds that a handler whose
target is APPROVED was started by somebody entitled to approve, and that the
worker only escalates. `Paid` follows the plan: an approving handler has either
posted its deduction or still has it in its plan, and has posted it once it
reaches the attendance and status statements; a cancelling one began from an
APPROVED request, whose deduction was already there. The ledger only grows, so a
fact about posted rows that was true when a handler read it stays true, however
late the handler writes. `Booked` adds that a balance changed
without its ledger row has a handler between those two statements, or one that
died there (`Owing`), so that the change is accounted for; `Marked` that a handler
marks days only while approving, and those of its request.
One handler at a time, what it read is still so when it writes. `Carried` says
that, what of its plan is posted and what is left, that a request has at most one
deduction and one refund, and what the ledger holds of a request with no
decision in hand; `DaysFollow` that the days of an approval in hand or written
have their rows, or lie in a request that was cancelled. The proof takes any
number of calls, and that showed the exception of `LeaveDaysMarked` to be wider
than a run of four calls can reach: approve one request, approve another over
the same day, cancel the second, which clears the day, and reject it, after
which nothing says it was cancelled. For event leave, `EventsFit` says that an
event's request is paid leave of a type that granted it when it was made, that
the row `apply()` is about to insert still fits in the allowance of a
configuration the type has had, and that an approval past `finalApprove()`'s
check found a document if all of them ask for one; `EventsNet` that what is
posted for it and what the handler at work has still to post cancel out, no row
being written twice, unless the approval that was posted came without a grant, as
it does when the type is not event-based by then. The sum over the ledger at rest
follows: zero, or the days nobody granted.

**Entitlement.** `EInv == Tables /\ CallsOK /\ EntriesOK /\ Untouched /\ Backed`.
`Backed` counts what is in flight: what the ledger says was credited and what
calls have added to balances and not yet written to the ledger (`Held`) together
never exceed the balance. A call that dies drops what it held, and a credit given
twice is in the balance twice, so neither hurts. `creditsDue` is used through
what its periods have in common (`OwedCredits`): an entry lies between joining
and the day of the run. That it owes the right amount is `CreditsAddUp`, TLC's.

**Payroll.** `PInv`: approvals are never deleted and the set of employees with a
line item in a run never changes after the run is created, so `Grounded`, what a
handler's record says of the tables (two approval rows were counted; the items
read cover the run's employees), survives every step of other handlers, and the
stale writes that reopen a processed run cannot break these two. `WInv` ties
arrears to the draft that folded them and a handler's record to the tables it
was read from (`Sound`): the unique index refuses a second regular run at the
insert, whenever the check was made. `SInv` is for one thread: nothing moves
under the handler (`Alone`), so an item it holds is the item in the table and an
arrear is paid by one processed run at most (`PaidOut`).

**Attendance.** One inductive invariant for the whole of `AttendanceSpec`: `Shape`
and what a call knows if it is `Alone`, then `ShiftsInv`, `CompInv`, `ClaimInv` and
`DaysInv`, each a conjunct of its own part. The comp-off ledger is the argument of
`Backed` again; an approved claim's credit is either written, or in the hands of
the call that approved it, or the tenant has `lapsed`; the rest says, while `calm`, which status a day has for each combination
of punches, leave, request and calendar, and that the one call under way read it
so.

**Workspace.** Onboarding: the calls are `Apart` (no two own the same tenant row or
account), and every step and compensation keeps `SeededIsWhole`. Identity: a
step of `Identity` is a step of `RecentReads` or a stutter; the invariant bounds
the age of each copy by where it is (`TimesOK`, `CacheOK`, `IdCallOK`): a cache
entry may be one lookup older than its life, a value in a handler another, and
`Slack` is their sum. Tenancy: `TenInv` keeps, whatever overlaps, that each
charge has one payment row (the unique `razorpayPaymentId`), and while `calm`
that the modules are the plan's, that a read-only workspace has its reason, and
that what the call under way has read is still so. Logins: `LoginInv` keeps
apart the accounts calls work on (`OwnersApart`) and knows each account without
a row (`NoneStray`); while `calm`, Firebase and the rows differ at most where the
one call under way says they do (`InStepBut`).

**Services.** `MailInv`: at most one worker has a mail's job (`OneEach`), and a mail
that will still be sent was asked for, or could not be recorded, once more than
SES has accepted it (`SendsOK`). `DocInv`: an object is where
its row or the upload under way says (`FileOK`); while `calm` an owner has one
live attachment unless an upload is retiring the other. `SettleInv`: settlement
rows agree with their parts, one import at a time is under way and has written
what it reports (`ImportOK`), and while `calm` a tax table is empty, the default
or the edited one, with rates unless it is empty (`TaxOK`).

**Client.** The wizard numbers its saves; one that is not stale carries the form as
it was typed, and what the API keeps is at least as new as what it has answered,
unless saves crossed (`SavesOK`, `KeptOK`, `DraftOK`). The session shows who is
signed in, unless an answer came late or a sign-in is still to answer. For
settled rows, every call on its way names a row of the list (`NamesOK`), an
answer says what its call did (`AnswerOK`), and none of the API's moves leaves a
settled state but the two that look at no status (`Undecides`). `ShownIsAsked`: the last question is about the row asked
for last, and a screen that drops late answers shows only its answer.

**Only model-checked.** *Liveness* (`EscalationMovesOn`, `WorkIsSettled`): fairness
and ENABLED are out of this prover's reach. *What recursive functions compute*
(`CreditsAddUp` and `CreditsCatchUp` of `creditsDue`, `FiguresAreSound` of the
calculators and of the tax year, `OrgIsWhole` of the walks over reporting lines, the chunked import
in `EntriesLand`) needs induction over data, which the prover's theorems cannot
be instantiated for; the runs enumerate bounded inputs. *Tables of the code*:
`OffersHold` compares what each screen offers to each role with what the API
accepts, which is finite and which TLC exhausts. *Not proved yet*:
the rest of `ViewsAreCurrent`.

## 5. Disagreements between code and documentation

Shown by a run:

* Two overlapping final approvals deduct twice (`leave_double`).
* The accrual worker consumes escalation jobs without acting
  (`leave_sharedqueue`).

Met while modelling. Where a property excepts one of these, its comment says so.

*Leave.*
* `adjustBalanceManual()` clamps a negative adjustment at zero when it creates
  the balance row, while the ledger row keeps the whole delta.
* `approve()` and `cancel()` compute the leave year from the settings of the
  moment: after a change of the year's first month the refund goes to another
  year. Likewise the approval chain is re-read at level 1.
* Overlapping requests share ON_LEAVE rows; cancelling one removes them, and a
  rejection after it leaves no trace of the cancellation (hence the exception
  in `LeaveDaysMarked`, which is about the days that are working days whatever
  holidays are edited).
* `reject()` and `cancel()` accept requests that were decided (hence
  `EverRejected` in `NetDeduction`), also from a row that is out of date on the
  screen (`Undecides` in `SettledStaysSettled`).
* Two applications at once may exceed an event's allowance; two callers of the
  entitlement engine may credit one period twice; a run lost between its
  increments and its ledger rows credits again when repeated (hence the serial
  part of `entitlement`).
* `finalApprove()` grants an event's days by the type's mode of the moment,
  `cancel()` takes them back by the request's event date. When the type is
  switched to accrued before the approval, a cancelled request costs its days
  (`Ungranted`, the exception of `EventNetsToZero`), though
  `docs/modules/04_LEAVE_MANAGEMENT.md:474` says that a cancellation "reverses
  exactly the amount originally deducted".
* HR may delete the document of a request that was approved because it had one
  (`ApprovedIsDocumented` says that it has had one).
* Ten days a year credited monthly add up to 9.96 (12 times 0.83).
* A recalculation takes credits from separated employees and does not give them
  back.

*Attendance.*
* Leave approved after the day was finalized leaves the ABSENT row: the day is
  taken from the balance and from the pay.
* A day HR marks PRESENT without times is written ABSENT by the finalization.
* `cancelRegularization()` leaves the day PENDING_REGULARIZATION, a status every
  job leaves alone (hence the exception in `DisputeHasRequest`).
* The cutoff's rejection writes ABSENT whatever the calendar says, and its
  approval of a request without a record creates none.
* A lower cap leaves the requests that the larger one let in (`WithinMonthlyCap`
  is about the largest so far).
* `createShift()` and `updateShift()` clear the default before the write; when the
  unique name refuses it, the tenant is left without a default shift (`cleared`).
* Without a comp-off type a worked day off is not credited, and an approved claim
  never is; with a shift of no hours it is worth a row of 0 days (`lapsed`).
* Decisions that overlap overwrite one another, and two approvals of one overtime
  claim both credit it; a comp-off credit for overtime on a holiday keeps the
  clock-in's own credit from being made.

*Payroll.*
* A submission or approval that read the status before the run was processed
  puts it back to an editable status; the trigger then lets its line items
  change (`RunsAreFrozen` is checked for handlers that do not overlap).
* When handlers overlap: recalculation and adjustment overwrite each other's net
  pay, two drafts fold the same arrears, and a payslip may show another amount
  than the item. Arrears are computed from the active structure, which an edit
  in place may have changed since the run was drafted.
* A stale approval moves a PAID settlement back to APPROVED, and
  `updateAdvance()` may change one approved meanwhile. A settlement pays the
  month of separation although a regular run may have paid it.
* `full-and-final-calculator.ts:21` says "Six months (or more)"; exactly six
  months do not round up.
* The first reads of a year seed the tax table while an admin replaces it; a call
  lost between slabs and rates leaves the year without rates for ever.
* The TDS history leaves re-processed runs out, and the months that are not yet
  PROCESSED: a March run computed before February's was processed settles the
  year without it (`YearEndsSettled` is about a March run that saw every month).
* The salary import overwrites the structure HR revised since it read, for
  employees who already had one (`EditedSalaryStands` says only for these).

*Tenants.*
* `convertTenant()` leaves `graceEndsAt`, so a converted tenant may become
  read-only; a `halted` event delivered after the next charge restricts a paying
  tenant; the webhook decides on a status read at its start and, like the jobs
  and `setTrialEnd()`, may lift a suspension made meanwhile.
* `subscribeTenant()` creates the subscription at Razorpay before it is stored:
  two calls, or one lost, leave one that charges and whose events are ignored.
* Lookups in flight refill a cache after its invalidation, and in a
  `$transaction` the cache is cleared before the commit; a comment in
  `auth-context-cache.ts` (lines 13 to 16) says a write bites immediately.
  `WriteBitesAtOnce` is for requests that do not overlap the write.
* A process lost during onboarding leaves a half-provisioned tenant.

*People and setup.*
* `create()` leaves a Firebase account when its transaction fails. Separation
  does not look for the last admin (`docs/modules/01_IDENTITY_AND_ACCESS.md:227`),
  two demotions at once leave none, and `setStatus()` may readmit a separated
  employee.
* When calls overlap: two transitions may leave the lifecycle's graph, a link and
  a separation give a separated employee an active login, two manager edits
  close a cycle, two edits make two primary contacts.
* The import forgets the manager that an employee keeps when the row with the
  new one is refused, and may close a cycle (`ForgottenLine`).
* `saveDraft()` overwrites an upload made meanwhile; the draft with personal data
  is restored by a save that overlaps the submit; a department deleted since is
  not created again; logins not yet made when the process is lost are lost, and
  a retry after a failed link never succeeds.

*Services.*
* Two retries at once re-send a SENT mail; a bounce before SENT is written is
  lost; a bounce delivered twice re-suppresses an address lifted in between.
* Two uploads at once may retire each other; a worker lost between deleting an
  infected object and writing its row leaves a scan that fails for ever.

*Web client* (`KnownRefusals`, `KnownDeadEnds` and the other exceptions of
`ClientProperties`).
* Removing a holiday posts to a path that does not exist
  (`lib/leave/client.ts:575`); HR managers see attendance settings whose save is
  refused; line managers, employees and auditors are offered uploads on other
  people's profiles; an APPROVED run offers to adjust pay; a login without an
  employee record opens attendance; an employee with reports gets links to
  profiles they may not open.
* Late answers are not dropped by the month calendar, the team roster's dialog,
  the tax and professional-tax editors, the profile page and the payroll drawer:
  the screen shows the answer that came last, and what is saved names the row
  asked for last (`latest` is FALSE there).
* Two HR approvals of a level-1 request: the second approves level 2 without
  having seen it. An outdated "confirm" lifts a suspension, an outdated run
  approval approves recalculated figures.
* An edit typed while a save by a button is under way, or saves handled the other
  way round, are lost (`typedLate`, `crossed`).
* A late answer about an earlier sign-in sets the user again, and a failed
  sign-in has already changed the workspace (`lateAnswer`, `mistyped`).
* `app-layout.tsx:32` says its list "keeps the nav honest", while it is not
  filtered by the plan's modules (the accounts of `client` have them all).

## 6. Not modelled

* Dates and times as such: calendars are sets of days, times of day early or
  late, amounts scaled; the employer's shares of EPF and ESI, the parser of
  formulas, and the professional-tax editor (the tax table's code again).
* Edits of a joining date after the hire (`employee-import.service.ts:340`), which
  may leave credits for days before it.
* The import of holidays in the wizard's browser part (`Setup` has the API's).
* File layouts (bank files, payslips, reports, holiday sheets), wording,
  sorting, searching, validation of one field by itself.
* Field encryption and the clients of S3, Firebase and SES: thin wrappers whose
  refusals and losses are modelled where they are called.
* Row-level security: each model is of one tenant, except `Tenants`,
  `Provisioning` and `Identity`, and a query under the wrong tenant is the
  database's to refuse.
* Reports, dashboards, the audit log and the contact form: they decide nothing.
  Who may ask for them is in `Api`.
* The console's own sign-in, the landing pages, URLs typed by hand.

## 7. Plan

1. Proofs of the rest: `EntriesLand` (the setup's half needs no induction),
   and the well-formedness and `ShowsWhatItDid` of `ViewsAreCurrent`.
2. An abstract ledger (credit, debit, refund, each once) that `LeaveRequests`
   implements when handlers do not overlap.
3. The subset of `PayrollFigures` that recurs over nothing (proration, the
   statutory deductions of one month), stated as lemmas.
