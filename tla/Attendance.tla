----------------------------- MODULE Attendance -----------------------------
(***************************************************************************)
(* AttendanceService and AttendanceFinalizationProcessor                   *)
(* (apps/api/src/attendance): clocking in and out, breaks, comp-off for    *)
(* worked days off, regularization requests and their decisions, manual    *)
(* marking, and the two nightly jobs that finalize yesterday and resolve   *)
(* what is still undecided at the payroll cutoff.  Times of day are kept   *)
(* as far as a record's status tells them apart.  A row deleted and        *)
(* created again between two statements of one call is taken for the same. *)
(***************************************************************************)
EXTENDS Calls

(***************************************************************************)
(* Compensatory leave (apps/api/src/leave/leave.service.ts): the balance   *)
(* and the ledger rows that work on a holiday and approved overtime        *)
(* credit, as separate statements.  Amounts are whole units; a ledger row  *)
(* is dated by the moment it is written.  The tables are those of one      *)
(* leave type; compType is whether leaveType.findFirst({ isCompOff }) finds *)
(* that type, rather than another one or none.                             *)
(***************************************************************************)
CONSTANTS
    Staff,       \* employee ids
    Overtimers,  \* the employees with tracked overtime hours
    LastDay      \* bound on time

ASSUME CompOffAssumption == LastDay \in Nat /\ Overtimers \subseteq Staff

VARIABLES
    today,       \* the current day
    compAccrued, \* leave_balances.accrued of the comp-off type
    compRows,    \* its COMP_OFF_CREDIT ledger rows, counted by day and source
    compType,    \* the type is the tenant's designated comp-off type
    shiftHours,  \* minHoursFullDay of the shift resolveShift() finds for an
                 \* employee: "ZERO" or "SET", "NONE" when it throws
    lapsed       \* compType was FALSE or some shiftHours not "SET" at some time

compVars == <<compAccrued, compRows, compType, shiftHours, lapsed>>
Days == 0..LastDay
CompSources == {"holiday", "overtime", "empty"}   \* "empty": overtime of 0 days

CompInit ==
    /\ today = 0
    /\ compAccrued = [e \in Staff |-> 0]
    /\ compRows = [e \in Staff |-> [d \in Days |-> [s \in CompSources |-> 0]]]
    /\ compType \in BOOLEAN /\ shiftHours \in [Overtimers -> {"NONE", "ZERO", "SET"}]
    /\ lapsed = (~compType \/ \E e \in Overtimers : shiftHours[e] # "SET")

(* creditCompOff()'s check: any comp-off row written that day. *)
AlreadyCredited(e, d) == \E s \in CompSources : compRows[e][d][s] > 0

(* The upsert of the balance, then the ledger row. *)
CreditBalance(e) ==
    /\ compAccrued' = [compAccrued EXCEPT ![e] = @ + 1]
    /\ UNCHANGED <<compRows, compType, shiftHours, lapsed>>
CreditRow(e, s) ==
    /\ compRows' = [compRows EXCEPT ![e][today][s] = @ + 1]
    /\ UNCHANGED <<compAccrued, compType, shiftHours, lapsed>>

(* createType() and updateType() set isCompOff; shifts and their hours are  *)
(* edited, and employees are given shifts of their own.                     *)
designate(found) ==
    /\ compType' = found /\ found # compType
    /\ lapsed' = (lapsed \/ ~found)
    /\ AtOnce
    /\ UNCHANGED <<today, compAccrued, compRows, shiftHours>>

setShiftHours(e, hours) ==
    /\ shiftHours' = [shiftHours EXCEPT ![e] = hours] /\ hours # shiftHours[e]
    /\ lapsed' = (lapsed \/ hours # "SET")
    /\ AtOnce
    /\ UNCHANGED <<today, compAccrued, compRows, compType>>

-----------------------------------------------------------------------------
(***************************************************************************)
(* Overtime claims (apps/api/src/attendance/attendance.service.ts): one    *)
(* claim per employee and month, decided by the reporting manager and then *)
(* by HR; a COMP_OFF claim becomes a comp-off credit, a CASH claim is what *)
(* payroll reads.  One month is modelled.                                  *)
(***************************************************************************)

CONSTANTS
    HR,           \* users with an admin role
    Callers,      \* every user who may decide claims
    EmployeeOf,   \* the employee record a user is linked to, or NoOne
    Managers,     \* employees who may be somebody's reporting manager
    NoOne

ASSUME OvertimeAssumption ==
    /\ HR \subseteq Callers
    /\ NoOne \notin Managers /\ EmployeeOf \in [Callers -> Managers \cup {NoOne}]

VARIABLES
    claim,      \* overtime_claims
    managerOf   \* employees.reporting_manager_id

otVars == <<claim, managerOf>>
NoClaim == [status |-> "NONE", mode |-> "NONE"]
PendingClaim == {"PENDING_MANAGER", "PENDING_HR"}

OtInit ==
    /\ claim = [e \in Staff |-> NoClaim]
    /\ managerOf \in [Overtimers -> {NoOne} \cup Managers]

(* createOvertimeClaim(): the unique key on (employee, month) refuses a     *)
(* second claim, so the reads before it need no step of their own.          *)
createOvertimeClaim(e, mode) ==
    /\ e \in Overtimers /\ claim[e] = NoClaim
    /\ claim' = [claim EXCEPT ![e] = [mode |-> mode,
         status |-> IF managerOf[e] = NoOne THEN "PENDING_HR" ELSE "PENDING_MANAGER"]]
    /\ AtOnce
    /\ UNCHANGED <<managerOf, compVars, today>>

assertCanDecideAtManagerLevel(u, e) == u \in HR \/ managerOf[e] = EmployeeOf[u]

(* decideOvertimeClaim(): what a decision on the status read writes.        *)
Outcome(status, decision) ==
    CASE decision = "REJECT" -> "REJECTED"
      [] decision = "APPROVE" /\ status = "PENDING_MANAGER" -> "PENDING_HR"
      [] decision = "APPROVE" /\ status = "PENDING_HR" -> "APPROVED"

decideOvertimeClaim(h, u, e, decision) ==
    /\ claim[e].status \in PendingClaim
    /\ IF claim[e].status = "PENDING_MANAGER"
       THEN assertCanDecideAtManagerLevel(u, e) ELSE u \in HR
    /\ Begin(h, [pc |-> "claim", e |-> e, mode |-> claim[e].mode,
                 status |-> Outcome(claim[e].status, decision)])
    /\ UNCHANGED <<otVars, compVars, today>>

WriteClaim(h) ==
    LET c == calls[h] IN
    /\ c.pc = "claim"
    /\ claim' = [claim EXCEPT ![c.e].status = c.status]
    /\ IF c.status = "APPROVED" /\ c.mode = "COMP_OFF"
       THEN Continue(h, [pc |-> "claimHours", e |-> c.e])
       ELSE Finish(h)
    /\ UNCHANGED <<managerOf, compVars, today>>

(* The claim is APPROVED by now: getShiftHours() throws when there is no    *)
(* shift, creditOvertimeCompOff() returns when there is no comp-off type,   *)
(* and hours / 0 counts as 0 days.  It has no other check of its own.       *)
ClaimHours(h) ==
    LET e == calls[h].e IN
    /\ calls[h].pc = "claimHours"
    /\ IF shiftHours[e] = "NONE" \/ ~compType
       THEN Finish(h)
       ELSE Continue(h, [pc |-> IF shiftHours[e] = "ZERO" THEN "claimEmpty" ELSE "claimBalance",
                         e |-> e])
    /\ UNCHANGED <<otVars, compVars, today>>

(* 0 days leave the balance as it is and write a row of 0 days. *)
ClaimEmpty(h) ==
    /\ calls[h].pc = "claimEmpty"
    /\ CreditRow(calls[h].e, "empty")
    /\ Finish(h)
    /\ UNCHANGED <<otVars, today>>

ClaimBalance(h) ==
    /\ calls[h].pc = "claimBalance"
    /\ CreditBalance(calls[h].e)
    /\ Continue(h, [calls[h] EXCEPT !.pc = "claimRow"])
    /\ UNCHANGED <<otVars, today>>

ClaimRow(h) ==
    /\ calls[h].pc = "claimRow"
    /\ CreditRow(calls[h].e, "overtime")
    /\ Finish(h)
    /\ UNCHANGED <<otVars, today>>

(* getApprovedOvertimeBatch(): the employees whose hours payroll pays. *)
ApprovedOvertime == {e \in Overtimers : claim[e] = [status |-> "APPROVED", mode |-> "CASH"]}

(* The reporting line is edited meanwhile (EmployeesService). *)
moveReport(e, m) ==
    /\ managerOf[e] # m
    /\ managerOf' = [managerOf EXCEPT ![e] = m]
    /\ AtOnce
    /\ UNCHANGED <<claim, compVars, today>>

OtLose(h) == Lose(h) /\ UNCHANGED <<otVars, compVars, today>>

OtNext ==
    \/ \E h \in Handlers :
         \/ WriteClaim(h) \/ ClaimHours(h) \/ ClaimEmpty(h) \/ ClaimBalance(h) \/ ClaimRow(h) \/ OtLose(h)
         \/ \E u \in Callers, e \in Overtimers, decision \in {"APPROVE", "REJECT"} :
              decideOvertimeClaim(h, u, e, decision)
    \/ \E e \in Overtimers, mode \in {"CASH", "COMP_OFF"} : createOvertimeClaim(e, mode)
    \/ \E e \in Overtimers, m \in {NoOne} \cup Managers : moveReport(e, m)
    \/ (\/ \E found \in BOOLEAN : designate(found)
        \/ \E e \in Overtimers, hours \in {"NONE", "ZERO", "SET"} : setShiftHours(e, hours))
       /\ UNCHANGED otVars

-----------------------------------------------------------------------------
(* Attendance records, breaks and regularization. *)
CONSTANTS
    Calendars,     \* [Days -> base status] an admin may configure
    LineManagers,  \* users with the LINE_MANAGER role
    Subtree,       \* the employees under each of them, at any depth
    Admins,        \* users with an admin role
    CutoffDays,    \* the days that are the tenant's payrollCutoffDay
    Limits,        \* what an admin may set regularizationWindowDays and
                   \* regularizationMonthlyCap to
    GoLive,        \* tenant_settings.go_live_date
    Asks,          \* times a regularization may ask for
    Requests,      \* regularization request ids: bounds the requests
    Marks,         \* what HR may mark a day with
    Behaviors,     \* values of unactionedBehavior
    MaxBreaks,     \* bound on the open breaks of one day
    MaxCredit      \* bound on one employee's comp-off credits

ASSUME AttendanceAssumption ==
    /\ Limits \subseteq [window: Nat \ {0}, cap: Nat \ {0}] /\ MaxBreaks \in Nat /\ MaxCredit \in Nat
    /\ Requests \subseteq Nat \ {0} /\ CutoffDays \subseteq Nat /\ GoLive \in Nat
    /\ Asks \subseteq [in: {"none", "ontime", "late"}, out: BOOLEAN]
    /\ Calendars \subseteq [Days -> {"HOLIDAY", "WEEKLY_OFF", "ABSENT"}]
    /\ Subtree \in [LineManagers -> SUBSET Staff]
    /\ Marks \subseteq [status: {"PRESENT", "LATE", "ABSENT", "HOLIDAY", "WEEKLY_OFF", "ON_LEAVE"},
                        in: {"none", "ontime", "late"}, out: BOOLEAN]
    /\ Behaviors \subseteq {"AUTO_APPROVE", "AUTO_REJECT"}

VARIABLES
    calendar,   \* the base status of each day: holidays, weekly offs, else ABSENT
    behavior,   \* attendance_settings.unactionedBehavior
    limits,     \* its regularizationWindowDays and regularizationMonthlyCap
    widest,     \* the largest cap that has been in force
    rec,        \* attendance_records by employee and day
    punch,      \* punches by employee and day: first IN, whether an OUT
    breaks,     \* attendance_breaks without an end, by employee and day
    req,        \* regularization_requests
    leave       \* approved leave by employee and day: its approval wrote the
                \* ON_LEAVE row ("marked") or found another row there ("late")

attVars == <<calendar, behavior, limits, widest, rec, punch, breaks, req, leave>>
attUntouched == UNCHANGED <<today, calendar, behavior, limits, widest, leave>>

Slots == Staff \X Days
NoRecord == [status |-> "NONE", in |-> "none", out |-> FALSE, source |-> "NONE"]
NoRequest == [status |-> "NONE"]
Exists(r) == r.status # "NONE"
Late(in) == IF in = "late" THEN "LATE" ELSE "PRESENT"
Given(new, old) == IF new = "none" THEN old ELSE new
(* Prisma's upsert: a created row has the column defaults of a WEB record. *)
OrNew(r) == IF Exists(r) THEN r ELSE [NoRecord EXCEPT !.source = "WEB"]
PendingRequests == {i \in Requests : req[i].status = "PENDING"}

AttInit ==
    /\ calendar \in Calendars /\ behavior \in Behaviors
    /\ limits \in Limits /\ widest = limits.cap
    /\ rec = [k \in Slots |-> NoRecord]
    /\ punch = [k \in Slots |-> [in |-> "none", out |-> FALSE]]
    /\ breaks = [k \in Slots |-> 0]
    /\ req = [i \in Requests |-> NoRequest]
    /\ leave = [k \in Slots |-> "none"]
----------------------------------------------------------------------------
(* clockIn(): the reads; the record; the punch, best effort; and on a day   *)
(* off the comp-off credit.                                                 *)
ClockedIn(r) == r.in # "none" /\ ~r.out

clockIn(h, e, in) ==
    LET k == <<e, today>> IN
    /\ ~ClockedIn(rec[k])
    /\ Begin(h, [pc |-> "clockIn", k |-> k, base |-> calendar[today], in |-> in])
    /\ UNCHANGED <<attVars, compVars, today>>

ClockInStatus(base, in) == IF base # "ABSENT" THEN base ELSE Late(in)

ClockInRecord(h) ==
    LET c == calls[h] IN
    /\ c.pc = "clockIn"
    /\ rec' = [rec EXCEPT ![c.k] = [status |-> ClockInStatus(c.base, c.in), in |-> c.in,
                                    out |-> FALSE, source |-> "WEB"]]
    /\ Continue(h, [c EXCEPT !.pc = "punchIn"])
    /\ attUntouched /\ UNCHANGED <<punch, breaks, req, compVars>>

PunchIn(h) ==
    LET c == calls[h] IN
    /\ c.pc = "punchIn"
    /\ \/ punch' = [punch EXCEPT ![c.k].in = IF @ = "none" THEN c.in ELSE @]
       \/ UNCHANGED punch
    /\ IF c.base # "ABSENT" THEN Continue(h, [pc |-> "compOff", k |-> c.k]) ELSE Finish(h)
    /\ attUntouched /\ UNCHANGED <<rec, breaks, req, compVars>>

(* Mutant of creditCompOff: the ledger row before the balance. *)
creditCompOffRowFirst(h) ==
    /\ calls[h].pc = "compOff"
    /\ CreditRow(calls[h].k[1], "holiday")
    /\ Finish(h)
    /\ UNCHANGED <<attVars, today>>

creditCompOff(h) ==
    LET c == calls[h] IN
    /\ c.pc = "compOff"
    /\ IF compType THEN Continue(h, [c EXCEPT !.pc = "compLook"]) ELSE Finish(h)
    /\ UNCHANGED <<attVars, compVars, today>>

CompLook(h) ==
    LET c == calls[h] IN
    /\ c.pc = "compLook"
    /\ IF AlreadyCredited(c.k[1], c.k[2])
       THEN Finish(h)
       ELSE Continue(h, [pc |-> "compBalance", e |-> c.k[1], source |-> "holiday"])
    /\ UNCHANGED <<attVars, compVars, today>>

CompBalance(h) ==
    /\ calls[h].pc = "compBalance"
    /\ compAccrued[calls[h].e] < MaxCredit
    /\ CreditBalance(calls[h].e)
    /\ Continue(h, [calls[h] EXCEPT !.pc = "compRow"])
    /\ UNCHANGED <<attVars, today>>

CompRow(h) ==
    /\ calls[h].pc = "compRow"
    /\ CreditRow(calls[h].e, calls[h].source)
    /\ Finish(h)
    /\ UNCHANGED <<attVars, today>>

(* clockOut(), startBreak() and endBreak(). *)
(* Mutant of clockOut: open breaks are not looked at. *)
clockOutOnBreak(h, e) ==
    LET k == <<e, today>> IN
    /\ ClockedIn(rec[k])
    /\ Begin(h, [pc |-> "clockOut", k |-> k])
    /\ UNCHANGED <<attVars, compVars, today>>

clockOut(h, e) ==
    LET k == <<e, today>> IN
    /\ ClockedIn(rec[k]) /\ breaks[k] = 0
    /\ Begin(h, [pc |-> "clockOut", k |-> k])
    /\ UNCHANGED <<attVars, compVars, today>>

ClockOutRecord(h) ==
    LET c == calls[h] IN
    /\ c.pc = "clockOut" /\ Exists(rec[c.k])
    /\ rec' = [rec EXCEPT ![c.k].out = TRUE]
    /\ Continue(h, [c EXCEPT !.pc = "punchOut"])
    /\ attUntouched /\ UNCHANGED <<punch, breaks, req, compVars>>

PunchOut(h) ==
    /\ calls[h].pc = "punchOut"
    /\ \/ punch' = [punch EXCEPT ![calls[h].k].out = TRUE]
       \/ UNCHANGED punch
    /\ Finish(h)
    /\ attUntouched /\ UNCHANGED <<rec, breaks, req, compVars>>

startBreak(h, e) ==
    LET k == <<e, today>> IN
    /\ ClockedIn(rec[k]) /\ breaks[k] = 0
    /\ Begin(h, [pc |-> "startBreak", k |-> k])
    /\ UNCHANGED <<attVars, compVars, today>>

CreateBreak(h) ==
    LET k == calls[h].k IN
    /\ calls[h].pc = "startBreak" /\ Exists(rec[k]) /\ breaks[k] < MaxBreaks
    /\ breaks' = [breaks EXCEPT ![k] = @ + 1]
    /\ Finish(h)
    /\ attUntouched /\ UNCHANGED <<rec, punch, req, compVars>>

(* The row it found may be one another call has ended meanwhile. *)
endBreak(h, e) ==
    LET k == <<e, today>> IN
    /\ breaks[k] > 0
    /\ Begin(h, [pc |-> "endBreak", k |-> k])
    /\ UNCHANGED <<attVars, compVars, today>>

CloseBreak(h) ==
    LET k == calls[h].k IN
    /\ calls[h].pc = "endBreak"
    /\ \/ breaks' = [breaks EXCEPT ![k] = IF @ > 0 THEN @ - 1 ELSE 0]
       \/ UNCHANGED breaks /\ ~calm
    /\ Finish(h)
    /\ attUntouched /\ UNCHANGED <<rec, punch, req, compVars>>
----------------------------------------------------------------------------
(* requestRegularization(): the window and the cap, the request, and the    *)
(* flag on an existing record.  A month is the whole modelled time.         *)
CountThisMonth(e) ==
    Cardinality({i \in Requests : req[i].status \in {"PENDING", "APPROVED"} /\ req[i].k[1] = e})

BelowCap(e) == CountThisMonth(e) < limits.cap

NextRequest(i) == req[i] = NoRequest /\ \A j \in Requests : j < i => req[j] # NoRequest

requestRegularization(h, e, d, ask) ==
    /\ d <= today /\ today - d <= limits.window
    /\ BelowCap(e)
    /\ Begin(h, [pc |-> "request", k |-> <<e, d>>, ask |-> ask, linked |-> Exists(rec[<<e, d>>])])
    /\ UNCHANGED <<attVars, compVars, today>>

CreateRequest(h) ==
    LET c == calls[h] IN
    /\ c.pc = "request"
    /\ \E i \in Requests :
         /\ NextRequest(i)
         /\ req' = [req EXCEPT ![i] =
              [status |-> "PENDING", k |-> c.k, ask |-> c.ask, linked |-> c.linked /\ Exists(rec[c.k])]]
    /\ IF c.linked THEN Continue(h, [c EXCEPT !.pc = "dispute"]) ELSE Finish(h)
    /\ attUntouched /\ UNCHANGED <<rec, punch, breaks, compVars>>

FlagDispute(h) ==
    LET c == calls[h] IN
    /\ c.pc = "dispute"
    /\ IF Exists(rec[c.k])
       THEN rec' = [rec EXCEPT ![c.k].status = "PENDING_REGULARIZATION"]
       ELSE UNCHANGED rec   \* deleted meanwhile: the update throws
    /\ Finish(h)
    /\ attUntouched /\ UNCHANGED <<punch, breaks, req, compVars>>

(* cancelRegularization(): the status alone. *)
(* Mutant of cancelRegularization: a decided request too. *)
cancelRegularizationAnytime(h, i) ==
    /\ Exists(req[i])
    /\ Begin(h, [pc |-> "decide", i |-> i, status |-> "CANCELLED"])
    /\ UNCHANGED <<attVars, compVars, today>>

cancelRegularization(h, i) ==
    /\ req[i].status = "PENDING"
    /\ Begin(h, [pc |-> "decide", i |-> i, status |-> "CANCELLED"])
    /\ UNCHANGED <<attVars, compVars, today>>

assertCanDecideRegularization(u, e) ==
    u \in Admins \/ (u \in LineManagers /\ e \in Subtree[u])

(* approveRegularization(): the record from the requested and the recorded  *)
(* times, then the request.                                                 *)
approveRegularization(h, u, i) ==
    /\ req[i].status = "PENDING" /\ assertCanDecideRegularization(u, req[i].k[1])
    /\ Begin(h, [pc |-> "approveRecord", i |-> i, k |-> req[i].k,
                 in |-> Given(req[i].ask.in, rec[req[i].k].in),
                 out |-> req[i].ask.out \/ rec[req[i].k].out])
    /\ UNCHANGED <<attVars, compVars, today>>

ApproveRecord(h) ==
    LET c == calls[h] IN
    /\ c.pc = "approveRecord"
    /\ rec' = [rec EXCEPT ![c.k] =
         [status |-> Late(c.in), in |-> Given(c.in, @.in), out |-> c.out \/ @.out,
          source |-> "MANUAL"]]
    /\ Continue(h, [pc |-> "decide", i |-> c.i, status |-> "APPROVED"])
    /\ attUntouched /\ UNCHANGED <<punch, breaks, req, compVars>>

(* rejectRegularization(): the record falls back to the day's base status,  *)
(* then the request.                                                        *)
rejectRegularization(h, u, i) ==
    /\ req[i].status = "PENDING" /\ assertCanDecideRegularization(u, req[i].k[1])
    /\ Begin(h, IF req[i].linked
                THEN [pc |-> "rejectRecord", i |-> i, k |-> req[i].k, base |-> calendar[req[i].k[2]]]
                ELSE [pc |-> "decide", i |-> i, status |-> "REJECTED"])
    /\ UNCHANGED <<attVars, compVars, today>>

(* Mutant of RejectRecord: the record is left as it is. *)
RejectRecordNot(h) ==
    LET c == calls[h] IN
    /\ c.pc = "rejectRecord"
    /\ Continue(h, [pc |-> "decide", i |-> c.i, status |-> "REJECTED"])
    /\ UNCHANGED <<attVars, compVars, today>>

RejectRecord(h) ==
    LET c == calls[h] IN
    /\ c.pc = "rejectRecord"
    /\ IF req[c.i].linked
       THEN /\ rec' = [rec EXCEPT ![c.k].status = c.base]
            /\ Continue(h, [pc |-> "decide", i |-> c.i, status |-> "REJECTED"])
       ELSE UNCHANGED rec /\ Finish(h)   \* deleted meanwhile: the update throws
    /\ attUntouched /\ UNCHANGED <<punch, breaks, req, compVars>>

Decide(h) ==
    LET c == calls[h] IN
    /\ c.pc = "decide"
    /\ req' = [req EXCEPT ![c.i].status = c.status]
    /\ Finish(h)
    /\ attUntouched /\ UNCHANGED <<rec, punch, breaks, compVars>>

(* markAttendance(): HR's upsert; no time given leaves the recorded one. *)
markAttendance(k, mark) ==
    /\ rec' = [rec EXCEPT ![k] = [status |-> mark.status, in |-> Given(mark.in, @.in),
                                  out |-> mark.out \/ @.out, source |-> "MANUAL"]]
    /\ AtOnce
    /\ attUntouched /\ UNCHANGED <<punch, breaks, req, compVars>>
----------------------------------------------------------------------------
(* runFinalization(): yesterday, from one read of the calendar and of the   *)
(* records, employee by employee.                                           *)
(* Mutant of HasOutcome: leave is not one.                                  *)
HasOutcomeNotLeave(r) == r.in # "none" \/ r.status = "PENDING_REGULARIZATION"

HasOutcome(r) == r.in # "none" \/ r.status \in {"ON_LEAVE", "PENDING_REGULARIZATION"}

finalize(h) ==
    LET d == today - 1 IN
    /\ d \in Days /\ d >= GoLive
    /\ Begin(h, [pc |-> "finalize", d |-> d, base |-> calendar[d],
                 todo |-> {e \in Staff : ~HasOutcome(rec[<<e, d>>])}])
    /\ UNCHANGED <<attVars, compVars, today>>

Punched(p) == p.in # "none" \/ p.out

FinalizeOne(h, e) ==
    LET c == calls[h]
        k == <<e, c.d>>
        p == punch[k]
    IN /\ c.pc = "finalize" /\ e \in c.todo
       /\ rec' = [rec EXCEPT ![k] =
            IF c.base = "ABSENT" /\ Punched(p)
            THEN [status |-> Late(p.in), in |-> Given(p.in, @.in), out |-> p.out \/ @.out,
                  source |-> "IMPORT"]
            ELSE [OrNew(@) EXCEPT !.status = c.base]]
       /\ Continue(h, [c EXCEPT !.todo = @ \ {e}])
       /\ attUntouched /\ UNCHANGED <<punch, breaks, req, compVars>>

FinalizeDone(h) ==
    /\ calls[h].pc = "finalize" /\ calls[h].todo = {}
    /\ Finish(h)
    /\ UNCHANGED <<attVars, compVars, today>>

(* runCutoffResolution(): every request still pending for a past day, the   *)
(* request first and then its record.                                       *)
resolveCutoff(h) ==
    /\ today \in CutoffDays
    /\ Begin(h, [pc |-> "cutoff", todo |-> {i \in PendingRequests : req[i].k[2] < today},
                 links |-> {i \in PendingRequests : req[i].linked}, approve |-> behavior = "AUTO_APPROVE"])
    /\ UNCHANGED <<attVars, compVars, today>>

CutoffRequest(h, i) ==
    LET c == calls[h] IN
    /\ c.pc = "cutoff" /\ i \in c.todo
    /\ req' = [req EXCEPT ![i].status = IF c.approve THEN "APPROVED" ELSE "REJECTED"]
    /\ Continue(h, [pc |-> "cutoffRecord", todo |-> c.todo \ {i}, links |-> c.links,
                    approve |-> c.approve, i |-> i])
    /\ attUntouched /\ UNCHANGED <<rec, punch, breaks, compVars>>

Resolved(r, ask, approve) ==
    IF approve
    THEN [status |-> "PRESENT", in |-> Given(ask.in, r.in), out |-> ask.out \/ r.out,
          source |-> "MANUAL"]
    ELSE [r EXCEPT !.status = "ABSENT"]

CutoffRecord(h) ==
    LET c == calls[h]
        k == req[c.i].k
    IN /\ c.pc = "cutoffRecord"
       /\ IF c.i \in c.links /\ req[c.i].linked
          THEN rec' = [rec EXCEPT ![k] = Resolved(@, req[c.i].ask, c.approve)]
          ELSE UNCHANGED rec
       /\ IF c.i \in c.links /\ ~req[c.i].linked
          THEN Finish(h)   \* deleted meanwhile: the update throws, the tenant's run ends
          ELSE Continue(h, [pc |-> "cutoff", todo |-> c.todo, links |-> c.links,
                            approve |-> c.approve])
       /\ attUntouched /\ UNCHANGED <<punch, breaks, req, compVars>>

CutoffDone(h) ==
    /\ calls[h].pc = "cutoff" /\ calls[h].todo = {}
    /\ Finish(h)
    /\ UNCHANGED <<attVars, compVars, today>>
----------------------------------------------------------------------------
(* The rest of the tenant.  Leave approved for a day creates its ON_LEAVE   *)
(* row unless the day has one; cancelling it deletes an ON_LEAVE row.       *)
leaveApproved(k) ==
    /\ leave[k] = "none" /\ calendar[k[2]] = "ABSENT"
    /\ leave' = [leave EXCEPT ![k] = IF Exists(rec[k]) THEN "late" ELSE "marked"]
    /\ rec' = [rec EXCEPT ![k] = IF Exists(@) THEN @ ELSE [OrNew(@) EXCEPT !.status = "ON_LEAVE"]]
    /\ AtOnce
    /\ UNCHANGED <<today, calendar, behavior, limits, widest, punch, breaks, req, compVars>>

leaveCancelled(k) ==
    LET gone == rec[k].status = "ON_LEAVE" IN
    /\ leave[k] # "none"
    /\ leave' = [leave EXCEPT ![k] = "none"]
    /\ rec' = [rec EXCEPT ![k] = IF gone THEN NoRecord ELSE @]
    /\ breaks' = [breaks EXCEPT ![k] = IF gone THEN 0 ELSE @]
    /\ req' = [i \in Requests |-> IF gone /\ Exists(req[i]) /\ req[i].k = k
                                  THEN [req[i] EXCEPT !.linked = FALSE] ELSE req[i]]
    /\ AtOnce
    /\ UNCHANGED <<today, calendar, behavior, limits, widest, punch, compVars>>

updateAttendanceConfig(cal, b, l) ==
    /\ cal \in Calendars /\ <<cal, b, l>> # <<calendar, behavior, limits>>
    /\ calendar' = cal /\ behavior' = b /\ limits' = l
    /\ widest' = IF l.cap > widest THEN l.cap ELSE widest
    /\ AtOnce
    /\ UNCHANGED <<today, rec, punch, breaks, req, leave, compVars>>

NextDay ==
    /\ today < LastDay
    /\ today' = today + 1
    /\ UNCHANGED <<attVars, compVars, callVars>>

ClockNext(h) ==
    \/ \E e \in Staff : \/ \E in \in {"ontime", "late"} : clockIn(h, e, in)
                        \/ clockOut(h, e) \/ startBreak(h, e) \/ endBreak(h, e)
    \/ ClockInRecord(h) \/ PunchIn(h) \/ creditCompOff(h) \/ CompLook(h)
    \/ CompBalance(h) \/ CompRow(h)
    \/ ClockOutRecord(h) \/ PunchOut(h) \/ CreateBreak(h) \/ CloseBreak(h)

DisputeNext(h) ==
    \/ \E e \in Staff, d \in Days, ask \in Asks : requestRegularization(h, e, d, ask)
    \/ CreateRequest(h) \/ FlagDispute(h)
    \/ \E i \in Requests : \/ cancelRegularization(h, i)
                           \/ \E u \in Admins \cup LineManagers :
                                approveRegularization(h, u, i) \/ rejectRegularization(h, u, i)
    \/ ApproveRecord(h) \/ RejectRecord(h) \/ Decide(h)

JobNext(h) ==
    \/ finalize(h) \/ FinalizeDone(h) \/ \E e \in Staff : FinalizeOne(h, e)
    \/ resolveCutoff(h) \/ CutoffRecord(h) \/ CutoffDone(h)
    \/ \E i \in Requests : CutoffRequest(h, i)

AttLose(h) == Lose(h) /\ UNCHANGED <<attVars, compVars, today>>

OfficeNext ==
    \/ \E k \in Slots : \/ leaveApproved(k) \/ leaveCancelled(k)
                        \/ \E mark \in Marks : markAttendance(k, mark)
    \/ \E cal \in Calendars, b \in Behaviors, l \in Limits : updateAttendanceConfig(cal, b, l)

-----------------------------------------------------------------------------
(***************************************************************************)
(* The tenant's shifts (apps/api/src/attendance/attendance.service.ts):    *)
(* clearing the old default and writing the new one are two statements.    *)
(***************************************************************************)

CONSTANT ShiftIds

VARIABLES
    shift,    \* shifts: "none", "plain" or "default"
    cleared   \* the default was given up: an admin set its isDefault to false, or
              \* it made way for a write that was refused

shVars == <<shift, cleared>>

ShInit ==
    /\ \E first \in ShiftIds :
         shift = [s \in ShiftIds |-> IF s = first THEN "default" ELSE "none"]
    /\ cleared = FALSE

Cleared(others) == [s \in ShiftIds |-> IF s \in others /\ shift[s] = "default"
                                       THEN "plain" ELSE shift[s]]

ShiftPcs == {"insertShift", "clearShift", "writeShift", "deleteShift"}

(* createShift(): updateMany, then create. *)
createShift(h, s, default) ==
    /\ shift[s] = "none"
    /\ \A g \in Running : calls[g].pc \in ShiftPcs => calls[g].s # s
    /\ Begin(h, [pc |-> "insertShift", s |-> s, to |-> IF default THEN "default" ELSE "plain"])
    /\ shift' = IF default THEN Cleared(ShiftIds) ELSE shift
    /\ UNCHANGED cleared

(* updateShift(): the shift is read, the others are cleared, it is written. *)
(* A dto without isDefault keeps the column.                                *)
updateShift(h, s, to) ==
    /\ shift[s] # "none"
    /\ Begin(h, [pc |-> IF to = "default" THEN "clearShift" ELSE "writeShift", s |-> s, to |-> to])
    /\ cleared' = (cleared \/ (to = "plain" /\ shift[s] = "default"))
    /\ UNCHANGED shift

ClearShift(h) ==
    /\ calls[h].pc = "clearShift"
    /\ shift' = Cleared(ShiftIds \ {calls[h].s})
    /\ Continue(h, [calls[h] EXCEPT !.pc = "writeShift"])
    /\ UNCHANGED cleared

WriteShift(h) ==
    LET c == calls[h] IN
    /\ c.pc \in {"insertShift", "writeShift"}
    /\ c.pc = "writeShift" => shift[c.s] # "none"
    /\ shift' = [shift EXCEPT ![c.s] = c.to]
    /\ Finish(h)
    /\ UNCHANGED cleared

(* The unique key on (tenant, name) refuses the row: the others stay cleared. *)
RefuseShift(h) ==
    LET c == calls[h] IN
    /\ c.pc \in {"insertShift", "writeShift"}
    /\ Finish(h)
    /\ cleared' = (cleared \/ (c.to = "default" /\ shift[c.s] # "default"))
    /\ UNCHANGED shift

(* deleteShift(): never the default, as read. *)
(* Mutant of Deletable: any shift. *)
DeletableAny(s) == shift[s] # "none"

Deletable(s) == shift[s] = "plain"

deleteShift(h, s) ==
    /\ Deletable(s)
    /\ Begin(h, [pc |-> "deleteShift", s |-> s])
    /\ UNCHANGED shVars

RemoveShift(h) ==
    /\ calls[h].pc = "deleteShift"
    /\ shift' = [shift EXCEPT ![calls[h].s] = "none"]
    /\ Finish(h)
    /\ UNCHANGED cleared

ShLose(h) == Lose(h) /\ UNCHANGED shVars

ShNext ==
    \E h \in Handlers :
      \/ \E s \in ShiftIds : \/ deleteShift(h, s)
                             \/ \E default \in BOOLEAN : createShift(h, s, default)
                             \/ \E to \in {"plain", "default"} : updateShift(h, s, to)
      \/ ClearShift(h) \/ WriteShift(h) \/ RefuseShift(h) \/ RemoveShift(h) \/ ShLose(h)
-----------------------------------------------------------------------------
(* The three together: calls of every kind on one tenant.                   *)
attendanceVars == <<callVars, today, compVars, attVars, otVars, shVars>>

AttendanceInit == CallsInit /\ CompInit /\ AttInit /\ OtInit /\ ShInit

AttNext ==
    \/ \E h \in Handlers : ClockNext(h) \/ DisputeNext(h) \/ JobNext(h) \/ AttLose(h)
    \/ OfficeNext \/ NextDay

AttendanceNext ==
    \/ AttNext /\ UNCHANGED <<otVars, shVars>>
    \/ OtNext /\ UNCHANGED <<attVars, shVars>>
    \/ ShNext /\ UNCHANGED <<today, compVars, attVars, otVars>>

AttendanceSpec == AttendanceInit /\ [][AttendanceNext]_attendanceVars
=============================================================================
