--------------------------- MODULE LeaveRequests ---------------------------
(***************************************************************************)
(* The leave-request lifecycle of apps/api/src/leave: LeaveService's       *)
(* apply / approve / finalApprove / reject / cancel / attach / manual      *)
(* adjustment and LeaveEscalationProcessor.                                *)
(*                                                                         *)
(* TenantPrismaService.client runs every Prisma operation in a transaction *)
(* of its own, so a handler is a sequence of separately committed          *)
(* statements.  A handler here is a "call" (one HTTP request or one job    *)
(* run) with a program counter; each action below is one statement, or a   *)
(* group of reads.  Calls                                                  *)
(* interleave freely, up to MaxInFlight at a time, and may die between any *)
(* two statements when MayFail is TRUE (a database error, a lost process). *)
(* Reads that follow one another without a write in between are one step.  *)
(*                                                                         *)
(* Operators marked "Mutant of" are not part of the model: each is a       *)
(* plausible mistake in the definition it precedes, kept to show that the  *)
(* properties can tell.                                                    *)
(*                                                                         *)
(* Amounts are in half days (a full day is 2): the code's half-day request *)
(* is 0.5.  Days are small integers; CalMonth and CalYear are the calendar.*)
(***************************************************************************)
EXTENDS Integers, Sequences, FiniteSets, Functions

CONSTANTS
    Employees,      \* employee ids; a user is identified with its employee
    Applicants,     \* the employees whose leave is explored
    Nobody,         \* the null employee id
    Admins,         \* users whose role is in ADMIN_ROLES
    LineManagers,   \* users whose role is LINE_MANAGER
    Mgr,            \* Employee.reportingManagerId
    Reqs,           \* request ids, given out in order: bounds how many are applied for
    UserCalls,      \* HTTP call ids, given out in order: bounds how many are made
    Worker,         \* the escalation worker, which runs one job at a time
    NoReq,          \* the null request id
    MaxInFlight,    \* bound on handlers running at the same time
    MayFail,        \* whether a handler may die between two statements
    SharedQueue,    \* whether the accrual worker may take an escalation job
    Days,           \* calendar days
    NoDay,          \* the null date
    CalMonth,       \* month (1..12) of a day
    CalYear,        \* calendar year of a day
    WeeklyOff,      \* weekly-off days
    HolidayChoices, \* sets of company-wide holidays HR may configure
    OptionalDays,   \* optional (restricted) holidays
    HalfDays,       \* whether requests may be full days, half days or both
    Today,          \* the day apply() runs on, some time after its midnight
    Types,          \* leave type ids
    PolicyChoices,  \* leave-type configurations an admin may save
    SettingsChoices,\* tenant leave settings an admin may save
    Eligible,       \* <<employee, type>> passing the type's gender (and service) rule
    EventDates,     \* event dates an employee may name
    OpeningYears,   \* years for which a balance row exists initially
    OpeningDays,    \* accrued half days of those rows
    AdjustDeltas,   \* half-day deltas HR may post manually
    ClockDays       \* days on which employees may clock in

VARIABLES
    request,    \* leave_requests
    approvals,  \* leave_approvals
    balance,    \* leave_balances
    ledger,     \* leave_ledger_entries
    attendance, \* attendance_records.status
    holidays,   \* company-wide holidays
    settings,   \* tenant_settings (leave slice)
    policy,     \* leave_types
    configured, \* history: every configuration a leave type has had
    docs,       \* documents: the attachment of a request
    jobs,       \* escalate jobs waiting in the leave queue
    jobIds,     \* every job id ever added (BullMQ ignores a second add)
    call        \* the handlers

vars == <<request, approvals, balance, ledger, attendance, holidays, settings,
          policy, configured, docs, jobs, jobIds, call>>

Statuses == {"NONE", "PENDING_L1", "PENDING_L2", "APPROVED", "REJECTED", "CANCELLED"}
Active   == {"PENDING_L1", "PENDING_L2", "APPROVED"}
Years    == {CalYear[d] : d \in Days} \cup {CalYear[d] - 1 : d \in Days}

ASSUME LeaveConstants ==
    /\ UserCalls \subseteq Nat /\ Worker \notin UserCalls /\ Reqs \subseteq Nat
    /\ Nobody \notin Employees /\ NoReq \notin Reqs /\ NoDay \notin Days
    /\ Applicants \subseteq Employees
    /\ Admins \subseteq Employees /\ LineManagers \subseteq Employees
    /\ Mgr \in [Employees -> Employees \cup {Nobody}]
    /\ MaxInFlight \in Nat /\ MayFail \in BOOLEAN /\ SharedQueue \in BOOLEAN
    /\ Days \subseteq Nat /\ IsFiniteSet(Days) /\ WeeklyOff \subseteq Days /\ Today \in Nat
    /\ CalMonth \in [Days -> 1..12] /\ CalYear \in [Days -> Nat]
    /\ HolidayChoices \subseteq SUBSET Days
    /\ OpeningYears \subseteq Years /\ OpeningDays \in Nat
    /\ AdjustDeltas \subseteq Int
    /\ HalfDays \subseteq BOOLEAN /\ EventDates \subseteq Days /\ ClockDays \subseteq Days
    /\ SettingsChoices \subseteq
         [levels: {1, 2}, single: {"HR", "MANAGER"}, fy: 1..12, allowLop: BOOLEAN]
    /\ PolicyChoices \subseteq
         [mode: {"ACCRUED", "ON_EVENT"}, perEvent: Nat, reduced: Nat,
          reducedAfter: Nat, maxEvents: Nat, calendar: BOOLEAN, before: Nat,
          after: Nat, requiresDocument: BOOLEAN, minNotice: Nat,
          restricted: BOOLEAN]

Calls == UserCalls \cup {Worker}

CanDecide == Admins \cup LineManagers
----------------------------------------------------------------------------
(* Dates and day counts. *)

resolveLeaveYear(d, fy) == IF CalMonth[d] >= fy THEN CalYear[d] ELSE CalYear[d] - 1

WorkingDays(from, to, hols) ==
    {d \in Days : from <= d /\ d <= to /\ d \notin hols /\ d \notin WeeklyOff}

countWorkingDays(from, to, hols) == 2 * Cardinality(WorkingDays(from, to, hols))

calendarDays(from, to) == 2 * (to - from + 1)
----------------------------------------------------------------------------
(* Event-based leave.  reducedAfter = 0 stands for the null pair, and       *)
(* maxEvents = 0 for "no limit"; both are positive when set.                *)

AtLeastZero(n) == IF n < 0 THEN 0 ELSE n

eventAllowance(p, earlier) ==
    IF p.reducedAfter > 0 /\ earlier >= p.reducedAfter THEN p.reduced ELSE p.perEvent

ActiveOf(e, t) ==
    {r \in Reqs : request[r].status \in Active /\ request[r].emp = e /\ request[r].type = t}

SumDays(S) == SumFunctionOnSet([r \in S |-> request[r].days], S)

(* Mutant of eventRequestOk: forgets what the event's other requests take. *)
eventRequestOkAlone(p, e, t, event, start, half, days) ==
    /\ event # NoDay
    /\ event - p.before <= start /\ start <= event + p.after
    /\ days <= p.perEvent

eventRequestOk(p, e, t, event, start, half, days) ==
    LET active  == ActiveOf(e, t)
        earlier == {request[r].event : r \in active} \ {NoDay, event}
        same    == {r \in active : request[r].event = event}
    IN  /\ event # NoDay
        /\ ~(half /\ p.calendar)
        /\ event - p.before <= start /\ start <= event + p.after
        /\ (same = {} /\ p.maxEvents > 0) => Cardinality(earlier) < p.maxEvents
        /\ days <= AtLeastZero(eventAllowance(p, Cardinality(earlier)) - SumDays(same))
----------------------------------------------------------------------------
(* Balances: every writer is an upsert that adds `by` to one column, and    *)
(* clamps at zero when it has to create the row.                            *)

Available(e, t, y) == balance[e][t][y].accrued - balance[e][t][y].used

Upserted(row, col, by) ==
    IF row.exists
    THEN [row EXCEPT ![col] = @ + by]
    ELSE [exists  |-> TRUE,
          accrued |-> IF col = "accrued" THEN AtLeastZero(by) ELSE 0,
          used    |-> IF col = "used" THEN AtLeastZero(by) ELSE 0]

(* One balance movement: the column, its change, and the ledger row's       *)
(* source and delta (the change of the AVAILABLE balance).                  *)
(* Mutant of adjustUsedDays: the ledger delta is the change of `used`. *)
adjustUsedDaysUnsigned(by, source) == [col |-> "used", by |-> by, source |-> source, delta |-> by]

adjustUsedDays(by, source) == [col |-> "used", by |-> by, source |-> source, delta |-> -by]
grantEventDays(by) == [col |-> "accrued", by |-> by, source |-> "EVENT_GRANT", delta |-> by]
manualDelta(by)    == [col |-> "accrued", by |-> by, source |-> "HR_ADJUSTMENT", delta |-> by]

----------------------------------------------------------------------------
(* Rows and calls. *)

NoRequest == [status |-> "NONE", emp |-> Nobody, type |-> Nobody, from |-> 0, to |-> 0,
              days |-> 0, half |-> FALSE, lop |-> FALSE, event |-> NoDay]

Idle == [pc |-> "idle", op |-> "NONE", by |-> Nobody, r |-> NoReq, snap |-> NoRequest,
         level |-> 0, target |-> "NONE", year |-> 0, plan |-> <<>>, mark |-> FALSE,
         days |-> {}, todo |-> {}]

Stopped  == {"idle", "done", "failed", "torn"}
Running  == {c \in Calls : call[c].pc \notin Stopped}
HasSlot  == Cardinality(Running) < MaxInFlight
CanStart(c) ==
    /\ HasSlot
    /\ call[c].pc = "idle"
    /\ \A b \in UserCalls : b < c => call[b].pc # "idle"

(* A finished handler keeps only what it was for; only approvals are asked  *)
(* about later.                                                             *)
Returned(k) ==
    IF k.op = "APPROVE"
    THEN [Idle EXCEPT !.pc = "done", !.op = k.op, !.by = k.by, !.r = k.r,
                      !.level = k.level, !.target = k.target]
    ELSE [Idle EXCEPT !.pc = "done"]
Return(c) == call' = [call EXCEPT ![c] = Returned(@)]

(* Bound: no more requests are applied for than Reqs has ids. *)
RoomForRequest ==
    Cardinality({r \in Reqs : request[r].status = "NONE"})
      > Cardinality({c \in Calls : call[c].pc = "insert"})
NextReq(r) == request[r].status = "NONE" /\ \A x \in Reqs : x < r => request[x].status # "NONE"

(* A call's control moves to pc p, with nothing else changed. *)
Goto(c, p) == call' = [call EXCEPT ![c].pc = p]

tables == <<request, approvals, balance, ledger, attendance, docs>>
config == <<holidays, settings, policy, configured>>
queues == <<jobs, jobIds>>
----------------------------------------------------------------------------
(* The row apply() would insert, from the settings, policy, holidays and    *)
(* balance as it reads them.                                                *)
NewRequest(e, t, from, to, half, event) ==
    LET p    == policy[t]
        onEv == p.mode = "ON_EVENT"
        days == IF onEv /\ p.calendar THEN calendarDays(from, to)
                ELSE IF half THEN 1 ELSE countWorkingDays(from, to, holidays)
        y    == resolveLeaveYear(from, settings.fy)
        l1   == (settings.levels = 2 \/ settings.single = "MANAGER") /\ Mgr[e] # Nobody
    IN [status |-> IF l1 THEN "PENDING_L1" ELSE "PENDING_L2",
        emp |-> e, type |-> t, from |-> from, to |-> to, days |-> days, half |-> half,
        lop |-> ~onEv /\ ~half /\ days > Available(e, t, y),
        event |-> IF onEv THEN event ELSE NoDay]

(* What apply() refuses, given the row q it would insert. *)
ApplyAccepts(q, event) ==
    LET p    == policy[q.type]
        onEv == p.mode = "ON_EVENT"
    IN /\ q.from <= q.to /\ (q.half => q.from = q.to)
       /\ p.minNotice > 0 => q.from - Today > p.minNotice
       /\ <<q.emp, q.type>> \in Eligible
       /\ ~onEv => event = NoDay
       /\ p.restricted => WorkingDays(q.from, q.to, holidays) \subseteq OptionalDays
       /\ onEv => eventRequestOk(p, q.emp, q.type, event, q.from, q.half, q.days)
       /\ q.lop => settings.allowLop

(* apply(): validation and the reads (settings, employee, balance, type,    *)
(* holidays, and for event types the active requests), then the insert.     *)
ReadApply(c) ==
    /\ CanStart(c) /\ RoomForRequest
    /\ \E e \in Applicants, t \in Types, from \in Days, to \in Days, half \in HalfDays,
          event \in EventDates \cup {NoDay} :
         LET q == NewRequest(e, t, from, to, half, event) IN
         /\ ApplyAccepts(q, event)
         /\ call' = [call EXCEPT ![c] =
              [Idle EXCEPT !.pc = "insert", !.op = "APPLY", !.by = e, !.snap = q]]
    /\ UNCHANGED <<tables, config, queues>>

InsertRequest(c) ==
    /\ call[c].pc = "insert"
    /\ \E r \in Reqs :
         /\ NextReq(r)
         /\ request' = [request EXCEPT ![r] = call[c].snap]
         /\ call' = [call EXCEPT ![c].r = r, ![c].pc = "notify"]
    /\ UNCHANGED <<approvals, balance, ledger, attendance, docs, config, queues>>

(* attach(): the status check and the upload are separate statements.  An   *)
(* upload replaces the live attachment; rows are only ever soft-deleted.    *)
ReadAttach(c, u, r) ==
    /\ CanStart(c)
    /\ request[r].status \in Active
    /\ u = request[r].emp \/ u \in Admins
    /\ call' = [call EXCEPT ![c] =
         [Idle EXCEPT !.pc = "upload", !.op = "ATTACH", !.by = u, !.r = r,
                      !.snap = request[r]]]
    /\ UNCHANGED <<tables, config, queues>>

Upload(c) ==
    /\ call[c].pc = "upload"
    /\ docs' = [docs EXCEPT ![call[c].r] = "LIVE"]
    /\ Return(c)
    /\ UNCHANGED <<request, approvals, balance, ledger, attendance, config, queues>>

(* adjustBalanceManual(). *)
StartAdjust(c, u, e, t, y, delta) ==
    /\ CanStart(c)
    /\ call' = [call EXCEPT ![c] =
         [Idle EXCEPT !.pc = "post", !.op = "ADJUST", !.by = u,
                      !.snap = [NoRequest EXCEPT !.emp = e, !.type = t],
                      !.year = y, !.plan = <<manualDelta(delta)>>]]
    /\ UNCHANGED <<tables, config, queues>>
----------------------------------------------------------------------------
(* approve(): read the request, check the caller, route by the status READ. *)
ReadApprove(c, u, r) ==
    LET q == request[r] IN
    /\ CanStart(c)
    /\ u \in CanDecide
    /\ \/ q.status = "PENDING_L1" /\ (u = Mgr[q.emp] \/ u \in Admins)
       \/ q.status = "PENDING_L2" /\ u \in Admins
    /\ call' = [call EXCEPT ![c] =
         [Idle EXCEPT !.pc = IF q.status = "PENDING_L1" THEN "route" ELSE "settle",
                      !.op = "APPROVE", !.by = u, !.r = r, !.snap = q,
                      !.level = IF q.status = "PENDING_L1" THEN 1 ELSE 2,
                      !.target = "APPROVED"]]
    /\ UNCHANGED <<tables, config, queues>>

(* The L1 branch re-reads the tenant settings: final when the reporting     *)
(* manager alone decides, otherwise on to L2.                               *)
RouteL1(c) ==
    /\ call[c].pc = "route"
    /\ IF settings.levels = 1 /\ settings.single = "MANAGER"
       THEN Goto(c, "settle")
       ELSE call' = [call EXCEPT ![c].pc = "write", ![c].target = "PENDING_L2",
                                 ![c].todo = {"status", "record"}]
    /\ UNCHANGED <<tables, config, queues>>

(* Mutants of PlanApproval and PlanCancel: half days are free; loss-of-pay   *)
(* days are given back; nothing used is given back.                          *)
PlanApprovalHalfFree(q, p) ==
    (IF p.mode = "ON_EVENT" THEN <<grantEventDays(q.days)>> ELSE <<>>)
    \o (IF ~q.lop /\ ~q.half THEN <<adjustUsedDays(q.days, "REQUEST_APPROVED")>> ELSE <<>>)
PlanCancelIgnoresLop(q) == <<adjustUsedDays(-q.days, "REQUEST_CANCELLED")>>
PlanCancelKeepsUsed(q)  == IF q.event # NoDay THEN <<grantEventDays(-q.days)>> ELSE <<>>

(* finalApprove(): settings, leave type and attachments are read, then the  *)
(* movements are planned: the event grant first, then the used days.        *)
PlanApproval(q, p) ==
    (IF p.mode = "ON_EVENT" THEN <<grantEventDays(q.days)>> ELSE <<>>)
    \o (IF ~q.lop THEN <<adjustUsedDays(q.days, "REQUEST_APPROVED")>> ELSE <<>>)

(* cancel(): the used days come back first, then an event's grant. *)
PlanCancel(q) ==
    (IF ~q.lop THEN <<adjustUsedDays(-q.days, "REQUEST_CANCELLED")>> ELSE <<>>)
    \o (IF q.event # NoDay THEN <<grantEventDays(-q.days)>> ELSE <<>>)

LacksDocument(k, p) == p.mode = "ON_EVENT" /\ p.requiresDocument /\ docs[k.r] # "LIVE"

Settle(c) ==
    LET q == call[c].snap
        p == policy[q.type]
        approving == call[c].op = "APPROVE"
    IN /\ call[c].pc = "settle"
       /\ IF approving /\ LacksDocument(call[c], p)
          THEN Return(c)
          ELSE call' = [call EXCEPT
                 ![c].pc   = "post",
                 ![c].year = resolveLeaveYear(q.from, settings.fy),
                 ![c].plan = IF approving THEN PlanApproval(q, p) ELSE PlanCancel(q),
                 ![c].mark = approving]
       /\ UNCHANGED <<tables, config, queues>>

(* The balance upsert of the next movement... *)
Post(c) ==
    LET k == call[c] m == Head(k.plan) IN
    /\ k.pc = "post" /\ k.plan # <<>>
    /\ balance' = [balance EXCEPT ![k.snap.emp][k.snap.type][k.year] =
                     Upserted(@, m.col, m.by)]
    /\ Goto(c, "ledger")
    /\ UNCHANGED <<request, approvals, ledger, attendance, docs, config, queues>>

(* ...and the ledger row that records it, a statement of its own. *)
WriteLedger(c) ==
    LET k == call[c] m == Head(k.plan) IN
    /\ k.pc = "ledger"
    /\ ledger' = ledger \cup {[call |-> c, r |-> k.r, emp |-> k.snap.emp,
                               type |-> k.snap.type, source |-> m.source,
                               delta |-> m.delta]}
    /\ call' = [call EXCEPT ![c].pc = "post", ![c].plan = Tail(@)]
    /\ UNCHANGED <<request, approvals, balance, attendance, docs, config, queues>>

(* Nothing left to post: a manual adjustment is over; a decision reads the  *)
(* holidays and goes on to the attendance rows of its working days.         *)
ReadHolidays(c) ==
    LET k == call[c] IN
    /\ k.pc = "post" /\ k.plan = <<>>
    /\ call' = IF k.op = "ADJUST"
               THEN [call EXCEPT ![c] = Returned(@)]
               ELSE [call EXCEPT ![c].pc = "sync",
                       ![c].days = WorkingDays(k.snap.from, k.snap.to, holidays)]
    /\ UNCHANGED <<tables, config, queues>>

(* syncAttendanceForLeave(): one statement per working day, in date order.  *)
(* Marking never overwrites a row; clearing deletes only ON_LEAVE rows.     *)
Synced(status, mark) ==
    IF mark THEN IF status = "NONE" THEN "ON_LEAVE" ELSE status
    ELSE IF status = "ON_LEAVE" THEN "NONE" ELSE status

SyncDay(c) ==
    LET k == call[c] e == k.snap.emp IN
    /\ k.pc = "sync"
    /\ \E d \in k.days :
         /\ \A x \in k.days : d <= x
         /\ attendance' = [attendance EXCEPT ![e][d] = Synced(@, k.mark)]
         /\ call' = [call EXCEPT ![c].days = @ \ {d}]
    /\ UNCHANGED <<request, approvals, balance, ledger, docs, config, queues>>

SyncDone(c) ==
    LET k == call[c] IN
    /\ k.pc = "sync" /\ k.days = {}
    /\ call' = [call EXCEPT ![c].pc = "write",
                  ![c].todo = IF k.op = "CANCEL" THEN {"status"} ELSE {"status", "record"}]
    /\ UNCHANGED <<tables, config, queues>>
----------------------------------------------------------------------------
(* reject(): no check of the status read, only of the caller. *)
ReadReject(c, u, r) ==
    LET q == request[r] IN
    /\ CanStart(c)
    /\ q.status # "NONE"
    /\ u \in CanDecide /\ (u = Mgr[q.emp] \/ u \in Admins)
    /\ call' = [call EXCEPT ![c] =
         [Idle EXCEPT !.pc = "write", !.op = "REJECT", !.by = u, !.r = r, !.snap = q,
                      !.level = IF q.status = "PENDING_L1" THEN 1 ELSE 2,
                      !.target = "REJECTED", !.todo = {"status", "record"}]]
    /\ UNCHANGED <<tables, config, queues>>

(* cancel(): any status may be cancelled; only APPROVED is unwound first. *)
ReadCancel(c, u, r) ==
    LET q == request[r] IN
    /\ CanStart(c)
    /\ q.status # "NONE"
    /\ u = q.emp \/ u \in Admins
    /\ call' = [call EXCEPT ![c] =
         [Idle EXCEPT !.pc = IF q.status = "APPROVED" THEN "settle" ELSE "write",
                      !.op = "CANCEL", !.by = u, !.r = r, !.snap = q,
                      !.target = "CANCELLED",
                      !.todo = IF q.status = "APPROVED" THEN {} ELSE {"status"}]]
    /\ UNCHANGED <<tables, config, queues>>

(* The unconditional UPDATE ... WHERE id = ?, whatever the status is now. *)
WriteStatus(c) ==
    LET k == call[c] IN
    /\ k.pc = "write" /\ "status" \in k.todo
    /\ request' = [request EXCEPT ![k.r].status = k.target]
    /\ call' = [call EXCEPT ![c].todo = @ \ {"status"}]
    /\ UNCHANGED <<approvals, balance, ledger, attendance, docs, config, queues>>

(* recordApproval(): concurrent with the update in the services             *)
(* (Promise.all), after it in the escalation processor.                     *)
RecordDecision(c) ==
    LET k == call[c] IN
    /\ k.pc = "write" /\ "record" \in k.todo
    /\ k.op = "ESCALATE" => "status" \notin k.todo
    /\ approvals' = approvals \cup
         {[call |-> c, r |-> k.r, level |-> k.level, by |-> k.by,
           decision |-> CASE k.op = "ESCALATE" -> "ESCALATED"
                          [] k.op = "REJECT"   -> "REJECTED"
                          [] OTHER             -> "APPROVED"]}
    /\ call' = [call EXCEPT ![c].todo = @ \ {"record"}]
    /\ UNCHANGED <<request, balance, ledger, attendance, docs, config, queues>>
----------------------------------------------------------------------------
(* The tail of every handler: schedule the next escalation (and notify,     *)
(* which changes no row; Notifications models the sending).                 *)
(* Mutants of EscalationOf: a job after every approval, one level up; no    *)
(* job for a request that starts at level 1.                                *)
EscalationOfEvery(k) ==
    IF k.op \in {"APPLY", "APPROVE"} THEN {[r |-> k.r, level |-> k.level + 1]} ELSE {}
EscalationOfL2Only(k) ==
    IF k.target = "PENDING_L2" \/ k.op = "APPLY" THEN {[r |-> k.r, level |-> 2]} ELSE {}

EscalationOf(k) ==
    CASE k.op = "APPLY" ->
           {[r |-> k.r, level |-> IF k.snap.status = "PENDING_L1" THEN 1 ELSE 2]}
      [] k.op \in {"APPROVE", "ESCALATE"} /\ k.target = "PENDING_L2" ->
           {[r |-> k.r, level |-> 2]}
      [] OTHER -> {}

Finish(c) ==
    LET k == call[c] new == EscalationOf(k) \ jobIds IN
    /\ k.pc = "notify" \/ (k.pc = "write" /\ k.todo = {})
    /\ jobs' = jobs \cup new
    /\ jobIds' = jobIds \cup new
    /\ Return(c)
    /\ UNCHANGED <<tables, config>>
----------------------------------------------------------------------------
(* Mutant of EscalationStep: level 2 escalates to approval. *)
EscalationStepApproves(level) ==
    [target |-> IF level = 1 THEN "PENDING_L2" ELSE "APPROVED", todo |-> {"status", "record"}]

(* Level 1 moves on to level 2; level 2 is only recorded (and HR reminded). *)
EscalationStep(level) ==
    IF level = 1 THEN [target |-> "PENDING_L2", todo |-> {"status", "record"}]
    ELSE [target |-> "NONE", todo |-> {"record"}]

(* LeaveEscalationProcessor.process(): the delayed job is taken off the     *)
(* queue, the request is read, and the job is a no-op unless the request    *)
(* still waits at the job's level.                                          *)
TakeJob ==
    \E j \in jobs :
      LET q == request[j.r]
          live == q.status = (IF j.level = 1 THEN "PENDING_L1" ELSE "PENDING_L2")
      IN /\ call[Worker].pc \in Stopped /\ HasSlot
         /\ jobs' = jobs \ {j}
         /\ call' = [call EXCEPT ![Worker] =
              IF live
              THEN [Idle EXCEPT !.pc = "write", !.op = "ESCALATE",
                      !.r = j.r, !.snap = q, !.level = j.level,
                      !.target = EscalationStep(j.level).target,
                      !.todo = EscalationStep(j.level).todo]
              ELSE [Idle EXCEPT !.pc = "done"]]
         /\ UNCHANGED <<tables, config, jobIds>>

(* LeaveAccrualProcessor listens on the same queue: a worker hands each job *)
(* to one processor, and this one returns at once for any other job name.   *)
AccrualWorkerTakesJob ==
    /\ SharedQueue
    /\ \E j \in jobs : jobs' = jobs \ {j}
    /\ UNCHANGED <<tables, config, jobIds, call>>

(* A handler dies between two statements; what it committed stays ("torn"   *)
(* when it dies with a balance changed and the ledger row not written).     *)
(* A job that threw is failed (one attempt); one whose process was lost is  *)
(* stalled, and the queue hands it out again.                               *)
Fail(c) ==
    LET k == call[c] IN
    /\ MayFail
    /\ c \in Running
    /\ Goto(c, IF k.pc = "ledger" THEN "torn" ELSE "failed")
    /\ \/ UNCHANGED jobs
       \/ k.op = "ESCALATE" /\ jobs' = jobs \cup {[r |-> k.r, level |-> k.level]}
    /\ UNCHANGED <<tables, config, jobIds>>
----------------------------------------------------------------------------
(* The rest of the tenant: settings, leave types, holidays, clock-ins. *)
updateSettings ==
    /\ \E s \in SettingsChoices : s # settings /\ settings' = s
    /\ UNCHANGED <<tables, holidays, policy, configured, queues, call>>

updateType ==
    /\ \E t \in Types, p \in PolicyChoices :
         /\ p # policy[t] /\ policy' = [policy EXCEPT ![t] = p]
         /\ configured' = [configured EXCEPT ![t] = @ \cup {p}]
    /\ UNCHANGED <<tables, holidays, settings, queues, call>>

editHolidays ==
    /\ \E h \in HolidayChoices : h # holidays /\ holidays' = h
    /\ UNCHANGED <<tables, settings, policy, configured, queues, call>>

(* DocumentsService.softDelete(): HR deletes the live attachment, whatever   *)
(* the request's status.                                                    *)
softDelete(r) ==
    /\ docs[r] = "LIVE"
    /\ docs' = [docs EXCEPT ![r] = "DELETED"]
    /\ UNCHANGED <<request, approvals, balance, ledger, attendance, config, queues, call>>

clockIn(e, d) ==
    /\ attendance[e][d] # "WORKED"
    /\ attendance' = [attendance EXCEPT ![e][d] = "WORKED"]
    /\ UNCHANGED <<request, approvals, balance, ledger, docs, config, queues, call>>

Init ==
    /\ request = [r \in Reqs |-> NoRequest]
    /\ approvals = {} /\ ledger = {} /\ docs = [r \in Reqs |-> "NONE"]
    /\ jobs = {} /\ jobIds = {}
    /\ balance = [e \in Employees |-> [t \in Types |-> [y \in Years |->
         [exists |-> y \in OpeningYears,
          accrued |-> IF y \in OpeningYears THEN OpeningDays ELSE 0, used |-> 0]]]]
    /\ attendance = [e \in Employees |-> [d \in Days |-> "NONE"]]
    /\ holidays \in HolidayChoices
    /\ settings \in SettingsChoices
    /\ policy \in [Types -> PolicyChoices]
    /\ configured = [t \in Types |-> {policy[t]}]
    /\ call = [c \in Calls |-> Idle]

(* The statements of a handler that is already running. *)
Step(c) ==
    \/ InsertRequest(c) \/ Upload(c) \/ RouteL1(c) \/ Settle(c) \/ Post(c)
    \/ WriteLedger(c) \/ ReadHolidays(c) \/ SyncDay(c) \/ SyncDone(c)
    \/ WriteStatus(c) \/ RecordDecision(c) \/ Finish(c)

(* A user's request reaching the API. *)
Start(c) ==
    \/ ReadApply(c)
    \/ \E u \in Employees, r \in Reqs :
         \/ ReadAttach(c, u, r) \/ ReadApprove(c, u, r)
         \/ ReadReject(c, u, r) \/ ReadCancel(c, u, r)
    \/ \E u \in Admins, e \in Applicants, t \in Types, y \in Years, delta \in AdjustDeltas :
         StartAdjust(c, u, e, t, y, delta)

Environment ==
    \/ updateSettings \/ updateType \/ editHolidays
    \/ \E r \in Reqs : softDelete(r)
    \/ \E e \in Applicants, d \in ClockDays : clockIn(e, d)

Next ==
    \/ \E c \in UserCalls : Start(c)
    \/ \E c \in Calls : Step(c) \/ Fail(c)
    \/ TakeJob
    \/ AccrualWorkerTakesJob
    \/ Environment

Spec == Init /\ [][Next]_vars

(* Every started handler and every due job runs to its end: Node keeps      *)
(* executing awaited statements, and BullMQ keeps polling for due jobs.     *)
FairSpec ==
    Spec /\ WF_vars(TakeJob) /\ \A c \in Calls : WF_vars(Step(c))
=============================================================================
