----------------------------- MODULE PayrollRun -----------------------------
(***************************************************************************)
(* Payroll runs and the salary structures they pay.                        *)
(*                                                                         *)
(* apps/api/src/payroll/payroll-run.service.ts and salary-structure.       *)
(* service.ts: every Prisma call outside an explicit transaction commits   *)
(* on its own, so a handler is a sequence of atomic statements.  A thread  *)
(* runs one handler at a time and keeps what it has read in its record;    *)
(* any number of handlers may follow each other.                           *)
(*                                                                         *)
(* The calculator, the statutory rates and the attendance of the period    *)
(* are abstracted to one amount, the pay of the employee's structure: the  *)
(* net pay before ad-hoc adjustments.  Audit rows and notifications are    *)
(* left out.                                                               *)
(***************************************************************************)
EXTENDS Integers, FiniteSets, Functions

CONSTANTS
    Employees,
    HRs, AdminUsers,   \* users with a managing role: HR managers, company admins
    AdminChoices,      \* which sets of company admins may be active
    Nobody,
    Runs, Periods,     \* Bound: ids of runs, months (both sets of naturals)
    NoRun,
    LastRun,           \* Bound: once this run is drafted no handler is started; or NoRun
    Pays,              \* amounts a salary structure may pay a month
    Extras,            \* totals of hand-made adjustments
    MaxVersion,        \* Bound: structures of one employee, superseded ones included
    HasDob,            \* employees with a date of birth, who get a payslip
    Threads

VARIABLES
    run,         \* payroll_runs
    approvals,   \* payroll_run_approvals: who approved each run (unique per run, approver)
    items,       \* payroll_line_items: of each run and employee
    arrears,     \* arrears_line_items: of each employee, corrected run and revision
    structure,   \* the ACTIVE salary structure of each employee
    payable,     \* employees the calculator can pay: working, with a work state
    admins,      \* active company admins
    thread       \* handlers

vars == <<run, approvals, items, arrears, structure, payable, admins, thread>>

Managers == HRs \cup AdminUsers

ASSUME PayrollConstants ==
    /\ Runs \subseteq Nat /\ Periods \subseteq Nat /\ NoRun \notin Runs
    /\ LastRun \in Runs \cup {NoRun}
    /\ IsFiniteSet(Employees) /\ IsFiniteSet(Runs) /\ IsFiniteSet(Managers)
    /\ Nobody \notin Managers \cup Employees
    /\ Pays \subseteq Nat /\ Extras \subseteq Int /\ MaxVersion \in Nat
    /\ HasDob \subseteq Employees /\ AdminChoices \subseteq SUBSET AdminUsers

(* A revision raises at most one arrears row per employee and run; its id   *)
(* is the version of the structure it created.                              *)
ArrearsIds == Employees \X Runs \X (1..MaxVersion)

NoItem == [on |-> FALSE, base |-> 0, extra |-> 0, folded |-> {}, net |-> 0,
           slip |-> FALSE, printed |-> 0]
NoItems == [e \in Employees |-> NoItem]

Idle == [pc |-> "idle", op |-> "NONE", by |-> Nobody, r |-> NoRun, period |-> 0,
         again |-> FALSE, lines |-> NoItems, emp |-> Nobody, ver |-> 0, old |-> 0,
         pay |-> 0, hits |-> {}]

Init ==
    /\ run = [r \in Runs |-> [status |-> "NONE", period |-> 0, again |-> FALSE,
                              processed |-> FALSE]]
    /\ approvals = [r \in Runs |-> {}]
    /\ items = [r \in Runs |-> NoItems]
    /\ arrears = [a \in ArrearsIds |-> [status |-> "NONE", amount |-> 0, into |-> NoRun]]
    /\ structure = [e \in Employees |-> [ver |-> 0, pay |-> 0]]
    /\ payable = Employees
    /\ admins = AdminUsers
    /\ thread = [t \in Threads |-> Idle]
----------------------------------------------------------------------------
tables == <<run, approvals, items, arrears, structure, payable, admins>>

CanManage == HRs \cup admins
assertPayrollGate == Cardinality(admins) >= 2

Begin(t, u) ==
    /\ thread[t].pc = "idle" /\ u \in CanManage
    /\ LastRun \in Runs => run[LastRun].status = "NONE"
Goto(t, pc)  == thread' = [thread EXCEPT ![t].pc = pc]
Return(t)    == thread' = [thread EXCEPT ![t] = Idle]

(* Total of a line item's adjustments: arrears folded in, and by hand. *)
AdjustmentTotal(folded, extra) ==
    extra + SumFunctionOnSet([a \in ArrearsIds |-> arrears[a].amount], folded)

(* The database trigger on payroll_line_items (INV-2). *)
Immutable(r) == run[r].status \in {"PROCESSED", "DISBURSED"}

(* Lines of an item set that are there. *)
On(lines) == {e \in Employees : lines[e].on}
----------------------------------------------------------------------------
(* createDraft(): the gate, then the check that a regular run is the        *)
(* period's first, then the assembly and one transaction.                   *)
StartCreate(t, u, p, again) ==
    /\ Begin(t, u) /\ assertPayrollGate
    /\ thread' = [thread EXCEPT ![t] =
         [Idle EXCEPT !.pc = IF again THEN "structures" ELSE "existing",
                      !.op = "CREATE", !.period = p, !.again = again]]
    /\ UNCHANGED tables

RegularRuns(p) == {r \in Runs : run[r].status # "NONE" /\ run[r].period = p /\ ~run[r].again}

CheckExisting(t) ==
    /\ thread[t].pc = "existing"
    /\ IF RegularRuns(thread[t].period) = {} THEN Goto(t, "structures") ELSE Return(t)
    /\ UNCHANGED tables

CanCompute(e) == e \in payable /\ structure[e].ver > 0

(* assembleLineItems() reads the employees with their active structures; an *)
(* exception gets no line item (RULE-7).                                    *)
ReadStructures(t) ==
    /\ thread[t].pc = "structures"
    /\ thread' = [thread EXCEPT ![t].pc = "arrears",
         ![t].lines = [e \in Employees |->
            IF CanCompute(e)
            THEN [NoItem EXCEPT !.on = TRUE, !.base = structure[e].pay, !.net = structure[e].pay]
            ELSE NoItem]]
    /\ UNCHANGED tables

(* Mutant of FoldedLine: the arrears of excluded employees are folded too. *)
FoldedLineAnyone(line, pending) ==
    [line EXCEPT !.folded = pending, !.net = line.base + AdjustmentTotal(pending, 0)]

(* Pending arrears become adjustments of an included employee's line. *)
FoldedLine(line, pending) ==
    IF line.on
    THEN [line EXCEPT !.folded = pending, !.net = line.base + AdjustmentTotal(pending, 0)]
    ELSE line

ReadArrears(t) ==
    /\ thread[t].pc = "arrears"
    /\ thread' = [thread EXCEPT ![t].pc = "commit",
         ![t].lines = [e \in Employees |->
            FoldedLine(thread[t].lines[e],
              {a \in ArrearsIds : a[1] = e /\ arrears[a].status = "PENDING"})]]
    /\ UNCHANGED tables

(* The partial unique index on (tenant, period) of regular runs. *)
PeriodTaken(k) == ~k.again /\ RegularRuns(k.period) # {}

NextRun(r) == run[r].status = "NONE" /\ \A q \in Runs : q < r => run[q].status # "NONE"

(* An arrears row is marked folded into run r, by id. *)
Fold(row, r) == [row EXCEPT !.status = "FOLDED", !.into = r]

(* One transaction: the run, its line items, and the arrears read.  Bound:  *)
(* it waits for ever when Runs has no id left.                              *)
CommitCreate(t) ==
    LET k == thread[t]
        folds == UNION {k.lines[e].folded : e \in Employees}
    IN  /\ k.op = "CREATE" /\ k.pc = "commit"
        /\ \/ /\ PeriodTaken(k)
              /\ UNCHANGED <<run, items, arrears>>
           \/ /\ ~PeriodTaken(k)
              /\ \E r \in Runs :
                   /\ NextRun(r)
                   /\ run' = [run EXCEPT ![r] = [status |-> "DRAFT", period |-> k.period,
                                                 again |-> k.again, processed |-> FALSE]]
                   /\ items' = [items EXCEPT ![r] = k.lines]
                   /\ arrears' = [a \in ArrearsIds |->
                        IF a \in folds THEN Fold(arrears[a], r) ELSE arrears[a]]
        /\ Return(t)
        /\ UNCHANGED <<approvals, structure, payable, admins>>
----------------------------------------------------------------------------
(* Handlers on a run begin by reading it and checking its status; approve() *)
(* checks the payroll gate before.                                          *)
StartOn(t, u, r, op, pc, statuses) ==
    /\ Begin(t, u)
    /\ run[r].status \in statuses
    /\ thread' = [thread EXCEPT ![t] = [Idle EXCEPT !.pc = pc, !.op = op, !.r = r]]
    /\ UNCHANGED tables

Editable == {"DRAFT", "REVIEW"}
recalculate(t, u, r)     == StartOn(t, u, r, "RECALC", "items", Editable)
(* Mutant of submitForReview: a processed run is reopened.                  *)
submitForReviewAnytime(t, u, r) == StartOn(t, u, r, "SUBMIT", "write", {"DRAFT", "PROCESSED"})
submitForReview(t, u, r) == StartOn(t, u, r, "SUBMIT", "write", {"DRAFT"})
process(t, u, r)         == StartOn(t, u, r, "PROCESS", "items", {"APPROVED"})
disburse(t, u, r)        == StartOn(t, u, r, "DISBURSE", "write", {"PROCESSED"})
setLineItemAdjustments(t, u, r) == StartOn(t, u, r, "ADJUST", "items", Editable)

StartApprove(t, u, r) ==
    /\ Begin(t, u) /\ assertPayrollGate /\ run[r].status # "NONE"
    /\ thread' = [thread EXCEPT ![t] =
         [Idle EXCEPT !.pc = "status", !.op = "APPROVE", !.by = u, !.r = r]]
    /\ UNCHANGED tables

(* The line items of the run, as read; process() prints them as they are. *)
ReadItems(t) ==
    LET k == thread[t] IN
    /\ k.pc = "items" /\ k.op \in {"RECALC", "PROCESS"}
    /\ thread' = [thread EXCEPT ![t].pc = IF k.op = "RECALC" THEN "compute" ELSE "commit",
                                ![t].lines = items[k.r]]
    /\ UNCHANGED tables

(* setLineItemAdjustments(): the caller's list replaces the item's, whose   *)
(* net pay is recomputed from the statutory figures read.                   *)
ReadItem(t, e, extra) ==
    LET k == thread[t]
        line == items[k.r][e]
    IN  /\ k.op = "ADJUST" /\ k.pc = "items"
        /\ line.on
        /\ \E folded \in SUBSET line.folded :
             thread' = [thread EXCEPT ![t].pc = "write", ![t].emp = e,
               ![t].lines[e] = [NoItem EXCEPT !.folded = folded, !.extra = extra,
                                  !.net = line.base + AdjustmentTotal(folded, extra)]]
        /\ UNCHANGED tables

(* Mutant of Recomputed: the adjustments are forgotten. *)
RecomputedBare(line, pay) == [NoItem EXCEPT !.on = line.on, !.base = pay, !.net = pay]

(* recalculate(): fresh figures plus the adjustments of the item as read. *)
Recomputed(line, pay) ==
    IF line.on
    THEN [NoItem EXCEPT !.on = TRUE, !.base = pay,
                        !.net = pay + AdjustmentTotal(line.folded, line.extra)]
    ELSE NoItem

Compute(t) ==
    LET k == thread[t] IN
    /\ k.pc = "compute"
    /\ IF \E e \in On(k.lines) : ~CanCompute(e)
       THEN Return(t)
       ELSE thread' = [thread EXCEPT ![t].pc = "commit",
              ![t].lines = [e \in Employees |-> Recomputed(k.lines[e], structure[e].pay)]]
    /\ UNCHANGED tables

(* An update of line items is rejected as a whole while the run is          *)
(* PROCESSED or DISBURSED.                                                  *)
Blocked(r, touched) == touched # {} /\ Immutable(r)

CommitRecalc(t) ==
    LET k == thread[t] IN
    /\ k.op = "RECALC" /\ k.pc = "commit"
    /\ items' = IF Blocked(k.r, On(k.lines)) THEN items
                ELSE [items EXCEPT ![k.r] = [e \in Employees |->
                        IF ~k.lines[e].on THEN items[k.r][e]
                        ELSE [items[k.r][e] EXCEPT !.base = k.lines[e].base,
                                                   !.net = k.lines[e].net]]]
    /\ Return(t)
    /\ UNCHANGED <<run, approvals, arrears, structure, payable, admins>>

WriteItem(t) ==
    LET k == thread[t] IN
    /\ k.op = "ADJUST" /\ k.pc = "write"
    /\ items' = IF Blocked(k.r, {k.emp}) THEN items
                ELSE [items EXCEPT ![k.r][k.emp] =
                        [@ EXCEPT !.folded = k.lines[k.emp].folded,
                                  !.extra = k.lines[k.emp].extra, !.net = k.lines[k.emp].net]]
    /\ Return(t)
    /\ UNCHANGED <<run, approvals, arrears, structure, payable, admins>>
----------------------------------------------------------------------------
(* submitForReview() and disburse() write the next status by id. *)
WriteStatus(t) ==
    LET k == thread[t] IN
    /\ k.pc = "write" /\ k.op \in {"SUBMIT", "DISBURSE"}
    /\ run' = [run EXCEPT ![k.r].status = IF k.op = "SUBMIT" THEN "REVIEW" ELSE "DISBURSED"]
    /\ Return(t)
    /\ UNCHANGED <<approvals, items, arrears, structure, payable, admins>>

(* approve(): the status, the approver's row, the count of the rows, and,   *)
(* from two on, APPROVED.                                                   *)
ReadStatus(t) ==
    LET k == thread[t] IN
    /\ k.pc = "status"
    /\ IF run[k.r].status = "REVIEW" THEN Goto(t, "approve") ELSE Return(t)
    /\ UNCHANGED tables

UpsertApproval(t) ==
    LET k == thread[t] IN
    /\ k.pc = "approve"
    /\ approvals' = [approvals EXCEPT ![k.r] = @ \cup {k.by}]
    /\ Goto(t, "count")
    /\ UNCHANGED <<run, items, arrears, structure, payable, admins>>

(* Mutant of EnoughApprovers: the approver's own row is counted again. *)
EnoughApproversSelf(r) == Cardinality(approvals[r]) + 1 >= 2

EnoughApprovers(r) == Cardinality(approvals[r]) >= 2

CountApprovals(t) ==
    LET k == thread[t] IN
    /\ k.pc = "count"
    /\ IF EnoughApprovers(k.r) THEN Goto(t, "approved") ELSE Return(t)
    /\ UNCHANGED tables

WriteApproved(t) ==
    LET k == thread[t] IN
    /\ k.pc = "approved"
    /\ run' = [run EXCEPT ![k.r].status = "APPROVED"]
    /\ Return(t)
    /\ UNCHANGED <<approvals, items, arrears, structure, payable, admins>>

(* The net pay printed on the payslip of a line item. *)
PayslipNet(line) == line.net

(* Payslips are printed for the items read of employees with a date of birth. *)
Printed(k) == On(k.lines) \cap HasDob

WithPayslips(k) ==
    [e \in Employees |->
       IF e \in Printed(k)
       THEN [items[k.r][e] EXCEPT !.slip = TRUE, !.printed = PayslipNet(k.lines[e])]
       ELSE items[k.r][e]]

MarkProcessed(r) == run' = [run EXCEPT ![r].status = "PROCESSED", ![r].processed = TRUE]

(* Mutant of CommitProcess: the status first, in a statement of its own, so *)
(* that the trigger rejects the keys.                                       *)
CommitProcessStatusFirst(t) ==
    LET k == thread[t] IN
    /\ k.op = "PROCESS" /\ k.pc = "commit"
    /\ MarkProcessed(k.r)
    /\ Return(t)
    /\ UNCHANGED <<items, approvals, arrears, structure, payable, admins>>

(* process(): the payslips of the items read are uploaded, then one         *)
(* transaction writes their keys and the status, in that order.             *)
CommitProcess(t) ==
    LET k == thread[t] IN
    /\ k.op = "PROCESS" /\ k.pc = "commit"
    /\ IF Blocked(k.r, Printed(k))
       THEN UNCHANGED <<run, items>>
       ELSE /\ items' = [items EXCEPT ![k.r] = WithPayslips(k)]
            /\ MarkProcessed(k.r)
    /\ Return(t)
    /\ UNCHANGED <<approvals, arrears, structure, payable, admins>>
----------------------------------------------------------------------------
(* SalaryStructureService.create(): one active structure per employee, by a *)
(* check and a partial unique index.                                        *)
StartStructure(t, u, e, pay, p, op) ==
    LET s == structure[e] IN
    /\ Begin(t, u)
    /\ IF op = "CREATE_STRUCTURE" THEN s.ver = 0 ELSE s.ver > 0
    /\ s.ver < MaxVersion
    /\ thread' = [thread EXCEPT ![t] =
         [Idle EXCEPT !.pc = IF op = "CREATE_STRUCTURE" THEN "insert" ELSE "affected",
                      !.op = op, !.emp = e, !.period = p, !.pay = pay,
                      !.ver = s.ver, !.old = s.pay]]
    /\ UNCHANGED tables

InsertStructure(t) ==
    LET k == thread[t] IN
    /\ k.pc = "insert"
    /\ structure' = IF structure[k.emp].ver > 0 THEN structure
                    ELSE [structure EXCEPT ![k.emp] = [ver |-> 1, pay |-> k.pay]]
    /\ Return(t)
    /\ UNCHANGED <<run, approvals, items, arrears, payable, admins>>

(* The processed regular runs the change reaches back to; without any,      *)
(* update() is an edit in place and not a revision.                         *)
findAffectedLineItems(e, p) ==
    {r \in Runs : Immutable(r) /\ ~run[r].again /\ run[r].period >= p /\ items[r][e].on}

ReadAffected(t) ==
    LET k == thread[t]
        hits == findAffectedLineItems(k.emp, k.period)
    IN  /\ k.pc = "affected"
        /\ thread' = [thread EXCEPT ![t].hits = hits,
             ![t].pc = IF k.op = "UPDATE" /\ hits = {} THEN "edit" ELSE "revise"]
        /\ UNCHANGED tables

(* The row read is edited by id, even if a revision superseded it. *)
EditStructure(t) ==
    LET k == thread[t] IN
    /\ k.pc = "edit"
    /\ structure' = IF structure[k.emp].ver # k.ver THEN structure
                    ELSE [structure EXCEPT ![k.emp].pay = k.pay]
    /\ Return(t)
    /\ UNCHANGED <<run, approvals, items, arrears, payable, admins>>

(* applyRevision(): one transaction supersedes the structure read, creates  *)
(* the new one and the pending arrears; a second ACTIVE structure is        *)
(* refused by the index.                                                    *)
applyRevision(t) ==
    LET k == thread[t]
        new(a) == a[1] = k.emp /\ a[2] \in k.hits /\ a[3] = k.ver + 1
    IN  /\ k.pc = "revise"
        /\ IF structure[k.emp].ver # k.ver
           THEN UNCHANGED <<structure, arrears>>
           ELSE /\ structure' = [structure EXCEPT ![k.emp] =
                                   [ver |-> k.ver + 1, pay |-> k.pay]]
                /\ arrears' = [a \in ArrearsIds |->
                     IF new(a) THEN [status |-> "PENDING", amount |-> k.pay - k.old,
                                     into |-> NoRun]
                     ELSE arrears[a]]
        /\ Return(t)
        /\ UNCHANGED <<run, approvals, items, payable, admins>>
----------------------------------------------------------------------------
(* Access control activates and deactivates admins, never the last one. *)
ChangeAdmins(active) ==
    /\ active # {} /\ active # admins
    /\ admins' = active
    /\ UNCHANGED <<run, approvals, items, arrears, structure, payable, thread>>

(* Profile edits, separations and calculator errors come and go at any      *)
(* moment (recalculate() pays leavers too, who are then payable here).      *)
ChangePayable(e) ==
    /\ payable' = IF e \in payable THEN payable \ {e} ELSE payable \cup {e}
    /\ UNCHANGED <<run, approvals, items, arrears, structure, admins, thread>>

(* A handler's process or connection is lost between two statements. *)
Lost(t) == thread[t].pc # "idle" /\ Return(t) /\ UNCHANGED tables

OnRun(t, u, r) ==
    \/ recalculate(t, u, r) \/ setLineItemAdjustments(t, u, r) \/ submitForReview(t, u, r)
    \/ StartApprove(t, u, r) \/ process(t, u, r) \/ disburse(t, u, r)

Start(t) == \E u \in Managers :
    \/ \E p \in Periods, again \in BOOLEAN : StartCreate(t, u, p, again)
    \/ \E r \in Runs : OnRun(t, u, r)
    \/ \E e \in Employees, pay \in Pays, p \in Periods,
          op \in {"CREATE_STRUCTURE", "UPDATE", "REVISE"} : StartStructure(t, u, e, pay, p, op)

Step(t) ==
    \/ CheckExisting(t) \/ ReadStructures(t) \/ ReadArrears(t) \/ CommitCreate(t)
    \/ ReadItems(t) \/ Compute(t) \/ CommitRecalc(t) \/ WriteItem(t)
    \/ \E e \in Employees, extra \in Extras : ReadItem(t, e, extra)
    \/ WriteStatus(t) \/ ReadStatus(t) \/ UpsertApproval(t) \/ CountApprovals(t)
    \/ WriteApproved(t) \/ CommitProcess(t)
    \/ InsertStructure(t) \/ ReadAffected(t) \/ EditStructure(t) \/ applyRevision(t)

Next ==
    \/ \E t \in Threads : Start(t) \/ Step(t) \/ Lost(t)
    \/ \E active \in AdminChoices : ChangeAdmins(active)
    \/ \E e \in Employees : ChangePayable(e)

Spec == Init /\ [][Next]_vars
=============================================================================
