-------------------------- MODULE LeaveEntitlement --------------------------
(***************************************************************************)
(* LeaveEntitlementService, the callers that race on it, and               *)
(* LeavePolicyRecalcService (apps/api/src/leave).                          *)
(*                                                                         *)
(* The daily job, "apply policy now" and the creation of an employee run   *)
(* applyPolicyDefaults on a client that commits every statement by itself: *)
(* they read the ledger and the balances, plan, then create balance rows,  *)
(* increment others one by one and write the ledger rows last.  Company    *)
(* setup's submit and a recalculation do all of it in one transaction.     *)
(* Amounts are hundredths of a day, as in LeaveCredits.                    *)
(***************************************************************************)
EXTENDS LeaveCredits

CONSTANTS
    Emps,         \* employee ids
    Hired,        \* <<employee, joining day>> of those setup imports
    JoinDays,     \* joining days of employees created later
    LeaveTypes,   \* accruing leave types (grantMode ACCRUED, not comp-off)
    TypeChoices,  \* configurations an admin may save
    Openings,     \* <<employee, type>> with an imported opening balance
    OpeningAmount,\* its size
    GoLives,      \* go-live days a recalculation may set
    FirstWeek,    \* length of the carry-forward window in days
    LastDay,      \* bound on time
    MaxUsed,      \* bound on the days taken of one balance row
    Handlers,     \* call ids, given out in order: bounds the calls made
    Concurrency,  \* bound on calls running at the same time
    MayDie        \* whether a call may die between two statements

ASSUME EntitlementAssumption ==
    /\ Hired \subseteq Emps \X Nat /\ JoinDays \subseteq Nat
    /\ \A h, k \in Hired : h[1] = k[1] => h = k
    /\ Openings \subseteq {h[1] : h \in Hired} \X LeaveTypes
    /\ OpeningAmount \in Nat /\ GoLives \subseteq 0..LastDay /\ GoLives # {}
    /\ FirstWeek \in Nat /\ LastDay \in Nat /\ MaxUsed \in Nat
    /\ Handlers \subseteq Nat \ {0} /\ IsFiniteSet(Handlers) /\ Concurrency \in Nat /\ MayDie \in BOOLEAN
    /\ TypeChoices \subseteq [freq: Frequencies, quota: Nat, cap: Nat, active: BOOLEAN]

VARIABLES
    today,    \* the current day
    goLive,   \* tenant_settings.go_live_date
    setUp,    \* tenant_setup.completed_at is set
    staff,    \* employees: joining day and lifecycle
    types,    \* leave_types
    row,      \* leave_balances
    entries,  \* leave_ledger_entries
    handler   \* the calls

evars == <<today, goLive, setUp, staff, types, row, entries, handler>>

YearsCovered == 0..leaveYear(LastDay)
Keys == Emps \X LeaveTypes
NoRow == [exists |-> FALSE, accrued |-> 0, used |-> 0]
AtRest == {"idle", "done", "failed"}
Resting == [pc |-> "idle", day |-> 0, emps |-> {}, types |-> {},
            source |-> "NONE", plan |-> {}, todo |-> {}]

Busy == {h \in Handlers : handler[h].pc \notin AtRest}
Free(h) ==
    /\ Cardinality(Busy) < Concurrency
    /\ handler[h].pc = "idle"
    /\ \A g \in Handlers : g < h => handler[g].pc # "idle"
----------------------------------------------------------------------------
(* Reading the ledger: the rows of one balance key in one leave year, their *)
(* net per period, and the periods whose net is still positive.             *)
EntriesOf(ledger, k, y, sources) ==
    {x \in ledger : x.key = k /\ leaveYear(x.at) = y /\ x.source \in sources}
Net(ledger) == SumFunctionOnSet([x \in ledger |-> x.delta], ledger)

Policy == {"ACCRUAL", "ACCRUAL_REVERSAL"}
OfPeriod(ledger, f, p) == {x \in ledger : periodContaining(f, x.at) = p}
NetOfPeriod(ledger, f, p) == Net(OfPeriod(ledger, f, p))

creditedPeriods(ledger, f) ==
    LET starts == {periodContaining(f, x.at) : x \in ledger}
    IN  {p \in starts : NetOfPeriod(ledger, f, p) > 0}

(* What one call would write for one balance key: the ledger rows, and the  *)
(* balance row created (if none was read) or incremented by their total.    *)
PlanFor(k, rows, y, credits) ==
    [key |-> k, fresh |-> ~rows[k][y].exists, total |-> CreditTotal(credits),
     credits |-> credits]

(* applyPolicyDefaults() up to its writes, for the employees and types the  *)
(* caller asked for.                                                        *)
PlanDefaults(day, rows, ledger, live, emps, tids) ==
    LET y == leaveYear(day)
        due(k) ==
          LET e == k[1] t == types[k[2]]
              policyRows == EntriesOf(ledger, k, y, Policy)
          IN  creditsDue(t.freq, t.quota, y, effectiveStart(y, staff[e].joined, live), day,
                         creditedPeriods(policyRows, t.freq), Net(policyRows),
                         EntriesOf(ledger, k, y, {"OPENING_BALANCE"}) # {})
        keys == {k \in Keys : /\ k[1] \in emps /\ staff[k[1]].state = "ACTIVE"
                              /\ k[2] \in tids /\ types[k[2]].active}
    IN  {p \in {PlanFor(k, rows, y, due(k)) : k \in keys} : p.credits # {}}

AlreadyCarried(ledger, k, y) == EntriesOf(ledger, k, y, {"CARRY_FORWARD"}) # {}

(* applyCarryForward() up to its writes. *)
PlanCarry(day, rows, ledger) ==
    LET y == leaveYear(day)
        amount(k) == IF y - 1 \in YearsCovered
                     THEN carryForwardDays(rows[k][y - 1].accrued - rows[k][y - 1].used,
                                           types[k[2]].cap)
                     ELSE 0
        keys == {k \in Keys : /\ staff[k[1]].state = "ACTIVE"
                              /\ types[k[2]].active
                              /\ ~AlreadyCarried(ledger, k, y)
                              /\ amount(k) > 0}
    IN  IF day >= yearStart(y) + FirstWeek THEN {}
        ELSE {PlanFor(k, rows, y, {[at |-> yearStart(y), amount |-> amount(k)]}) : k \in keys}

(* write(): the rows a plan creates, one row it increments, its ledger rows. *)
Fresh(plan) == {p \in plan : p.fresh}
(* Mutant of Created: rows are created empty, for the increments to fill. *)
CreatedEmpty(rows, plan, y) ==
    [k \in Keys |-> [rows[k] EXCEPT ![y] =
       IF \E p \in Fresh(plan) : p.key = k THEN [NoRow EXCEPT !.exists = TRUE] ELSE @]]

Created(rows, plan, y) ==
    [k \in Keys |-> [rows[k] EXCEPT ![y] =
       IF \E p \in Fresh(plan) : p.key = k
       THEN [exists |-> TRUE, used |-> 0,
             accrued |-> (CHOOSE p \in Fresh(plan) : p.key = k).total]
       ELSE @]]
Incremented(rows, p, y) == [rows EXCEPT ![p.key][y].accrued = @ + p.total]
LedgerRows(h, plan, source) ==
    UNION {{[id |-> h, key |-> p.key, source |-> source, at |-> c.at, delta |-> c.amount] :
              c \in p.credits} : p \in plan}

(* The same writes inside a transaction. *)
Applied(rows, plan, y) ==
    LET created == Created(rows, plan, y)
        by(k)   == SumFunctionOnSet([p \in plan |-> p.total],
                                    {p \in plan \ Fresh(plan) : p.key = k})
    IN  [k \in Keys |-> [created[k] EXCEPT ![y].accrued = @ + by(k)]]
----------------------------------------------------------------------------
(* Calls starting: the daily job, the button, a new employee; none before    *)
(* company setup is complete.  Each fixes its `today` once, at the start.   *)
Begin(h, pc, emps, tids) ==
    /\ setUp /\ Free(h)
    /\ handler' = [handler EXCEPT ![h] =
         [Resting EXCEPT !.pc = pc, !.day = today, !.emps = emps, !.types = tids]]

accrueForTenant(h) ==
    /\ Begin(h, "readCarry", Emps, LeaveTypes)
    /\ UNCHANGED <<today, goLive, setUp, staff, types, row, entries>>

initializeYearlyBalances(h, t) ==
    /\ Begin(h, "readDefaults", Emps, {t})
    /\ UNCHANGED <<today, goLive, setUp, staff, types, row, entries>>

createEmployee(h, e, joined) ==
    /\ staff[e].state = "NONE"
    /\ staff' = [staff EXCEPT ![e] = [state |-> "ACTIVE", joined |-> joined]]
    /\ Begin(h, "readDefaults", {e}, LeaveTypes)
    /\ UNCHANGED <<today, goLive, setUp, types, row, entries>>

(* The reads of one of the two methods; a call with nothing to write moves  *)
(* on at once.                                                              *)
Planned(h, source, plan) ==
    handler' = [handler EXCEPT ![h].pc = "create", ![h].source = source, ![h].plan = plan,
                               ![h].todo = plan \ Fresh(plan)]

ReadCarry(h) ==
    /\ handler[h].pc = "readCarry"
    /\ Planned(h, "CARRY_FORWARD", PlanCarry(handler[h].day, row, entries))
    /\ UNCHANGED <<today, goLive, setUp, staff, types, row, entries>>

ReadDefaults(h) ==
    /\ handler[h].pc = "readDefaults"
    /\ Planned(h, "ACCRUAL",
         PlanDefaults(handler[h].day, row, entries, goLive, handler[h].emps, handler[h].types))
    /\ UNCHANGED <<today, goLive, setUp, staff, types, row, entries>>

(* createMany of the missing balance rows: one statement, which the unique  *)
(* key on (employee, type, year) makes fail when any of them exists by now. *)
CreateRows(h) ==
    LET k == handler[h]
        y == leaveYear(k.day)
        clash == \E p \in Fresh(k.plan) : row[p.key][y].exists
    IN /\ k.pc = "create"
       /\ IF clash
          THEN /\ handler' = [handler EXCEPT ![h].pc = "failed"]
               /\ UNCHANGED row
          ELSE /\ row' = Created(row, k.plan, y)
               /\ handler' = [handler EXCEPT ![h].pc = "increment"]
       /\ UNCHANGED <<today, goLive, setUp, staff, types, entries>>

(* One atomic increment per balance row that existed when it was planned. *)
IncrementRow(h) ==
    LET k == handler[h] IN
    /\ k.pc = "increment"
    /\ \E p \in k.todo :
         /\ row' = Incremented(row, p, leaveYear(k.day))
         /\ handler' = [handler EXCEPT ![h].todo = @ \ {p}]
    /\ UNCHANGED <<today, goLive, setUp, staff, types, entries>>

(* createMany of the ledger rows, last. *)
WriteEntries(h) ==
    LET k == handler[h] IN
    /\ k.pc = "increment" /\ k.todo = {}
    /\ entries' = entries \cup LedgerRows(h, k.plan, k.source)
    /\ handler' = [handler EXCEPT ![h] =
         IF k.source = "CARRY_FORWARD"
         THEN [k EXCEPT !.pc = "readDefaults", !.plan = {}]
         ELSE [Resting EXCEPT !.pc = "done"]]
    /\ UNCHANGED <<today, goLive, setUp, staff, types, row>>

(* A lost process or a database error.  The caller logs it and goes on; the *)
(* next daily run is what repairs it.                                       *)
Die(h) ==
    /\ MayDie
    /\ h \in Busy
    /\ handler' = [handler EXCEPT ![h].pc = "failed"]
    /\ UNCHANGED <<today, goLive, setUp, staff, types, row, entries>>
----------------------------------------------------------------------------
(* Company setup's submit: one transaction that imports the employees and   *)
(* their opening balances and applies the policy to everybody.              *)
submit ==
    LET y == leaveYear(today)
        openingDate == Later(goLive, yearStart(y))
        opened == [k \in Keys |-> IF k \in Openings
                     THEN [row[k] EXCEPT ![leaveYear(openingDate)] =
                             [exists |-> TRUE, accrued |-> OpeningAmount, used |-> 0]]
                     ELSE row[k]]
        openings == {[id |-> 0, key |-> k, source |-> "OPENING_BALANCE",
                      at |-> openingDate, delta |-> OpeningAmount] : k \in Openings}
        plan == PlanDefaults(today, opened, openings, goLive, Emps, LeaveTypes)
    IN /\ ~setUp
       /\ row' = Applied(opened, plan, y)
       /\ entries' = openings \cup LedgerRows(0, plan, "ACCRUAL")
       /\ setUp' = TRUE
       /\ UNCHANGED <<today, goLive, staff, types, handler>>

(* recalculate(): one transaction.  Every positive period net of the year   *)
(* is reversed, whatever the employee's state or the type's, go-live moves, *)
(* and the policy is applied again.  (The preview rolls back: a stutter.)   *)
Earliest(days) == CHOOSE d \in days : \A e \in days : d <= e
ReversalsOf(h, k, y) ==
    LET f == types[k[2]].freq
        policyRows == EntriesOf(entries, k, y, Policy)
    IN  {[id |-> h, key |-> k, source |-> "ACCRUAL_REVERSAL",
          at |-> Earliest({x.at : x \in OfPeriod(policyRows, f, p)}),
          delta |-> -NetOfPeriod(policyRows, f, p)] : p \in creditedPeriods(policyRows, f)}
Reversals(h, y) == UNION {ReversalsOf(h, k, y) : k \in Keys}

(* Mutant of Reversed: the ledger rows alone. *)
ReversedOnPaper(rows, reversals, y) == rows

Reversed(rows, reversals, y) ==
    [k \in Keys |-> [rows[k] EXCEPT ![y].accrued =
       IF rows[k][y].exists THEN @ + Net({x \in reversals : x.key = k}) ELSE @]]

recalculate(h, live) ==
    LET y    == leaveYear(today)
        back == Reversals(h, y)
        rows == Reversed(row, back, y)
        plan == PlanDefaults(today, rows, entries \cup back, live, Emps, LeaveTypes)
    IN /\ setUp /\ Free(h)
       /\ goLive' = live
       /\ row' = Applied(rows, plan, y)
       /\ entries' = entries \cup back \cup LedgerRows(h, plan, "ACCRUAL")
       /\ handler' = [handler EXCEPT ![h].pc = "done"]
       /\ UNCHANGED <<today, setUp, staff, types>>
----------------------------------------------------------------------------
(* The rest of the tenant. *)
Tick ==
    /\ today < LastDay
    /\ today' = today + 1
    /\ UNCHANGED <<goLive, setUp, staff, types, row, entries, handler>>

separate(e) ==
    /\ setUp
    /\ staff[e].state = "ACTIVE"
    /\ staff' = [staff EXCEPT ![e].state = "SEPARATED"]
    /\ UNCHANGED <<today, goLive, setUp, types, row, entries, handler>>

saveType(t, config) ==
    /\ types[t] # config
    /\ types' = [types EXCEPT ![t] = config]
    /\ UNCHANGED <<today, goLive, setUp, staff, row, entries, handler>>

(* Leave taken (LeaveRequests): finalApprove adds to `used`. *)
takeLeave(k) ==
    LET y == leaveYear(today) IN
    /\ row[k][y].exists /\ row[k][y].used < MaxUsed
    /\ row' = [row EXCEPT ![k][y].used = @ + OneDay]
    /\ UNCHANGED <<today, goLive, setUp, staff, types, entries, handler>>

EInit ==
    /\ today = 0 /\ goLive \in GoLives /\ setUp = FALSE
    /\ staff = [e \in Emps |->
         IF \E h \in Hired : h[1] = e
         THEN [state |-> "ACTIVE", joined |-> (CHOOSE h \in Hired : h[1] = e)[2]]
         ELSE [state |-> "NONE", joined |-> 0]]
    /\ types \in [LeaveTypes -> TypeChoices]
    /\ row = [k \in Keys |-> [y \in YearsCovered |-> NoRow]]
    /\ entries = {}
    /\ handler = [h \in Handlers |-> Resting]

Statement(h) ==
    ReadCarry(h) \/ ReadDefaults(h) \/ CreateRows(h) \/ IncrementRow(h) \/ WriteEntries(h)

Entering(h) ==
    \/ accrueForTenant(h)
    \/ \E t \in LeaveTypes : initializeYearlyBalances(h, t)
    \/ \E e \in Emps, joined \in JoinDays : createEmployee(h, e, joined)
    \/ \E live \in GoLives : recalculate(h, live)

ENext ==
    \/ \E h \in Handlers : Entering(h) \/ Statement(h) \/ Die(h)
    \/ submit \/ Tick
    \/ \E e \in Emps : separate(e)
    \/ \E t \in LeaveTypes, config \in TypeChoices : saveType(t, config)
    \/ \E k \in Keys : takeLeave(k)

ESpec == EInit /\ [][ENext]_evars
=============================================================================
