------------------------- MODULE EntitlementProofs -------------------------
(***************************************************************************)
(* Proofs about the entitlement engine, for every set of employees and     *)
(* types, every calendar and policy, and any number of calls that overlap  *)
(* and die between any two of their statements.                            *)
(***************************************************************************)
EXTENDS EntitlementProperties, SumProofs

Pcs == AtRest \cup {"readCarry", "readDefaults", "create", "increment"}
Plans == [key: Keys, fresh: BOOLEAN, total: Nat, credits: SUBSET Credits]
Calls == [pc: Pcs, day: 0..LastDay, emps: SUBSET Emps, types: SUBSET LeaveTypes,
          source: {"NONE", "ACCRUAL", "CARRY_FORWARD"}, plan: SUBSET Plans, todo: SUBSET Plans]
BalanceRows == [exists: BOOLEAN, accrued: Int, used: Nat]
Balances == [Keys -> [YearsCovered -> BalanceRows]]
Entries == [id: Handlers \cup {0}, key: Keys, source: Sources, at: 0..LastDay, delta: Int]

OfKey(ledger, k) == {x \in ledger : x.key = k}
LedgerOK(ledger) == ledger \subseteq Entries /\ \A k \in Keys : IsFiniteSet(OfKey(ledger, k))

-----------------------------------------------------------------------------
(* Sums of rows. *)
LEMMA ImageFinite ==
  ASSUME NEW S, IsFiniteSet(S), NEW f
  PROVE  IsFiniteSet({f[x] : x \in S})
<1> DEFINE T == {f[x] : x \in S}
           g == [x \in S |-> f[x]]
<1>1. g \in Surjection(S, T)
  BY DEF Surjection
<1> HIDE DEF T, g
<1>2. IsFiniteSet(T)
  BY <1>1, FS_Surjection
<1> QED BY <1>2 DEF T

(* Summing the rows that m writes, one per x, is summing what they carry.   *)
LEMMA SumCarries ==
  ASSUME NEW S, IsFiniteSet(S), NEW m, \A x, y \in S : m[x] = m[y] => x = y,
         NEW f, \A x \in S : f[x] \in Int, NEW g, \A x \in S : g[m[x]] = f[x]
  PROVE  SumFunctionOnSet(g, {m[x] : x \in S}) = SumFunctionOnSet(f, S)
<1> DEFINE img(A) == {m[x] : x \in A}
           F == {A \in SUBSET S : SumFunctionOnSet(g, img(A)) # SumFunctionOnSet(f, A)}
<1>1. SUFFICES ASSUME F # {} PROVE FALSE
  OBVIOUS
<1>2. F \in SUBSET SUBSET S
  OBVIOUS
<1> HIDE DEF F
<1>3. PICK A \in F : \A B \in F : B \subseteq A => B = A
  BY <1>1, <1>2, MinimalSubset
<1> USE DEF F
<1>4. IsFiniteSet(A) /\ A # {}
  <2>1. SumFunctionOnSet(g, img({})) = SumFunctionOnSet(f, {})
    BY img({}) = {}, SumEmpty
  <2> QED BY <2>1, FS_Subset
<1>5. PICK a \in A : TRUE
  BY <1>4
<1> DEFINE B == A \ {a}
<1>6. IsFiniteSet(B) /\ IsFiniteSet(img(B)) /\ SumFunctionOnSet(g, img(B)) = SumFunctionOnSet(f, B)
  <2>1. B \in SUBSET S /\ B # A /\ B \subseteq A
    OBVIOUS
  <2>2. IsFiniteSet(B)
    BY <2>1, FS_Subset
  <2> QED BY <1>3, <2>1, <2>2, ImageFinite
<1>7. img(A) = img(B) \cup {m[a]} /\ m[a] \notin img(B)
  OBVIOUS
<1>8. \A y \in img(B) \cup {m[a]} : g[y] \in Int
  OBVIOUS
<1> HIDE DEF img, B
<1>9. SumFunctionOnSet(g, img(A)) = g[m[a]] + SumFunctionOnSet(g, img(B))
  BY <1>6, <1>7, <1>8, SumAdds
<1>10. SumFunctionOnSet(f, A) = f[a] + SumFunctionOnSet(f, B)
  BY <1>4, SumTakes DEF B
<1> QED BY <1>6, <1>9, <1>10

LEMMA SumNotNegative ==
  ASSUME NEW S, IsFiniteSet(S), NEW f, \A x \in S : f[x] \in Nat
  PROVE  SumFunctionOnSet(f, S) \in Nat
<1> DEFINE zero == [x \in S |-> 0]
<1>1. SumFunctionOnSet(zero, S) = 0
  BY SumZero
<1>2. SumFunctionOnSet(zero, S) <= SumFunctionOnSet(f, S)
  BY SumGrows
<1>3. SumFunctionOnSet(f, S) \in Int
  BY SumIsInt
<1> QED BY <1>1, <1>2, <1>3

LEMMA CreditTotalIsNat ==
  ASSUME NEW C \in SUBSET Credits, IsFiniteSet(C)
  PROVE  CreditTotal(C) \in Nat
<1> DEFINE f == [d \in C |-> d.amount]
<1>1. \A c \in C : f[c] \in Nat
  BY DEF Credits
<1> HIDE DEF f
<1>2. SumFunctionOnSet(f, C) \in Nat
  BY <1>1, SumNotNegative
<1> QED BY <1>2 DEF CreditTotal, f

LEMMA NetIsInt ==
  ASSUME NEW L \in SUBSET Entries, IsFiniteSet(L)
  PROVE  Net(L) \in Int
<1> DEFINE f == [x \in L |-> x.delta]
<1>1. \A x \in L : f[x] \in Int
  BY DEF Entries
<1> HIDE DEF f
<1>2. SumFunctionOnSet(f, L) \in Int
  BY <1>1, SumIsInt
<1> QED BY <1>2 DEF Net, f

(* Two disjoint sets of rows. *)
LEMMA NetJoins ==
  ASSUME NEW L \in SUBSET Entries, IsFiniteSet(L), NEW M \in SUBSET Entries, IsFiniteSet(M),
         L \cap M = {}
  PROVE  Net(L \cup M) = Net(L) + Net(M)
<1> DEFINE d(A) == [x \in A |-> x.delta]
           f == d(L \cup M)
<1>1. \A x \in L \cup M : f[x] \in Int
  BY DEF Entries
<1>2. SumFunctionOnSet(f, L \cup M) = SumFunctionOnSet(f, L) + SumFunctionOnSet(f, M)
  <2> HIDE DEF f
  <2> QED BY <1>1, SumJoins
<1>3. SumFunctionOnSet(f, L) = SumFunctionOnSet(d(L), L)
  <2>1. \A x \in L : f[x] = d(L)[x]
    OBVIOUS
  <2> HIDE DEF f, d
  <2> QED BY <2>1, SumSame
<1>4. SumFunctionOnSet(f, M) = SumFunctionOnSet(d(M), M)
  <2>1. \A x \in M : f[x] = d(M)[x]
    OBVIOUS
  <2> HIDE DEF f, d
  <2> QED BY <2>1, SumSame
<1>5. \A A : Net(A) = SumFunctionOnSet(d(A), A)
  BY DEF Net
<1> HIDE DEF d
<1> QED BY <1>2, <1>3, <1>4, <1>5

(* Rows none of which is negative, some of them perhaps there already.      *)
LEMMA NetAtMost ==
  ASSUME NEW L \in SUBSET Entries, IsFiniteSet(L), NEW M \in SUBSET Entries, IsFiniteSet(M),
         \A x \in M : x.delta >= 0
  PROVE  Net(L \cup M) <= Net(L) + Net(M)
<1> DEFINE N == M \ L
           O == M \cap L
<1>1. IsFiniteSet(N) /\ IsFiniteSet(O) /\ N \in SUBSET Entries /\ O \in SUBSET Entries
  BY FS_Subset
<1>2. /\ L \cup M = L \cup N /\ L \cap N = {}
      /\ M = N \cup O /\ N \cap O = {}
  OBVIOUS
<1>3. O \subseteq M
  OBVIOUS
<1> HIDE DEF N, O
<1>4. Net(L \cup N) = Net(L) + Net(N) /\ Net(N \cup O) = Net(N) + Net(O)
  BY <1>1, <1>2, NetJoins
<1>5. Net(O) \in Nat
  <2> DEFINE f == [x \in O |-> x.delta]
  <2>1. \A x \in O : f[x] \in Nat
    BY <1>1, <1>3 DEF Entries
  <2> HIDE DEF f
  <2>2. SumFunctionOnSet(f, O) \in Nat
    BY <1>1, <2>1, SumNotNegative
  <2> QED BY <2>2 DEF Net, f
<1>6. Net(L) \in Int /\ Net(N) \in Int
  BY <1>1, NetIsInt
<1>7. Net(L \cup M) = Net(L \cup N) /\ Net(M) = Net(N \cup O)
  BY <1>2
<1> HIDE DEF Net
<1> QED BY <1>4, <1>5, <1>6, <1>7

-----------------------------------------------------------------------------
(* The calendar and the arithmetic of credits. *)
LEMMA Calendar ==
  ASSUME NEW d \in Nat
  PROVE  /\ leaveYear(d) \in Nat /\ yearStart(leaveYear(d)) \in Nat
         /\ yearStart(leaveYear(d)) <= d
         /\ \A e \in Nat : yearStart(leaveYear(d)) <= e /\ e <= d => leaveYear(e) = leaveYear(d)
         /\ d <= LastDay => leaveYear(d) \in YearsCovered
<1> DEFINE y == leaveYear(d)
<1>1. YearLen \in Nat \ {0} /\ LastDay \in Nat
  BY CalendarAssumption, EntitlementAssumption
<1>2. y \in Nat /\ y * YearLen <= d /\ d < (y + 1) * YearLen
  BY <1>1 DEF leaveYear
<1>3. ASSUME NEW e \in Nat, y * YearLen <= e, e <= d PROVE leaveYear(e) = y
  <2>1. e < (y + 1) * YearLen
    BY <1>1, <1>2, <1>3
  <2> HIDE DEF y
  <2> QED BY <1>1, <1>2, <1>3, <2>1 DEF leaveYear
<1>4. ASSUME d <= LastDay PROVE y <= leaveYear(LastDay) /\ leaveYear(LastDay) \in Nat
  BY <1>1, <1>4 DEF leaveYear
<1> HIDE DEF y
<1>5. y * YearLen \in Nat
  BY <1>1, <1>2
<1> QED BY <1>2, <1>3, <1>4, <1>5 DEF y, yearStart, YearsCovered

LEMMA PeriodLength ==
  ASSUME NEW f \in Frequencies
  PROVE  PeriodLen(f) \in Nat \ {0} /\ YearLen \div PeriodLen(f) \in Nat
<1>1. PeriodLen(f) \in Nat \ {0}
  BY CalendarAssumption DEF PeriodLen, Frequencies
<1>2. YearLen \in Nat
  BY CalendarAssumption
<1> QED BY <1>1, <1>2

LEMMA ShareIsInt ==
  ASSUME NEW f \in Frequencies, NEW quota \in Nat, NEW p \in Int, NEW start \in Int
  PROVE  PeriodShare(f, quota, p, start) \in Int
<1>1. ASSUME NEW a \in Int, NEW b \in Int, b # 0 \/ TRUE, b > 0 PROVE RoundDiv(a, b) \in Int
  BY <1>1 DEF RoundDiv
<1>2. PeriodLen(f) \in Nat \ {0} /\ YearLen \in Nat \ {0}
  BY PeriodLength, CalendarAssumption
<1>3. ASSUME NEW num \in Int PROVE wholeDays(num, YearLen) \in Int
  BY <1>1, <1>2 DEF wholeDays, OneDay
<1>4. quota * (p + PeriodLen(f) - start) \in Int
  BY <1>2
<1>5. f # "ANNUAL" => YearLen \div PeriodLen(f) > 0
  <2>1. f # "ANNUAL" => PeriodLen(f) <= YearLen
    BY <1>2, CalendarAssumption DEF PeriodLen, Frequencies
  <2> QED BY <1>2, <2>1
<1>6. f # "ANNUAL" => RoundDiv(quota, YearLen \div PeriodLen(f)) \in Int
  BY <1>1, <1>2, <1>5, PeriodLength
<1> QED BY <1>3, <1>4, <1>6 DEF PeriodShare

(* What is owed is dated from the effective start to the day of the call,   *)
(* within the leave year, and never nothing.                                *)
LEMMA OwedCredits ==
  ASSUME NEW f \in Frequencies, NEW quota \in Nat, NEW day \in 0..LastDay, NEW start \in Nat,
         yearStart(leaveYear(day)) <= start, NEW credited, NEW soFar \in Int, NEW hasOpening,
         NEW C, C = creditsDue(f, quota, leaveYear(day), start, day, credited, soFar, hasOpening)
  PROVE  /\ IsFiniteSet(C) /\ C \subseteq Credits
         /\ \A c \in C : start <= c.at /\ c.at <= day /\ leaveYear(c.at) = leaveYear(day)
<1> DEFINE y == leaveYear(day)
           n == YearLen \div PeriodLen(f)
           period(i) == yearStart(y) + (i - 1) * PeriodLen(f)
           due(i) == /\ Owed(period(i), f, start, day, credited)
                     /\ f = "ANNUAL" => ~hasOpening /\ credited = {}
           worth == [i \in 1..n |-> IF due(i) THEN PeriodShare(f, quota, period(i), start) ELSE 0]
           given == [i \in 0..n |-> Lesser(quota - soFar, SumFunctionOnSet(worth, 1..i))]
           I == {j \in 1..n : due(j) /\ given[j] > given[j - 1]}
           credit == [i \in I |-> [at |-> Later(start, period(i)), amount |-> given[i] - given[i - 1]]]
<1>1. /\ y \in Nat /\ n \in Nat /\ yearStart(y) \in Nat /\ PeriodLen(f) \in Nat \ {0}
      /\ \A e \in Nat : yearStart(y) <= e /\ e <= day => leaveYear(e) = y
      /\ LastDay \in Nat
  BY Calendar, PeriodLength, EntitlementAssumption
<1>2. C = {} \/ (C = {credit[i] : i \in I} /\ start <= day)
  <2>1. C = IF quota <= 0 \/ start >= yearEnd(y) \/ start > day \/ quota <= soFar THEN {}
            ELSE {[at |-> Later(start, period(i)), amount |-> given[i] - given[i - 1]] : i \in I}
    BY Zenon DEF creditsDue
  <2>2. {[at |-> Later(start, period(i)), amount |-> given[i] - given[i - 1]] : i \in I} =
          {credit[i] : i \in I}
    <3> HIDE DEF I, given, period
    <3> QED OBVIOUS
  <2> HIDE DEF I, given, period, credit, y
  <2>3. ~(start > day) => start <= day
    BY <1>1
  <2> QED BY <2>1, <2>2, <2>3
<1>3. \A i \in 1..n : period(i) \in Nat
  BY <1>1
<1>4. \A i \in I : i \in 1..n /\ period(i) <= day
  BY DEF Owed
<1>5. \A i \in 0..n : given[i] \in Int
  <2>1. \A i \in 1..n : worth[i] \in Int
    <3> HIDE DEF n, period
    <3> QED BY <1>1, <1>3, ShareIsInt
  <2>2. ASSUME NEW i \in 0..n PROVE SumFunctionOnSet(worth, 1..i) \in Int
    <3> HIDE DEF worth, n
    <3>1. i \in Int /\ 1 \in Int /\ \A j \in 1..i : j \in 1..n
      BY <1>1
    <3>2. IsFiniteSet(1..i)
      BY <3>1, FS_Interval
    <3> QED BY <2>1, <3>1, <3>2, SumIsInt
  <2> HIDE DEF worth, n
  <2> QED BY <2>2 DEF Lesser
<1>6. IsFiniteSet(I)
  <2>1. IsFiniteSet(1..n) /\ I \in SUBSET (1..n)
    <3> HIDE DEF n, given, due
    <3>1. n \in Int /\ 1 \in Int
      BY <1>1
    <3> QED BY <3>1, FS_Interval
  <2> HIDE DEF I, n
  <2> QED BY <2>1, FS_Subset
<1>7. \A i \in I : /\ credit[i].at = Later(start, period(i))
                   /\ credit[i].amount \in Nat \ {0}
                   /\ credit[i] \in [at: Int, amount: Nat \ {0}]
  <2> HIDE DEF given, period, due, n
  <2>1. \A i \in I : given[i] \in Int /\ given[i - 1] \in Int /\ given[i] > given[i - 1]
    BY <1>1, <1>5
  <2>2. \A i \in I : Later(start, period(i)) \in Int
    BY <1>3, <1>4 DEF Later
  <2> QED BY <2>1, <2>2
<1> HIDE DEF credit, I, n, period, y
<1>8. \A i \in I : start <= day =>
        /\ start <= credit[i].at /\ credit[i].at <= day /\ credit[i].at \in Nat
        /\ leaveYear(credit[i].at) = y
  BY <1>1, <1>3, <1>4, <1>7 DEF Later, y
<1>9. IsFiniteSet({credit[i] : i \in I})
  BY <1>6, ImageFinite
<1>10. \A i \in I : start <= day => credit[i] \in Credits
  BY <1>1, <1>7, <1>8 DEF Credits
<1>11. CASE C = {}
  BY <1>11, FS_EmptySet
<1> QED BY <1>2, <1>8, <1>9, <1>10, <1>11 DEF y

-----------------------------------------------------------------------------
(* What a plan promises.  Its credits lie in the leave year and up to the   *)
(* day of the call, and belong to somebody who was hired by then.           *)
PlanOK(p, day, source) ==
    /\ p.total = CreditTotal(p.credits) /\ IsFiniteSet(p.credits)
    /\ \A c \in p.credits : c.at <= day /\ leaveYear(c.at) = leaveYear(day)
    /\ staff[p.key[1]].state # "NONE"
    /\ source = "ACCRUAL" => \A c \in p.credits : staff[p.key[1]].joined <= c.at
OneEach(plan) == \A p, q \in plan : p.key = q.key => p = q
GoodPlan(plan, day, source) ==
    plan \subseteq Plans /\ OneEach(plan) /\ \A p \in plan : PlanOK(p, day, source)
FreshIn(plan, rows, y) == \A p \in plan : p.fresh <=> ~rows[p.key][y].exists

LEMMA PolicyRows ==
  ASSUME NEW ledger, LedgerOK(ledger), NEW k \in Keys, NEW y, NEW sources
  PROVE  /\ EntriesOf(ledger, k, y, sources) \in SUBSET Entries
         /\ IsFiniteSet(EntriesOf(ledger, k, y, sources))
         /\ Net(EntriesOf(ledger, k, y, sources)) \in Int
<1>1. /\ EntriesOf(ledger, k, y, sources) \in SUBSET OfKey(ledger, k)
      /\ EntriesOf(ledger, k, y, sources) \in SUBSET Entries
  BY DEF EntriesOf, OfKey, LedgerOK
<1>2. IsFiniteSet(EntriesOf(ledger, k, y, sources))
  BY <1>1, FS_Subset DEF LedgerOK
<1> QED BY <1>1, <1>2, NetIsInt

(* One row is planned per key, with the total of its credits. *)
LEMMA PlannedOne ==
  ASSUME NEW k \in Keys, NEW rows \in Balances, NEW y \in YearsCovered,
         NEW C \in SUBSET Credits, IsFiniteSet(C), NEW p, p = PlanFor(k, rows, y, C)
  PROVE  /\ p \in Plans /\ p.key = k /\ p.credits = C /\ p.total = CreditTotal(C)
         /\ p.fresh <=> ~rows[k][y].exists
<1>1. CreditTotal(C) \in Nat
  BY CreditTotalIsNat
<1>2. rows[k][y] \in BalanceRows
  BY DEF Balances
<1> QED BY <1>1, <1>2 DEF PlanFor, Plans, BalanceRows

People == [Emps -> [state: {"NONE", "ACTIVE", "SEPARATED"}, joined: Nat]]

LEMMA DefaultsPlanned ==
  ASSUME staff \in People, types \in [LeaveTypes -> TypeChoices],
         NEW day \in 0..LastDay, NEW rows \in Balances, NEW ledger, LedgerOK(ledger),
         NEW live \in 0..LastDay, NEW emps, NEW tids
  PROVE  LET plan == PlanDefaults(day, rows, ledger, live, emps, tids)
         IN  GoodPlan(plan, day, "ACCRUAL") /\ FreshIn(plan, rows, leaveYear(day))
<1> DEFINE y == leaveYear(day)
           start(k) == effectiveStart(y, staff[k[1]].joined, live)
           policyRows(k) == EntriesOf(ledger, k, y, Policy)
           due(k) == creditsDue(types[k[2]].freq, types[k[2]].quota, y, start(k), day,
                       creditedPeriods(policyRows(k), types[k[2]].freq), Net(policyRows(k)),
                       EntriesOf(ledger, k, y, {"OPENING_BALANCE"}) # {})
           keys == {k \in Keys : /\ k[1] \in emps /\ staff[k[1]].state = "ACTIVE"
                                 /\ k[2] \in tids /\ types[k[2]].active}
           plan == {p \in {PlanFor(k, rows, y, due(k)) : k \in keys} : p.credits # {}}
<1>1. day \in Nat /\ y \in YearsCovered /\ yearStart(y) \in Nat
  BY Calendar, EntitlementAssumption
<1>2. ASSUME NEW k \in keys
      PROVE  /\ IsFiniteSet(due(k)) /\ due(k) \in SUBSET Credits
             /\ \A c \in due(k) : c.at <= day /\ leaveYear(c.at) = y /\ staff[k[1]].joined <= c.at
             /\ staff[k[1]].state = "ACTIVE"
  <2>1. /\ k \in Keys /\ staff[k[1]].state = "ACTIVE" /\ staff[k[1]].joined \in Nat
        /\ types[k[2]] \in TypeChoices
    BY DEF Keys, People
  <2>2. types[k[2]].freq \in Frequencies /\ types[k[2]].quota \in Nat
    BY <2>1, EntitlementAssumption
  <2>3. start(k) \in Nat /\ yearStart(y) <= start(k) /\ staff[k[1]].joined <= start(k)
    BY <1>1, <2>1, EntitlementAssumption DEF effectiveStart, Later
  <2>4. Net(policyRows(k)) \in Int
    BY <2>1, PolicyRows
  <2>5. /\ IsFiniteSet(due(k)) /\ due(k) \subseteq Credits
        /\ \A c \in due(k) : start(k) <= c.at /\ c.at <= day /\ leaveYear(c.at) = y
    <3> HIDE DEF start, policyRows
    <3> QED BY <2>2, <2>3, <2>4, OwedCredits
  <2> HIDE DEF due, start, y, policyRows
  <2>6. \A c \in due(k) : c.at \in Int
    BY <2>5 DEF Credits
  <2> QED BY <2>1, <2>3, <2>5, <2>6
<1>3. PlanDefaults(day, rows, ledger, live, emps, tids) = plan
  BY Zenon DEF PlanDefaults
<1>4. \A k \in keys : k \in Keys
  OBVIOUS
<1> HIDE DEF due, y, keys
<1>5. \A p \in plan : \E k \in keys : p = PlanFor(k, rows, y, due(k))
  OBVIOUS
<1> HIDE DEF plan
<1>6. ASSUME NEW p \in plan
      PROVE  /\ p \in Plans /\ PlanOK(p, day, "ACCRUAL")
             /\ p.fresh <=> ~rows[p.key][y].exists
             /\ p = PlanFor(p.key, rows, y, due(p.key))
  <2>1. PICK k \in keys : p = PlanFor(k, rows, y, due(k))
    BY <1>5
  <2>2. /\ p \in Plans /\ p.key = k /\ p.credits = due(k) /\ p.total = CreditTotal(due(k))
        /\ p.fresh <=> ~rows[k][y].exists
    BY <1>1, <1>2, <1>4, <2>1, PlannedOne
  <2> QED BY <1>2, <2>1, <2>2 DEF PlanOK, y
<1>7. OneEach(plan)
  BY <1>6 DEF OneEach
<1> QED BY <1>3, <1>6, <1>7 DEF GoodPlan, FreshIn, y

LEMMA CarryPlanned ==
  ASSUME staff \in People, types \in [LeaveTypes -> TypeChoices],
         NEW day \in 0..LastDay, NEW rows \in Balances, NEW ledger
  PROVE  LET plan == PlanCarry(day, rows, ledger)
         IN  GoodPlan(plan, day, "CARRY_FORWARD") /\ FreshIn(plan, rows, leaveYear(day))
<1> DEFINE y == leaveYear(day)
           amount(k) == IF y - 1 \in YearsCovered
                        THEN carryForwardDays(rows[k][y - 1].accrued - rows[k][y - 1].used,
                                              types[k[2]].cap)
                        ELSE 0
           keys == {k \in Keys : /\ staff[k[1]].state = "ACTIVE"
                                 /\ types[k[2]].active
                                 /\ ~AlreadyCarried(ledger, k, y)
                                 /\ amount(k) > 0}
           carried(k) == {[at |-> yearStart(y), amount |-> amount(k)]}
           all == {PlanFor(k, rows, y, carried(k)) : k \in keys}
           plan == PlanCarry(day, rows, ledger)
<1>1. /\ day \in Nat /\ y \in YearsCovered /\ yearStart(y) \in Nat /\ yearStart(y) <= day
      /\ leaveYear(yearStart(y)) = y /\ LastDay \in Nat
  BY Calendar, EntitlementAssumption
<1>2. ASSUME NEW k \in keys
      PROVE  /\ IsFiniteSet(carried(k)) /\ carried(k) \in SUBSET Credits
             /\ \A c \in carried(k) : c.at <= day /\ leaveYear(c.at) = y
             /\ staff[k[1]].state = "ACTIVE"
  <2>1. /\ k \in Keys /\ staff[k[1]].state = "ACTIVE" /\ types[k[2]].cap \in Nat
        /\ amount(k) > 0
    BY EntitlementAssumption DEF Keys
  <2>2. y - 1 \in YearsCovered =>
          rows[k][y - 1].accrued \in Int /\ rows[k][y - 1].used \in Nat
    BY <2>1 DEF Balances, BalanceRows
  <2>3. amount(k) \in Nat \ {0}
    BY <2>1, <2>2 DEF carryForwardDays, Lesser
  <2> HIDE DEF amount, keys, y
  <2>4. [at |-> yearStart(y), amount |-> amount(k)] \in Credits
    BY <1>1, <2>3 DEF Credits
  <2>5. IsFiniteSet(carried(k))
    BY FS_Singleton
  <2> HIDE DEF carried
  <2>6. \A c \in carried(k) : c \in Credits /\ c.at = yearStart(y)
    BY <2>4 DEF carried
  <2> QED BY <1>1, <2>1, <2>5, <2>6
<1>3. plan = {} \/ plan = all
  BY DEF PlanCarry
<1>4. \A k \in keys : k \in Keys
  OBVIOUS
<1> HIDE DEF carried, y, keys
<1>5. \A p \in plan : \E k \in keys : p = PlanFor(k, rows, y, carried(k))
  BY <1>3
<1> HIDE DEF plan, all
<1>6. ASSUME NEW p \in plan
      PROVE  /\ p \in Plans /\ PlanOK(p, day, "CARRY_FORWARD")
             /\ p.fresh <=> ~rows[p.key][y].exists
             /\ p = PlanFor(p.key, rows, y, carried(p.key))
  <2>1. PICK k \in keys : p = PlanFor(k, rows, y, carried(k))
    BY <1>5
  <2>2. /\ p \in Plans /\ p.key = k /\ p.credits = carried(k) /\ p.total = CreditTotal(carried(k))
        /\ p.fresh <=> ~rows[k][y].exists
    BY <1>1, <1>2, <1>4, <2>1, PlannedOne
  <2> QED BY <1>2, <2>1, <2>2 DEF PlanOK, y
<1>7. OneEach(plan)
  BY <1>6 DEF OneEach
<1> QED BY <1>6, <1>7 DEF GoodPlan, FreshIn, y, plan

-----------------------------------------------------------------------------
(* The ledger rows of one planned row add up to its total. *)
RowsFor(id, p, source) ==
    {[id |-> id, key |-> p.key, source |-> source, at |-> c.at, delta |-> c.amount] : c \in p.credits}

LEMMA RowsForPlan ==
  ASSUME NEW p \in Plans, IsFiniteSet(p.credits), p.total = CreditTotal(p.credits),
         NEW id \in Handlers \cup {0}, NEW source \in Sources
  PROVE  /\ RowsFor(id, p, source) \in SUBSET Entries /\ IsFiniteSet(RowsFor(id, p, source))
         /\ Net(RowsFor(id, p, source)) = p.total
         /\ \A x \in RowsFor(id, p, source) : x.delta >= 0
<1> DEFINE m == [c \in p.credits |-> [id |-> id, key |-> p.key, source |-> source,
                                      at |-> c.at, delta |-> c.amount]]
           f == [c \in p.credits |-> c.amount]
           T == {m[c] : c \in p.credits}
           g == [x \in T |-> x.delta]
<1>1. \A c \in p.credits : c \in Credits
  BY DEF Plans
<1>2. \A c \in p.credits : c.at \in 0..LastDay /\ c.amount \in Nat \ {0} /\ f[c] \in Int
                           /\ c = [at |-> c.at, amount |-> c.amount]
  BY <1>1 DEF Credits
<1>3. \A c \in p.credits : m[c].at = c.at /\ m[c].delta = c.amount /\ g[m[c]] = f[c]
  OBVIOUS
<1>4. \A c, d \in p.credits : m[c] = m[d] => c = d
  <2> SUFFICES ASSUME NEW c \in p.credits, NEW d \in p.credits, m[c] = m[d] PROVE c = d
    BY Zenon
  <2> HIDE DEF m
  <2>1. m[c].at = c.at /\ m[c].delta = c.amount /\ m[d].at = d.at /\ m[d].delta = d.amount
    BY <1>3
  <2>2. c.at = d.at /\ c.amount = d.amount
    BY <2>1
  <2> QED BY <1>2, <2>2
<1>5. \A c \in p.credits : m[c] \in Entries /\ m[c].delta >= 0
  BY <1>2 DEF Entries, Plans
<1>6. RowsFor(id, p, source) = T
  <2>1. \A c \in p.credits : m[c] = [id |-> id, key |-> p.key, source |-> source,
                                      at |-> c.at, delta |-> c.amount]
    OBVIOUS
  <2> HIDE DEF m
  <2> QED BY <2>1 DEF RowsFor
<1>7. Net(T) = SumFunctionOnSet(g, T) /\ CreditTotal(p.credits) = SumFunctionOnSet(f, p.credits)
  BY Zenon DEF Net, CreditTotal
<1> HIDE DEF g, f, m
<1>8. IsFiniteSet(T)
  BY ImageFinite
<1>9. SumFunctionOnSet(g, T) = SumFunctionOnSet(f, p.credits)
  BY <1>2, <1>3, <1>4, SumCarries
<1> QED BY <1>5, <1>6, <1>7, <1>8, <1>9

(* Writing the ledger rows of a plan adds each planned total to its key in  *)
(* the leave year of the call, and changes no other key or year.            *)
Written(L, M, day, id, source, plan) ==
    /\ \A x \in M : x \in L \/
         /\ x.id = id /\ x.source = source
         /\ \E p \in plan : p.key = x.key /\ \E c \in p.credits : x.at = c.at
    /\ \A k \in Keys, y \in Nat :
         \/ /\ y = leaveYear(day)
            /\ \E p \in plan : /\ p.key = k
                               /\ Net(EntriesOf(M, k, y, Sources)) <=
                                    Net(EntriesOf(L, k, y, Sources)) + p.total
         \/ /\ y = leaveYear(day) => \A p \in plan : p.key # k
            /\ EntriesOf(M, k, y, Sources) = EntriesOf(L, k, y, Sources)

LEMMA WrittenRows ==
  ASSUME NEW L, LedgerOK(L), NEW day \in 0..LastDay, NEW id \in Handlers \cup {0},
         NEW source \in {"ACCRUAL", "CARRY_FORWARD"}, NEW plan, GoodPlan(plan, day, source),
         NEW M, M = L \cup LedgerRows(id, plan, source)
  PROVE  LedgerOK(M) /\ Written(L, M, day, id, source, plan)
<1>1. LedgerRows(id, plan, source) = UNION {RowsFor(id, p, source) : p \in plan}
  BY DEF LedgerRows, RowsFor
<1>2. \A p \in plan : /\ p \in Plans /\ p.key \in Keys /\ PlanOK(p, day, source)
                      /\ RowsFor(id, p, source) \in SUBSET Entries
                      /\ IsFiniteSet(RowsFor(id, p, source))
                      /\ Net(RowsFor(id, p, source)) = p.total
                      /\ \A x \in RowsFor(id, p, source) : x.delta >= 0
  <2> TAKE p \in plan
  <2>1. p \in Plans /\ PlanOK(p, day, source) /\ source \in Sources
    BY DEF GoodPlan, Sources
  <2> QED BY <2>1, RowsForPlan DEF PlanOK, Plans
<1>3. \A p \in plan : \A x \in RowsFor(id, p, source) :
         /\ x.id = id /\ x.source = source /\ x.key = p.key
         /\ \E c \in p.credits : x.at = c.at
  BY DEF RowsFor
<1>4. \A x : x \in M <=> x \in L \/ \E p \in plan : x \in RowsFor(id, p, source)
  BY <1>1
<1>5. \A p, q \in plan : p.key = q.key => p = q
  BY DEF GoodPlan, OneEach
<1>6. \A p \in plan : \A x \in RowsFor(id, p, source) : leaveYear(x.at) = leaveYear(day)
  BY <1>2, <1>3 DEF PlanOK
<1> HIDE DEF RowsFor
<1>7. ASSUME NEW k \in Keys, NEW p \in plan, p.key = k
      PROVE  /\ OfKey(M, k) = OfKey(L, k) \cup RowsFor(id, p, source)
             /\ EntriesOf(M, k, leaveYear(day), Sources) =
                  EntriesOf(L, k, leaveYear(day), Sources) \cup RowsFor(id, p, source)
             /\ \A y : y # leaveYear(day) => EntriesOf(M, k, y, Sources) = EntriesOf(L, k, y, Sources)
  <2>1. \A x : x \in M /\ x.key = k <=> (x \in L /\ x.key = k) \/ x \in RowsFor(id, p, source)
    BY <1>3, <1>4, <1>5, <1>7
  <2>2. \A x \in RowsFor(id, p, source) : x.source \in Sources /\ leaveYear(x.at) = leaveYear(day)
    BY <1>3, <1>6 DEF Sources
  <2> QED BY <2>1, <2>2 DEF OfKey, EntriesOf
<1>8. ASSUME NEW k \in Keys, \A p \in plan : p.key # k
      PROVE  OfKey(M, k) = OfKey(L, k) /\ \A y : EntriesOf(M, k, y, Sources) = EntriesOf(L, k, y, Sources)
  <2>1. \A x : x \in M /\ x.key = k <=> x \in L /\ x.key = k
    BY <1>3, <1>4, <1>8
  <2> QED BY <2>1 DEF OfKey, EntriesOf
<1>9. LedgerOK(M)
  <2>1. M \subseteq Entries
    BY <1>2, <1>4 DEF LedgerOK
  <2>2. ASSUME NEW k \in Keys PROVE IsFiniteSet(OfKey(M, k))
    <3>1. CASE \A p \in plan : p.key # k
      BY <1>8, <3>1 DEF LedgerOK
    <3>2. ASSUME NEW p \in plan, p.key = k PROVE IsFiniteSet(OfKey(M, k))
      <4>1. IsFiniteSet(OfKey(L, k)) /\ IsFiniteSet(RowsFor(id, p, source))
        BY <1>2 DEF LedgerOK
      <4>2. OfKey(M, k) = OfKey(L, k) \cup RowsFor(id, p, source)
        BY <1>7, <3>2
      <4> QED BY <4>1, <4>2, FS_Union
    <3> QED BY <3>1, <3>2
  <2> QED BY <2>1, <2>2 DEF LedgerOK
<1>10. ASSUME NEW k \in Keys, NEW p \in plan, p.key = k
       PROVE  Net(EntriesOf(M, k, leaveYear(day), Sources)) <=
                Net(EntriesOf(L, k, leaveYear(day), Sources)) + p.total
  <2> DEFINE A == EntriesOf(L, k, leaveYear(day), Sources)
             B == RowsFor(id, p, source)
  <2>1. A \in SUBSET Entries /\ IsFiniteSet(A)
    BY PolicyRows
  <2>2. EntriesOf(M, k, leaveYear(day), Sources) = A \cup B
    BY <1>7, <1>10
  <2>3. B \in SUBSET Entries /\ IsFiniteSet(B) /\ Net(B) = p.total /\ \A x \in B : x.delta >= 0
    BY <1>2
  <2> HIDE DEF A, B
  <2>4. Net(A \cup B) <= Net(A) + Net(B)
    BY <2>1, <2>3, NetAtMost
  <2> QED BY <2>2, <2>3, <2>4 DEF A
<1>11. ASSUME NEW k \in Keys, NEW y \in Nat
       PROVE  \/ /\ y = leaveYear(day)
                 /\ \E p \in plan : /\ p.key = k
                                    /\ Net(EntriesOf(M, k, y, Sources)) <=
                                         Net(EntriesOf(L, k, y, Sources)) + p.total
              \/ /\ y = leaveYear(day) => \A p \in plan : p.key # k
                 /\ EntriesOf(M, k, y, Sources) = EntriesOf(L, k, y, Sources)
  BY <1>7, <1>8, <1>10
<1>12. \A x \in M : x \in L \/
          /\ x.id = id /\ x.source = source
          /\ \E p \in plan : p.key = x.key /\ \E c \in p.credits : x.at = c.at
  BY <1>3, <1>4
<1> QED BY <1>9, <1>11, <1>12, Zenon DEF Written

(* The balance rows once a plan is carried out. *)
LEMMA AppliedRows ==
  ASSUME NEW rows \in Balances, NEW day \in 0..LastDay, NEW source, NEW plan,
         GoodPlan(plan, day, source), NEW y \in YearsCovered, FreshIn(plan, rows, y),
         NEW R, R = Applied(rows, plan, y)
  PROVE  /\ R \in Balances
         /\ \A k \in Keys, z \in YearsCovered :
              \/ /\ z = y
                 /\ \E p \in plan :
                      /\ p.key = k /\ R[k][z].exists
                      /\ R[k][z].accrued = (IF rows[k][z].exists THEN rows[k][z].accrued ELSE 0) + p.total
              \/ /\ z = y => \A p \in plan : p.key # k
                 /\ R[k][z] = rows[k][z]
<1> DEFINE created == Created(rows, plan, y)
           others(k) == {p \in plan \ Fresh(plan) : p.key = k}
           totals == [p \in plan |-> p.total]
           by(k) == SumFunctionOnSet(totals, others(k))
<1>1. /\ \A p \in plan : p \in Plans /\ p.key \in Keys /\ p.total \in Nat /\ p.fresh \in BOOLEAN
      /\ \A p, q \in plan : p.key = q.key => p = q
      /\ \A p \in plan : p.fresh <=> ~rows[p.key][y].exists
  BY DEF GoodPlan, OneEach, Plans, FreshIn
<1>0. \A k \in Keys : rows[k] \in [YearsCovered -> BalanceRows]
  BY DEF Balances
<1>2. ASSUME NEW k \in Keys
      PROVE  /\ R[k] = [created[k] EXCEPT ![y].accrued = @ + by(k)]
             /\ created[k] = [rows[k] EXCEPT ![y] =
                  IF \E p \in Fresh(plan) : p.key = k
                  THEN [exists |-> TRUE, used |-> 0,
                        accrued |-> (CHOOSE p \in Fresh(plan) : p.key = k).total]
                  ELSE @]
  <2>1. R = [j \in Keys |-> [created[j] EXCEPT ![y].accrued = @ + by(j)]]
    BY Zenon DEF Applied
  <2>2. created = [j \in Keys |-> [rows[j] EXCEPT ![y] =
           IF \E p \in Fresh(plan) : p.key = j
           THEN [exists |-> TRUE, used |-> 0,
                 accrued |-> (CHOOSE p \in Fresh(plan) : p.key = j).total]
           ELSE @]]
    BY DEF Created
  <2> HIDE DEF created, by
  <2> QED BY <2>1, <2>2
<1> HIDE DEF created, by
<1>3. ASSUME NEW k \in Keys, \A p \in plan : p.key # k
      PROVE  R[k] = rows[k]
  <2>0. ~\E p \in Fresh(plan) : p.key = k
    BY <1>3 DEF Fresh
  <2>1. created[k] = rows[k]
    <3>1. created[k] = [rows[k] EXCEPT ![y] = rows[k][y]]
      BY <1>2, <2>0, Zenon
    <3> QED BY <1>0, <3>1
  <2>2. others(k) = {}
    BY <1>3
  <2>3. by(k) = 0
    BY <2>2, SumEmpty DEF by
  <2>4. /\ rows[k] \in [YearsCovered -> BalanceRows]
        /\ R[k] = [rows[k] EXCEPT ![y] = [rows[k][y] EXCEPT !.accrued = @ + 0]]
    BY <1>0, <1>2, <2>1, <2>3
  <2>5. [rows[k][y] EXCEPT !.accrued = @ + 0] = rows[k][y]
    BY <2>4 DEF BalanceRows
  <2> QED BY <2>4, <2>5
<1>4. ASSUME NEW k \in Keys, NEW p \in plan, p.key = k
      PROVE  /\ R[k] \in [YearsCovered -> BalanceRows]
             /\ \A z \in YearsCovered : z # y => R[k][z] = rows[k][z]
             /\ R[k][y].exists
             /\ R[k][y].accrued = (IF rows[k][y].exists THEN rows[k][y].accrued ELSE 0) + p.total
  <2>0. rows[k] \in [YearsCovered -> BalanceRows] /\ rows[k][y] \in BalanceRows
    BY <1>0
  <2>1. CASE p.fresh
    <3>1. /\ \A q \in Fresh(plan) : q.key = k => q = p
          /\ p \in Fresh(plan)
      BY <1>1, <1>4, <2>1 DEF Fresh
    <3>2. (CHOOSE q \in Fresh(plan) : q.key = k) = p
      BY <1>4, <3>1
    <3>3. others(k) = {}
      BY <1>1, <1>4, <2>1 DEF Fresh
    <3>4. by(k) = 0
      BY <3>3, SumEmpty DEF by
    <3> DEFINE new == [exists |-> TRUE, used |-> 0, accrued |-> p.total]
    <3>5. created[k] = [rows[k] EXCEPT ![y] = new]
      BY <1>2, <1>4, <3>1, <3>2
    <3>6. R[k] = [created[k] EXCEPT ![y].accrued = @ + 0]
      BY <1>2, <3>4
    <3>7. p.total + 0 = p.total /\ p.total \in Int /\ ~rows[k][y].exists
      BY <1>1, <1>4, <2>1
    <3>8. new \in BalanceRows
      BY <3>7 DEF BalanceRows
    <3>9. [new EXCEPT !.accrued = @ + 0] = new
      <4> HIDE DEF new
      <4> QED BY <3>8 DEF BalanceRows
    <3>10. new.exists /\ new.accrued = 0 + p.total
      BY <3>7
    <3> HIDE DEF new
    <3>11. /\ created[k] \in [YearsCovered -> BalanceRows] /\ created[k][y] = new
           /\ \A z \in YearsCovered : z # y => created[k][z] = rows[k][z]
      BY <2>0, <3>5, <3>8
    <3>12. R[k] = [created[k] EXCEPT ![y] = [new EXCEPT !.accrued = @ + 0]]
      BY <3>6, <3>11
    <3>13. /\ R[k] \in [YearsCovered -> BalanceRows] /\ R[k][y] = new
           /\ \A z \in YearsCovered : z # y => R[k][z] = rows[k][z]
      BY <3>8, <3>9, <3>11, <3>12
    <3> QED BY <3>7, <3>10, <3>13
  <2>2. CASE ~p.fresh
    <3>1. ~\E q \in Fresh(plan) : q.key = k
      BY <1>1, <1>4, <2>2 DEF Fresh
    <3>2. created[k] = rows[k]
      <4>1. created[k] = [rows[k] EXCEPT ![y] = rows[k][y]]
        BY <1>2, <3>1, Zenon
      <4> QED BY <2>0, <4>1
    <3>3. others(k) = {p}
      BY <1>1, <1>4, <2>2 DEF Fresh
    <3>4. totals[p] = p.total /\ p.total \in Nat
      BY <1>1
    <3>5. by(k) = p.total
      <4> HIDE DEF totals, others
      <4>1. SumFunctionOnSet(totals, {} \cup {p}) = totals[p] + SumFunctionOnSet(totals, {})
        <5>1. \A q \in {} \cup {p} : totals[q] \in Int
          BY <3>4
        <5> QED BY <5>1, FS_EmptySet, SumAdds
      <4>2. {} \cup {p} = others(k)
        BY <3>3
      <4> QED BY <3>4, <4>1, <4>2, SumEmpty DEF by
    <3> DEFINE new == [rows[k][y] EXCEPT !.accrued = @ + p.total]
    <3>6. R[k] = [rows[k] EXCEPT ![y] = new]
      BY <1>2, <3>2, <3>5
    <3>7. /\ new \in BalanceRows /\ rows[k][y].exists /\ new.exists
          /\ new.accrued = rows[k][y].accrued + p.total
      BY <1>1, <1>4, <2>0, <2>2, <3>4 DEF BalanceRows
    <3> HIDE DEF new
    <3> QED BY <2>0, <3>6, <3>7
  <2> QED BY <1>1, <2>1, <2>2
<1>5. ASSUME NEW k \in Keys PROVE R[k] \in [YearsCovered -> BalanceRows]
  <2>1. CASE \A p \in plan : p.key # k
    BY <1>0, <1>3, <2>1
  <2> QED BY <1>4, <2>1
<1>6. R \in Balances
  <2>1. R = [k \in Keys |-> R[k]]
    BY DEF Applied
  <2> QED BY <1>5, <2>1 DEF Balances
<1>7. ASSUME NEW k \in Keys, NEW z \in YearsCovered
      PROVE  \/ /\ z = y
                /\ \E p \in plan :
                     /\ p.key = k /\ R[k][z].exists
                     /\ R[k][z].accrued = (IF rows[k][z].exists THEN rows[k][z].accrued ELSE 0) + p.total
             \/ /\ z = y => \A p \in plan : p.key # k
                /\ R[k][z] = rows[k][z]
  <2>1. CASE \A p \in plan : p.key # k
    BY <1>3, <2>1
  <2>2. ASSUME NEW p \in plan, p.key = k, z = y
        PROVE  /\ R[k][z].exists
               /\ R[k][z].accrued = (IF rows[k][z].exists THEN rows[k][z].accrued ELSE 0) + p.total
    BY <1>4, <2>2
  <2>3. ASSUME NEW p \in plan, p.key = k, z # y PROVE R[k][z] = rows[k][z]
    BY <1>4, <2>3
  <2> QED BY <2>1, <2>2, <2>3
<1> QED BY <1>6, <1>7

(* The balance rows a call creates, when none of them exists. *)
LEMMA CreatedRows ==
  ASSUME NEW rows \in Balances, NEW day \in 0..LastDay, NEW source, NEW plan,
         GoodPlan(plan, day, source), NEW y \in YearsCovered,
         NEW R, R = Created(rows, plan, y)
  PROVE  /\ R \in Balances
         /\ \A k \in Keys, z \in YearsCovered :
              \/ /\ z = y
                 /\ \E p \in plan : /\ p.fresh /\ p.key = k
                                    /\ R[k][z].exists /\ R[k][z].accrued = p.total
              \/ /\ z = y => \A p \in plan : p.fresh => p.key # k
                 /\ R[k][z] = rows[k][z]
<1>1. /\ \A p \in plan : p \in Plans /\ p.total \in Nat
      /\ \A p, q \in plan : p.key = q.key => p = q
  BY DEF GoodPlan, OneEach, Plans
<1>2. \A k \in Keys : rows[k] \in [YearsCovered -> BalanceRows]
  BY DEF Balances
<1> DEFINE new(k) == [exists |-> TRUE, used |-> 0,
                      accrued |-> (CHOOSE p \in Fresh(plan) : p.key = k).total]
<1>3. ASSUME NEW k \in Keys
      PROVE  R[k] = [rows[k] EXCEPT ![y] = IF \E p \in Fresh(plan) : p.key = k THEN new(k) ELSE rows[k][y]]
  BY DEF Created
<1>4. ASSUME NEW k \in Keys, \A p \in plan : p.fresh => p.key # k
      PROVE  R[k] = rows[k]
  <2>1. ~\E p \in Fresh(plan) : p.key = k
    BY <1>4 DEF Fresh
  <2> HIDE DEF new
  <2>2. R[k] = [rows[k] EXCEPT ![y] = rows[k][y]]
    BY <1>3, <2>1, Zenon
  <2> QED BY <1>2, <2>2
<1>5. ASSUME NEW k \in Keys, NEW p \in plan, p.fresh, p.key = k
      PROVE  /\ R[k] \in [YearsCovered -> BalanceRows] /\ R[k][y].exists /\ R[k][y].accrued = p.total
             /\ \A z \in YearsCovered : z # y => R[k][z] = rows[k][z]
  <2>1. /\ p \in Fresh(plan) /\ \A q \in Fresh(plan) : q.key = k => q = p
    BY <1>1, <1>5 DEF Fresh
  <2>2. (CHOOSE q \in Fresh(plan) : q.key = k) = p
    BY <1>5, <2>1
  <2>3. new(k) = [exists |-> TRUE, used |-> 0, accrued |-> p.total]
    BY <2>2, Zenon
  <2> HIDE DEF new
  <2>4. R[k] = [rows[k] EXCEPT ![y] = new(k)]
    BY <1>3, <1>5, <2>1, Zenon
  <2>5. new(k) \in BalanceRows /\ new(k).exists /\ new(k).accrued = p.total
    BY <1>1, <2>3 DEF BalanceRows
  <2> QED BY <1>2, <2>4, <2>5
<1>6. ASSUME NEW k \in Keys PROVE R[k] \in [YearsCovered -> BalanceRows]
  <2>1. CASE \A p \in plan : p.fresh => p.key # k
    BY <1>2, <1>4, <2>1
  <2> QED BY <1>5, <2>1
<1>7. R \in Balances
  <2>1. R = [k \in Keys |-> R[k]]
    BY DEF Created
  <2> QED BY <1>6, <2>1 DEF Balances
<1>8. ASSUME NEW k \in Keys, NEW z \in YearsCovered
      PROVE  \/ /\ z = y
                /\ \E p \in plan : /\ p.fresh /\ p.key = k
                                   /\ R[k][z].exists /\ R[k][z].accrued = p.total
             \/ /\ z = y => \A p \in plan : p.fresh => p.key # k
                /\ R[k][z] = rows[k][z]
  <2>1. CASE \A p \in plan : p.fresh => p.key # k
    BY <1>4, <2>1
  <2>2. ASSUME NEW p \in plan, p.fresh, p.key = k, z = y
        PROVE  R[k][z].exists /\ R[k][z].accrued = p.total
    BY <1>5, <2>2
  <2>3. ASSUME NEW p \in plan, p.fresh, p.key = k, z # y PROVE R[k][z] = rows[k][z]
    BY <1>5, <2>3
  <2> QED BY <2>1, <2>2, <2>3
<1> QED BY <1>7, <1>8

-----------------------------------------------------------------------------
(* Recalculation first takes back what the year's periods were credited.    *)
LEMMA EarliestIsThere ==
  ASSUME NEW days \in SUBSET Nat, days # {}
  PROVE  Earliest(days) \in days
<1>1. PICK d \in days : \A e \in days : ~(<<e, d>> \in OpToRel(<, Nat))
  BY NatLessThanWellFounded, WFMin, Zenon
<1>2. ASSUME NEW e \in days PROVE d <= e
  <2>1. ~(e < d)
    BY <1>1 DEF OpToRel
  <2> QED BY <2>1
<1> QED BY <1>2 DEF Earliest

(* A recalculation takes back what the year's policy credits came to, key   *)
(* by key, and leaves the other years alone.                                *)
Withdrawn(back, M, h, y) ==
    /\ \A x \in back : x.id = h /\ x.source = "ACCRUAL_REVERSAL"
    /\ \A k \in Keys :
         /\ \A z \in YearsCovered :
              z # y => EntriesOf(M, k, z, Sources) = EntriesOf(entries, k, z, Sources)
         /\ Net(OfKey(back, k)) \in Int /\ Net(OfKey(back, k)) <= 0
         /\ Net(EntriesOf(M, k, y, Sources)) =
              Net(EntriesOf(entries, k, y, Sources)) + Net(OfKey(back, k))

LEMMA TakenBack ==
  ASSUME LedgerOK(entries), NEW h \in Handlers, \A x \in entries : x.id # h,
         NEW y \in YearsCovered, NEW back, back = Reversals(h, y), NEW M, M = entries \cup back
  PROVE  LedgerOK(M) /\ Withdrawn(back, M, h, y)
<1> DEFINE f(k) == types[k[2]].freq
           policyRows(k) == EntriesOf(entries, k, y, Policy)
           dates(k, p) == {x.at : x \in OfPeriod(policyRows(k), f(k), p)}
           rowOf(k, p) == [id |-> h, key |-> k, source |-> "ACCRUAL_REVERSAL",
                           at |-> Earliest(dates(k, p)),
                           delta |-> -NetOfPeriod(policyRows(k), f(k), p)]
           periods(k) == creditedPeriods(policyRows(k), f(k))
<1>1. \A k \in Keys : ReversalsOf(h, k, y) = {rowOf(k, p) : p \in periods(k)}
  BY Zenon DEF ReversalsOf
<1>2. ASSUME NEW k \in Keys
      PROVE  /\ IsFiniteSet(ReversalsOf(h, k, y))
             /\ \A x \in ReversalsOf(h, k, y) :
                  /\ x \in Entries /\ x.key = k /\ x.id = h /\ x.source = "ACCRUAL_REVERSAL"
                  /\ leaveYear(x.at) = y /\ x.delta <= 0
  <2>1. /\ policyRows(k) \in SUBSET Entries /\ IsFiniteSet(policyRows(k))
        /\ \A x \in policyRows(k) : leaveYear(x.at) = y
    <3>1. \A x \in policyRows(k) : leaveYear(x.at) = y
      BY DEF EntriesOf
    <3> QED BY <3>1, PolicyRows
  <2> HIDE DEF policyRows, f
  <2>2. IsFiniteSet(periods(k))
    <3> DEFINE start == [x \in policyRows(k) |-> periodContaining(f(k), x.at)]
               starts == {start[x] : x \in policyRows(k)}
    <3>1. periods(k) \in SUBSET starts
      BY DEF creditedPeriods
    <3> HIDE DEF start
    <3>2. IsFiniteSet(starts)
      BY <2>1, ImageFinite
    <3> HIDE DEF starts, periods
    <3> QED BY <3>1, <3>2, FS_Subset
  <2>3. ASSUME NEW p \in periods(k)
        PROVE  /\ rowOf(k, p) \in Entries /\ rowOf(k, p).delta <= 0
               /\ leaveYear(rowOf(k, p).at) = y
    <3>1. /\ \E x \in policyRows(k) : periodContaining(f(k), x.at) = p
          /\ NetOfPeriod(policyRows(k), f(k), p) > 0
      BY DEF creditedPeriods
    <3>2. dates(k, p) # {} /\ dates(k, p) \in SUBSET (0..LastDay)
          /\ \A d \in dates(k, p) : leaveYear(d) = y
      BY <2>1, <3>1 DEF OfPeriod, Entries
    <3>3. NetOfPeriod(policyRows(k), f(k), p) \in Int
      <4>1. OfPeriod(policyRows(k), f(k), p) \in SUBSET policyRows(k)
        BY DEF OfPeriod
      <4>2. /\ IsFiniteSet(OfPeriod(policyRows(k), f(k), p))
            /\ OfPeriod(policyRows(k), f(k), p) \in SUBSET Entries
        BY <2>1, <4>1, FS_Subset
      <4> QED BY <4>2, NetIsInt DEF NetOfPeriod
    <3> HIDE DEF dates
    <3>4. Earliest(dates(k, p)) \in dates(k, p)
      <4>1. dates(k, p) \in SUBSET Nat
        BY <3>2
      <4> QED BY <3>2, <4>1, EarliestIsThere
    <3>5. Earliest(dates(k, p)) \in 0..LastDay /\ leaveYear(Earliest(dates(k, p))) = y
      BY <3>2, <3>4
    <3> QED BY <3>1, <3>3, <3>5 DEF Entries, Sources
  <2> DEFINE m == [p \in periods(k) |-> rowOf(k, p)]
  <2>4. ReversalsOf(h, k, y) = {m[p] : p \in periods(k)}
    <3>1. \A p \in periods(k) : m[p] = rowOf(k, p)
      OBVIOUS
    <3> HIDE DEF m, rowOf, periods
    <3> QED BY <1>1, <3>1
  <2>5. \A p \in periods(k) : m[p].id = h /\ m[p].key = k /\ m[p].source = "ACCRUAL_REVERSAL"
    OBVIOUS
  <2>6. \A p \in periods(k) : m[p] = rowOf(k, p)
    OBVIOUS
  <2> HIDE DEF m, rowOf, periods
  <2>7. IsFiniteSet(ReversalsOf(h, k, y))
    BY <2>2, <2>4, ImageFinite
  <2> QED BY <2>3, <2>4, <2>5, <2>6, <2>7
<1>3. back = UNION {ReversalsOf(h, k, y) : k \in Keys}
  BY DEF Reversals
<1>4. ASSUME NEW k \in Keys
      PROVE  OfKey(back, k) = ReversalsOf(h, k, y)
  <2>1. \A x \in back : \E j \in Keys : x \in ReversalsOf(h, j, y)
    BY <1>3
  <2>2. \A x \in OfKey(back, k) : x \in ReversalsOf(h, k, y)
    BY <1>2, <2>1 DEF OfKey
  <2>3. \A x \in ReversalsOf(h, k, y) : x \in OfKey(back, k)
    BY <1>2, <1>3 DEF OfKey
  <2> QED BY <2>2, <2>3
<1>5. \A x \in back : /\ x \in Entries /\ x.id = h /\ x.source = "ACCRUAL_REVERSAL"
                      /\ leaveYear(x.at) = y
  BY <1>2, <1>3
<1>6. ASSUME NEW k \in Keys
      PROVE  /\ OfKey(M, k) = OfKey(entries, k) \cup OfKey(back, k)
             /\ \A z : z # y => EntriesOf(M, k, z, Sources) = EntriesOf(entries, k, z, Sources)
             /\ EntriesOf(M, k, y, Sources) = EntriesOf(entries, k, y, Sources) \cup OfKey(back, k)
             /\ EntriesOf(entries, k, y, Sources) \cap OfKey(back, k) = {}
  BY <1>5 DEF OfKey, EntriesOf, Sources
<1>7. LedgerOK(M)
  <2>1. ASSUME NEW k \in Keys PROVE IsFiniteSet(OfKey(M, k))
    <3>1. IsFiniteSet(OfKey(entries, k)) /\ IsFiniteSet(OfKey(back, k))
      BY <1>2, <1>4 DEF LedgerOK
    <3>2. OfKey(M, k) = OfKey(entries, k) \cup OfKey(back, k)
      BY <1>6
    <3>3. IsFiniteSet(OfKey(entries, k) \cup OfKey(back, k))
      BY <3>1, FS_Union
    <3> QED BY <3>2, <3>3
  <2>2. M \subseteq Entries
    BY <1>5 DEF LedgerOK
  <2> QED BY <2>1, <2>2 DEF LedgerOK
<1>8. ASSUME NEW k \in Keys
      PROVE  /\ Net(OfKey(back, k)) \in Int /\ Net(OfKey(back, k)) <= 0
             /\ Net(EntriesOf(M, k, y, Sources)) =
                  Net(EntriesOf(entries, k, y, Sources)) + Net(OfKey(back, k))
  <2> DEFINE A == EntriesOf(entries, k, y, Sources)
             B == OfKey(back, k)
             delta == [x \in B |-> x.delta]
             zero == [x \in B |-> 0]
  <2>1. A \in SUBSET Entries /\ IsFiniteSet(A)
    BY PolicyRows
  <2>2. IsFiniteSet(B) /\ B \in SUBSET Entries /\ \A x \in B : x.delta <= 0
    BY <1>2, <1>4
  <2>3. EntriesOf(M, k, y, Sources) = A \cup B /\ A \cap B = {}
    BY <1>6
  <2> HIDE DEF A, B
  <2>4. Net(A \cup B) = Net(A) + Net(B) /\ Net(B) \in Int
    BY <2>1, <2>2, <2>3, NetJoins, NetIsInt
  <2>5. \A x \in B : delta[x] \in Int /\ zero[x] \in Int /\ delta[x] <= zero[x] /\ zero[x] = 0
    BY <2>2 DEF Entries
  <2>6. Net(B) = SumFunctionOnSet(delta, B)
    BY DEF Net
  <2> HIDE DEF delta, zero
  <2>7. SumFunctionOnSet(delta, B) <= SumFunctionOnSet(zero, B) /\ SumFunctionOnSet(zero, B) = 0
    BY <2>2, <2>5, SumGrows, SumZero
  <2> QED BY <2>3, <2>4, <2>6, <2>7 DEF A, B
<1> HIDE DEF Net
<1> QED BY <1>5, <1>6, <1>7, <1>8 DEF Withdrawn

-----------------------------------------------------------------------------
(* What a call has added to a balance row and not yet put in the ledger.    *)
HeldBy(c, k, y) ==
    IF c.pc = "increment" /\ leaveYear(c.day) = y /\ \E p \in c.plan \ c.todo : p.key = k
    THEN (CHOOSE p \in c.plan \ c.todo : p.key = k).total
    ELSE 0
Held(k, y) == SumFunctionOnSet([h \in Handlers |-> HeldBy(handler[h], k, y)], Handlers)

(* A call's plan is sound, the rows it does not create are there, and only  *)
(* those are still to be incremented.                                       *)
CallOK(c) ==
    /\ c \in Calls /\ c.todo \subseteq c.plan /\ c.day <= today
    /\ c.pc \in {"create", "increment"} =>
         /\ c.source # "NONE" /\ GoodPlan(c.plan, c.day, c.source)
         /\ c.todo \subseteq c.plan \ Fresh(c.plan)
         /\ \A p \in c.plan : p.fresh \/ row[p.key][leaveYear(c.day)].exists
    /\ c.pc = "create" => c.todo = c.plan \ Fresh(c.plan)

Tables ==
    /\ today \in 0..LastDay /\ goLive \in 0..LastDay /\ setUp \in BOOLEAN
    /\ staff \in People /\ types \in [LeaveTypes -> TypeChoices]
    /\ row \in Balances /\ LedgerOK(entries)
    /\ handler \in [Handlers -> Calls]
CallsOK == \A h \in Handlers : \A c : c = handler[h] => CallOK(c)
EntriesOK ==
    \A x \in entries :
      /\ x.id # 0 => handler[x.id].pc # "idle"
      /\ x.source = "ACCRUAL" => /\ staff[x.key[1]].state # "NONE"
                                 /\ staff[x.key[1]].joined <= x.at /\ x.at <= today
Untouched ==
    ~setUp => /\ entries = {} /\ \A h \in Handlers : handler[h].pc = "idle"
              /\ \A k \in Keys, y \in YearsCovered : row[k][y] = NoRow
Backed ==
    \A k \in Keys, y \in YearsCovered :
      /\ ~row[k][y].exists => row[k][y].accrued = 0
      /\ AccruedBy(k, y, Sources) + Held(k, y) <= row[k][y].accrued
EInv == Tables /\ CallsOK /\ EntriesOK /\ Untouched /\ Backed

LEMMA HeldValue ==
  ASSUME NEW c \in Calls, NEW k \in Keys, NEW y
  PROVE  /\ HeldBy(c, k, y) \in Nat
         /\ c.pc # "increment" => HeldBy(c, k, y) = 0
         /\ leaveYear(c.day) # y => HeldBy(c, k, y) = 0
         /\ (\A p \in c.plan : p.key # k) => HeldBy(c, k, y) = 0
         /\ \A p \in c.plan : OneEach(c.plan) /\ p.key = k /\ c.pc = "increment" /\ leaveYear(c.day) = y =>
              HeldBy(c, k, y) = IF p \in c.todo THEN 0 ELSE p.total
<1>1. \A p \in c.plan \ c.todo : p.total \in Nat
  BY DEF Calls, Plans
<1>2. HeldBy(c, k, y) \in Nat
  <2>1. CASE \E p \in c.plan \ c.todo : p.key = k
    <3>1. (CHOOSE p \in c.plan \ c.todo : p.key = k) \in c.plan \ c.todo
      BY <2>1
    <3> QED BY <1>1, <3>1 DEF HeldBy
  <2>2. CASE ~\E p \in c.plan \ c.todo : p.key = k
    BY <2>2 DEF HeldBy
  <2> QED BY <2>1, <2>2
<1>3. /\ c.pc # "increment" => HeldBy(c, k, y) = 0
      /\ leaveYear(c.day) # y => HeldBy(c, k, y) = 0
      /\ (\A p \in c.plan : p.key # k) => HeldBy(c, k, y) = 0
  BY DEF HeldBy
<1>4. ASSUME NEW p \in c.plan, OneEach(c.plan), p.key = k, c.pc = "increment", leaveYear(c.day) = y
      PROVE  HeldBy(c, k, y) = IF p \in c.todo THEN 0 ELSE p.total
  <2>1. CASE p \in c.todo
    <3>1. ~\E q \in c.plan \ c.todo : q.key = k
      BY <1>4, <2>1 DEF OneEach
    <3> QED BY <2>1, <3>1 DEF HeldBy
  <2>2. CASE p \notin c.todo
    <3>1. (CHOOSE q \in c.plan \ c.todo : q.key = k) = p
      BY <1>4, <2>2 DEF OneEach
    <3>2. \E q \in c.plan \ c.todo : q.key = k
      BY <1>4, <2>2
    <3> QED BY <1>4, <2>2, <3>1, <3>2 DEF HeldBy
  <2> QED BY <2>1, <2>2
<1> QED BY <1>2, <1>3, <1>4

LEMMA HeldIsNat ==
  ASSUME Tables, NEW k \in Keys, NEW y
  PROVE  Held(k, y) \in Nat
<1> DEFINE f == [h \in Handlers |-> HeldBy(handler[h], k, y)]
<1>1. \A h \in Handlers : f[h] \in Nat
  BY HeldValue DEF Tables
<1>2. IsFiniteSet(Handlers)
  BY EntitlementAssumption
<1> HIDE DEF f
<1>3. SumFunctionOnSet(f, Handlers) \in Nat
  BY <1>1, <1>2, SumNotNegative
<1> QED BY <1>3 DEF Held, f

(* One call moves. *)
LEMMA HeldMoves ==
  ASSUME Tables, NEW h \in Handlers, NEW c \in Calls, handler' = [handler EXCEPT ![h] = c],
         NEW k \in Keys, NEW y
  PROVE  Held(k, y)' = Held(k, y) + (HeldBy(c, k, y) - HeldBy(handler[h], k, y))
<1> DEFINE f == [g \in Handlers |-> HeldBy(handler[g], k, y)]
           new == [g \in Handlers |-> HeldBy(handler'[g], k, y)]
           by == HeldBy(c, k, y) - HeldBy(handler[h], k, y)
<1>1. \A g \in Handlers : f[g] \in Int
  BY HeldValue DEF Tables
<1>2. IsFiniteSet(Handlers)
  BY EntitlementAssumption
<1>3. /\ \A g \in Handlers : handler'[g] = IF g = h THEN c ELSE handler[g]
      /\ handler[h] \in Calls
  BY DEF Tables
<1>4. HeldBy(c, k, y) \in Int /\ HeldBy(handler[h], k, y) \in Int
  BY <1>3, HeldValue
<1>5. by \in Int /\ new[h] = f[h] + by /\ \A g \in Handlers \ {h} : new[g] = f[g]
  BY <1>3, <1>4
<1>6. Held(k, y) = SumFunctionOnSet(f, Handlers) /\ Held(k, y)' = SumFunctionOnSet(new, Handlers)
  BY DEF Held
<1> HIDE DEF f, new, by
<1>7. SumFunctionOnSet(new, Handlers) = SumFunctionOnSet(f, Handlers) + by
  BY <1>1, <1>2, <1>5, SumChanges
<1> QED BY <1>6, <1>7 DEF by

(* Nobody is unhired, no balance row is deleted, and time goes on. *)
Grows ==
    /\ today <= today'
    /\ \A e \in Emps : staff[e].state # "NONE" =>
         staff'[e].state # "NONE" /\ staff'[e].joined = staff[e].joined
    /\ \A k \in Keys, y \in YearsCovered : row[k][y].exists => row'[k][y].exists

LEMMA YearOfDay == \A d \in 0..LastDay : leaveYear(d) \in YearsCovered
BY Calendar, EntitlementAssumption

LEMMA CallStays ==
  ASSUME Grows, Tables, today' \in 0..LastDay, NEW c, CallOK(c)
  PROVE  CallOK(c)'
<1>1. c \in Calls /\ c.day \in 0..LastDay /\ leaveYear(c.day) \in YearsCovered
  BY YearOfDay DEF CallOK, Calls
<1>2. c.day <= today'
  BY <1>1 DEF Grows, Tables, CallOK
<1>3. ASSUME NEW p \in c.plan, GoodPlan(c.plan, c.day, c.source) PROVE PlanOK(p, c.day, c.source)'
  <2>1. p \in Plans /\ PlanOK(p, c.day, c.source)
    BY <1>3 DEF GoodPlan
  <2>2. p.key[1] \in Emps
    BY <2>1 DEF Plans, Keys
  <2>3. staff'[p.key[1]].state # "NONE" /\ staff'[p.key[1]].joined = staff[p.key[1]].joined
    BY <2>1, <2>2 DEF Grows, PlanOK
  <2> QED BY <2>1, <2>3 DEF PlanOK
<1>4. GoodPlan(c.plan, c.day, c.source) => GoodPlan(c.plan, c.day, c.source)'
  BY <1>3 DEF GoodPlan
<1>5. \A p \in c.plan : p.key \in Keys
  BY <1>1 DEF Calls, Plans
<1> QED BY <1>1, <1>2, <1>4, <1>5 DEF CallOK, Grows

(* The calls after one of them has moved. *)
LEMMA CallsStay ==
  ASSUME Tables, CallsOK, Grows, today' \in 0..LastDay,
         NEW h \in Handlers, NEW c, handler' = [handler EXCEPT ![h] = c], CallOK(c)'
  PROVE  CallsOK' /\ handler' \in [Handlers -> Calls]
<1>1. c \in Calls
  BY DEF CallOK
<1>2. \A g \in Handlers : handler'[g] = IF g = h THEN c ELSE handler[g]
  BY DEF Tables
<1>3. ASSUME NEW g \in Handlers, NEW d, d = handler'[g] PROVE CallOK(d)'
  <2>1. CASE g = h
    BY <1>2, <1>3, <2>1
  <2>2. CASE g # h
    <3>1. CallOK(d)
      BY <1>2, <1>3, <2>2 DEF CallsOK
    <3> QED BY <3>1, CallStays
  <2> QED BY <2>1, <2>2
<1> QED BY <1>1, <1>3 DEF CallsOK, Tables

LEMMA EntriesStay ==
  ASSUME Tables, EntriesOK, Grows, today' \in 0..LastDay, entries' = entries,
         \A h \in Handlers : handler[h].pc # "idle" => handler'[h].pc # "idle"
  PROVE  EntriesOK'
<1> SUFFICES ASSUME NEW x \in entries
             PROVE  /\ x.id # 0 => handler'[x.id].pc # "idle"
                    /\ x.source = "ACCRUAL" => /\ staff'[x.key[1]].state # "NONE"
                                               /\ staff'[x.key[1]].joined <= x.at /\ x.at <= today'
  BY DEF EntriesOK
<1>1. x.id \in Handlers \cup {0} /\ x.key[1] \in Emps /\ x.at \in 0..LastDay
  BY DEF Tables, LedgerOK, Entries, Keys
<1> QED BY <1>1 DEF EntriesOK, Grows, Tables

-----------------------------------------------------------------------------
(* The steps.  First those of a call that leave balances and ledger alone,  *)
(* and then those of everybody else.                                        *)
LEMMA QuietCall ==
  ASSUME EInv, Grows, UNCHANGED <<row, entries, setUp, today, goLive, types>>, setUp,
         staff' \in People,
         NEW h \in Handlers, NEW c, handler' = [handler EXCEPT ![h] = c], CallOK(c)', c.pc # "idle",
         \A k \in Keys, y \in YearsCovered : HeldBy(c, k, y) <= HeldBy(handler[h], k, y)
  PROVE  EInv'
<1>1. Tables /\ CallsOK /\ EntriesOK /\ Backed
  BY DEF EInv
<1>2. today' \in 0..LastDay /\ c \in Calls
  BY <1>1 DEF Tables, CallOK
<1>3. CallsOK' /\ handler' \in [Handlers -> Calls]
  BY <1>1, <1>2, CallsStay
<1>4. Tables'
  BY <1>1, <1>3 DEF Tables, LedgerOK
<1>5. \A g \in Handlers : handler[g].pc # "idle" => handler'[g].pc # "idle"
  BY <1>1 DEF Tables
<1>6. EntriesOK'
  BY <1>1, <1>2, <1>5, EntriesStay
<1>7. Untouched'
  BY DEF Untouched
<1>8. ASSUME NEW k \in Keys, NEW y \in YearsCovered PROVE AccruedBy(k, y, Sources)' + Held(k, y)' <= row'[k][y].accrued
  <2>1. Held(k, y)' = Held(k, y) + (HeldBy(c, k, y) - HeldBy(handler[h], k, y))
    <3>1. Tables /\ c \in Calls /\ handler' = [handler EXCEPT ![h] = c]
      BY <1>1, <1>2
    <3>2. h \in Handlers /\ k \in Keys
      OBVIOUS
    <3> QED BY ONLY <3>1, <3>2, HeldMoves
  <2>2. Held(k, y) \in Nat /\ HeldBy(c, k, y) \in Nat /\ HeldBy(handler[h], k, y) \in Nat
    BY <1>1, <1>2, HeldIsNat, HeldValue DEF Tables
  <2>3. AccruedBy(k, y, Sources)' = AccruedBy(k, y, Sources) /\ AccruedBy(k, y, Sources) \in Int
    BY <1>1, PolicyRows DEF AccruedBy, Tables
  <2>4. row'[k][y].accrued \in Int
    BY <1>4 DEF Tables, Balances, BalanceRows
  <2>5. HeldBy(c, k, y) <= HeldBy(handler[h], k, y)
    OBVIOUS
  <2>6. AccruedBy(k, y, Sources) + Held(k, y) <= row'[k][y].accrued
    BY <1>1 DEF Backed
  <2> QED BY <2>1, <2>2, <2>3, <2>4, <2>5, <2>6
<1>9. Backed'
  BY <1>1, <1>8 DEF Backed
<1> QED BY <1>3, <1>4, <1>6, <1>7, <1>9 DEF EInv

LEMMA QuietOffice ==
  ASSUME EInv, Grows, UNCHANGED <<entries, setUp, goLive, handler>>, today' \in 0..LastDay,
         staff' \in People, types' \in [LeaveTypes -> TypeChoices], row' \in Balances,
         setUp \/ row' = row,
         \A k \in Keys, y \in YearsCovered :
           row'[k][y].exists = row[k][y].exists /\ row'[k][y].accrued = row[k][y].accrued
  PROVE  EInv'
<1>1. Tables /\ CallsOK /\ EntriesOK /\ Backed /\ Untouched
  BY DEF EInv
<1>2. Tables'
  BY <1>1 DEF Tables, LedgerOK
<1>3. CallsOK'
  BY <1>1, CallStays DEF CallsOK
<1>4. EntriesOK'
  BY <1>1, EntriesStay
<1>5. Untouched'
  BY <1>1 DEF Untouched
<1>6. Backed'
  BY <1>1 DEF Backed, AccruedBy, Held
<1> QED BY <1>2, <1>3, <1>4, <1>5, <1>6 DEF EInv

LEMMA InitEInv == ASSUME EInit PROVE EInv
<1>1. Tables
  <2>1. today \in 0..LastDay /\ goLive \in 0..LastDay
    BY EntitlementAssumption DEF EInit
  <2>6. setUp \in BOOLEAN
    BY Zenon DEF EInit
  <2>2. staff \in People
    <3>1. ASSUME NEW e \in Emps, \E k \in Hired : k[1] = e
          PROVE  (CHOOSE k \in Hired : k[1] = e)[2] \in Nat
      <4>1. (CHOOSE k \in Hired : k[1] = e) \in Hired
        BY <3>1
      <4> QED BY <4>1, EntitlementAssumption
    <3> QED BY <3>1 DEF EInit, People
  <2>3. row \in Balances
    BY DEF EInit, Balances, BalanceRows, NoRow
  <2>4. LedgerOK(entries)
    BY FS_EmptySet DEF EInit, LedgerOK, OfKey
  <2>5. handler \in [Handlers -> Calls]
    BY EntitlementAssumption DEF EInit, Resting, Calls, Pcs, AtRest
  <2> QED BY <2>1, <2>2, <2>3, <2>4, <2>5, <2>6 DEF Tables, EInit
<1>2. CallsOK
  BY <1>1 DEF EInit, CallsOK, CallOK, Resting, Tables
<1>3. EntriesOK /\ Untouched
  BY DEF EInit, EntriesOK, Untouched, Resting
<1>4. Backed
  <2> SUFFICES ASSUME NEW k \in Keys, NEW y \in YearsCovered
               PROVE  row[k][y].accrued = 0 /\ AccruedBy(k, y, Sources) = 0 /\ Held(k, y) = 0
    BY DEF Backed
  <2>1. row[k][y].accrued = 0
    BY DEF EInit, NoRow
  <2>2. EntriesOf(entries, k, y, Sources) = {}
    BY DEF EInit, EntriesOf
  <2>3. AccruedBy(k, y, Sources) = 0
    BY <2>2, SumEmpty DEF AccruedBy, Net
  <2>4. Held(k, y) = 0
    <3> DEFINE f == [h \in Handlers |-> HeldBy(handler[h], k, y)]
    <3>1. \A h \in Handlers : f[h] = 0
      BY <1>1, HeldValue DEF EInit, Resting, Tables
    <3>2. IsFiniteSet(Handlers)
      BY EntitlementAssumption
    <3> HIDE DEF f
    <3>3. SumFunctionOnSet(f, Handlers) = 0
      BY <3>1, <3>2, SumZero
    <3> QED BY <3>3 DEF Held, f
  <2> QED BY <2>1, <2>3, <2>4
<1> QED BY <1>1, <1>2, <1>3, <1>4 DEF EInv

(* A call reads and plans. *)
LEMMA PlannedStep ==
  ASSUME EInv, NEW h \in Handlers, handler[h].pc \in {"readCarry", "readDefaults"}, setUp,
         NEW source \in {"ACCRUAL", "CARRY_FORWARD"}, NEW plan, Planned(h, source, plan),
         GoodPlan(plan, handler[h].day, source), FreshIn(plan, row, leaveYear(handler[h].day)),
         UNCHANGED <<today, goLive, setUp, staff, types, row, entries>>
  PROVE  EInv'
<1>0. PICK c : c = [handler[h] EXCEPT !.pc = "create", !.source = source, !.plan = plan,
                                      !.todo = plan \ Fresh(plan)]
  OBVIOUS
<1>1. Tables /\ CallsOK
  BY DEF EInv
<1>2. handler[h] \in Calls /\ handler[h].day <= today
  BY <1>1 DEF Tables, CallsOK, CallOK
<1>3. handler' = [handler EXCEPT ![h] = c]
  BY <1>0, <1>1, <1>2 DEF Planned, Tables, Calls
<1>4. plan \subseteq Plans /\ plan \ Fresh(plan) \subseteq Plans
  BY DEF GoodPlan
<1>5. /\ c \in Calls /\ c.pc = "create" /\ c.source = source /\ c.plan = plan
      /\ c.todo = plan \ Fresh(plan) /\ c.day = handler[h].day
  BY <1>0, <1>2, <1>4 DEF Calls, Pcs
<1>6. \A p \in plan : p.fresh \/ row[p.key][leaveYear(c.day)].exists
  BY <1>5 DEF FreshIn
<1>7. CallOK(c)
  BY <1>2, <1>5, <1>6 DEF CallOK
<1>8. Grows /\ today' \in 0..LastDay
  BY <1>1 DEF Grows, Tables
<1>9. CallOK(c)'
  BY <1>1, <1>7, <1>8, CallStays
<1>10. \A k \in Keys, y \in YearsCovered : HeldBy(c, k, y) <= HeldBy(handler[h], k, y)
  BY <1>2, <1>5, HeldValue
<1>11. staff' \in People /\ c.pc # "idle"
  BY <1>1, <1>5 DEF Tables
<1> QED BY <1>3, <1>8, <1>9, <1>10, <1>11, QuietCall

LEMMA RunningIsSetUp ==
  ASSUME EInv, NEW h \in Handlers, handler[h].pc # "idle"
  PROVE  setUp
BY Zenon DEF EInv, Untouched

LEMMA ReadCarryStep == ASSUME EInv, NEW h \in Handlers, ReadCarry(h) PROVE EInv'
<1> DEFINE plan == PlanCarry(handler[h].day, row, entries)
<1>1. Tables /\ setUp /\ handler[h].day \in 0..LastDay
  <2>1. handler[h].pc # "idle"
    BY DEF ReadCarry
  <2> QED BY <2>1, RunningIsSetUp DEF EInv, Tables, Calls
<1>2. GoodPlan(plan, handler[h].day, "CARRY_FORWARD") /\ FreshIn(plan, row, leaveYear(handler[h].day))
  BY <1>1, CarryPlanned DEF Tables
<1> HIDE DEF plan
<1>3. Planned(h, "CARRY_FORWARD", plan) /\ handler[h].pc \in {"readCarry", "readDefaults"}
  BY DEF ReadCarry, plan
<1> QED BY <1>1, <1>2, <1>3, PlannedStep DEF ReadCarry

LEMMA ReadDefaultsStep == ASSUME EInv, NEW h \in Handlers, ReadDefaults(h) PROVE EInv'
<1> DEFINE plan == PlanDefaults(handler[h].day, row, entries, goLive, handler[h].emps, handler[h].types)
<1>1. Tables /\ setUp /\ handler[h].day \in 0..LastDay
  <2>1. handler[h].pc # "idle"
    BY DEF ReadDefaults
  <2> QED BY <2>1, RunningIsSetUp DEF EInv, Tables, Calls
<1>2. GoodPlan(plan, handler[h].day, "ACCRUAL") /\ FreshIn(plan, row, leaveYear(handler[h].day))
  BY <1>1, DefaultsPlanned DEF Tables
<1> HIDE DEF plan
<1>3. Planned(h, "ACCRUAL", plan) /\ handler[h].pc \in {"readCarry", "readDefaults"}
  BY DEF ReadDefaults, plan
<1> QED BY <1>1, <1>2, <1>3, PlannedStep DEF ReadDefaults

(* A call ends where it is: it holds nothing any more, but nothing is lost  *)
(* from the balances either.                                                *)
LEMMA FailedStep ==
  ASSUME EInv, NEW h \in Handlers, handler[h].pc # "idle",
         handler' = [handler EXCEPT ![h].pc = "failed"],
         UNCHANGED <<today, goLive, setUp, staff, types, row, entries>>
  PROVE  EInv'
<1>0. PICK c : c = [handler[h] EXCEPT !.pc = "failed"]
  OBVIOUS
<1>1. Tables /\ CallsOK /\ setUp
  BY RunningIsSetUp DEF EInv
<1>2. handler[h] \in Calls /\ CallOK(handler[h])
  BY <1>1 DEF Tables, CallsOK
<1>3. handler' = [handler EXCEPT ![h] = c]
  BY <1>0, <1>1 DEF Tables
<1>4. /\ c \in Calls /\ c.pc = "failed" /\ c.plan = handler[h].plan
      /\ c.todo = handler[h].todo /\ c.day = handler[h].day
  BY <1>0, <1>2 DEF Calls, Pcs, AtRest
<1>5. CallOK(c)
  BY <1>2, <1>4 DEF CallOK
<1>6. Grows /\ today' \in 0..LastDay
  BY <1>1 DEF Grows, Tables
<1>7. CallOK(c)'
  BY <1>1, <1>5, <1>6, CallStays
<1>8. \A k \in Keys, y \in YearsCovered : HeldBy(c, k, y) <= HeldBy(handler[h], k, y)
  BY <1>2, <1>4, HeldValue
<1>9. staff' \in People /\ c.pc # "idle"
  BY <1>1, <1>4 DEF Tables
<1> QED BY <1>1, <1>3, <1>6, <1>7, <1>8, <1>9, QuietCall

(* A call that writes balance rows or ledger rows: what it must show of     *)
(* every balance row.                                                       *)
LEMMA WritingCall ==
  ASSUME EInv, UNCHANGED <<today, setUp, staff, types>>, setUp, goLive' \in 0..LastDay, LedgerOK(entries'),
         row' \in Balances, \A k \in Keys, y \in YearsCovered : row[k][y].exists => row'[k][y].exists,
         NEW h \in Handlers, NEW c, handler' = [handler EXCEPT ![h] = c], CallOK(c)', c.pc # "idle",
         \A x \in entries' : x \in entries \/
            (x.id = h /\ (x.source = "ACCRUAL" => /\ staff[x.key[1]].state # "NONE"
                                                  /\ staff[x.key[1]].joined <= x.at /\ x.at <= today)),
         \A k \in Keys, y \in YearsCovered :
           /\ ~row'[k][y].exists => row'[k][y].accrued = 0
           /\ Net(EntriesOf(entries', k, y, Sources)) - Net(EntriesOf(entries, k, y, Sources))
                + (HeldBy(c, k, y) - HeldBy(handler[h], k, y)) <= row'[k][y].accrued - row[k][y].accrued
  PROVE  EInv'
<1>1. Tables /\ CallsOK /\ EntriesOK /\ Backed
  BY DEF EInv
<1>2. today' \in 0..LastDay /\ c \in Calls /\ Grows
  BY <1>1 DEF Tables, CallOK, Grows
<1>3. CallsOK' /\ handler' \in [Handlers -> Calls]
  BY <1>1, <1>2, CallsStay
<1>4. Tables'
  BY <1>1, <1>3 DEF Tables
<1>5. \A g \in Handlers : /\ handler'[g] = IF g = h THEN c ELSE handler[g]
                          /\ handler[g].pc # "idle" => handler'[g].pc # "idle"
  BY <1>1 DEF Tables
<1>6. EntriesOK'
  <2> SUFFICES ASSUME NEW x \in entries'
               PROVE  /\ x.id # 0 => handler'[x.id].pc # "idle"
                      /\ x.source = "ACCRUAL" => /\ staff'[x.key[1]].state # "NONE"
                                                 /\ staff'[x.key[1]].joined <= x.at /\ x.at <= today'
    BY DEF EntriesOK
  <2>1. CASE x \in entries
    <3>1. x.id \in Handlers \cup {0}
      BY <1>1, <2>1 DEF Tables, LedgerOK, Entries
    <3> QED BY <1>1, <1>5, <2>1, <3>1 DEF EntriesOK
  <2>2. CASE x \notin entries
    BY <1>5, <2>2
  <2> QED BY <2>1, <2>2
<1>7. Untouched'
  BY DEF Untouched
<1>8. ASSUME NEW k \in Keys, NEW y \in YearsCovered PROVE AccruedBy(k, y, Sources)' + Held(k, y)' <= row'[k][y].accrued
  <2>1. Held(k, y)' = Held(k, y) + (HeldBy(c, k, y) - HeldBy(handler[h], k, y))
    <3>1. Tables /\ c \in Calls /\ handler' = [handler EXCEPT ![h] = c]
      BY <1>1, <1>2
    <3>2. h \in Handlers /\ k \in Keys
      OBVIOUS
    <3> QED BY ONLY <3>1, <3>2, HeldMoves
  <2>2. Held(k, y) \in Nat /\ HeldBy(c, k, y) \in Nat /\ HeldBy(handler[h], k, y) \in Nat
    BY <1>1, <1>2, HeldIsNat, HeldValue DEF Tables
  <2>3. /\ AccruedBy(k, y, Sources)' = Net(EntriesOf(entries', k, y, Sources))
        /\ AccruedBy(k, y, Sources) = Net(EntriesOf(entries, k, y, Sources))
    BY DEF AccruedBy
  <2>4. Net(EntriesOf(entries', k, y, Sources)) \in Int /\ Net(EntriesOf(entries, k, y, Sources)) \in Int
    BY <1>1, PolicyRows DEF Tables
  <2>5. row'[k][y].accrued \in Int /\ row[k][y].accrued \in Int
    BY <1>1 DEF Tables, Balances, BalanceRows
  <2>6. AccruedBy(k, y, Sources) + Held(k, y) <= row[k][y].accrued
    BY <1>1 DEF Backed
  <2>7. Net(EntriesOf(entries', k, y, Sources)) - Net(EntriesOf(entries, k, y, Sources))
          + (HeldBy(c, k, y) - HeldBy(handler[h], k, y)) <= row'[k][y].accrued - row[k][y].accrued
    OBVIOUS
  <2> HIDE DEF Net
  <2> QED BY <2>1, <2>2, <2>3, <2>4, <2>5, <2>6, <2>7
<1>9. Backed'
  BY <1>8 DEF Backed
<1> QED BY <1>3, <1>4, <1>6, <1>7, <1>9 DEF EInv

LEMMA CreateRowsStep == ASSUME EInv, NEW h \in Handlers, CreateRows(h) PROVE EInv'
<1>0. PICK k : k = handler[h]
  OBVIOUS
<1> DEFINE y == leaveYear(k.day)
           clash == \E p \in Fresh(k.plan) : row[p.key][y].exists
<1>1. Tables /\ CallsOK /\ Backed /\ setUp /\ k.pc = "create"
  <2>1. handler[h].pc # "idle" /\ k.pc = "create"
    BY <1>0 DEF CreateRows
  <2> QED BY <2>1, RunningIsSetUp DEF EInv
<1>2. /\ k \in Calls /\ CallOK(k) /\ GoodPlan(k.plan, k.day, k.source)
      /\ k.day \in 0..LastDay /\ y \in YearsCovered
  <2>1. k \in Calls /\ CallOK(k)
    BY <1>0, <1>1 DEF Tables, CallsOK
  <2> QED BY <1>1, <2>1, YearOfDay DEF CallOK, Calls
<1>3. CASE clash
  <2>1. handler' = [handler EXCEPT ![h].pc = "failed"] /\ row' = row
    BY <1>0, <1>3 DEF CreateRows
  <2> QED BY <1>0, <1>1, <2>1, FailedStep DEF CreateRows
<1>4. CASE ~clash
  <2>0. PICK c : c = [k EXCEPT !.pc = "increment"]
    OBVIOUS
  <2>1. row' = Created(row, k.plan, y) /\ handler' = [handler EXCEPT ![h] = c]
    BY <1>0, <1>1, <1>4, <2>0 DEF CreateRows, Tables
  <2>2. /\ c \in Calls /\ c.pc = "increment" /\ c.plan = k.plan /\ c.todo = k.todo
        /\ c.day = k.day /\ c.source = k.source
    BY <1>2, <2>0 DEF Calls, Pcs
  <2>3. /\ row' \in Balances
        /\ \A j \in Keys, z \in YearsCovered :
              \/ /\ z = y
                 /\ \E p \in k.plan : /\ p.fresh /\ p.key = j
                                      /\ row'[j][z].exists /\ row'[j][z].accrued = p.total
              \/ /\ z = y => \A p \in k.plan : p.fresh => p.key # j
                 /\ row'[j][z] = row[j][z]
    BY <1>1, <1>2, <2>1, CreatedRows DEF Tables
  <2>4. \A p \in k.plan : p.key \in Keys /\ p.total \in Nat
    BY <1>2 DEF GoodPlan, Plans
  <2>5. /\ OneEach(k.plan) /\ k.todo = k.plan \ Fresh(k.plan)
        /\ \A p \in k.plan : p.fresh \/ row[p.key][y].exists
    BY <1>1, <1>2 DEF CallOK, GoodPlan
  <2>6. \A j \in Keys, z \in YearsCovered : row[j][z].exists => row'[j][z].exists
    BY <2>3
  <2>7. \A p \in k.plan : row'[p.key][y].exists
    <3> TAKE p \in k.plan
    <3>1. CASE ~p.fresh
      BY <1>2, <2>4, <2>5, <2>6, <3>1
    <3>2. CASE p.fresh
      BY <1>2, <2>3, <2>4, <3>2
    <3> QED BY <3>1, <3>2
  <2>8. CallOK(c)'
    <3>1. CallOK(k)'
      <4>1. Grows /\ today' \in 0..LastDay
        BY <1>1, <2>6 DEF CreateRows, Grows, Tables
      <4> QED BY <1>1, <1>2, <4>1, CallStays
    <3> QED BY <1>1, <2>2, <2>7, <3>1 DEF CallOK
  <2>9. ASSUME NEW j \in Keys, NEW z \in YearsCovered
        PROVE  /\ ~row'[j][z].exists => row'[j][z].accrued = 0
               /\ HeldBy(c, j, z) - HeldBy(k, j, z) <= row'[j][z].accrued - row[j][z].accrued
    <3>1. HeldBy(k, j, z) = 0
      BY <1>1, <1>2, HeldValue
    <3>2. row[j][z].accrued \in Int /\ (~row[j][z].exists => row[j][z].accrued = 0)
      BY <1>1 DEF Tables, Balances, BalanceRows, Backed
    <3>3. ASSUME NEW p \in k.plan, p.fresh, p.key = j, z = y, row'[j][z].exists, row'[j][z].accrued = p.total
          PROVE  HeldBy(c, j, z) = p.total /\ row[j][z].accrued = 0
      <4>1. p \notin c.todo /\ p \in Fresh(k.plan)
        BY <2>2, <2>5, <3>3 DEF Fresh
      <4>2. ~row[j][z].exists
        BY <1>4, <3>3, <4>1
      <4> QED BY <2>2, <2>5, <3>2, <3>3, <4>1, <4>2, HeldValue
    <3>4. ASSUME z = y => \A p \in k.plan : p.fresh => p.key # j
          PROVE  HeldBy(c, j, z) = 0
      <4>1. CASE z # y
        BY <2>2, <4>1, HeldValue
      <4>2. CASE z = y
        <5>1. \A p \in k.plan \ k.todo : p.key # j
          BY <2>5, <3>4, <4>2 DEF Fresh
        <5> QED BY <2>2, <5>1 DEF HeldBy
      <4> QED BY <4>1, <4>2
    <3>5. \/ \E p \in k.plan : /\ p.fresh /\ p.key = j /\ z = y
                               /\ row'[j][z].exists /\ row'[j][z].accrued = p.total
          \/ (z = y => \A p \in k.plan : p.fresh => p.key # j) /\ row'[j][z] = row[j][z]
      BY <2>3
    <3>6. CASE \E p \in k.plan : /\ p.fresh /\ p.key = j /\ z = y
                                 /\ row'[j][z].exists /\ row'[j][z].accrued = p.total
      <4>1. PICK p \in k.plan : /\ p.fresh /\ p.key = j /\ z = y
                                /\ row'[j][z].exists /\ row'[j][z].accrued = p.total
        BY <3>6
      <4>2. HeldBy(c, j, z) = p.total /\ row[j][z].accrued = 0
        BY <3>3, <4>1
      <4> QED BY <2>4, <3>1, <4>1, <4>2
    <3>7. CASE (z = y => \A p \in k.plan : p.fresh => p.key # j) /\ row'[j][z] = row[j][z]
      BY <3>1, <3>2, <3>4, <3>7
    <3> QED BY <3>5, <3>6, <3>7
  <2>10. LedgerOK(entries') /\ entries' = entries /\ goLive' \in 0..LastDay
    BY <1>1 DEF CreateRows, Tables
  <2>11. ASSUME NEW j \in Keys, NEW z \in YearsCovered
         PROVE  Net(EntriesOf(entries', j, z, Sources)) - Net(EntriesOf(entries, j, z, Sources))
                  + (HeldBy(c, j, z) - HeldBy(handler[h], j, z)) <= row'[j][z].accrued - row[j][z].accrued
    <3>1. Net(EntriesOf(entries, j, z, Sources)) \in Int
      BY <1>1, PolicyRows DEF Tables
    <3>2. HeldBy(c, j, z) \in Int /\ HeldBy(k, j, z) \in Int
      BY <1>2, <2>2, HeldValue
    <3>3. Net(EntriesOf(entries', j, z, Sources)) = Net(EntriesOf(entries, j, z, Sources))
      BY <2>10
    <3> HIDE DEF Net
    <3> QED BY <1>0, <2>9, <3>1, <3>2, <3>3
  <2> QED BY <1>1, <2>1, <2>2, <2>3, <2>6, <2>8, <2>9, <2>10, <2>11, WritingCall DEF CreateRows
<1> QED BY <1>3, <1>4

LEMMA IncrementRowStep == ASSUME EInv, NEW h \in Handlers, IncrementRow(h) PROVE EInv'
<1>0. PICK k : k = handler[h]
  OBVIOUS
<1> DEFINE y == leaveYear(k.day)
<1>1. Tables /\ CallsOK /\ Backed /\ setUp /\ k.pc = "increment"
  <2>1. handler[h].pc # "idle" /\ k.pc = "increment"
    BY <1>0 DEF IncrementRow
  <2> QED BY <2>1, RunningIsSetUp DEF EInv
<1>2. /\ k \in Calls /\ CallOK(k) /\ GoodPlan(k.plan, k.day, k.source)
      /\ k.day \in 0..LastDay /\ y \in YearsCovered
  <2>1. k \in Calls /\ CallOK(k)
    BY <1>0, <1>1 DEF Tables, CallsOK
  <2> QED BY <1>1, <2>1, YearOfDay DEF CallOK, Calls
<1>3. PICK p \in k.todo : /\ row' = Incremented(row, p, y)
                          /\ handler' = [handler EXCEPT ![h].todo = @ \ {p}]
  BY <1>0 DEF IncrementRow
<1>4. PICK c : c = [k EXCEPT !.todo = k.todo \ {p}]
  OBVIOUS
<1>5. handler' = [handler EXCEPT ![h] = c]
  BY <1>0, <1>1, <1>3, <1>4 DEF Tables
<1>6. /\ c \in Calls /\ c.pc = "increment" /\ c.plan = k.plan /\ c.todo = k.todo \ {p}
      /\ c.day = k.day /\ c.source = k.source
  BY <1>1, <1>2, <1>4 DEF Calls
<1>7. /\ OneEach(k.plan) /\ p \in k.plan /\ p.key \in Keys /\ p.total \in Nat
      /\ row[p.key][y].exists
  BY <1>1, <1>2, <1>3 DEF CallOK, GoodPlan, Plans, Fresh
<1>8. PICK new : new = [row[p.key][y] EXCEPT !.accrued = @ + p.total]
  OBVIOUS
<1>9. /\ new \in BalanceRows /\ new.exists /\ new.accrued = row[p.key][y].accrued + p.total
      /\ row[p.key] \in [YearsCovered -> BalanceRows] /\ row[p.key][y].accrued \in Int
  <2>1. row[p.key] \in [YearsCovered -> BalanceRows] /\ row[p.key][y] \in BalanceRows
    BY <1>1, <1>2, <1>7 DEF Tables, Balances
  <2> QED BY <1>7, <1>8, <2>1 DEF BalanceRows
<1>10. row' = [row EXCEPT ![p.key] = [row[p.key] EXCEPT ![y] = new]]
  BY <1>3, <1>8 DEF Incremented
<1>11. /\ row' \in Balances /\ row'[p.key][y] = new
       /\ \A j \in Keys, z \in YearsCovered : j # p.key \/ z # y => row'[j][z] = row[j][z]
  <2> HIDE DEF y
  <2> QED BY <1>1, <1>2, <1>7, <1>9, <1>10 DEF Tables, Balances
<1>12. \A j \in Keys, z \in YearsCovered : row[j][z].exists => row'[j][z].exists
  BY <1>9, <1>11
<1>13. CallOK(c)'
  <2>1. Grows /\ today' \in 0..LastDay
    BY <1>1, <1>12 DEF IncrementRow, Grows, Tables
  <2>2. CallOK(k)'
    BY <1>1, <1>2, <2>1, CallStays
  <2> QED BY <1>1, <1>6, <2>2 DEF CallOK
<1>14. ASSUME NEW j \in Keys, NEW z \in YearsCovered
       PROVE  /\ ~row'[j][z].exists => row'[j][z].accrued = 0
              /\ HeldBy(c, j, z) - HeldBy(k, j, z) = row'[j][z].accrued - row[j][z].accrued
  <2>1. CASE j = p.key /\ z = y
    <3>1. HeldBy(k, j, z) = 0
      BY <1>1, <1>2, <1>3, <1>7, <2>1, HeldValue
    <3>2. p \notin c.todo /\ p \in c.plan
      BY <1>6, <1>7
    <3>3. HeldBy(c, j, z) = p.total
      BY <1>6, <1>7, <2>1, <3>2, HeldValue
    <3> QED BY <1>7, <1>9, <1>11, <2>1, <3>1, <3>3
  <2>2. CASE ~(j = p.key /\ z = y)
    <3>1. row'[j][z] = row[j][z] /\ (~row[j][z].exists => row[j][z].accrued = 0)
      BY <1>1, <1>11, <2>2 DEF Backed
    <3>2. HeldBy(c, j, z) = HeldBy(k, j, z)
      <4>1. CASE z # y
        BY <1>2, <1>6, <4>1, HeldValue
      <4>2. CASE \A q \in k.plan : q.key # j
        BY <1>2, <1>6, <4>2, HeldValue
      <4>3. ASSUME NEW q \in k.plan, q.key = j, z = y PROVE HeldBy(c, j, z) = HeldBy(k, j, z)
        <5>1. q # p /\ (q \in c.todo <=> q \in k.todo)
          BY <1>6, <2>2, <4>3
        <5>2. HeldBy(c, j, z) = IF q \in c.todo THEN 0 ELSE q.total
          BY <1>6, <1>7, <4>3, HeldValue
        <5>3. HeldBy(k, j, z) = IF q \in k.todo THEN 0 ELSE q.total
          BY <1>1, <1>2, <1>7, <4>3, HeldValue
        <5> QED BY <5>1, <5>2, <5>3
      <4> QED BY <4>1, <4>2, <4>3
    <3>3. HeldBy(k, j, z) \in Int /\ row[j][z].accrued \in Int
      BY <1>1, <1>2, HeldValue DEF Tables, Balances, BalanceRows
    <3> QED BY <3>1, <3>2, <3>3
  <2> QED BY <2>1, <2>2
<1>15. LedgerOK(entries') /\ entries' = entries /\ goLive' \in 0..LastDay
  BY <1>1 DEF IncrementRow, Tables
<1>16. ASSUME NEW j \in Keys, NEW z \in YearsCovered
       PROVE  Net(EntriesOf(entries', j, z, Sources)) - Net(EntriesOf(entries, j, z, Sources))
                + (HeldBy(c, j, z) - HeldBy(handler[h], j, z)) <= row'[j][z].accrued - row[j][z].accrued
  <2>1. Net(EntriesOf(entries, j, z, Sources)) \in Int
    BY <1>1, PolicyRows DEF Tables
  <2>2. HeldBy(c, j, z) \in Int /\ HeldBy(k, j, z) \in Int
    BY <1>2, <1>6, HeldValue
  <2>3. Net(EntriesOf(entries', j, z, Sources)) = Net(EntriesOf(entries, j, z, Sources))
    BY <1>15
  <2> HIDE DEF Net
  <2> QED BY <1>0, <1>14, <2>1, <2>2, <2>3
<1> QED BY <1>1, <1>5, <1>6, <1>11, <1>12, <1>13, <1>14, <1>15, <1>16, WritingCall DEF IncrementRow

LEMMA WriteEntriesStep == ASSUME EInv, NEW h \in Handlers, WriteEntries(h) PROVE EInv'
<1>0. PICK k : k = handler[h]
  OBVIOUS
<1>1. Tables /\ CallsOK /\ Backed /\ setUp /\ k.pc = "increment" /\ k.todo = {}
  <2>1. handler[h].pc # "idle" /\ k.pc = "increment" /\ k.todo = {}
    BY <1>0 DEF WriteEntries
  <2> QED BY <2>1, RunningIsSetUp DEF EInv
<1>2. /\ k \in Calls /\ CallOK(k) /\ GoodPlan(k.plan, k.day, k.source) /\ k.day \in 0..LastDay
      /\ k.source \in {"ACCRUAL", "CARRY_FORWARD"} /\ k.day <= today
  <2>1. k \in Calls /\ CallOK(k)
    BY <1>0, <1>1 DEF Tables, CallsOK
  <2> QED BY <1>1, <2>1 DEF CallOK, Calls
<1>3. PICK M : M = entries \cup LedgerRows(h, k.plan, k.source)
  OBVIOUS
<1>4. PICK c : c = IF k.source = "CARRY_FORWARD" THEN [k EXCEPT !.pc = "readDefaults", !.plan = {}]
                   ELSE [Resting EXCEPT !.pc = "done"]
  OBVIOUS
<1>5. entries' = M /\ handler' = [handler EXCEPT ![h] = c]
  BY <1>0, <1>3, <1>4 DEF WriteEntries
<1>6. /\ c \in Calls /\ c.pc \in {"readDefaults", "done"} /\ c.todo = {}
      /\ c.day \in {0, k.day}
  <2>1. CASE k.source = "CARRY_FORWARD"
    BY <1>1, <1>2, <1>4, <2>1 DEF Calls, Pcs
  <2>2. CASE k.source # "CARRY_FORWARD"
    BY <1>4, <2>2, EntitlementAssumption DEF Resting, Calls, Pcs, AtRest
  <2> QED BY <2>1, <2>2
<1>7. LedgerOK(M) /\ Written(entries, M, k.day, h, k.source, k.plan)
  <2>1. LedgerOK(entries) /\ h \in Handlers \cup {0}
    BY <1>1 DEF Tables
  <2> QED BY <1>2, <1>3, <2>1, WrittenRows
<1>8. \A p \in k.plan : p \in Plans /\ PlanOK(p, k.day, k.source) /\ p.total \in Nat
  BY <1>2 DEF GoodPlan, Plans
<1>9. ASSUME NEW x \in M
      PROVE  \/ x \in entries
             \/ x.id = h /\ (x.source = "ACCRUAL" => /\ staff[x.key[1]].state # "NONE"
                                                     /\ staff[x.key[1]].joined <= x.at /\ x.at <= today)
  <2>1. CASE x \in entries
    BY <2>1
  <2>2. CASE x \notin entries
    <3>0. x.id = h /\ x.source = k.source
      BY <1>7, <2>2 DEF Written
    <3>1. PICK p \in k.plan : p.key = x.key /\ \E a \in p.credits : x.at = a.at
      BY <1>7, <2>2 DEF Written
    <3>2. PICK a \in p.credits : x.at = a.at
      BY <3>1
    <3>3. a.at \in Int /\ a.at <= k.day /\ today \in Int
      BY <1>1, <1>8, <3>2 DEF PlanOK, Plans, Credits, Tables
    <3> QED BY <1>2, <1>8, <3>0, <3>1, <3>2, <3>3 DEF PlanOK
  <2> QED BY <2>1, <2>2
<1>10. CallOK(c)'
  <2>1. today' = today /\ today \in 0..LastDay
    BY <1>1 DEF WriteEntries, Tables
  <2> QED BY <1>2, <1>6, <2>1 DEF CallOK
<1>11. ASSUME NEW j \in Keys, NEW z \in YearsCovered
       PROVE  /\ ~row'[j][z].exists => row'[j][z].accrued = 0
              /\ Net(EntriesOf(M, j, z, Sources)) - Net(EntriesOf(entries, j, z, Sources))
                   + (HeldBy(c, j, z) - HeldBy(k, j, z)) <= row'[j][z].accrued - row[j][z].accrued
  <2>1. row' = row /\ row[j][z].accrued \in Int /\ (~row[j][z].exists => row[j][z].accrued = 0)
    BY <1>1 DEF WriteEntries, Tables, Balances, BalanceRows, Backed
  <2>2. HeldBy(c, j, z) = 0 /\ HeldBy(k, j, z) \in Nat
    BY <1>2, <1>6, HeldValue
  <2>3. Net(EntriesOf(M, j, z, Sources)) \in Int /\ Net(EntriesOf(entries, j, z, Sources)) \in Int
    BY <1>1, <1>7, PolicyRows DEF Tables
  <2>4. Net(EntriesOf(M, j, z, Sources)) <= Net(EntriesOf(entries, j, z, Sources)) + HeldBy(k, j, z)
    <3>1. z \in Nat
      BY DEF YearsCovered
    <3>2. CASE /\ z = leaveYear(k.day)
               /\ \E p \in k.plan : /\ p.key = j
                                    /\ Net(EntriesOf(M, j, z, Sources)) <=
                                         Net(EntriesOf(entries, j, z, Sources)) + p.total
      <4>1. PICK p \in k.plan : /\ p.key = j
                                /\ Net(EntriesOf(M, j, z, Sources)) <=
                                     Net(EntriesOf(entries, j, z, Sources)) + p.total
        BY <3>2
      <4>2. HeldBy(k, j, z) = p.total
        BY <1>1, <1>2, <3>2, <4>1, HeldValue DEF GoodPlan
      <4> QED BY <4>1, <4>2
    <3>3. CASE EntriesOf(M, j, z, Sources) = EntriesOf(entries, j, z, Sources)
      <4>1. Net(EntriesOf(M, j, z, Sources)) = Net(EntriesOf(entries, j, z, Sources))
        BY <3>3
      <4> HIDE DEF Net
      <4> QED BY <2>2, <2>3, <4>1
    <3> QED BY <1>7, <3>1, <3>2, <3>3 DEF Written
  <2> HIDE DEF Net
  <2> QED BY <2>1, <2>2, <2>3, <2>4
<1>12. /\ row' = row /\ row' \in Balances /\ UNCHANGED <<today, setUp, staff, types>>
       /\ goLive' \in 0..LastDay /\ c.pc # "idle"
  BY <1>1, <1>6 DEF WriteEntries, Tables
<1>13. /\ LedgerOK(entries')
       /\ \A x \in entries' : x \in entries \/
            (x.id = h /\ (x.source = "ACCRUAL" => /\ staff[x.key[1]].state # "NONE"
                                                  /\ staff[x.key[1]].joined <= x.at /\ x.at <= today))
  BY <1>5, <1>7, <1>9
<1>14. \A j \in Keys, z \in YearsCovered :
         /\ ~row'[j][z].exists => row'[j][z].accrued = 0
         /\ Net(EntriesOf(entries', j, z, Sources)) - Net(EntriesOf(entries, j, z, Sources))
              + (HeldBy(c, j, z) - HeldBy(handler[h], j, z)) <= row'[j][z].accrued - row[j][z].accrued
  BY <1>0, <1>5, <1>11
<1>15. \A j \in Keys, z \in YearsCovered : row[j][z].exists => row'[j][z].exists
  BY <1>12
<1> QED BY <1>1, <1>5, <1>10, <1>12, <1>13, <1>14, <1>15, WritingCall

(* A plan carried out in one transaction adds to every balance at least     *)
(* what it adds to its ledger rows.                                         *)
Backing(rows, R, L, M, day, id) ==
    /\ \A k \in Keys, z \in YearsCovered :
         /\ rows[k][z].exists => R[k][z].exists
         /\ ~R[k][z].exists => R[k][z].accrued = 0
         /\ Net(EntriesOf(M, k, z, Sources)) - Net(EntriesOf(L, k, z, Sources)) <=
              R[k][z].accrued - rows[k][z].accrued
    /\ \A x \in M : x \in L \/ /\ x.id = id /\ staff[x.key[1]].state # "NONE"
                               /\ staff[x.key[1]].joined <= x.at /\ x.at <= day
Unopened(rows) == \A k \in Keys, z \in YearsCovered : ~rows[k][z].exists => rows[k][z].accrued = 0

LEMMA AppliedBacked ==
  ASSUME NEW rows \in Balances, NEW L, LedgerOK(L), NEW day \in 0..LastDay,
         NEW plan, GoodPlan(plan, day, "ACCRUAL"), FreshIn(plan, rows, leaveYear(day)),
         NEW id \in Handlers \cup {0}, NEW M, M = L \cup LedgerRows(id, plan, "ACCRUAL"),
         NEW R, R = Applied(rows, plan, leaveYear(day)), Unopened(rows)
  PROVE  R \in Balances /\ LedgerOK(M) /\ Backing(rows, R, L, M, day, id)
<1> DEFINE y == leaveYear(day)
<1>1. y \in YearsCovered
  BY YearOfDay
<1>2. /\ R \in Balances
      /\ \A k \in Keys, z \in YearsCovered :
           \/ /\ z = y
              /\ \E p \in plan :
                   /\ p.key = k /\ R[k][z].exists
                   /\ R[k][z].accrued = (IF rows[k][z].exists THEN rows[k][z].accrued ELSE 0) + p.total
           \/ /\ z = y => \A p \in plan : p.key # k
              /\ R[k][z] = rows[k][z]
  <2> HIDE DEF y
  <2> QED BY <1>1, AppliedRows DEF y
<1>3. LedgerOK(M) /\ Written(L, M, day, id, "ACCRUAL", plan)
  BY WrittenRows
<1>4. ASSUME NEW k \in Keys, NEW z \in YearsCovered
      PROVE  /\ rows[k][z].exists => R[k][z].exists
             /\ ~R[k][z].exists => R[k][z].accrued = 0
             /\ Net(EntriesOf(M, k, z, Sources)) - Net(EntriesOf(L, k, z, Sources)) <=
                  R[k][z].accrued - rows[k][z].accrued
  <2>1. /\ rows[k][z].accrued \in Int /\ (~rows[k][z].exists => rows[k][z].accrued = 0)
        /\ R[k][z].accrued \in Int
    BY <1>2 DEF Balances, BalanceRows, Unopened
  <2>2. Net(EntriesOf(M, k, z, Sources)) \in Int /\ Net(EntriesOf(L, k, z, Sources)) \in Int
    BY <1>3, PolicyRows
  <2>3. z \in Nat
    BY DEF YearsCovered
  <2>6. \/ /\ z = y
           /\ \E p \in plan : /\ p.key = k
                              /\ Net(EntriesOf(M, k, z, Sources)) <=
                                   Net(EntriesOf(L, k, z, Sources)) + p.total
        \/ /\ z = y => \A p \in plan : p.key # k
           /\ EntriesOf(M, k, z, Sources) = EntriesOf(L, k, z, Sources)
    BY <1>3, <2>3 DEF Written
  <2> HIDE DEF y
  <2>4. CASE z = y /\ \E p \in plan : p.key = k
    <3>1. PICK p \in plan : p.key = k
      BY <2>4
    <3>2. \A q \in plan : q.key = k => q = p
      BY <3>1 DEF GoodPlan, OneEach
    <3>3. p.total \in Nat
      BY DEF GoodPlan, Plans
    <3>4. Net(EntriesOf(M, k, z, Sources)) <= Net(EntriesOf(L, k, z, Sources)) + p.total
      BY <2>4, <2>6, <3>1, <3>2
    <3>5. /\ R[k][z].exists
          /\ R[k][z].accrued = (IF rows[k][z].exists THEN rows[k][z].accrued ELSE 0) + p.total
      BY <1>2, <2>4, <3>1, <3>2
    <3> HIDE DEF Net
    <3> QED BY <2>1, <2>2, <3>3, <3>4, <3>5
  <2>5. CASE z = y => \A p \in plan : p.key # k
    <3>1. R[k][z] = rows[k][z]
      BY <1>2, <2>5
    <3>2. EntriesOf(M, k, z, Sources) = EntriesOf(L, k, z, Sources)
      BY <2>5, <2>6
    <3>3. Net(EntriesOf(M, k, z, Sources)) = Net(EntriesOf(L, k, z, Sources))
      BY <3>2
    <3> HIDE DEF Net
    <3> QED BY <2>1, <2>2, <3>1, <3>3
  <2> QED BY <2>4, <2>5
<1>5. ASSUME NEW x \in M, x \notin L
      PROVE  /\ x.id = id /\ staff[x.key[1]].state # "NONE"
             /\ staff[x.key[1]].joined <= x.at /\ x.at <= day
  <2>1. x.id = id /\ \E p \in plan : p.key = x.key /\ \E c \in p.credits : x.at = c.at
    BY <1>3, <1>5 DEF Written
  <2>2. PICK p \in plan : p.key = x.key /\ \E c \in p.credits : x.at = c.at
    BY <2>1
  <2> QED BY <2>1, <2>2 DEF GoodPlan, PlanOK
<1> HIDE DEF y, Net
<1> QED BY <1>2, <1>3, <1>4, <1>5 DEF Backing

(* recalculate(): what it takes back leaves both, what it credits enters    *)
(* both, in one transaction.                                                *)
LEMMA RecalculateStep ==
  ASSUME EInv, NEW h \in Handlers, NEW live \in GoLives, recalculate(h, live)
  PROVE  EInv'
<1>0. PICK y, back, rows, plan :
        /\ y = leaveYear(today) /\ back = Reversals(h, y) /\ rows = Reversed(row, back, y)
        /\ plan = PlanDefaults(today, rows, entries \cup back, live, Emps, LeaveTypes)
  OBVIOUS
<1>1. PICK L, M : L = entries \cup back /\ M = L \cup LedgerRows(h, plan, "ACCRUAL")
  OBVIOUS
<1>2. PICK c : c = [handler[h] EXCEPT !.pc = "done"]
  OBVIOUS
<1>3. /\ setUp /\ handler[h].pc = "idle" /\ goLive' = live
      /\ row' = Applied(rows, plan, y) /\ entries' = M
      /\ handler' = [handler EXCEPT ![h].pc = "done"]
      /\ UNCHANGED <<today, setUp, staff, types>>
  BY <1>0, <1>1 DEF recalculate, Free
<1>4. /\ Tables /\ CallsOK /\ EntriesOK /\ Backed
      /\ handler[h] \in Calls /\ CallOK(handler[h]) /\ y \in YearsCovered /\ live \in 0..LastDay
  BY <1>0, YearOfDay, EntitlementAssumption DEF EInv, Tables, CallsOK
<1>5. /\ handler' = [handler EXCEPT ![h] = c] /\ c \in Calls /\ c.pc = "done"
      /\ c.todo = handler[h].todo /\ c.plan = handler[h].plan /\ c.day = handler[h].day
  <2>1. handler' = [handler EXCEPT ![h] = c]
    BY <1>2, <1>3, <1>4 DEF Tables
  <2>2. /\ c \in Calls /\ c.pc = "done"
        /\ c.todo = handler[h].todo /\ c.plan = handler[h].plan /\ c.day = handler[h].day
    BY <1>2, <1>4 DEF Calls, Pcs, AtRest
  <2> QED BY <2>1, <2>2
<1>6. \A x \in entries : x.id # h
  BY <1>3, <1>4, EntitlementAssumption DEF EntriesOK
<1>7. /\ LedgerOK(L)
      /\ \A x \in back : x.id = h /\ x.source = "ACCRUAL_REVERSAL"
      /\ \A k \in Keys :
           /\ \A z \in YearsCovered :
                z # y => EntriesOf(L, k, z, Sources) = EntriesOf(entries, k, z, Sources)
           /\ Net(OfKey(back, k)) \in Int /\ Net(OfKey(back, k)) <= 0
           /\ Net(EntriesOf(L, k, y, Sources)) =
                Net(EntriesOf(entries, k, y, Sources)) + Net(OfKey(back, k))
  <2>1. LedgerOK(L) /\ Withdrawn(back, L, h, y)
    BY <1>0, <1>1, <1>4, <1>6, TakenBack DEF Tables
  <2> HIDE DEF Net
  <2> QED BY <2>1 DEF Withdrawn
<1>8. /\ rows \in Balances
      /\ \A k \in Keys, z \in YearsCovered :
           /\ rows[k][z].exists = row[k][z].exists
           /\ rows[k][z].accrued = IF z = y /\ row[k][z].exists
                                   THEN row[k][z].accrued + Net(OfKey(back, k)) ELSE row[k][z].accrued
  <2> DEFINE val(k) == IF row[k][y].exists THEN row[k][y].accrued + Net(OfKey(back, k))
                       ELSE row[k][y].accrued
             new(k) == [row[k][y] EXCEPT !.accrued = val(k)]
  <2>1. ASSUME NEW k \in Keys PROVE rows[k] = [row[k] EXCEPT ![y] = new(k)]
    BY <1>0 DEF Reversed, OfKey
  <2>2. ASSUME NEW k \in Keys
        PROVE  /\ row[k] \in [YearsCovered -> BalanceRows] /\ val(k) \in Int
               /\ new(k) \in BalanceRows /\ new(k).exists = row[k][y].exists /\ new(k).accrued = val(k)
    <3>1. row[k] \in [YearsCovered -> BalanceRows] /\ row[k][y] \in BalanceRows
      BY <1>4 DEF Tables, Balances
    <3>2. val(k) \in Int
      BY <1>7, <3>1 DEF BalanceRows
    <3> HIDE DEF val
    <3> QED BY <3>1, <3>2 DEF BalanceRows
  <2>3. rows = [k \in Keys |-> rows[k]]
    BY <1>0 DEF Reversed
  <2> HIDE DEF new
  <2>4. ASSUME NEW k \in Keys
        PROVE  /\ rows[k] \in [YearsCovered -> BalanceRows] /\ rows[k][y] = new(k)
               /\ \A z \in YearsCovered : z # y => rows[k][z] = row[k][z]
    <3>1. PICK n, old : n = new(k) /\ old = row[k]
      OBVIOUS
    <3>2. rows[k] = [old EXCEPT ![y] = n] /\ old \in [YearsCovered -> BalanceRows] /\ n \in BalanceRows
      BY <2>1, <2>2, <3>1
    <3> QED BY <1>4, <3>1, <3>2
  <2>5. rows \in Balances
    BY <2>3, <2>4 DEF Balances
  <2> QED BY <2>2, <2>4, <2>5
<1>9. GoodPlan(plan, today, "ACCRUAL") /\ FreshIn(plan, rows, y)
  BY <1>0, <1>1, <1>4, <1>7, <1>8, DefaultsPlanned DEF Tables
<1>10. Unopened(rows)
  BY <1>4, <1>8 DEF Backed, Unopened
<1>11. /\ row' \in Balances /\ LedgerOK(M)
       /\ \A k \in Keys, z \in YearsCovered :
            /\ rows[k][z].exists => row'[k][z].exists
            /\ ~row'[k][z].exists => row'[k][z].accrued = 0
            /\ Net(EntriesOf(M, k, z, Sources)) - Net(EntriesOf(L, k, z, Sources)) <=
                 row'[k][z].accrued - rows[k][z].accrued
       /\ \A x \in M : x \in L \/ /\ x.id = h /\ staff[x.key[1]].state # "NONE"
                                  /\ staff[x.key[1]].joined <= x.at /\ x.at <= today
  <2>1. PICK R : R = row'
    OBVIOUS
  <2>2. R = Applied(rows, plan, leaveYear(today)) /\ today \in 0..LastDay /\ h \in Handlers \cup {0}
    BY <1>0, <1>3, <1>4, <2>1 DEF Tables
  <2>3. GoodPlan(plan, today, "ACCRUAL") /\ FreshIn(plan, rows, leaveYear(today))
    BY <1>0, <1>9
  <2>4. R \in Balances /\ LedgerOK(M) /\ Backing(rows, R, L, M, today, h)
    BY <1>1, <1>7, <1>8, <1>10, <2>2, <2>3, AppliedBacked
  <2> HIDE DEF Net
  <2> QED BY <2>1, <2>4 DEF Backing
<1>12. \A x \in M : x \in entries \/
         (x.id = h /\ (x.source = "ACCRUAL" => /\ staff[x.key[1]].state # "NONE"
                                               /\ staff[x.key[1]].joined <= x.at /\ x.at <= today))
  BY <1>1, <1>7, <1>11
<1>13. ASSUME NEW k \in Keys, NEW z \in YearsCovered
       PROVE  Net(EntriesOf(M, k, z, Sources)) - Net(EntriesOf(entries, k, z, Sources))
                + (HeldBy(c, k, z) - HeldBy(handler[h], k, z)) <= row'[k][z].accrued - row[k][z].accrued
  <2>1. HeldBy(c, k, z) = 0 /\ HeldBy(handler[h], k, z) = 0
    BY <1>3, <1>4, <1>5, HeldValue
  <2>2. /\ Net(EntriesOf(M, k, z, Sources)) \in Int /\ Net(EntriesOf(entries, k, z, Sources)) \in Int
        /\ Net(EntriesOf(L, k, z, Sources)) \in Int
    BY <1>4, <1>7, <1>11, PolicyRows DEF Tables
  <2>3. row'[k][z].accrued \in Int /\ row[k][z].accrued \in Int /\ rows[k][z].accrued \in Int
    BY <1>4, <1>8, <1>11 DEF Tables, Balances, BalanceRows
  <2>4. Net(EntriesOf(L, k, z, Sources)) - Net(EntriesOf(entries, k, z, Sources)) <=
          rows[k][z].accrued - row[k][z].accrued
    <3>1. CASE z = y
      <4> HIDE DEF Net
      <4> QED BY <1>7, <1>8, <2>2, <2>3, <3>1
    <3>2. CASE z # y
      <4>1. Net(EntriesOf(L, k, z, Sources)) = Net(EntriesOf(entries, k, z, Sources))
        BY <1>7, <3>2
      <4> HIDE DEF Net
      <4> QED BY <1>8, <2>2, <2>3, <3>2, <4>1
    <3> QED BY <3>1, <3>2
  <2>5. Net(EntriesOf(M, k, z, Sources)) - Net(EntriesOf(L, k, z, Sources)) <=
          row'[k][z].accrued - rows[k][z].accrued
    BY <1>11
  <2> HIDE DEF Net
  <2> QED BY <2>1, <2>2, <2>3, <2>4, <2>5
<1>14. CallOK(c)'
  <2>1. today' = today
    BY <1>3
  <2> QED BY <1>4, <1>5, <2>1 DEF CallOK
<1>15. \A k \in Keys, z \in YearsCovered : row[k][z].exists => row'[k][z].exists
  BY <1>8, <1>11
<1>16. /\ LedgerOK(entries')
       /\ \A x \in entries' : x \in entries \/
            (x.id = h /\ (x.source = "ACCRUAL" => /\ staff[x.key[1]].state # "NONE"
                                                  /\ staff[x.key[1]].joined <= x.at /\ x.at <= today))
       /\ \A k \in Keys, z \in YearsCovered :
            /\ ~row'[k][z].exists => row'[k][z].accrued = 0
            /\ Net(EntriesOf(entries', k, z, Sources)) - Net(EntriesOf(entries, k, z, Sources))
                 + (HeldBy(c, k, z) - HeldBy(handler[h], k, z)) <= row'[k][z].accrued - row[k][z].accrued
  BY <1>3, <1>11, <1>12, <1>13
<1>17. c.pc # "idle" /\ goLive' \in 0..LastDay /\ row' \in Balances
  BY <1>3, <1>4, <1>5, <1>11
<1> QED BY <1>3, <1>5, <1>14, <1>15, <1>16, <1>17, WritingCall

LEMMA DieStep == ASSUME EInv, NEW h \in Handlers, Die(h) PROVE EInv'
<1>1. handler[h].pc # "idle"
  BY DEF Die, Busy, AtRest
<1> QED BY <1>1, FailedStep DEF Die

(* A call starts: it holds nothing yet.                                     *)
LEMMA BeginStep ==
  ASSUME EInv, NEW h \in Handlers, NEW pc \in {"readCarry", "readDefaults"},
         NEW emps \in SUBSET Emps, NEW tids \in SUBSET LeaveTypes, Begin(h, pc, emps, tids),
         Grows, staff' \in People, UNCHANGED <<today, goLive, setUp, types, row, entries>>
  PROVE  EInv'
<1>0. PICK c : c = [Resting EXCEPT !.pc = pc, !.day = today, !.emps = emps, !.types = tids]
  OBVIOUS
<1>1. Tables /\ setUp /\ handler[h].pc = "idle" /\ handler' = [handler EXCEPT ![h] = c]
  BY <1>0, Zenon DEF EInv, Begin, Free
<1>2. today \in 0..LastDay
  BY <1>1 DEF Tables
<1>3. c \in Calls /\ c.pc = pc /\ c.plan = {} /\ c.todo = {} /\ c.day = today
  BY <1>0, <1>2 DEF Resting, Calls, Pcs
<1>4. CallOK(c)
  BY <1>2, <1>3 DEF CallOK
<1>5. today' \in 0..LastDay
  BY <1>2
<1>6. CallOK(c)'
  BY <1>1, <1>4, <1>5, CallStays
<1>7. handler[h] \in Calls
  BY <1>1 DEF Tables
<1>8. \A k \in Keys, y \in YearsCovered : HeldBy(c, k, y) <= HeldBy(handler[h], k, y)
  BY <1>1, <1>3, <1>7, HeldValue
<1>9. c.pc # "idle"
  BY <1>3
<1> QED BY <1>1, <1>6, <1>8, <1>9, QuietCall

LEMMA EnteringStep == ASSUME EInv, NEW h \in Handlers, Entering(h) PROVE EInv'
<1>1. Tables
  BY DEF EInv
<1>2. ASSUME UNCHANGED <<today, staff, row>> PROVE Grows /\ staff' \in People
  BY <1>1, <1>2 DEF Grows, Tables
<1>3. CASE accrueForTenant(h)
  <2>1. Begin(h, "readCarry", Emps, LeaveTypes) /\ UNCHANGED <<today, goLive, setUp, staff, types, row, entries>>
    BY <1>3, Zenon DEF accrueForTenant
  <2> QED BY <1>2, <2>1, BeginStep
<1>4. ASSUME NEW t \in LeaveTypes, initializeYearlyBalances(h, t) PROVE EInv'
  <2>1. Begin(h, "readDefaults", Emps, {t}) /\ UNCHANGED <<today, goLive, setUp, staff, types, row, entries>>
    BY <1>4, Zenon DEF initializeYearlyBalances
  <2> QED BY <1>2, <2>1, BeginStep
<1>5. ASSUME NEW e \in Emps, NEW joined \in JoinDays, createEmployee(h, e, joined) PROVE EInv'
  <2>1. /\ staff[e].state = "NONE" /\ staff' = [staff EXCEPT ![e] = [state |-> "ACTIVE", joined |-> joined]]
        /\ Begin(h, "readDefaults", {e}, LeaveTypes)
        /\ UNCHANGED <<today, goLive, setUp, types, row, entries>>
    BY <1>5, Zenon DEF createEmployee
  <2>2. Grows /\ staff' \in People
    BY <1>1, <2>1, EntitlementAssumption DEF Grows, Tables, People
  <2> QED BY <2>1, <2>2, BeginStep
<1>6. ASSUME NEW live \in GoLives, recalculate(h, live) PROVE EInv'
  BY <1>6, RecalculateStep
<1> QED BY <1>3, <1>4, <1>5, <1>6 DEF Entering

-----------------------------------------------------------------------------
(* The rest of the tenant leaves calls, ledger and accrued days alone.      *)
LEMMA TickStep == ASSUME EInv, Tick PROVE EInv'
<1>1. Tables
  BY DEF EInv
<1>2. today' \in 0..LastDay /\ today <= today'
  BY <1>1, EntitlementAssumption DEF Tick, Tables
<1>3. Grows
  BY <1>2 DEF Tick, Grows
<1> QED BY <1>1, <1>2, <1>3, QuietOffice DEF Tick, Tables

LEMMA SeparateStep == ASSUME EInv, NEW e \in Emps, separate(e) PROVE EInv'
<1>1. Tables
  BY DEF EInv
<1>2. staff' \in People /\ Grows
  BY <1>1 DEF separate, Tables, People, Grows
<1> QED BY <1>1, <1>2, QuietOffice DEF separate, Tables

LEMMA SaveTypeStep ==
  ASSUME EInv, NEW t \in LeaveTypes, NEW config \in TypeChoices, saveType(t, config) PROVE EInv'
<1>1. Tables
  BY DEF EInv
<1>2. types' \in [LeaveTypes -> TypeChoices] /\ Grows
  BY <1>1 DEF saveType, Tables, Grows
<1> QED BY <1>1, <1>2, QuietOffice DEF saveType, Tables

LEMMA TakeLeaveStep == ASSUME EInv, NEW k \in Keys, takeLeave(k) PROVE EInv'
<1> DEFINE y == leaveYear(today)
           taken == [row[k][y] EXCEPT !.used = @ + OneDay]
           balances == [row[k] EXCEPT ![y] = taken]
<1>1. Tables /\ Untouched /\ y \in YearsCovered
  BY YearOfDay DEF EInv, Tables
<1>2. /\ row' = [row EXCEPT ![k] = balances] /\ row[k][y].exists
      /\ UNCHANGED <<today, goLive, setUp, staff, types, entries, handler>>
  BY <1>1 DEF takeLeave, Tables, Balances
<1>3. row[k] \in [YearsCovered -> BalanceRows] /\ row[k][y] \in BalanceRows
  BY <1>1 DEF Tables, Balances
<1>4. /\ taken \in BalanceRows /\ taken.exists = row[k][y].exists
      /\ taken.accrued = row[k][y].accrued
  BY <1>3 DEF BalanceRows, OneDay
<1> HIDE DEF taken
<1>5. /\ balances \in [YearsCovered -> BalanceRows] /\ balances[y] = taken
      /\ \A z \in YearsCovered : z # y => balances[z] = row[k][z]
  BY <1>1, <1>3, <1>4
<1> HIDE DEF balances
<1>6. row' \in Balances /\ row'[k] = balances /\ \A j \in Keys : j # k => row'[j] = row[j]
  BY <1>1, <1>2, <1>5 DEF Tables, Balances
<1>7. \A j \in Keys, z \in YearsCovered :
        row'[j][z].exists = row[j][z].exists /\ row'[j][z].accrued = row[j][z].accrued
  BY <1>4, <1>5, <1>6
<1>8. setUp
  BY <1>1, <1>2 DEF Untouched, NoRow
<1>9. Grows
  BY <1>1, <1>2, <1>7 DEF Grows, Tables
<1> QED BY <1>1, <1>2, <1>6, <1>7, <1>8, <1>9, QuietOffice DEF Tables

-----------------------------------------------------------------------------
LEMMA NetOfOne == ASSUME NEW x \in Entries PROVE Net({x}) = x.delta
<1> DEFINE f == [z \in {x} |-> z.delta]
<1>1. f[x] = x.delta /\ x.delta \in Int /\ {} \cup {x} = {x} /\ IsFiniteSet({})
  BY FS_EmptySet DEF Entries
<1>2. SumFunctionOnSet(f, {}) = 0
  BY SumEmpty
<1>3. \A z \in {} \cup {x} : f[z] \in Int
  BY <1>1
<1> HIDE DEF f
<1>4. SumFunctionOnSet(f, {} \cup {x}) = f[x] + SumFunctionOnSet(f, {})
  BY <1>1, <1>3, SumAdds
<1>5. SumFunctionOnSet(f, {x}) = x.delta
  BY <1>1, <1>2, <1>4
<1> QED BY <1>5 DEF Net, f

(* Company setup's submit opens the imported balances, with a ledger row    *)
(* for each, and credits what the policy owes on top, in one transaction.   *)
LEMMA SubmitStep == ASSUME EInv, submit PROVE EInv'
<1>0. PICK y, date, opened, openings, plan :
        /\ y = leaveYear(today) /\ date = Later(goLive, yearStart(y))
        /\ opened = [k \in Keys |-> IF k \in Openings
                     THEN [row[k] EXCEPT ![leaveYear(date)] =
                             [exists |-> TRUE, accrued |-> OpeningAmount, used |-> 0]]
                     ELSE row[k]]
        /\ openings = {[id |-> 0, key |-> k, source |-> "OPENING_BALANCE",
                        at |-> date, delta |-> OpeningAmount] : k \in Openings}
        /\ plan = PlanDefaults(today, opened, openings, goLive, Emps, LeaveTypes)
  OBVIOUS
<1>1. PICK M, R : M = openings \cup LedgerRows(0, plan, "ACCRUAL") /\ R = Applied(opened, plan, y)
  OBVIOUS
<1>2. /\ ~setUp /\ row' = R /\ entries' = M /\ setUp' = TRUE
      /\ UNCHANGED <<today, goLive, staff, types, handler>>
  BY <1>0, <1>1 DEF submit
<1>3. Tables /\ CallsOK /\ Untouched /\ Backed
  BY DEF EInv
<1>4. /\ entries = {} /\ \A h \in Handlers : handler[h].pc = "idle"
      /\ \A k \in Keys, z \in YearsCovered : row[k][z] = NoRow
  BY <1>2, <1>3 DEF Untouched
<1>5. /\ today \in 0..LastDay /\ goLive \in 0..LastDay /\ LastDay \in Nat /\ y \in YearsCovered
      /\ date \in 0..LastDay /\ leaveYear(date) \in YearsCovered /\ OpeningAmount \in Nat
  <2>1. today \in 0..LastDay /\ goLive \in 0..LastDay /\ LastDay \in Nat /\ OpeningAmount \in Nat
    BY <1>3, EntitlementAssumption DEF Tables
  <2>2. yearStart(y) \in Nat /\ yearStart(y) <= today
    BY <1>0, <2>1, Calendar
  <2>3. date \in 0..LastDay
    BY <1>0, <2>1, <2>2 DEF Later
  <2> QED BY <1>0, <2>1, <2>3, YearOfDay
<1>6. Openings \subseteq Keys
  BY EntitlementAssumption DEF Keys
<1>7. ASSUME NEW k \in Keys
      PROVE  /\ opened[k] \in [YearsCovered -> BalanceRows]
             /\ \A z \in YearsCovered :
                  opened[k][z] = IF k \in Openings /\ z = leaveYear(date)
                                 THEN [exists |-> TRUE, accrued |-> OpeningAmount, used |-> 0] ELSE NoRow
  <2>1. row[k] \in [YearsCovered -> BalanceRows]
    BY <1>3 DEF Tables, Balances
  <2>2. [exists |-> TRUE, accrued |-> OpeningAmount, used |-> 0] \in BalanceRows
    BY <1>5 DEF BalanceRows
  <2> QED BY <1>0, <1>4, <1>5, <2>1, <2>2
<1>8. opened \in Balances
  BY <1>0, <1>7 DEF Balances
<1>9. ASSUME NEW x \in openings
      PROVE  x \in Entries /\ x.id = 0 /\ x.source = "OPENING_BALANCE" /\ x.key \in Openings
             /\ x.at = date /\ x.delta = OpeningAmount
  BY <1>0, <1>5, <1>6, <1>9 DEF Entries, Sources
<1>10. ASSUME NEW k \in Keys
       PROVE  \/ k \notin Openings /\ OfKey(openings, k) = {}
              \/ k \in Openings /\ \E x \in openings : OfKey(openings, k) = {x}
  <2>1. CASE k \in Openings
    <3>1. PICK x : x = [id |-> 0, key |-> k, source |-> "OPENING_BALANCE",
                        at |-> date, delta |-> OpeningAmount]
      OBVIOUS
    <3>2. x \in openings /\ x.key = k
      BY <1>0, <2>1, <3>1
    <3>3. \A z \in openings : z.key = k => z = x
      BY <1>0, <3>1
    <3> QED BY <2>1, <3>2, <3>3 DEF OfKey
  <2>2. CASE k \notin Openings
    BY <1>9, <2>2 DEF OfKey
  <2> QED BY <2>1, <2>2
<1>11. LedgerOK(openings)
  <2>1. \A k \in Keys : IsFiniteSet(OfKey(openings, k))
    BY <1>10, FS_EmptySet, FS_Singleton
  <2> QED BY <1>9, <2>1 DEF LedgerOK
<1>12. ASSUME NEW k \in Keys, NEW z \in YearsCovered
       PROVE  Net(EntriesOf(openings, k, z, Sources)) = opened[k][z].accrued
  <2>1. CASE k \in Openings /\ z = leaveYear(date)
    <3>1. PICK x \in openings : OfKey(openings, k) = {x}
      BY <1>10, <2>1
    <3>2. EntriesOf(openings, k, z, Sources) = {x}
      BY <1>9, <2>1, <3>1 DEF EntriesOf, OfKey, Entries
    <3>3. Net({x}) = OpeningAmount
      BY <1>9, NetOfOne
    <3> HIDE DEF Net
    <3> QED BY <1>7, <2>1, <3>2, <3>3
  <2>2. CASE ~(k \in Openings /\ z = leaveYear(date))
    <3>1. EntriesOf(openings, k, z, Sources) = {}
      BY <1>9, <2>2 DEF EntriesOf
    <3>2. Net({}) = 0
      BY SumEmpty DEF Net
    <3>3. opened[k][z].accrued = 0
      BY <1>7, <2>2 DEF NoRow
    <3> HIDE DEF Net
    <3> QED BY <3>1, <3>2, <3>3
  <2> QED BY <2>1, <2>2
<1>13. GoodPlan(plan, today, "ACCRUAL") /\ FreshIn(plan, opened, leaveYear(today))
  BY <1>0, <1>3, <1>5, <1>8, <1>11, DefaultsPlanned DEF Tables
<1>14. Unopened(opened)
  BY <1>7 DEF Unopened, NoRow
<1>15. R \in Balances /\ LedgerOK(M) /\ Backing(opened, R, openings, M, today, 0)
  <2>1. R = Applied(opened, plan, leaveYear(today)) /\ 0 \in Handlers \cup {0}
    BY <1>0, <1>1
  <2> QED BY <1>1, <1>5, <1>8, <1>11, <1>13, <1>14, <2>1, AppliedBacked
<1>16. Grows /\ Tables'
  <2>1. Grows
    BY <1>2, <1>4, <1>5 DEF Grows, NoRow
  <2>2. Tables'
    BY <1>2, <1>3, <1>15 DEF Tables
  <2> QED BY <2>1, <2>2
<1>17. CallsOK'
  <2>1. today' \in 0..LastDay
    BY <1>2, <1>5
  <2> QED BY <1>2, <1>3, <1>16, <2>1, CallStays DEF CallsOK
<1>18. EntriesOK'
  <2>1. ASSUME NEW x \in M
        PROVE  x.id = 0 /\ (x.source = "ACCRUAL" => /\ staff[x.key[1]].state # "NONE"
                                                    /\ staff[x.key[1]].joined <= x.at /\ x.at <= today)
    BY <1>9, <1>15, <2>1 DEF Backing
  <2> QED BY <1>2, <2>1 DEF EntriesOK
<1>19. ASSUME NEW k \in Keys, NEW z \in YearsCovered
       PROVE  /\ ~R[k][z].exists => R[k][z].accrued = 0
              /\ Net(EntriesOf(M, k, z, Sources)) + Held(k, z) <= R[k][z].accrued
  <2>1. /\ ~R[k][z].exists => R[k][z].accrued = 0
        /\ Net(EntriesOf(M, k, z, Sources)) - Net(EntriesOf(openings, k, z, Sources)) <=
             R[k][z].accrued - opened[k][z].accrued
    BY <1>15 DEF Backing
  <2>2. R[k][z].accrued \in Int /\ opened[k][z].accrued \in Int
    BY <1>8, <1>15 DEF Balances, BalanceRows
  <2>3. Net(EntriesOf(M, k, z, Sources)) \in Int
    BY <1>15, PolicyRows
  <2>4. Held(k, z) = 0
    <3>1. AccruedBy(k, z, Sources) = 0
      <4>1. EntriesOf(entries, k, z, Sources) = {}
        BY <1>4 DEF EntriesOf
      <4> QED BY <4>1, SumEmpty DEF AccruedBy, Net
    <3>2. AccruedBy(k, z, Sources) + Held(k, z) <= 0
      BY <1>3, <1>4 DEF Backed, NoRow
    <3>3. Held(k, z) \in Nat
      BY <1>3, HeldIsNat
    <3> QED BY <3>1, <3>2, <3>3
  <2> HIDE DEF Net
  <2> QED BY <1>12, <2>1, <2>2, <2>3, <2>4
<1>20. Backed'
  <2>1. \A k \in Keys, z \in YearsCovered : Held(k, z)' = Held(k, z)
    BY <1>2 DEF Held
  <2>2. \A k \in Keys, z \in YearsCovered : AccruedBy(k, z, Sources)' = Net(EntriesOf(M, k, z, Sources))
    BY <1>2 DEF AccruedBy
  <2> HIDE DEF Net
  <2> QED BY <1>2, <1>19, <2>1, <2>2 DEF Backed
<1>21. Untouched'
  BY <1>2 DEF Untouched
<1> QED BY <1>16, <1>17, <1>18, <1>20, <1>21 DEF EInv

-----------------------------------------------------------------------------
LEMMA StepEInv == ASSUME EInv, [ENext]_evars PROVE EInv'
<1>1. ASSUME NEW h \in Handlers, Statement(h) PROVE EInv'
  BY <1>1, ReadCarryStep, ReadDefaultsStep, CreateRowsStep, IncrementRowStep, WriteEntriesStep DEF Statement
<1>2. CASE UNCHANGED evars
  <2>1. Tables' /\ EntriesOK' /\ Untouched'
    BY <1>2 DEF evars, EInv, Tables, EntriesOK, Untouched, LedgerOK
  <2>2. CallsOK'
    BY <1>2 DEF evars, EInv, CallsOK, CallOK, GoodPlan, PlanOK
  <2>3. Backed'
    <3>1. \A k \in Keys, y \in YearsCovered : Held(k, y)' = Held(k, y) /\ AccruedBy(k, y, Sources)' = AccruedBy(k, y, Sources)
      BY <1>2 DEF evars, Held, AccruedBy
    <3> QED BY <1>2, <3>1 DEF evars, EInv, Backed
  <2> QED BY <2>1, <2>2, <2>3 DEF EInv
<1>3. ASSUME NEW h \in Handlers, Entering(h) \/ Statement(h) \/ Die(h) PROVE EInv'
  BY <1>1, <1>3, EnteringStep, DieStep
<1> QED BY <1>2, <1>3, SubmitStep, TickStep, SeparateStep, SaveTypeStep, TakeLeaveStep DEF ENext

(* The go-live day is always one that was offered.                          *)
LEMMA GoLiveStays == ASSUME goLive \in GoLives, [ENext]_evars PROVE goLive' \in GoLives
BY DEF evars, ENext, Entering, Statement, accrueForTenant, initializeYearlyBalances, createEmployee,
       recalculate, ReadCarry, ReadDefaults, CreateRows, IncrementRow, WriteEntries, Die, submit,
       Tick, separate, saveType, takeLeave

LEMMA EInvIsBacked ==
  ASSUME EInv, goLive \in GoLives
  PROVE  EntitlementTypeOK /\ NoCreditBeforeJoining /\ LedgerNeverAhead
<1>1. Tables /\ EntriesOK /\ Backed
  BY DEF EInv
<1>2. EntitlementTypeOK
  <2>1. ASSUME NEW h \in Handlers
        PROVE  /\ handler[h].pc \in AtRest \cup {"readCarry", "readDefaults", "create", "increment"}
               /\ handler[h].todo \subseteq handler[h].plan
               /\ \A p \in handler[h].plan : p.key \in Keys /\ \A c \in p.credits : c \in Credits
    <3>1. CallOK(handler[h])
      BY Zenon DEF EInv, CallsOK
    <3>2. handler[h] \in Calls /\ handler[h].todo \subseteq handler[h].plan
      BY <3>1 DEF CallOK
    <3> QED BY <3>2 DEF Calls, Pcs, Plans
  <2>2. /\ staff \in [Emps -> [state: {"NONE", "ACTIVE", "SEPARATED"}, joined: Nat]]
        /\ row \in [Keys -> [YearsCovered -> [exists: BOOLEAN, accrued: Int, used: Nat]]]
        /\ \A x \in entries : x \in [id: Handlers \cup {0}, key: Keys, source: Sources,
                                     at: 0..LastDay, delta: Int]
    BY <1>1 DEF Tables, People, Balances, BalanceRows, LedgerOK, Entries
  <2> QED BY <1>1, <2>1, <2>2 DEF EntitlementTypeOK, Tables
<1>3. NoCreditBeforeJoining
  BY <1>1 DEF EntriesOK, NoCreditBeforeJoining
<1>4. LedgerNeverAhead
  <2> SUFFICES ASSUME NEW k \in Keys, NEW y \in YearsCovered
               PROVE  AccruedBy(k, y, Sources) <= row[k][y].accrued
    BY DEF LedgerNeverAhead
  <2>1. Held(k, y) \in Nat /\ AccruedBy(k, y, Sources) + Held(k, y) <= row[k][y].accrued
    BY <1>1, HeldIsNat DEF Backed
  <2>2. AccruedBy(k, y, Sources) \in Int /\ row[k][y].accrued \in Int
    BY <1>1, PolicyRows DEF AccruedBy, Tables, Balances, BalanceRows
  <2> QED BY <2>1, <2>2
<1> QED BY <1>2, <1>3, <1>4

(* Whatever calls overlap, die or start again, for any tenant and calendar: *)
(* the tables are well typed, an accrual is never dated before its employee *)
(* joined or ahead of the day, and every day in the ledger is in a balance: *)
(* applyPolicyDefaults() and applyCarryForward() write balances first and   *)
(* their ledger rows last, submit and recalculate() both in one transaction.*)
THEOREM CreditsStayBacked == ESpec => []CreditsAreBacked
<1>1. EInit => EInv /\ goLive \in GoLives
  BY InitEInv DEF EInit
<1>2. EInv /\ goLive \in GoLives /\ [ENext]_evars => (EInv /\ goLive \in GoLives)'
  BY StepEInv, GoLiveStays
<1>3. EInv /\ goLive \in GoLives => CreditsAreBacked
  BY EInvIsBacked DEF CreditsAreBacked
<1> QED BY <1>1, <1>2, <1>3, PTL DEF ESpec
=============================================================================
