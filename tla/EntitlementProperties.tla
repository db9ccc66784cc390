----------------------- MODULE EntitlementProperties -----------------------
(* What the entitlement engine promises about balances and the ledger.      *)
EXTENDS LeaveEntitlement

CONSTANTS
    Quotas,   \* yearly quotas
    Starts    \* effective start days

VARIABLE year   \* [freq, quota, start, day, rows]: a leave year and its ledger rows so far

(***************************************************************************)
(* creditsDue() over a leave year of one employee and one leave type: the   *)
(* daily job (leave-accrual.processor.ts) runs on the days of some set      *)
(* (missed days are days not in it), each run crediting what is due given   *)
(* what the earlier runs credited.  It is a year of its own, twice as long. *)
(***************************************************************************)
D == INSTANCE LeaveCredits WITH YearLen <- 2 * YearLen

NoAccrual == [freq |-> "ANNUAL", quota |-> 0, start |-> 0, day |-> 0, rows |-> {}]
CreditsInit ==
    \E f \in D!Frequencies, q \in Quotas, s \in Starts :
      year = [freq |-> f, quota |-> q, start |-> s, day |-> 0, rows |-> {}]

OwedNow(y) ==
    D!creditsDue(y.freq, y.quota, 0, y.start, y.day,
                 {D!periodContaining(y.freq, c.at) : c \in y.rows}, D!CreditTotal(y.rows), FALSE)

(* A run of the daily job on the current day. *)
RunCredits == year' = [year EXCEPT !.rows = @ \cup OwedNow(year)]
NextDay == year.day < 2 * YearLen - 1 /\ year' = [year EXCEPT !.day = @ + 1]
-----------------------------------------------------------------------------

Sources == {"ACCRUAL", "ACCRUAL_REVERSAL", "CARRY_FORWARD", "OPENING_BALANCE"}
Credits == [at: 0..LastDay, amount: Nat \ {0}]

(* Type correctness of the tables and of the calls. *)
EntitlementTypeOK ==
    /\ today \in 0..LastDay /\ goLive \in GoLives /\ setUp \in BOOLEAN
    /\ staff \in [Emps -> [state: {"NONE", "ACTIVE", "SEPARATED"}, joined: Nat]]
    /\ types \in [LeaveTypes -> TypeChoices]
    /\ row \in [Keys -> [YearsCovered -> [exists: BOOLEAN, accrued: Int, used: Nat]]]
    /\ \A x \in entries : x \in [id: Handlers \cup {0}, key: Keys, source: Sources,
                                 at: 0..LastDay, delta: Int]
    /\ \A h \in Handlers :
         /\ handler[h].pc \in AtRest \cup {"readCarry", "readDefaults", "create", "increment"}
         /\ handler[h].todo \subseteq handler[h].plan
         /\ \A p \in handler[h].plan : p.key \in Keys /\ \A c \in p.credits : c \in Credits

AtPeace == Busy = {}
AccruedBy(k, y, sources) == Net(EntriesOf(entries, k, y, sources))
Largest(S) == CHOOSE m \in S : \A x \in S : x <= m
TopQuota == Largest({c.quota : c \in TypeChoices})
TopShare == Largest({PeriodShare(c.freq, c.quota, 0, 0) : c \in TypeChoices})
TopCap   == Largest({c.cap : c \in TypeChoices})

(* The engine writes a balance and its ledger rows in separate statements;  *)
(* calls that do not overlap leave every balance row equal to the sum of    *)
(* its ledger rows, through setup, re-runs, new employees, policy changes,  *)
(* carry-forward and recalculation.                                         *)
AccruedIsLedger ==
    AtPeace => \A k \in Keys, y \in YearsCovered :
      row[k][y].accrued = AccruedBy(k, y, Sources)

(* A period credited is not credited again: whatever calls ran, the net of  *)
(* a leave year's policy credits stays within the largest quota configured, *)
(* and the net of a period within one full credit.                          *)
CreditedOnce ==
    \A k \in Keys, y \in YearsCovered :
      LET policyRows == EntriesOf(entries, k, y, Policy)
          f == types[k[2]].freq
      IN  /\ Net(policyRows) <= TopQuota
          /\ \A p \in accrualPeriods(f, y) : NetOfPeriod(policyRows, f, p) <= TopShare

(* Unused days are carried into a leave year at most once and never beyond  *)
(* the cap, even when the job runs on several days of the first week.       *)
CarriedOnce ==
    \A k \in Keys, y \in YearsCovered :
      LET carried == EntriesOf(entries, k, y, {"CARRY_FORWARD"}) IN
      Cardinality(carried) <= 1 /\ Net(carried) <= TopCap

(* Nothing is credited for days before an employee joined, nor ahead of     *)
(* time, even by calls that overlap or die (a joining date that the import   *)
(* moves after the credit is not modelled).                                  *)
NoCreditBeforeJoining ==
    \A x \in entries : x.source = "ACCRUAL" =>
      staff[x.key[1]].joined <= x.at /\ x.at <= today

(* What every statement sequence preserves, dead or overlapping calls       *)
(* included: a ledger row is only ever written after its days were added to *)
(* the balance, so the ledger never claims more than the balance holds.     *)
LedgerNeverAhead ==
    \A k \in Keys, y \in YearsCovered : AccruedBy(k, y, Sources) <= row[k][y].accrued

Begun == {p \in D!accrualPeriods(year.freq, 0) : p <= year.day /\ p + D!PeriodLen(year.freq) > year.start}

(* However many daily runs were missed, a run catches up exactly: after it  *)
(* the credits are those of running every day, one per period that began    *)
(* after the effective start (a rounded-off zero share counts as none), and *)
(* a second run the same day is owed nothing.                               *)
CatchesUp ==
    [][RunCredits => /\ year.start <= year.day =>
                            D!CreditTotal(year'.rows) =
                              Lesser(year.quota, SumFunctionOnSet(
                                [p \in Begun |-> D!PeriodShare(year.freq, year.quota, p, year.start)], Begun))
                       /\ OwedNow(year') = {}]_year

(* Credits never exceed the annual quota, no period holds two of them, and  *)
(* none is dated before the effective start or after the day it was made.   *)
CreditsAreInBounds ==
    /\ D!CreditTotal(year.rows) <= year.quota
    /\ \A c, d \in year.rows : D!periodContaining(year.freq, c.at) = D!periodContaining(year.freq, d.at) => c = d
    /\ \A c \in year.rows : year.start <= c.at /\ c.at <= year.day
-----------------------------------------------------------------------------
(* Under every interleaving, and after calls that died: the tables are well *)
(* typed, and every ledger row of a credit has its balance and its day.     *)
CreditsAreBacked == EntitlementTypeOK /\ NoCreditBeforeJoining /\ LedgerNeverAhead

(* creditsDue() catches up with missed runs and stays within the quota.     *)
CreditsCatchUp == CatchesUp /\ []CreditsAreInBounds
=============================================================================
