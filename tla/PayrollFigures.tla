---------------------------- MODULE PayrollFigures ----------------------------
(***************************************************************************)
(* The arithmetic of payroll (apps/api/src/payroll: payroll-calculator,     *)
(* salary-components, working-days, professional-tax, tds-calculator,       *)
(* financial-year, full-and-final-calculator, bank-codes).  Amounts are     *)
(* whole paise; a factor is a pair of naturals, so that rounding half up is *)
(* exact.                                                                  *)
(***************************************************************************)
EXTENDS Integers, Sequences, FiniteSets
LOCAL INSTANCE FiniteSetsExt
LOCAL INSTANCE Folds

CONSTANTS
    Codes_,         \* component codes, "BASIC" among them
    EpfCeiling, EsiCeiling,
    PtSlabs,        \* set of [from, to, amount, feb]; to = Open for none
    TaxSlabs,       \* regime |-> set of [from, to, rate]
    TaxConfig,      \* regime |-> [deduction, cess, threshold, rebate]
    Open

(* toDecimalPlaces(0, ROUND_HALF_UP) of a / b; b > 0. *)
RoundHalfUp(a, b) == IF a >= 0 THEN (2 * a + b) \div (2 * b) ELSE -((2 * (-a) + b) \div (2 * b))
roundRupee(a, b) == 100 * RoundHalfUp(a, 100 * b)
roundPaise(a, b) == RoundHalfUp(a, b)
AtMost(a, b) == IF a < b THEN a ELSE b
AtLeast(a, b) == IF a < b THEN b ELSE a

(***************************************************************************)
(* resolveMonthlyAmounts(): depth first; a code that is not there and a      *)
(* component already being visited are errors (no amount, {}).  A formula is *)
(* CTC less the components it names.                                        *)
(***************************************************************************)
References(c) == CASE c.mode = "PERCENT_OF_BASIC" -> {"BASIC"}
                   [] c.mode = "FORMULA" -> c.refs
                   [] OTHER -> {}
Resolvable(comps, code, visiting) == code \in DOMAIN comps /\ code \notin visiting

Visited(comps, code, amounts, ctc) ==
    LET c == comps[code] IN
    CASE c.mode = "FIXED" -> c.value
      [] c.mode = "PERCENT_OF_CTC" -> (ctc * c.value) \div 100
      [] c.mode = "PERCENT_OF_BASIC" -> (amounts["BASIC"] * c.value) \div 100
      [] OTHER -> ctc - MapThenSumSet(LAMBDA r : amounts[r], c.refs)
resolveMonthlyAmounts(comps, ctc) ==
    LET amount[code \in Codes_, visiting \in SUBSET Codes_] ==
          IF ~Resolvable(comps, code, visiting) THEN {}
          ELSE LET of == [r \in References(comps[code]) |-> amount[r, visiting \cup {code}]]
               IN IF \E r \in DOMAIN of : of[r] = {} THEN {}
                  ELSE {Visited(comps, code, [r \in DOMAIN of |-> CHOOSE v \in of[r] : TRUE], ctc)}
    IN [code \in DOMAIN comps |-> amount[code, {}]]

(***************************************************************************)
(* The working days of a month: days are numbers, the weekday of day d is    *)
(* d % 7.                                                                   *)
(***************************************************************************)
effectiveWeeklyOffDays(tenant, override) == IF override # {} THEN override ELSE tenant
countWorkingDays(start, end, holidays, off) ==
    Cardinality({d \in start..end : d \notin holidays /\ d % 7 \notin off})
EmployedTo(to, end) == AtMost(to, end)
computePayableDays(start, end, holidays, off, lop, from, to) ==
    LET first == AtLeast(from, start)
        last == EmployedTo(to, end)
        employed == IF first > last THEN 0 ELSE countWorkingDays(first, last, holidays, off)
    IN [workingDays |-> countWorkingDays(start, end, holidays, off), payableDays |-> AtLeast(0, employed - lop)]

(***************************************************************************)
(* calculatePayroll(): earnings, prorated and rounded one by one; EPF on the *)
(* prorated Basic up to the ceiling; ESI on the gross paid if the full gross *)
(* is within its ceiling; professional tax on the gross paid.                *)
(***************************************************************************)
resolveProfessionalTax(gross, month) ==
    LET hit == {s \in PtSlabs : gross >= s.from /\ (s.to = Open \/ gross < s.to)}
    IN IF hit = {} THEN 0
       ELSE LET s == CHOOSE x \in hit : TRUE IN IF month = 2 /\ s.feb # Open THEN s.feb ELSE s.amount
Prorated(amount, payable, working) == IF working = 0 THEN 0 ELSE roundPaise(amount * payable, working)
EsiApplicable(full, paid) == full <= EsiCeiling

calculatePayroll(basic, other, overtime, working, payable, month, tds, allowNegativeNet) ==
    LET full == basic + other + overtime
        paidBasic == Prorated(basic, payable, working)
        gross == paidBasic + Prorated(other, payable, working) + overtime
        epfWages == AtMost(paidBasic, EpfCeiling)
        epf == roundRupee(epfWages * 12, 100)
        esi == IF EsiApplicable(full, gross) THEN roundRupee(gross * 3, 400) ELSE 0
        pt == roundRupee(resolveProfessionalTax(gross, month), 1)
        net == gross - (epf + esi + pt + tds)
    IN [ok |-> payable <= working /\ (net >= 0 \/ allowNegativeNet),
        full |-> full, gross |-> gross, lop |-> full - gross, epf |-> epf, esi |-> esi, pt |-> pt, net |-> net]

(***************************************************************************)
(* Income tax (whole rupees; a tax is in hundredths of a rupee): slabs, the   *)
(* 87A rebate, marginal relief in the new regime, cess; and its months.      *)
(***************************************************************************)
InSlab(income, s) == AtLeast(0, (IF s.to = Open THEN income ELSE AtMost(income, s.to)) - s.from)
slabTax(income, regime) == MapThenSumSet(LAMBDA s : IF income > s.from THEN InSlab(income, s) * s.rate ELSE 0, TaxSlabs[regime])

BeforeCess(income, regime) ==
    LET t == slabTax(income, regime)
        c == TaxConfig[regime]
    IN IF income <= c.threshold THEN AtLeast(0, t - 100 * c.rebate)
       ELSE IF regime = "NEW" /\ slabTax(c.threshold, regime) <= 100 * c.rebate
            THEN AtMost(t, 100 * (income - c.threshold)) ELSE t
projectAnnualTax(gross, exemptions, regime) ==   \* in ten-thousandths
    LET income == AtLeast(0, gross - TaxConfig[regime].deduction - (IF regime = "OLD" THEN exemptions ELSE 0))
    IN BeforeCess(income, regime) * (100 + TaxConfig[regime].cess)

(* financial-year.util: April is month 1 of its year. *)
FyMonth(calendarMonth) == IF calendarMonth >= 4 THEN calendarMonth - 3 ELSE calendarMonth + 9
monthsRemainingInFinancialYear(calendarMonth) == 13 - FyMonth(calendarMonth)

Outstanding(annual, deducted) == annual - 10000 * deducted
computeMonthlyTds(regime, current, elapsed, deducted, remaining, exemptions) ==
    LET annual == projectAnnualTax(elapsed + current * remaining, exemptions, regime)
        due == Outstanding(annual, deducted)
    IN IF remaining <= 0 \/ due <= 0 THEN 0 ELSE RoundHalfUp(due, 10000 * remaining)

(***************************************************************************)
(* Dates of service: Date.UTC carries an overflow of days into the next      *)
(* month.  A date is a day number.                                          *)
(***************************************************************************)
Leap(y) == y % 4 = 0
MonthDays(y, m) == CASE m = 2 -> IF Leap(y) THEN 29 ELSE 28 [] m \in {4, 6, 9, 11} -> 30 [] OTHER -> 31
DateUTC(y, m, d) ==
    LET year == y + ((m - 1) \div 12)
        month == 1 + ((m - 1) % 12)
    IN 365 * year + ((year + 3) \div 4) + MapThenSumSet(LAMBDA k : MonthDays(year, k), 1..(month - 1)) + d

RoundsUp(to, half) == to > half
Anniversary(from, y) ==   \* of 29 February, the first of March in other years
    IF from.d > MonthDays(y, from.m) THEN [y |-> y, m |-> from.m + 1, d |-> from.d - MonthDays(y, from.m)]
    ELSE [y |-> y, m |-> from.m, d |-> from.d]
completedYearsOfService(from, to) ==   \* [y, m, d]
    LET day == DateUTC(to.y, to.m, to.d)
        years == (to.y - from.y) - (IF day < DateUTC(to.y, from.m, from.d) THEN 1 ELSE 0)
        last == Anniversary(from, from.y + years)
    IN IF years < 0 THEN 0
       ELSE years + IF RoundsUp(day, DateUTC(last.y, last.m + 6, last.d)) THEN 1 ELSE 0
calculateGratuity(basic, years, eligibility, cap) ==
    IF years < eligibility THEN 0 ELSE AtMost(RoundHalfUp(basic * 15 * years, 26), cap)
calculateLeaveEncashment(monthly, days, divisor) == RoundHalfUp(monthly * days, divisor)

(***************************************************************************)
(* The rows of the bank file.                                              *)
(***************************************************************************)
RtgsMin == 200000
ImpsMax == 500000
resolvePaymentMode(ownBank, amount, preferred) ==
    IF ownBank THEN "OWN_BANK"
    ELSE IF (preferred = "RTGS" /\ amount < RtgsMin) \/ (preferred = "IMPS" /\ amount > ImpsMax) THEN "NEFT"
    ELSE preferred
validateBankRow(r) == r.account = "digits" /\ r.ifsc = "valid" /\ r.name # "" /\ r.amount > 0
collect(rows) == [in |-> {r \in rows : validateBankRow(r)}, out |-> {r \in rows : ~validateBankRow(r)}]
=============================================================================
