---------------------------- MODULE LeaveCredits ----------------------------
(***************************************************************************)
(* The pure entitlement arithmetic of apps/api/src/leave/leave-entitlement *)
(* .ts.  Amounts are hundredths of a day, so that round2 is exact; a leave *)
(* year is YearLen days long and a MONTHLY or QUARTERLY period Step[f]     *)
(* days (the calendar's uneven months are abstracted to equal ones).       *)
(***************************************************************************)
EXTENDS Integers, FiniteSets, Functions

CONSTANTS
    YearLen,  \* days in a leave year
    Step      \* days in a period of each periodic accrual frequency

ASSUME CalendarAssumption ==
    /\ YearLen \in Nat \ {0}
    /\ Step \in [{"MONTHLY", "QUARTERLY"} -> 1..YearLen]
    /\ \A f \in DOMAIN Step : YearLen % Step[f] = 0

Frequencies == {"ANNUAL"} \cup DOMAIN Step
Lesser(a, b) == IF a <= b THEN a ELSE b
Later(a, b)  == IF a >= b THEN a ELSE b
OneDay == 100

(* Math.round of a quotient of non-negative integers: half rounds up. *)
RoundDiv(a, b) == (2 * a + b) \div (2 * b)

(* A number of days num/den, given in hundredths, as whole days. *)
wholeDays(num, den) == OneDay * RoundDiv(num, OneDay * den)

leaveYear(day) == day \div YearLen
yearStart(y)   == y * YearLen
yearEnd(y)     == (y + 1) * YearLen

(* accrualPeriods(): the periods of a leave year, as their start days. *)
PeriodLen(f) == IF f = "ANNUAL" THEN YearLen ELSE Step[f]
accrualPeriods(f, y) ==
    {yearStart(y) + i * PeriodLen(f) : i \in 0..(YearLen \div PeriodLen(f) - 1)}

(* periodContaining(): the start of the period of leave year y holding `at`. *)
periodContaining(f, at) == at - (at % PeriodLen(f))

(* effectiveStart(): latest of the year's start, the joining and go-live day. *)
effectiveStart(y, joined, goLive) == Later(yearStart(y), Later(joined, goLive))

(* What a period that has begun is worth before the annual cap. *)
PeriodShare(f, quota, p, start) ==
    LET n == YearLen \div PeriodLen(f) IN
    IF start > p
    THEN wholeDays(quota * (p + PeriodLen(f) - start), YearLen)
    ELSE IF f = "ANNUAL" THEN quota ELSE RoundDiv(quota, n)

(* Mutant of Owed: only the current period. *)
OwedNowOnly(p, f, start, today, credited) ==
    /\ p <= today /\ today < p + PeriodLen(f)
    /\ p + PeriodLen(f) > start /\ p \notin credited

Owed(p, f, start, today, credited) ==
    p <= today /\ p + PeriodLen(f) > start /\ p \notin credited

(* creditsDue(): the credits still owed, each dated in its period.  The     *)
(* loop over the periods gives each what it is worth while the quota lasts: *)
(* the first i periods get what they are worth together, or all that is     *)
(* left of the quota when that is less.                                     *)
creditsDue(f, quota, y, start, today, credited, soFar, hasOpening) ==
    LET n == YearLen \div PeriodLen(f)
        period(i) == yearStart(y) + (i - 1) * PeriodLen(f)
        due(i) == /\ Owed(period(i), f, start, today, credited)
                  /\ f = "ANNUAL" => ~hasOpening /\ credited = {}
        worth == [i \in 1..n |-> IF due(i) THEN PeriodShare(f, quota, period(i), start) ELSE 0]
        given == [i \in 0..n |-> Lesser(quota - soFar, SumFunctionOnSet(worth, 1..i))]
    IN  IF quota <= 0 \/ start >= yearEnd(y) \/ start > today \/ quota <= soFar
        THEN {}
        ELSE {[at |-> Later(start, period(i)), amount |-> given[i] - given[i - 1]] :
                i \in {j \in 1..n : due(j) /\ given[j] > given[j - 1]}}

(* carryForwardDays(): the unused balance, capped. *)
carryForwardDays(available, cap) ==
    IF cap <= 0 \/ available <= 0 THEN 0 ELSE Lesser(available, cap)

CreditTotal(credits) == SumFunctionOnSet([c \in credits |-> c.amount], credits)
=============================================================================
