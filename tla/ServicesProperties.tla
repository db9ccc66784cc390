-------------------------- MODULE ServicesProperties --------------------------
(***************************************************************************)
(* What e-mail, documents, settlements and the payroll figures promise.     *)
(***************************************************************************)
EXTENDS Notifications, Documents, Settlements, Functions

(***************************************************************************)
(* The income tax an employee's runs of one financial year deduct           *)
(* (apps/api/src/payroll/tds.service.ts, payroll-run.service.ts): a run     *)
(* projects the year from what the runs that are PROCESSED paid and         *)
(* deducted, and may be drafted before the month before it is.  Amounts are *)
(* scaled down, a slab of four lakh is 400.                                *)
(***************************************************************************)
CONSTANTS
    Grosses,     \* monthly gross salaries
    FirstMonths, \* months of the year an employee may start in
    MaxOpen      \* bound: runs that are not settled at once

VARIABLE
    taxYear   \* [month, elapsed, deducted, open, last]: the month of the next
              \* run, the sums of the earliest months, all PROCESSED, the items
              \* [gross, tds, regime, done, whole, over] of the months after
              \* these, and the last item to join the sums

NoEnd == 1000000000   \* an open-ended slab
IncomeSlabs ==
    [NEW |-> {[from |-> 0, to |-> 400, rate |-> 0], [from |-> 400, to |-> 800, rate |-> 5],
              [from |-> 800, to |-> 1200, rate |-> 10], [from |-> 1200, to |-> 1600, rate |-> 15],
              [from |-> 1600, to |-> 2000, rate |-> 20], [from |-> 2000, to |-> 2400, rate |-> 25],
              [from |-> 2400, to |-> NoEnd, rate |-> 30]},
     OLD |-> {[from |-> 0, to |-> 250, rate |-> 0], [from |-> 250, to |-> 500, rate |-> 5],
              [from |-> 500, to |-> 1000, rate |-> 20], [from |-> 1000, to |-> NoEnd, rate |-> 30]}]
F == INSTANCE PayrollFigures WITH
       Codes_ <- {"BASIC", "HRA", "SPECIAL"},
       EpfCeiling <- 1500000, EsiCeiling <- 2100000, Open <- NoEnd,
       PtSlabs <- {[from |-> 0, to |-> 750000, amount |-> 0, feb |-> NoEnd],
                   [from |-> 750000, to |-> 1000000, amount |-> 17500, feb |-> NoEnd],
                   [from |-> 1000000, to |-> NoEnd, amount |-> 20000, feb |-> 30000]},
       TaxSlabs <- IncomeSlabs,
       TaxConfig <- [NEW |-> [deduction |-> 75, cess |-> 4, threshold |-> 1200, rebate |-> 60],
                     OLD |-> [deduction |-> 50, cess |-> 4, threshold |-> 500, rebate |-> 13]]

NoItem == [gross |-> 0, tds |-> 0, regime |-> "NEW", done |-> FALSE, whole |-> TRUE, over |-> 0]
NoYear == [month |-> 13, elapsed |-> 0, deducted |-> 0, open |-> <<>>, last |-> NoItem]
TaxYearInit == \E m \in FirstMonths : taxYear = [NoYear EXCEPT !.month = m]

(* Mutant of Remaining: this month is not counted. *)
RemainingAfter(month) == 12 - month

Remaining(month) == 13 - month

Paying(open, I) == SumFunctionOnSet([j \in DOMAIN open |-> open[j].gross], I)
Taxing(open, I) == SumFunctionOnSet([j \in DOMAIN open |-> open[j].tds], I)

(* The employee's item in the run of the i-th open month: only the months     *)
(* before it whose run is PROCESSED or DISBURSED are summed (the items of a   *)
(* re-process never are).  `whole` says that was all of them.                 *)
buildContext(y, i, gross, regime) ==
    LET month == y.month - Len(y.open) + i - 1
        seen == {j \in 1..(i - 1) : y.open[j].done}
        deducted == y.deducted + Taxing(y.open, seen)
        tds == F!computeMonthlyTds(regime, gross, y.elapsed + Paying(y.open, seen), deducted, Remaining(month), 0)
    IN [gross |-> gross, tds |-> tds, regime |-> regime, done |-> FALSE,
        whole |-> seen = 1..(i - 1), over |-> IF tds = 0 THEN deducted ELSE 0]

(* The run of the next month, with the pay and the regime of the day: it does  *)
(* not wait for the month before.                                              *)
createDraft(gross, regime) ==
    LET y == [taxYear EXCEPT !.month = @ + 1, !.open = Append(@, NoItem)]
        i == Len(y.open)
    IN /\ taxYear.month <= 12 /\ i <= MaxOpen
       /\ taxYear' = [y EXCEPT !.open[i] = buildContext(y, i, gross, regime)]

(* recalculate() reads it all again, while the run is not processed. *)
recalculate(i, gross, regime) ==
    /\ ~taxYear.open[i].done
    /\ taxYear' = [taxYear EXCEPT !.open[i] = buildContext(taxYear, i, gross, regime)]

(* process(): the items count from now on; months with none open before them  *)
(* join the sums.                                                             *)
process(i) ==
    LET y == [taxYear EXCEPT !.open[i].done = TRUE]
        n == CHOOSE k \in 0..Len(y.open) : (\A j \in 1..k : y.open[j].done) /\ (k < Len(y.open) => ~y.open[k + 1].done)
    IN /\ ~taxYear.open[i].done
       /\ taxYear' = [y EXCEPT !.elapsed = @ + Paying(y.open, 1..n), !.deducted = @ + Taxing(y.open, 1..n),
                               !.open = SubSeq(@, n + 1, Len(@)),
                               !.last = IF y.month = 13 /\ n = Len(y.open) THEN y.open[n] ELSE @]

TaxYearNext ==
    \/ \E g \in Grosses, r \in {"OLD", "NEW"} :
         createDraft(g, r) \/ \E i \in DOMAIN taxYear.open : recalculate(i, g, r)
    \/ \E i \in DOMAIN taxYear.open : process(i)
-----------------------------------------------------------------------------

VARIABLE case   \* the input of the figures under consideration, a record with its kind

(***************************************************************************)
(* E-mail.                                                                 *)
(***************************************************************************)
(* SES accepts a mail once for each time it was asked for (the event, a       *)
(* retry by HR) and once more for each time its SENT could not be written,    *)
(* whatever sweeps, retries and workers overlap: a sweep that read the row    *)
(* before it was sent finds it SENT.                                          *)
EachAskSendsOnce == \A r \in Rows : accepted[r] <= asked[r] + unrecorded[r]

(* No mail is handed to SES for an address that was on the suppression list   *)
(* when its send began, however the entry came there.                         *)
NoMailToSuppressed ==
    \A w \in Workers : calm /\ calls[w].pc = "callSes" => calls[w].job[2] \notin suppressed

(* After a bounce is handled for the mail a row names, the Email log does     *)
(* not say SENT, unless calls overlapped (a bounce that arrives before SENT   *)
(* is written is lost).                                                       *)
BounceShows == calm => \A r \in Rows : log[r].status = "SENT" => <<r, log[r].msg>> \notin bounced

(* A row leaves the queue: a lost caller, a Redis that is down, a lost worker *)
(* and an SES that refuses are made good by the sweep and the last attempt.   *)
QueuedIsSettled == \A r \in Rows : (log[r].status = "QUEUED") ~> (log[r].status # "QUEUED")

(***************************************************************************)
(* Documents.                                                              *)
(***************************************************************************)
(* A download URL of malware is issued only where nothing is scanned: not     *)
(* for a file whose scan is pending, failed or lost half-way.                 *)
MalwareIsNotServed == [][\A f \in Files \cap Infected : f \in served' \ served => ~scanningEnabled]_<<docVars>>

(* An infected row's object is gone from the bucket.                          *)
InfectedIsGone == \A f \in Files : row[f].scan = "INFECTED" => f \notin stored

(* A record that was given an attachment keeps exactly one, when uploads do   *)
(* not overlap and none is deleted by hand.                                   *)
OneAttachment ==
    calm /\ Quiet => Cardinality({f \in Attached : row[f].live}) <= 1
AttachmentKept ==
    [][calm' /\ (\E f \in Attached : row[f].live) /\ (\A f \in Attached : ~row'[f].live)
         => ~\E h \in Clients : calls[h] # Idle]_<<docVars, callVars>>

(* Every object has its row, but for the ones a lost process or a bucket that *)
(* does not answer left behind.                                               *)
ObjectsHaveRows ==
    \A f \in stored : row[f] # NoRow \/ f \in orphaned \/ \E h \in Clients : calls[h] # Idle /\ calls[h].f = f

(* With scanning on, every live document is decided, or is malware whose      *)
(* object was deleted by a worker that was lost before it wrote the verdict.  *)
DocumentsAreDecided ==
    \A f \in Files : (row[f].live /\ scanningEnabled) ~> (Decided(f) \/ f \notin stored)

(***************************************************************************)
(* Settlements and settings of payroll.                                    *)
(***************************************************************************)
(* The net of a settlement is its parts less the advance, whatever overlaps:  *)
(* the parts never change after generate().                                   *)
SettlementAddsUp == \A e \in Leavers : fnf[e].net = fnf[e].parts - fnf[e].advance

(* An approved settlement's figures stand, and a paid one's status, when      *)
(* decisions follow one another.                                              *)
SettlementStands ==
    [][calm' => \A e \in Leavers : fnf[e].status \in {"APPROVED", "PAID"} =>
         fnf'[e] \in {fnf[e], [fnf[e] EXCEPT !.status = "PAID"]}]_<<fnfVars, callVars>>

(* The salary import writes at most one structure per employee, and what its  *)
(* report calls saved is a revision it wrote.                                 *)
OneRevisionPerEmployee ==
    /\ \A e \in Paid : revisions[e] = Cardinality({i \in reported : sheet[i].who = e})
    /\ \A e \in Paid : revisions[e] <= 1
(* What HR wrote is replaced only by the import, once, and only for an        *)
(* employee who had a structure when the import read: an edit of it made      *)
(* since is lost.  A structure HR made since for an employee who had none     *)
(* stands, and its row is not reported as saved.                              *)
EditedSalaryStands ==
    [][\A e \in Paid : salary[e] = 7 /\ salary'[e] # 7 =>
         /\ \E h \in Handlers : calls[h].pc = "importRows" /\ e \in calls[h].had
         /\ revisions[e] = 0 /\ revisions'[e] = 1]_<<importVars_, callVars>>

(* The slabs of a year are the seeded table or the one saved last: two tables *)
(* are never mixed, which would tax the same income twice, unless calls       *)
(* overlapped (a first read that seeds after an admin's save mixes them).     *)
TablesDoNotMix == calm => slabs \in {{}, DefaultStarts, edited}
(* Once seeded the year has both its slabs and its rates, unless a call was   *)
(* lost between the two (it is then never seeded again).                      *)
RatesExist == calm /\ Quiet => (slabs # {} <=> config)

(***************************************************************************)
(* The figures.                                                            *)
(***************************************************************************)
Of(kind) == case.kind = kind

(* resolveMonthlyAmounts() gives every component an amount exactly when no    *)
(* reference dangles or closes a circle, and the amounts satisfy each         *)
(* component's own definition.                                                *)
Grounded(comps) ==
    \E rank \in [DOMAIN comps -> 1..3] : \A c \in DOMAIN comps : \A r \in F!References(comps[c]) :
        r \in DOMAIN comps /\ rank[r] < rank[c]
AmountsSatisfyComponents ==
    Of("amounts") =>
        LET a == F!resolveMonthlyAmounts(case.comps, case.ctc)
            v == [c \in DOMAIN a |-> CHOOSE x \in a[c] : TRUE] IN
        /\ (\A c \in DOMAIN a : a[c] # {}) <=> Grounded(case.comps)
        /\ Grounded(case.comps) => \A c \in DOMAIN a :
             LET k == case.comps[c] IN
             CASE k.mode = "FIXED" -> v[c] = k.value
               [] k.mode = "PERCENT_OF_CTC" -> 100 * v[c] = case.ctc * k.value
               [] k.mode = "PERCENT_OF_BASIC" -> 100 * v[c] = v["BASIC"] * k.value
               [] OTHER -> v[c] = case.ctc - SumFunctionOnSet(v, k.refs)

(* A month cut in two by a leaving date pays each working day once: the days  *)
(* up to it and the days after it make the month.                             *)
DaysPartition ==
    Of("days") =>
        LET pay(from, to) == F!computePayableDays(1, 28, case.holidays, case.off, 0, from, to).payableDays
        IN pay(1, case.cut) + pay(case.cut + 1, 28) = pay(1, 28)

(* One more payable day never pays less before professional tax (a step       *)
(* function by law) and income tax (projected from the year), and no day pays *)
(* for nothing: loss of pay is what the full month would have paid more.      *)
MoreDaysMorePay ==
    Of("payslip") =>
        LET slip(d) == F!calculatePayroll(case.basic, case.other, 0, 22, d, case.month, 0, TRUE)
        IN \A d \in 0..21 : slip(d).net + slip(d).pt <= slip(d + 1).net + slip(d + 1).pt /\ slip(d).lop >= 0

(* The slab tax grows with each rupee by the rate of the one slab that rupee   *)
(* falls in.                                                                  *)
SlabTaxIsMarginal ==
    Of("tax") =>
        LET i == case.income
            rate == (CHOOSE s \in IncomeSlabs[case.regime] : i >= s.from /\ (s.to = NoEnd \/ i < s.to)).rate
        IN F!slabTax(0, case.regime) = 0 /\ F!slabTax(i + 1, case.regime) - F!slabTax(i, case.regime) = rate

(* A rupee more of income never costs more than a rupee of new-regime tax     *)
(* before cess, the rebate's threshold included.                              *)
NoCliffInNewRegime ==
    Of("tax") /\ case.regime = "NEW" =>
        F!BeforeCess(case.income + 1, "NEW") - F!BeforeCess(case.income, "NEW") \in 0..100

(* Years of service never fall with a later last day, and exactly six months  *)
(* do not make a year.                                                        *)
ServiceGrows ==
    Of("service") =>
        /\ F!completedYearsOfService(case.from, case.to) <= F!completedYearsOfService(case.from, case.later)
        /\ case.from.d = case.to.d /\ case.to.m = case.from.m + 6 /\ case.to.y >= case.from.y =>
             F!completedYearsOfService(case.from, case.to) = case.to.y - case.from.y

(* No row of the bank file is sent by a mode its amount is outside of.        *)
ModeWithinLimits ==
    Of("bank") =>
        LET mode == F!resolvePaymentMode(case.own, case.amount, case.preferred)
        IN /\ mode = "RTGS" => case.amount >= 200000
           /\ mode = "IMPS" => case.amount <= 500000
           /\ (mode = "OWN_BANK") = case.own

(* When March's run was drafted or recalculated after every earlier month was *)
(* PROCESSED, the year's TDS is the tax on the year's actual gross under the  *)
(* regime in force, to a rupee, however many of the earlier months had been   *)
(* computed without the ones before them; more only if these had already      *)
(* deducted more.  A March run that was computed without a month settles      *)
(* nothing: what it did not see stays untaxed or taxed twice.                 *)
YearEndsSettled ==
    LET y == taxYear IN
    y.month = 13 /\ y.open = <<>> /\ y.elapsed > 0 /\ y.last.whole =>
        LET gap == 10000 * y.deducted - F!projectAnnualTax(y.elapsed, 0, y.last.regime)
        IN IF y.last.over > 0 THEN gap >= -5000 ELSE gap \in -5000..5000
-----------------------------------------------------------------------------
(* Each mail is sent once for each asking, to nobody on the suppression     *)
(* list, and the log says so.                                               *)
MailAddsUp == EachAskSendsOnce /\ NoMailToSuppressed /\ BounceShows

(* Rows and objects agree: no infected object, one attachment, no object    *)
(* without a row.                                                           *)
DocumentsAddUp == InfectedIsGone /\ OneAttachment /\ ObjectsHaveRows

(* Settlements, imported salaries and the tax tables are each written whole *)
(* and once.                                                                *)
PaySettingsAddUp == SettlementAddsUp /\ OneRevisionPerEmployee /\ TablesDoNotMix /\ RatesExist

(* The figures are what they are defined to be, move the right way with     *)
(* their inputs, and settle within the year.                                *)
FiguresAreSound ==
    /\ AmountsSatisfyComponents /\ DaysPartition /\ MoreDaysMorePay /\ SlabTaxIsMarginal
    /\ NoCliffInNewRegime /\ ServiceGrows /\ ModeWithinLimits /\ YearEndsSettled

(* Background work ends: no mail stays queued and no document unscanned.    *)
WorkIsSettled == QueuedIsSettled /\ DocumentsAreDecided

(* What was decided is not undone: verdicts, attachments, settlements and   *)
(* salaries.                                                                *)
WhatIsDecidedStands == MalwareIsNotServed /\ AttachmentKept /\ SettlementStands /\ EditedSalaryStands
=============================================================================
