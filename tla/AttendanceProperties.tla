------------------------ MODULE AttendanceProperties ------------------------
(* What attendance, overtime claims and shifts promise. *)
EXTENDS Attendance, Functions

Statuses == {"NONE", "PRESENT", "LATE", "ABSENT", "HOLIDAY", "WEEKLY_OFF", "ON_LEAVE",
             "PENDING_REGULARIZATION"}
Records == [status: Statuses, in: {"none", "ontime", "late"}, out: BOOLEAN,
            source: {"NONE", "WEB", "MANUAL", "IMPORT"}]

(* Type correctness: a record without a row is blank, a request holds the   *)
(* day it is about, and counts stay within the bounds.                      *)
AttendanceTypeOK ==
    /\ today \in Days /\ calendar \in Calendars /\ behavior \in Behaviors /\ limits \in Limits
    /\ \A k \in Slots : rec[k] \in Records /\ (Exists(rec[k]) \/ rec[k] = NoRecord)
    /\ \A i \in Requests : req[i] = NoRequest \/
         /\ req[i].status \in {"PENDING", "APPROVED", "REJECTED", "CANCELLED"}
         /\ req[i].k \in Slots /\ req[i].linked \in BOOLEAN
         /\ req[i].linked => Exists(rec[req[i].k])
    /\ leave \in [Slots -> {"none", "late", "marked"}]

RejectedFor(k) == \E i \in Requests : req[i].status = "REJECTED" /\ req[i].k = k

(* An ABSENT day is loss of pay.  With calls one after the other, a day     *)
(* with a clock-in, or with leave approved before the day had a record, is  *)
(* ABSENT only because a regularization of it was rejected or HR marked it  *)
(* so: neither the nightly finalization nor the cutoff turns attendance or  *)
(* leave into absence.  (Leave approved after the day was finalized leaves  *)
(* the ABSENT row: the day is taken from the balance and from the pay.)     *)
AbsenceIsExplained ==
    calm /\ Quiet => \A k \in Slots :
      rec[k].status = "ABSENT" /\ (rec[k].in # "none" \/ leave[k] = "marked") =>
        RejectedFor(k) \/ rec[k].source = "MANUAL"

(* A day stays PENDING_REGULARIZATION, a status every job leaves alone,     *)
(* only while a request for it is undecided; the one exception in the code  *)
(* is a request its owner cancelled, which leaves the flag behind.          *)
DisputeHasRequest ==
    calm /\ Quiet => \A k \in Slots :
      rec[k].status = "PENDING_REGULARIZATION" =>
        \E i \in Requests : req[i].status \in {"PENDING", "CANCELLED"} /\ req[i].k = k

(* The monthly cap on regularizations holds for requests made one after     *)
(* the other, whatever is decided, cancelled and asked again; an admin who  *)
(* lowers the cap leaves the requests the larger one let in.                *)
WithinMonthlyCap == calm => \A e \in Staff : CountThisMonth(e) <= widest

(* Nobody is on a break after checking out, and on at most one break,       *)
(* unless HR or an approved regularization wrote the check-out.             *)
BreaksEndAtCheckOut ==
    calm => \A k \in Slots :
      breaks[k] <= 1 /\ (breaks[k] = 1 /\ rec[k].out => rec[k].source # "WEB")

(* A decided request is not decided again: only overlapping decisions can   *)
(* overwrite one another.                                                   *)
DecidedOnce ==
    [][calm' => \A i \in Requests :
         req[i].status \in {"APPROVED", "REJECTED", "CANCELLED"} => req'[i].status = req[i].status]_req
----------------------------------------------------------------------------
RowsOf(e, s) == SumFunctionOnSet([d \in Days |-> compRows[e][d][s]], Days)

(* Comp-off for work on a day off: with calls one after the other the       *)
(* balance is the sum of the ledger rows, and no day has two credits for    *)
(* work on it, however often the employee clocks in and out and whenever    *)
(* the comp-off type is designated or not.                                  *)
CompOffOnce ==
    calm => \A e \in Staff :
      /\ \A d \in Days : compRows[e][d]["holiday"] <= 1
      /\ Quiet => compAccrued[e] = RowsOf(e, "holiday") + RowsOf(e, "overtime")

(* Under every interleaving and after lost calls the comp-off ledger never  *)
(* claims more days than the balance was given.                             *)
CompOffLedgerNeverAhead ==
    \A e \in Staff : RowsOf(e, "holiday") + RowsOf(e, "overtime") <= compAccrued[e]

(* With calls one after the other a claim has at most one credit, and only  *)
(* an approved COMP_OFF claim has one.  It has exactly one, of its days,    *)
(* unless the tenant was at some time without a comp-off type, which the    *)
(* code takes for nothing to do, or an employee without a shift or with one *)
(* of no hours: the claim is then approved all the same and stays so.       *)
ClaimCreditedOnce ==
    calm /\ Quiet => \A e \in Staff :
      LET due == IF claim[e].status = "APPROVED" /\ claim[e].mode = "COMP_OFF" THEN 1 ELSE 0
      IN  /\ RowsOf(e, "overtime") + RowsOf(e, "empty") <= due
          /\ lapsed \/ RowsOf(e, "overtime") = due

(* A claim goes from the manager to HR to its end and never back.           *)
ClaimMovesForward ==
    [][calm' => \A e \in Staff :
         claim'[e].status # claim[e].status =>
           <<claim[e].status, claim'[e].status>> \in
             {<<"NONE", "PENDING_MANAGER">>, <<"NONE", "PENDING_HR">>,
              <<"PENDING_MANAGER", "PENDING_HR">>, <<"PENDING_HR", "APPROVED">>,
              <<"PENDING_MANAGER", "REJECTED">>, <<"PENDING_HR", "REJECTED">>}]_claim
----------------------------------------------------------------------------
(* resolveShift() needs the tenant's one default shift: with calls one      *)
(* after the other there is never a second one, and there is one unless an  *)
(* admin set it to false or it was cleared for a write that the unique name *)
(* then refused.                                                            *)
OneDefaultShift ==
    calm /\ Quiet =>
      LET defaults == {s \in ShiftIds : shift[s] = "default"} IN
      Cardinality(defaults) <= 1 /\ (cleared \/ defaults # {})
-----------------------------------------------------------------------------
(* Days that cost pay, and days that wait, do so for a reason.              *)
DaysAreExplained == AbsenceIsExplained /\ DisputeHasRequest

(* Comp-off days are credited once for each cause, and never in the ledger  *)
(* alone.                                                                   *)
CompOffAddsUp == CompOffOnce /\ CompOffLedgerNeverAhead /\ ClaimCreditedOnce

(* The tables are well typed, and the limits that handlers check before     *)
(* they write hold afterwards: the monthly cap, one open break, one default *)
(* shift.                                                                   *)
LimitsHold == AttendanceTypeOK /\ WithinMonthlyCap /\ BreaksEndAtCheckOut /\ OneDefaultShift

(* Regularizations and overtime claims are decided once and go forward.     *)
DecisionsAreFinal == DecidedOnce /\ ClaimMovesForward
=============================================================================
