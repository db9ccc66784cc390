------------------------- MODULE PayrollProperties -------------------------
(***************************************************************************)
(* What payroll runs promise.  The first group holds under every           *)
(* interleaving and loss of handlers; the second only while handlers do    *)
(* not overlap.                                                            *)
(***************************************************************************)
EXTENDS PayrollRun

RunStatuses == {"NONE", "DRAFT", "REVIEW", "APPROVED", "PROCESSED", "DISBURSED"}
Pcs == {"idle", "existing", "structures", "arrears", "commit", "status", "approve", "count",
        "approved", "items", "compute", "write", "insert", "affected", "edit", "revise"}
Items == [on: BOOLEAN, base: Nat, extra: Int, folded: SUBSET ArrearsIds, net: Int,
          slip: BOOLEAN, printed: Int]
RunRows == [status: RunStatuses, period: Nat, again: BOOLEAN, processed: BOOLEAN]

(* Type correctness of the tables and of the handlers; a row of arrears     *)
(* names the run it was folded into exactly when it is FOLDED.              *)
PayrollTypeOK ==
    /\ run \in [Runs -> RunRows]
    /\ approvals \in [Runs -> SUBSET Managers]
    /\ items \in [Runs -> [Employees -> Items]]
    /\ \A a \in ArrearsIds :
         /\ arrears[a].status \in {"NONE", "PENDING", "FOLDED"} /\ arrears[a].amount \in Int
         /\ IF arrears[a].status = "FOLDED" THEN arrears[a].into \in Runs
            ELSE arrears[a].into = NoRun
    /\ structure \in [Employees -> [ver: 0..MaxVersion, pay: Nat]]
    /\ payable \subseteq Employees /\ admins \subseteq AdminUsers
    /\ \A t \in Threads :
         /\ thread[t].pc \in Pcs
         /\ thread[t].r \in Runs \cup {NoRun} /\ thread[t].by \in Managers \cup {Nobody}
         /\ thread[t].lines \in [Employees -> Items]

Committed == {"APPROVED", "PROCESSED", "DISBURSED"}

(* INV-1, the two-person rule: however approvals overlap, repeat or die     *)
(* half way, no run is APPROVED or beyond, or was ever processed, without   *)
(* the approval rows of two distinct users.                                 *)
TwoApprovers ==
    \A r \in Runs : run[r].status \in Committed \/ run[r].processed
                      => Cardinality(approvals[r]) >= 2

(* INV-1: two drafts of one period made at once both pass the check of      *)
(* createDraft(); still a period has one run that is not a re-process.      *)
OneRegularRun == \A p \in Periods : Cardinality(RegularRuns(p)) <= 1

(* process() writes the payslip keys and the status in one transaction,     *)
(* keys first: once processed, every line item of an employee with a date   *)
(* of birth has its payslip, whatever recalculations and re-processing race *)
(* it.                                                                      *)
ProcessedHasPayslips ==
    \A r \in Runs : run[r].processed =>
      \A e \in HasDob : items[r][e].on => items[r][e].slip

(* Arrears are never marked FOLDED without a line item to carry them: an    *)
(* employee a run excludes keeps them pending; and what is still pending is *)
(* in no run.                                                               *)
ArrearsAccounted ==
    \A a \in ArrearsIds :
      /\ arrears[a].status = "FOLDED" => items[arrears[a].into][a[1]].on
      /\ \A r \in Runs : a \in items[r][a[1]].folded => arrears[a].status = "FOLDED"
----------------------------------------------------------------------------
Quiet == \A t \in Threads : thread[t].pc = "idle"

(* INV-2: the line items of a run that was processed never change again,    *)
(* not even after another handler touched the run's status.                 *)
ProcessedIsFrozen ==
    [][\A r \in Runs : run[r].processed => items'[r] = items[r]]_vars

Rank == [NONE |-> 0, DRAFT |-> 1, REVIEW |-> 2, APPROVED |-> 3, PROCESSED |-> 4,
         DISBURSED |-> 5]

(* The states of a run are linear: no step goes back or skips one.          *)
LinearStatus ==
    [][\A r \in Runs : Rank[run'[r].status] - Rank[run[r].status] \in {0, 1}]_vars

(* The net pay of a line item is its computed pay plus its adjustments,     *)
(* through recalculations, adjustments and folded arrears.                  *)
NetAddsUp ==
    Quiet => \A r \in Runs, e \in Employees : items[r][e].on =>
      items[r][e].net = items[r][e].base + AdjustmentTotal(items[r][e].folded, items[r][e].extra)

(* A payslip that was issued shows the net pay the line item has, and the   *)
(* bank is told to pay.                                                     *)
PayslipIsTheItem ==
    \A r \in Runs, e \in Employees : items[r][e].slip => items[r][e].printed = items[r][e].net

(* Arrears of a revision are paid by one run only. *)
ArrearsPaidOnce ==
    \A a \in ArrearsIds : Cardinality({r \in Runs : a \in items[r][a[1]].folded}) <= 1
-----------------------------------------------------------------------------
(* What is paid is what was computed, adjusted, folded in and printed, each *)
(* once, when handlers do not overlap.                                      *)
PayAddsUp == NetAddsUp /\ PayslipIsTheItem /\ ArrearsPaidOnce

(* A run goes forward step by step and is frozen once processed, when       *)
(* handlers do not overlap.                                                 *)
RunsAreFrozen == ProcessedIsFrozen /\ LinearStatus

(* Under every interleaving and loss: the tables are well typed, a period   *)
(* has one regular run, and no arrears are lost.                            *)
RunsAreWhole == PayrollTypeOK /\ OneRegularRun /\ ArrearsAccounted
=============================================================================
