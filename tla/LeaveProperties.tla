-------------------------- MODULE LeaveProperties --------------------------
(***************************************************************************)
(* What the leave-request lifecycle promises.  The first group holds under *)
(* every interleaving and every mid-handler failure; the second when       *)
(* handlers do not overlap; the last one restates a rule of the module's   *)
(* specification (04_LEAVE_MANAGEMENT.md) that the code breaks when        *)
(* handlers overlap.                                                       *)
(***************************************************************************)
EXTENDS LeaveRequests

Postings == {"REQUEST_APPROVED", "REQUEST_CANCELLED", "EVENT_GRANT", "HR_ADJUSTMENT"}
Decisions == {"APPROVED", "REJECTED", "ESCALATED"}
Jobs == [r: Reqs, level: {1, 2}]
Pcs == Stopped \cup {"insert", "upload", "route", "settle", "post", "ledger", "sync",
                     "write", "notify"}
Ops == {"NONE", "APPLY", "ATTACH", "ADJUST", "APPROVE", "REJECT", "CANCEL", "ESCALATE"}

RequestRows ==
    [status: Statuses, emp: Employees \cup {Nobody}, type: Types \cup {Nobody},
     from: Nat, to: Nat, days: Int, half: BOOLEAN, lop: BOOLEAN,
     event: EventDates \cup {NoDay}]

Movements == [col: {"accrued", "used"}, by: Int, source: Postings, delta: Int]

CallRows ==
    [pc: Pcs, op: Ops, by: Employees \cup {Nobody}, r: Reqs \cup {NoReq}, snap: RequestRows,
     level: {0, 1, 2}, target: Statuses, year: Int, plan: Seq(Movements), mark: BOOLEAN,
     days: SUBSET Days, todo: SUBSET {"status", "record"}]

BalanceRows  == [exists: BOOLEAN, accrued: Int, used: Int]
ApprovalRows == [call: Calls, r: Reqs, level: {1, 2}, by: Employees \cup {Nobody},
                 decision: Decisions]
LedgerEntries == [call: Calls, r: Reqs \cup {NoReq}, emp: Employees, type: Types,
                  source: Postings, delta: Int]

TablesOK ==
    /\ request \in [Reqs -> RequestRows]
    /\ \A x \in approvals : x \in ApprovalRows
    /\ balance \in [Employees -> [Types -> [Years -> BalanceRows]]]
    /\ \A x \in ledger : x \in LedgerEntries
    /\ attendance \in [Employees -> [Days -> {"NONE", "ON_LEAVE", "WORKED"}]]
    /\ holidays \in HolidayChoices /\ settings \in SettingsChoices
    /\ policy \in [Types -> PolicyChoices]
    /\ configured \in [Types -> SUBSET PolicyChoices]
    /\ docs \in [Reqs -> {"NONE", "LIVE", "DELETED"}]
    /\ jobs \subseteq Jobs /\ jobIds \subseteq Jobs

(* Type correctness of every table, queue and handler. *)
TypeOK == TablesOK /\ call \in [Calls -> CallRows]

Posted(r, source) == {x \in ledger : x.r = r /\ x.source = source}
Quiet == Running = {}
----------------------------------------------------------------------------
(* finalApprove() posts the used days before it writes APPROVED, so at no   *)
(* point, not even after a handler died half way, is a paid request          *)
(* APPROVED without its deduction in the ledger.                            *)
ApprovedWasDeducted ==
    \A r \in Reqs : request[r].status = "APPROVED" /\ ~request[r].lop
                      => Posted(r, "REQUEST_APPROVED") # {}

(* cancel() gives days back only for a request that final approval took     *)
(* days from; and loss-of-pay requests neither take nor give back days.     *)
RefundNeedsDeduction ==
    \A r \in Reqs :
      /\ Posted(r, "REQUEST_CANCELLED") # {} => Posted(r, "REQUEST_APPROVED") # {}
      /\ request[r].lop => Posted(r, "REQUEST_APPROVED") = {}

(* RULE-5: no request becomes APPROVED except through a person's approve()  *)
(* call: an admin's, or the reporting manager's own at level 1.  Escalation *)
(* jobs and late, stale handlers never approve.                             *)
HumanApproved ==
    \A r \in Reqs : request[r].status = "APPROVED" =>
      \E c \in UserCalls :
        /\ call[c].op = "APPROVE" /\ call[c].r = r /\ call[c].target = "APPROVED"
        /\ \/ call[c].by \in Admins
           \/ call[c].by = Mgr[request[r].emp] /\ call[c].level = 1

(* An ON_LEAVE attendance row always lies inside a request that somebody    *)
(* set out to approve: syncAttendanceForLeave writes no other.              *)
OnLeaveHasApproval ==
    \A e \in Employees, d \in Days : attendance[e][d] = "ON_LEAVE" =>
      \E r \in Reqs :
        /\ request[r].emp = e /\ request[r].from <= d /\ d <= request[r].to
        /\ request[r].lop \/ Posted(r, "REQUEST_APPROVED") # {}

(* Balance movements a handler has applied but not (or not yet) ledgered.   *)
Unledgered(e, t) ==
    {c \in Calls : call[c].pc \in {"ledger", "torn"}
                     /\ call[c].snap.emp = e /\ call[c].snap.type = t}

(* What a balance moved by since it was opened, what its ledger rows add up *)
(* to, and what is applied and not ledgered.                                *)
Moved(e, t) ==
    SumFunctionOnSet([y \in Years |-> Available(e, t, y)
                        - (IF y \in OpeningYears THEN OpeningDays ELSE 0)], Years)
Recorded(e, t) ==
    SumFunctionOnSet([x \in ledger |-> x.delta], {x \in ledger : x.emp = e /\ x.type = t})
Owed(e, t) ==
    SumFunctionOnSet([c \in Unledgered(e, t) |-> Head(call[c].plan).delta], Unledgered(e, t))

(* Balances move only by increments, each with a ledger row of the same     *)
(* size: at every moment the movement of an employee's balance of a type    *)
(* equals the sum of its ledger rows plus the movements of handlers that    *)
(* are, or died, between their two statements.  No concurrent writer is     *)
(* ever lost.                                                               *)
LedgerReconstructs ==
    \A e \in Employees, t \in Types : Moved(e, t) = Recorded(e, t) + Owed(e, t)
----------------------------------------------------------------------------
EverRejected(r) == \E x \in approvals : x.r = r /\ x.decision = "REJECTED"

(* When handlers do not overlap, an APPROVED paid request has been deducted *)
(* exactly once and not refunded, and any other request that was never      *)
(* rejected nets to zero.                                                   *)
NetDeduction ==
    Quiet => \A r \in Reqs :
      LET net == Cardinality(Posted(r, "REQUEST_APPROVED"))
                   - Cardinality(Posted(r, "REQUEST_CANCELLED"))
      IN ~EverRejected(r) =>
           net = IF request[r].status = "APPROVED" /\ ~request[r].lop THEN 1 ELSE 0

(* When handlers do not overlap, every working day of an APPROVED request,  *)
(* whatever holidays are edited in or out, has an attendance row, unless    *)
(* another request over that day was cancelled (and perhaps rejected after  *)
(* that): its cancellation clears the day.                                  *)
LeaveDaysMarked ==
    Quiet => \A r \in Reqs : request[r].status = "APPROVED" =>
      \A d \in WorkingDays(request[r].from, request[r].to, UNION HolidayChoices) :
        \/ attendance[request[r].emp][d] # "NONE"
        \/ \E s \in Reqs \ {r} :
             /\ request[s].emp = request[r].emp /\ request[s].status \in {"CANCELLED", "REJECTED"}
             /\ request[s].from <= d /\ d <= request[s].to

(* When handlers do not overlap, the pending and approved requests naming   *)
(* one event never take more days than the allowance of some configuration  *)
(* the type has had, however HR edits the type while they are about.        *)
EventWithinAllowance ==
    \A e \in Employees, t \in Types, ev \in EventDates :
      LET same == {r \in ActiveOf(e, t) : request[r].event = ev} IN
      same # {} => \E p \in configured[t] :
                     p.mode = "ON_EVENT" /\ SumDays(same) <= p.perEvent

(* The approval of an event request that granted nothing: its type was not  *)
(* event-based at that moment (finalApprove() goes by the type's mode,      *)
(* cancel() by the request's event date).                                   *)
Ungranted(r) ==
    \E x \in Posted(r, "REQUEST_APPROVED") :
      \A g \in Posted(r, "EVENT_GRANT") : g.call # x.call

(* Event leave is granted by the approval that uses it: whatever was        *)
(* approved, cancelled or escalated, once no handler is running an event    *)
(* request leaves the available balance where it was; only when the type    *)
(* was switched away from event-based before the approval does it cost its  *)
(* days, and for good: a cancellation then takes back what was not granted. *)
EventNetsToZero ==
    Quiet => \A r \in Reqs : request[r].event # NoDay =>
      SumFunctionOnSet([x \in ledger |-> x.delta], {x \in ledger : x.r = r})
        = IF Ungranted(r) THEN -request[r].days ELSE 0

(* finalApprove() refuses a request of a type that is event-based and       *)
(* requires a document until one is attached, at whichever level it is      *)
(* final: an approved request has had one, which HR may have deleted since. *)
ApprovedIsDocumented ==
    \A r \in Reqs :
      /\ request[r].status = "APPROVED"
      /\ \A p \in configured[request[r].type] : p.mode = "ON_EVENT" /\ p.requiresDocument
      => docs[r] # "NONE"

(* An undecided request waiting at level 1 does not wait there for ever:    *)
(* somebody decides it or its escalation job moves it on.                   *)
EscalationMovesOn ==
    \A r \in Reqs : (request[r].status = "PENDING_L1") ~> (request[r].status # "PENDING_L1")
----------------------------------------------------------------------------
(* INV-1: the deduction happens exactly once. *)
DeductedAtMostOnce ==
    \A r \in Reqs : Cardinality(Posted(r, "REQUEST_APPROVED")) <= 1
-----------------------------------------------------------------------------
(* Under every interleaving, no day on leave without a request somebody set *)
(* out to approve, and no movement of a balance without its ledger row or a *)
(* handler that stands before it.                                           *)
LeaveIsExplained == OnLeaveHasApproval /\ LedgerReconstructs

(* What approve() and cancel() decide is carried out, in the balance and in *)
(* the attendance rows, when handlers do not overlap.                       *)
ApprovedIsCarriedOut == NetDeduction /\ LeaveDaysMarked

(* Event leave stays within its allowance, nets to zero (or to what was not *)
(* granted) and has its document, under edits of the leave type.            *)
EventLeaveAddsUp == EventWithinAllowance /\ EventNetsToZero /\ ApprovedIsDocumented
=============================================================================
