------------------------ MODULE LeaveRequestsProofs ------------------------
(***************************************************************************)
(* Proofs about the leave-request lifecycle, for every set of employees,   *)
(* requests and calls, every calendar, every policy and settings, any      *)
(* number of overlapping handlers, with and without failures.              *)
(*                                                                         *)
(* The inductive invariant is layered: Shape is what a handler's program   *)
(* counter says of its locals, Signed, on top of it, who stands behind an  *)
(* approval, Paid, about the rows of the ledger, Booked, about balances    *)
(* and ledger together, and Marked, about attendance rows.  The others     *)
(* are about handlers that run one at a time: Carried, what is posted of   *)
(* the decision in hand, and DaysFollow, which of its days are marked; and *)
(* EventsFit and EventsNet, which say of event leave that it fits in what  *)
(* its event grants and costs nothing.                                     *)
(***************************************************************************)
EXTENDS LeaveProperties, SequenceTheorems, SumProofs

(* Operations that work on an existing request. *)
Deciding == {"ATTACH", "APPROVE", "REJECT", "CANCEL", "ESCALATE"}

(* An inserted request names an employee, a type and a day. *)
RowOK(q) == q.status # "NONE" => q.emp \in Employees /\ q.type \in Types /\ q.from \in Days

(* What the program counter of a running handler says of its locals. *)
CallOK(k) ==
    /\ k.pc = "idle" => k.op = "NONE"
    /\ k.pc \notin Stopped =>
         /\ k.snap.emp \in Employees /\ k.snap.type \in Types
         /\ k.op \in Deciding =>
              /\ k.r \in Reqs /\ request[k.r].status # "NONE"
              /\ k.snap.from \in Days
              /\ k.snap.emp = request[k.r].emp /\ k.snap.lop = request[k.r].lop
         /\ k.pc \in {"insert", "notify"} <=> k.op = "APPLY"
         /\ k.pc = "upload" <=> k.op = "ATTACH"
         /\ k.pc = "route" => k.op = "APPROVE"
         /\ k.pc \in {"settle", "sync"} => k.op \in {"APPROVE", "CANCEL"}
         /\ k.pc \in {"post", "ledger"} => k.op \in {"APPROVE", "CANCEL", "ADJUST"}
         /\ k.pc = "write" => k.op \in {"APPROVE", "CANCEL", "REJECT", "ESCALATE"}
         /\ k.pc = "insert" =>
              k.snap.from \in Days /\ k.snap.status \in {"PENDING_L1", "PENDING_L2"}
         /\ k.pc = "notify" => k.r \in Reqs
         /\ k.op = "ADJUST" => k.r = NoReq
         /\ k.pc \in {"post", "ledger"} => k.year \in Years
         /\ k.pc = "ledger" => k.plan # <<>>
         /\ "record" \in k.todo => k.op \in {"APPROVE", "REJECT", "ESCALATE"}
         /\ "status" \in k.todo => k.target # "NONE"
         /\ k.op = "APPROVE" => k.target \in {"APPROVED", "PENDING_L2"}
         /\ k.op = "CANCEL" => k.target = "CANCELLED"
         /\ k.op \in {"REJECT", "ESCALATE"} => k.target \in {"NONE", "REJECTED", "PENDING_L2"}
         /\ k.op \in {"APPROVE", "REJECT", "ESCALATE"} => k.level \in {1, 2}

Shape ==
    /\ TypeOK
    /\ \A r \in Reqs : RowOK(request[r])
    /\ \A c \in Calls : CallOK(call[c])

(* An approving handler was started by somebody who may approve. *)
Entitled(k) ==
    \/ k.by \in Admins
    \/ k.by = Mgr[request[k.r].emp] /\ k.level = 1

Signed ==
    /\ call[Worker].op \in {"NONE", "ESCALATE"}
    /\ \A c \in Calls : call[c].pc \notin Stopped /\ call[c].target = "APPROVED" =>
         call[c].op = "APPROVE" /\ Entitled(call[c])
    /\ \A r \in Reqs : request[r].status = "APPROVED" =>
         \E c \in UserCalls :
           /\ call[c].op = "APPROVE" /\ call[c].r = r /\ call[c].target = "APPROVED"
           /\ call[c].pc # "route"
           /\ Entitled(call[c])
----------------------------------------------------------------------------
(* The blank request and the blank call are well typed. *)
LEMMA BlankRows == NoRequest \in RequestRows /\ Idle \in CallRows
<1>1. NoRequest \in RequestRows
  BY DEF NoRequest, RequestRows, Statuses
<1>2. <<>> \in Seq(Movements)
  OBVIOUS
<1> QED
  BY <1>1, <1>2 DEF Idle, CallRows, Pcs, Stopped, Ops, Statuses

(* A call that returns stays well typed. *)
LEMMA ReturnedRow ==
  ASSUME NEW k \in CallRows
  PROVE  /\ Returned(k) \in CallRows
         /\ Returned(k).pc = "done"
         /\ k.op = "APPROVE" =>
              /\ Returned(k).op = k.op /\ Returned(k).r = k.r /\ Returned(k).by = k.by
              /\ Returned(k).level = k.level /\ Returned(k).target = k.target
         /\ Returned(k).op \in {"NONE", k.op}
<1>1. CASE k.op = "APPROVE"
  <2>1. Returned(k) = [pc |-> "done", op |-> k.op, by |-> k.by, r |-> k.r, snap |-> NoRequest,
         level |-> k.level, target |-> k.target, year |-> 0, plan |-> <<>>, mark |-> FALSE,
         days |-> {}, todo |-> {}]
    BY <1>1 DEF Returned, Idle
  <2> QED BY <2>1, BlankRows DEF CallRows, Pcs, Stopped
<1>2. CASE k.op # "APPROVE"
  <2>1. Returned(k) = [Idle EXCEPT !.pc = "done"]
    BY <1>2 DEF Returned
  <2>2. Returned(k) \in CallRows
    BY <2>1, BlankRows DEF CallRows, Pcs, Stopped
  <2> QED BY <1>2, <2>1, <2>2 DEF Idle
<1> QED BY <1>1, <1>2

(* A step that leaves the requests alone and moves one handler to a state   *)
(* that fits its program counter keeps the shape.                           *)
LEMMA OneHandlerMoves ==
  ASSUME Shape, TablesOK', UNCHANGED request,
         NEW c \in Calls, NEW k \in CallRows, CallOK(k),
         call' = [call EXCEPT ![c] = k]
  PROVE  Shape'
<1>1. TypeOK'
  BY DEF Shape, TypeOK
<1>2. \A r \in Reqs : RowOK(request[r])'
  BY DEF Shape, RowOK
<1>3. \A d \in Calls : CallOK(call[d])'
  BY DEF Shape, TypeOK, CallOK
<1> QED BY <1>1, <1>2, <1>3 DEF Shape

(* Reads leave the tables alone. *)
LEMMA ReadKeepsTables ==
  ASSUME Shape, UNCHANGED <<tables, config, jobs, jobIds>>
  PROVE  TablesOK' /\ UNCHANGED request
BY DEF Shape, TypeOK, TablesOK, tables, config

(* A handler that has returned fits its program counter. *)
LEMMA ReturnedOK ==
  ASSUME NEW k \in CallRows
  PROVE  Returned(k) \in CallRows /\ CallOK(Returned(k))
BY ReturnedRow DEF CallOK, Stopped

(* resolveLeaveYear never leaves Years, and years are integers. *)
LEMMA LeaveYears ==
  /\ \A d \in Days, fy \in 1..12 : resolveLeaveYear(d, fy) \in Years
  /\ Years \subseteq Int
BY LeaveConstants DEF resolveLeaveYear, Years, LeaveConstants

(* Day counts are integers: a range of days has finitely many working days. *)
LEMMA DayCounts ==
  ASSUME NEW from \in Days, NEW to \in Days, NEW hols
  PROVE  countWorkingDays(from, to, hols) \in Int /\ calendarDays(from, to) \in Int
<1>1. WorkingDays(from, to, hols) \subseteq Days /\ IsFiniteSet(Days) /\ Days \subseteq Nat
  BY LeaveConstants DEF WorkingDays, LeaveConstants
<1>2. Cardinality(WorkingDays(from, to, hols)) \in Nat
  BY <1>1, FS_Subset, FS_CardinalityType
<1> QED BY <1>1, <1>2 DEF countWorkingDays, calendarDays

LEMMA UploadShape ==
  ASSUME Shape, NEW c \in Calls, Upload(c)
  PROVE  Shape'
<1>1. call[c] \in CallRows /\ CallOK(call[c])
  BY DEF Shape, TypeOK
<1>2. TablesOK' /\ UNCHANGED request
  BY <1>1 DEF Shape, TypeOK, TablesOK, CallOK, Deciding, Upload, config, queues, Stopped
<1> QED
  BY <1>1, <1>2, ReturnedOK, OneHandlerMoves DEF Upload, Return

LEMMA AttachShape ==
  ASSUME Shape, NEW c \in Calls, NEW u \in Employees, NEW r \in Reqs, ReadAttach(c, u, r)
  PROVE  Shape'
<1> DEFINE k == [Idle EXCEPT !.pc = "upload", !.op = "ATTACH", !.by = u, !.r = r,
                      !.snap = request[r]]
<1>1. request[r] \in RequestRows /\ RowOK(request[r])
  BY DEF Shape, TypeOK, TablesOK
<1>2. k \in CallRows
  BY <1>1, BlankRows DEF CallRows, Pcs, Ops
<1>3. CallOK(k)
  BY <1>1 DEF CallOK, RowOK, Idle, Stopped, Deciding, ReadAttach, Active
<1>4. TablesOK' /\ UNCHANGED request
  BY ReadKeepsTables DEF ReadAttach, queues
<1>5. call' = [call EXCEPT ![c] = k]
  BY DEF ReadAttach
<1> QED BY <1>2, <1>3, <1>4, <1>5, OneHandlerMoves

(* apply() builds well-typed rows that wait at level 1 or 2. *)
LEMMA NewRequestRow ==
  ASSUME Shape, NEW e \in Applicants, NEW t \in Types, NEW from \in Days, NEW to \in Days,
         NEW half \in HalfDays, NEW event \in EventDates \cup {NoDay}
  PROVE  /\ NewRequest(e, t, from, to, half, event) \in RequestRows
         /\ NewRequest(e, t, from, to, half, event).emp = e
         /\ NewRequest(e, t, from, to, half, event).type = t
         /\ NewRequest(e, t, from, to, half, event).from = from
         /\ NewRequest(e, t, from, to, half, event).status \in {"PENDING_L1", "PENDING_L2"}
<1>1. e \in Employees /\ from \in Nat /\ to \in Nat /\ half \in BOOLEAN
  BY LeaveConstants DEF LeaveConstants
<1>2. countWorkingDays(from, to, holidays) \in Int /\ calendarDays(from, to) \in Int
  BY DayCounts
<1> QED
  BY <1>1, <1>2 DEF NewRequest, RequestRows, Statuses

LEMMA ApplyShape ==
  ASSUME Shape, NEW c \in Calls, ReadApply(c)
  PROVE  Shape'
<1> DEFINE k(e, q) == [Idle EXCEPT !.pc = "insert", !.op = "APPLY", !.by = e, !.snap = q]
<1>1. PICK e \in Applicants, t \in Types, from \in Days, to \in Days, half \in HalfDays,
           event \in EventDates \cup {NoDay} :
        call' = [call EXCEPT ![c] = k(e, NewRequest(e, t, from, to, half, event))]
  BY DEF ReadApply
<1> DEFINE q == NewRequest(e, t, from, to, half, event)
<1>2. /\ q \in RequestRows /\ q.emp = e /\ q.type = t /\ q.from \in Days
      /\ q.status \in {"PENDING_L1", "PENDING_L2"} /\ e \in Employees
  BY NewRequestRow, LeaveConstants DEF LeaveConstants
<1>3. TablesOK' /\ UNCHANGED request
  BY ReadKeepsTables DEF ReadApply, queues
<1>4. call' = [call EXCEPT ![c] = k(e, q)]
  BY <1>1
<1> HIDE DEF q
<1>5. k(e, q) \in CallRows
  BY <1>2, BlankRows DEF CallRows, Pcs, Ops
<1>6. CallOK(k(e, q))
  BY <1>2 DEF CallOK, Idle, Stopped, Deciding
<1> QED BY <1>3, <1>4, <1>5, <1>6, OneHandlerMoves

LEMMA AdjustShape ==
  ASSUME Shape, NEW c \in Calls, NEW u \in Admins, NEW e \in Applicants, NEW t \in Types,
         NEW y \in Years, NEW delta \in AdjustDeltas, StartAdjust(c, u, e, t, y, delta)
  PROVE  Shape'
<1> DEFINE q == [NoRequest EXCEPT !.emp = e, !.type = t]
           k == [Idle EXCEPT !.pc = "post", !.op = "ADJUST", !.by = u, !.snap = q,
                             !.year = y, !.plan = <<manualDelta(delta)>>]
<1>1. u \in Employees /\ e \in Employees /\ delta \in Int /\ y \in Int
  BY LeaveConstants, LeaveYears DEF LeaveConstants
<1>2. manualDelta(delta) \in Movements
  BY <1>1 DEF manualDelta, Movements, Postings
<1>3. q \in RequestRows
  BY <1>1, BlankRows DEF RequestRows
<1>4. q.emp = e /\ q.type = t
  BY DEF NoRequest
<1>5. call' = [call EXCEPT ![c] = k]
  BY DEF StartAdjust
<1>6. <<manualDelta(delta)>> \in Seq(Movements)
  BY <1>2
<1> HIDE DEF q
<1>7. k \in CallRows
  BY <1>1, <1>3, <1>6, BlankRows DEF CallRows, Pcs, Ops
<1>8. CallOK(k)
  BY <1>1, <1>4 DEF CallOK, Idle, Stopped, Deciding
<1>9. TablesOK' /\ UNCHANGED request
  BY ReadKeepsTables DEF StartAdjust, queues
<1> QED BY <1>5, <1>7, <1>8, <1>9, OneHandlerMoves

LEMMA ApproveShape ==
  ASSUME Shape, NEW c \in Calls, NEW u \in Employees, NEW r \in Reqs, ReadApprove(c, u, r)
  PROVE  Shape'
<1> DEFINE q == request[r]
           k == [Idle EXCEPT !.pc = IF q.status = "PENDING_L1" THEN "route" ELSE "settle",
                      !.op = "APPROVE", !.by = u, !.r = r, !.snap = q,
                      !.level = IF q.status = "PENDING_L1" THEN 1 ELSE 2,
                      !.target = "APPROVED"]
<1>1. q \in RequestRows /\ RowOK(q)
  BY DEF Shape, TypeOK, TablesOK
<1>2. k \in CallRows
  <2>1. PICK p, l, todo : p = (IF q.status = "PENDING_L1" THEN "route" ELSE "settle") /\ l = (IF q.status = "PENDING_L1" THEN 1 ELSE 2) /\ todo = {}
    OBVIOUS
  <2>2. k = [Idle EXCEPT !.pc = p, !.op = "APPROVE", !.by = u, !.r = r, !.snap = q, !.level = l,
                           !.target = "APPROVED"]
    BY <2>1
  <2>3. /\ p \in Pcs /\ "APPROVE" \in Ops /\ "APPROVED" \in Statuses
        /\ l \in {0, 1, 2} /\ todo \in SUBSET {"status", "record"}
    BY <2>1 DEF Pcs, Ops, Statuses
  <2>4. u \in Employees \cup {Nobody}
    OBVIOUS
  <2> HIDE DEF k, q
  <2> QED BY <1>1, <2>2, <2>3, <2>4, BlankRows DEF CallRows
<1>3. CallOK(k)
  BY <1>1 DEF CallOK, RowOK, Idle, Stopped, Deciding, ReadApprove
<1>4. TablesOK' /\ UNCHANGED request
  BY ReadKeepsTables DEF ReadApprove, queues
<1>5. call' = [call EXCEPT ![c] = k]
  BY DEF ReadApprove
<1> QED BY <1>2, <1>3, <1>4, <1>5, OneHandlerMoves

LEMMA RejectShape ==
  ASSUME Shape, NEW c \in Calls, NEW u \in Employees, NEW r \in Reqs, ReadReject(c, u, r)
  PROVE  Shape'
<1> DEFINE q == request[r]
           k == [Idle EXCEPT !.pc = "write", !.op = "REJECT", !.by = u, !.r = r, !.snap = q,
                      !.level = IF q.status = "PENDING_L1" THEN 1 ELSE 2,
                      !.target = "REJECTED", !.todo = {"status", "record"}]
<1>1. q \in RequestRows /\ RowOK(q)
  BY DEF Shape, TypeOK, TablesOK
<1>2. k \in CallRows
  <2>1. PICK p, l, todo : p = "write" /\ l = (IF q.status = "PENDING_L1" THEN 1 ELSE 2) /\ todo = {"status", "record"}
    OBVIOUS
  <2>2. k = [Idle EXCEPT !.pc = p, !.op = "REJECT", !.by = u, !.r = r, !.snap = q, !.level = l,
                           !.target = "REJECTED", !.todo = todo]
    BY <2>1
  <2>3. /\ p \in Pcs /\ "REJECT" \in Ops /\ "REJECTED" \in Statuses
        /\ l \in {0, 1, 2} /\ todo \in SUBSET {"status", "record"}
    BY <2>1 DEF Pcs, Ops, Statuses
  <2>4. u \in Employees \cup {Nobody}
    OBVIOUS
  <2> HIDE DEF k, q
  <2> QED BY <1>1, <2>2, <2>3, <2>4, BlankRows DEF CallRows
<1>3. CallOK(k)
  BY <1>1 DEF CallOK, RowOK, Idle, Stopped, Deciding, ReadReject
<1>4. TablesOK' /\ UNCHANGED request
  BY ReadKeepsTables DEF ReadReject, queues
<1>5. call' = [call EXCEPT ![c] = k]
  BY DEF ReadReject
<1> QED BY <1>2, <1>3, <1>4, <1>5, OneHandlerMoves

LEMMA CancelShape ==
  ASSUME Shape, NEW c \in Calls, NEW u \in Employees, NEW r \in Reqs, ReadCancel(c, u, r)
  PROVE  Shape'
<1> DEFINE q == request[r]
           k == [Idle EXCEPT !.pc = IF q.status = "APPROVED" THEN "settle" ELSE "write",
                      !.op = "CANCEL", !.by = u, !.r = r, !.snap = q,
                      !.target = "CANCELLED",
                      !.todo = IF q.status = "APPROVED" THEN {} ELSE {"status"}]
<1>1. q \in RequestRows /\ RowOK(q)
  BY DEF Shape, TypeOK, TablesOK
<1>2. k \in CallRows
  <2>1. PICK p, l, todo : p = (IF q.status = "APPROVED" THEN "settle" ELSE "write") /\ l = 0 /\ todo = (IF q.status = "APPROVED" THEN {} ELSE {"status"})
    OBVIOUS
  <2>2. k = [Idle EXCEPT !.pc = p, !.op = "CANCEL", !.by = u, !.r = r, !.snap = q,
                           !.target = "CANCELLED", !.todo = todo]
    BY <2>1
  <2>3. /\ p \in Pcs /\ "CANCEL" \in Ops /\ "CANCELLED" \in Statuses
        /\ l \in {0, 1, 2} /\ todo \in SUBSET {"status", "record"}
    BY <2>1 DEF Pcs, Ops, Statuses
  <2>4. u \in Employees \cup {Nobody}
    OBVIOUS
  <2> HIDE DEF k, q
  <2> QED BY <1>1, <2>2, <2>3, <2>4, BlankRows DEF CallRows
<1>3. CallOK(k)
  BY <1>1 DEF CallOK, RowOK, Idle, Stopped, Deciding, ReadCancel
<1>4. TablesOK' /\ UNCHANGED request
  BY ReadKeepsTables DEF ReadCancel, queues
<1>5. call' = [call EXCEPT ![c] = k]
  BY DEF ReadCancel
<1> QED BY <1>2, <1>3, <1>4, <1>5, OneHandlerMoves

LEMMA InsertShape ==
  ASSUME Shape, NEW c \in Calls, InsertRequest(c)
  PROVE  Shape'
<1>1. call[c] \in CallRows /\ CallOK(call[c])
  BY DEF Shape, TypeOK
<1>0. PICK r \in Reqs : /\ NextReq(r)
                        /\ request' = [request EXCEPT ![r] = call[c].snap]
                        /\ call' = [call EXCEPT ![c].r = r, ![c].pc = "notify"]
  BY ZenonT(20) DEF InsertRequest
<1>2. /\ request[r].status = "NONE"
      /\ request' = [request EXCEPT ![r] = call[c].snap]
      /\ call' = [call EXCEPT ![c].r = r, ![c].pc = "notify"]
  BY <1>0 DEF NextReq
<1>3. /\ call[c].snap \in RequestRows /\ RowOK(call[c].snap)
      /\ call[c].snap.status # "NONE"
  BY <1>1 DEF CallRows, CallOK, RowOK, InsertRequest, Stopped
<1>4. call' \in [Calls -> CallRows]
  <2>1. PICK k : k = call[c]
    OBVIOUS
  <2>2. k \in CallRows
    BY <1>1, <2>1
  <2>3. [k EXCEPT !.r = r, !.pc = "notify"] \in CallRows
    BY <2>2 DEF CallRows, Pcs
  <2>4. call' = [call EXCEPT ![c] = [k EXCEPT !.r = r, !.pc = "notify"]]
    BY <1>2, <2>1 DEF Shape, TypeOK
  <2> QED BY <2>3, <2>4 DEF Shape, TypeOK
<1>5. TablesOK'
  BY <1>2, <1>3 DEF Shape, TypeOK, TablesOK, InsertRequest, config, queues
<1>6. \A x \in Reqs : RowOK(request[x])'
  BY <1>2, <1>3 DEF Shape, TypeOK, TablesOK, RowOK
<1>7. call[c].op \notin Deciding
  BY <1>1, <1>2 DEF CallOK, InsertRequest, Stopped, Deciding
<1>8. CallOK(call[c])'
  <2>1. PICK k : k = call[c]
    OBVIOUS
  <2>2. PICK j : j = [k EXCEPT !.r = r, !.pc = "notify"]
    OBVIOUS
  <2>3. call'[c] = j /\ request'[r] = k.snap
    BY <1>2, <2>1, <2>2 DEF Shape, TypeOK, TablesOK
  <2>4. /\ j.pc = "notify" /\ j.r = r /\ j.op = k.op /\ j.snap = k.snap /\ j.level = k.level
        /\ j.target = k.target /\ j.todo = k.todo /\ j.year = k.year /\ j.plan = k.plan /\ j.by = k.by
    BY <1>1, <2>1, <2>2 DEF CallRows
  <2>5. CallOK(j)'
    BY <1>1, <1>2, <1>7, <2>1, <2>3, <2>4 DEF CallOK, InsertRequest, Stopped
  <2> QED BY <2>3, <2>5
<1>9. \A s \in Reqs : s # r => request'[s] = request[s]
  BY <1>2 DEF Shape, TypeOK, TablesOK
<1>10. ASSUME NEW d \in Calls \ {c} PROVE CallOK(call[d])'
  <2>1. PICK k : k = call[d]
    OBVIOUS
  <2>2. call'[d] = k /\ CallOK(k)
    BY <1>2, <2>1 DEF Shape, TypeOK
  <2>3. k.r \in Reqs /\ request[k.r].status # "NONE" => request'[k.r] = request[k.r]
    BY <1>2, <1>9
  <2>4. CallOK(k)'
    BY <2>2, <2>3 DEF CallOK
  <2> QED BY <2>2, <2>4
<1> QED BY <1>4, <1>5, <1>6, <1>8, <1>10 DEF Shape, TypeOK

LEMMA RouteShape ==
  ASSUME Shape, NEW c \in Calls, RouteL1(c)
  PROVE  Shape'
<1> DEFINE on   == [call[c] EXCEPT !.pc = "settle"]
           wait == [call[c] EXCEPT !.pc = "write", !.target = "PENDING_L2",
                                   !.todo = {"status", "record"}]
<1>1. call[c] \in CallRows /\ CallOK(call[c]) /\ call[c].pc = "route"
  BY DEF Shape, TypeOK, RouteL1
<1>2. on \in CallRows /\ wait \in CallRows
  BY <1>1 DEF CallRows, Pcs, Statuses
<1>3. CallOK(on)
  BY <1>1 DEF CallRows, CallOK, Stopped, Deciding
<1>4. CallOK(wait)
  BY <1>1 DEF CallRows, CallOK, Stopped, Deciding
<1>5. TablesOK' /\ UNCHANGED request
  BY ReadKeepsTables DEF RouteL1, queues
<1>6. call' = [call EXCEPT ![c] = on] \/ call' = [call EXCEPT ![c] = wait]
  BY DEF RouteL1, Goto
<1> QED BY <1>2, <1>3, <1>4, <1>5, <1>6, OneHandlerMoves

(* The plans of finalApprove() and cancel() are sequences of movements. *)
LEMMA PlanTypes ==
  ASSUME NEW q \in RequestRows, NEW p
  PROVE  PlanApproval(q, p) \in Seq(Movements) /\ PlanCancel(q) \in Seq(Movements)
<1>1. q.days \in Int /\ -q.days \in Int
  BY DEF RequestRows
<1>2. /\ \A n \in {q.days, -q.days} : grantEventDays(n) \in Movements
      /\ adjustUsedDays(q.days, "REQUEST_APPROVED") \in Movements
      /\ adjustUsedDays(-q.days, "REQUEST_CANCELLED") \in Movements
  BY <1>1 DEF grantEventDays, adjustUsedDays, Movements, Postings
<1>3. \A m \in Movements : <<m>> \in Seq(Movements)
  OBVIOUS
<1>4. <<>> \in Seq(Movements)
  OBVIOUS
<1> QED BY <1>2, <1>3, <1>4 DEF PlanApproval, PlanCancel

LEMMA SettleShape ==
  ASSUME Shape, NEW c \in Calls, Settle(c)
  PROVE  Shape'
<1> DEFINE q == call[c].snap
           approving == call[c].op = "APPROVE"
           y == resolveLeaveYear(q.from, settings.fy)
           plan == IF approving THEN PlanApproval(q, policy[q.type]) ELSE PlanCancel(q)
           k == [call[c] EXCEPT !.pc = "post", !.year = y, !.plan = plan, !.mark = approving]
<1>1. call[c] \in CallRows /\ CallOK(call[c]) /\ call[c].pc = "settle"
  BY DEF Shape, TypeOK, Settle
<1>2. q \in RequestRows /\ q.from \in Days
  BY <1>1 DEF CallRows, CallOK, Stopped, Deciding
<1>3. plan \in Seq(Movements)
  BY <1>2, PlanTypes
<1>4. settings.fy \in 1..12
  BY LeaveConstants DEF LeaveConstants, Shape, TypeOK, TablesOK
<1>5. y \in Years /\ y \in Int
  BY <1>2, <1>4, LeaveYears
<1>6. call' = [call EXCEPT ![c] = Returned(@)] \/ call' = [call EXCEPT ![c] = k]
  BY DEF Settle, Return
<1>7. TablesOK' /\ UNCHANGED request
  BY ReadKeepsTables DEF Settle, queues
<1> HIDE DEF y, plan, approving
<1>8. k \in CallRows
  BY <1>1, <1>3, <1>5 DEF CallRows, Pcs, approving
<1>9. CallOK(k)
  BY <1>1, <1>5 DEF CallRows, CallOK, Stopped, Deciding
<1> QED BY <1>1, <1>6, <1>7, <1>8, <1>9, ReturnedOK, OneHandlerMoves

(* An upsert leaves a balance row. *)
LEMMA UpsertRow ==
  ASSUME NEW b \in BalanceRows, NEW m \in Movements
  PROVE  Upserted(b, m.col, m.by) \in BalanceRows
<1>1. CASE m.col = "accrued"
  BY <1>1 DEF Upserted, BalanceRows, Movements, AtLeastZero
<1>2. CASE m.col = "used"
  BY <1>2 DEF Upserted, BalanceRows, Movements, AtLeastZero
<1> QED BY <1>1, <1>2 DEF Movements

LEMMA PostShape ==
  ASSUME Shape, NEW c \in Calls, Post(c)
  PROVE  Shape'
<1> DEFINE k == [call[c] EXCEPT !.pc = "ledger"]
           e == call[c].snap.emp
           t == call[c].snap.type
           y == call[c].year
           m == Head(call[c].plan)
<1>1. call[c] \in CallRows /\ CallOK(call[c]) /\ call[c].pc = "post" /\ call[c].plan # <<>>
  BY DEF Shape, TypeOK, Post
<1>2. k \in CallRows
  BY <1>1 DEF CallRows, Pcs
<1>3. CallOK(k)
  BY <1>1 DEF CallRows, CallOK, Stopped, Deciding
<1>4. e \in Employees /\ t \in Types /\ y \in Years
  BY <1>1 DEF CallOK, Stopped
<1>5. m \in Movements
  BY <1>1 DEF CallRows
<1>6. balance[e][t][y] \in BalanceRows
  BY <1>4 DEF Shape, TypeOK, TablesOK
<1>7. Upserted(balance[e][t][y], m.col, m.by) \in BalanceRows
  BY <1>5, <1>6, UpsertRow
<1>8. balance' = [balance EXCEPT ![e][t][y] = Upserted(balance[e][t][y], m.col, m.by)]
  BY <1>4 DEF Post, Shape, TypeOK, TablesOK
<1>9. balance' \in [Employees -> [Types -> [Years -> BalanceRows]]]
  BY <1>4, <1>7, <1>8 DEF Shape, TypeOK, TablesOK
<1>10. TablesOK' /\ UNCHANGED request
  BY <1>9 DEF Shape, TypeOK, TablesOK, Post, config, queues
<1>11. call' = [call EXCEPT ![c] = k]
  BY DEF Post, Goto
<1> QED BY <1>2, <1>3, <1>10, <1>11, OneHandlerMoves

LEMMA LedgerShape ==
  ASSUME Shape, NEW c \in Calls, WriteLedger(c)
  PROVE  Shape'
<1> DEFINE k == [call[c] EXCEPT !.pc = "post", !.plan = Tail(@)]
<1>1. call[c] \in CallRows /\ CallOK(call[c]) /\ call[c].pc = "ledger"
  BY DEF Shape, TypeOK, WriteLedger
<1>2. call[c].plan # <<>> /\ call[c].plan \in Seq(Movements)
  BY <1>1 DEF CallRows, CallOK, Stopped
<1>3. Head(call[c].plan) \in Movements /\ Tail(call[c].plan) \in Seq(Movements)
  BY <1>2
<1>4. k \in CallRows
  BY <1>1, <1>3 DEF CallRows, Pcs
<1>5. CallOK(k)
  BY <1>1 DEF CallRows, CallOK, Stopped, Deciding
<1>6. \A x \in ledger' : x \in LedgerEntries
  <2>1. PICK q, m : q = call[c] /\ m = Head(q.plan)
    OBVIOUS
  <2>2. q.r \in Reqs \cup {NoReq} /\ q.snap.emp \in Employees /\ q.snap.type \in Types
    BY <1>1, <2>1 DEF CallRows, CallOK, Stopped
  <2>3. m.source \in Postings /\ m.delta \in Int
    BY <1>3, <2>1 DEF Movements
  <2>4. PICK row : row = [call |-> c, r |-> q.r, emp |-> q.snap.emp, type |-> q.snap.type,
                          source |-> m.source, delta |-> m.delta]
    OBVIOUS
  <2>5. row \in LedgerEntries
    BY <2>2, <2>3, <2>4 DEF LedgerEntries
  <2>6. ledger' = ledger \cup {row}
    BY <2>1, <2>4 DEF WriteLedger
  <2> QED BY <2>5, <2>6 DEF Shape, TypeOK, TablesOK
<1>7. TablesOK' /\ UNCHANGED request
  BY <1>6 DEF Shape, TypeOK, TablesOK, WriteLedger, config, queues
<1>8. call' = [call EXCEPT ![c] = k]
  BY DEF WriteLedger
<1> QED BY <1>4, <1>5, <1>7, <1>8, OneHandlerMoves

LEMMA HolidaysShape ==
  ASSUME Shape, NEW c \in Calls, ReadHolidays(c)
  PROVE  Shape'
<1> DEFINE days == WorkingDays(call[c].snap.from, call[c].snap.to, holidays)
           k == [call[c] EXCEPT !.pc = "sync", !.days = days]
<1>1. call[c] \in CallRows /\ CallOK(call[c]) /\ call[c].pc = "post"
  BY DEF Shape, TypeOK, ReadHolidays
<1>2. days \in SUBSET Days
  BY DEF WorkingDays
<1>3. k \in CallRows
  BY <1>1, <1>2 DEF CallRows, Pcs
<1>4. call[c].op # "ADJUST" => CallOK(k)
  BY <1>1 DEF CallRows, CallOK, Stopped, Deciding
<1>5. TablesOK' /\ UNCHANGED request
  BY ReadKeepsTables DEF ReadHolidays, queues
<1>6. \/ call' = [call EXCEPT ![c] = Returned(@)]
      \/ call[c].op # "ADJUST" /\ call' = [call EXCEPT ![c] = k]
  BY DEF ReadHolidays
<1> QED BY <1>1, <1>3, <1>4, <1>5, <1>6, ReturnedOK, OneHandlerMoves

LEMMA SyncShape ==
  ASSUME Shape, NEW c \in Calls, SyncDay(c)
  PROVE  Shape'
<1> DEFINE e == call[c].snap.emp
           k(d) == [call[c] EXCEPT !.days = @ \ {d}]
<1>1. call[c] \in CallRows /\ CallOK(call[c]) /\ call[c].pc = "sync"
  BY DEF Shape, TypeOK, SyncDay
<1>2. PICK d \in call[c].days :
        /\ attendance' = [attendance EXCEPT ![e][d] = Synced(@, call[c].mark)]
        /\ call' = [call EXCEPT ![c] = k(d)]
  BY DEF SyncDay
<1>3. d \in Days /\ e \in Employees
  BY <1>1 DEF CallRows, CallOK, Stopped
<1>4. attendance' \in [Employees -> [Days -> {"NONE", "ON_LEAVE", "WORKED"}]]
  BY <1>2, <1>3 DEF Shape, TypeOK, TablesOK, Synced
<1>5. TablesOK' /\ UNCHANGED request
  BY <1>4 DEF Shape, TypeOK, TablesOK, SyncDay, config, queues
<1>6. k(d) \in CallRows
  BY <1>1 DEF CallRows
<1>7. CallOK(k(d))
  BY <1>1 DEF CallRows, CallOK, Stopped, Deciding
<1> QED BY <1>2, <1>5, <1>6, <1>7, OneHandlerMoves

LEMMA SyncDoneShape ==
  ASSUME Shape, NEW c \in Calls, SyncDone(c)
  PROVE  Shape'
<1> DEFINE todo == IF call[c].op = "CANCEL" THEN {"status"} ELSE {"status", "record"}
           k == [call[c] EXCEPT !.pc = "write", !.todo = todo]
<1>1. call[c] \in CallRows /\ CallOK(call[c]) /\ call[c].pc = "sync"
  BY DEF Shape, TypeOK, SyncDone
<1>2. k \in CallRows
  BY <1>1 DEF CallRows, Pcs
<1>3. call[c].target # "NONE"
  BY <1>1 DEF CallOK, Stopped, Deciding
<1>4. CallOK(k)
  BY <1>1, <1>3 DEF CallRows, CallOK, Stopped, Deciding
<1>5. TablesOK' /\ UNCHANGED request
  BY ReadKeepsTables DEF SyncDone, queues
<1>6. call' = [call EXCEPT ![c] = k]
  BY DEF SyncDone
<1> QED BY <1>2, <1>4, <1>5, <1>6, OneHandlerMoves

LEMMA WriteStatusShape ==
  ASSUME Shape, NEW c \in Calls, WriteStatus(c)
  PROVE  Shape'
<1>1. call[c] \in CallRows /\ CallOK(call[c]) /\ call[c].pc = "write" /\ "status" \in call[c].todo
  BY DEF Shape, TypeOK, WriteStatus
<1>2. call[c].r \in Reqs /\ call[c].target \in Statuses /\ call[c].target # "NONE"
  BY <1>1 DEF CallRows, CallOK, Stopped, Deciding
<1>3. request[call[c].r] \in RequestRows /\ request[call[c].r].status # "NONE"
  BY <1>1, <1>2 DEF Shape, TypeOK, TablesOK, CallOK, Stopped, Deciding
<1>4. request' = [request EXCEPT ![call[c].r] =
                    [request[call[c].r] EXCEPT !.status = call[c].target]]
  BY DEF WriteStatus
<1>5. call' = [call EXCEPT ![c] = [call[c] EXCEPT !.todo = @ \ {"status"}]]
  BY DEF WriteStatus
<1>6. request' \in [Reqs -> RequestRows]
  BY <1>2, <1>3, <1>4 DEF Shape, TypeOK, TablesOK, RequestRows
<1>7. \A r \in Reqs : /\ request'[r].emp = request[r].emp /\ request'[r].type = request[r].type
                      /\ request'[r].from = request[r].from /\ request'[r].lop = request[r].lop
                      /\ request'[r].status = "NONE" <=> request[r].status = "NONE"
  BY <1>2, <1>3, <1>4 DEF Shape, TypeOK, TablesOK, RequestRows
<1>8. TablesOK'
  BY <1>6 DEF Shape, TypeOK, TablesOK, WriteStatus, config, queues
<1>9. \A r \in Reqs : RowOK(request[r])'
  BY <1>7 DEF Shape, RowOK
<1>10. call' \in [Calls -> CallRows]
  BY <1>1, <1>5 DEF Shape, TypeOK, CallRows
<1>11. CallOK(call[c])'
  BY <1>1, <1>2, <1>5, <1>7 DEF Shape, TypeOK, CallRows, CallOK, Stopped, Deciding
<1>12. \A d \in Calls \ {c} : CallOK(call[d])'
  <2> TAKE d \in Calls \ {c}
  <2>1. call'[d] = call[d] /\ call[d] \in CallRows /\ CallOK(call[d])
    BY <1>5 DEF Shape, TypeOK
  <2> QED BY <1>7, <2>1 DEF CallOK
<1> QED BY <1>8, <1>9, <1>10, <1>11, <1>12 DEF Shape, TypeOK

LEMMA RecordShape ==
  ASSUME Shape, NEW c \in Calls, RecordDecision(c)
  PROVE  Shape'
<1> DEFINE k == [call[c] EXCEPT !.todo = @ \ {"record"}]
           decision == CASE call[c].op = "ESCALATE" -> "ESCALATED"
                         [] call[c].op = "REJECT"   -> "REJECTED"
                         [] OTHER                   -> "APPROVED"
<1>1. call[c] \in CallRows /\ CallOK(call[c]) /\ call[c].pc = "write" /\ "record" \in call[c].todo
  BY DEF Shape, TypeOK, RecordDecision
<1>2. k \in CallRows
  BY <1>1 DEF CallRows
<1>3. CallOK(k)
  BY <1>1 DEF CallRows, CallOK, Stopped, Deciding
<1>4. decision \in Decisions
  BY DEF Decisions
<1>5. call[c].r \in Reqs /\ call[c].level \in {1, 2} /\ call[c].by \in Employees \cup {Nobody}
  BY <1>1 DEF CallRows, CallOK, Stopped, Deciding
<1>6. approvals' = approvals \cup {[call |-> c, r |-> call[c].r, level |-> call[c].level,
                                    by |-> call[c].by, decision |-> decision]}
  BY DEF RecordDecision
<1> HIDE DEF decision
<1>7. \A x \in approvals' : x \in ApprovalRows
  BY <1>4, <1>5, <1>6 DEF Shape, TypeOK, TablesOK, ApprovalRows
<1>8. TablesOK' /\ UNCHANGED request
  BY <1>7 DEF Shape, TypeOK, TablesOK, RecordDecision, config, queues
<1>9. call' = [call EXCEPT ![c] = k]
  BY DEF RecordDecision
<1> QED BY <1>2, <1>3, <1>8, <1>9, OneHandlerMoves

LEMMA FinishShape ==
  ASSUME Shape, NEW c \in Calls, Finish(c)
  PROVE  Shape'
<1>1. call[c] \in CallRows /\ CallOK(call[c]) /\ call[c].pc \in {"notify", "write"}
  BY DEF Shape, TypeOK, Finish
<1>2. call[c].r \in Reqs
  BY <1>1 DEF CallOK, Stopped, Deciding
<1>3. EscalationOf(call[c]) \subseteq Jobs
  BY <1>2 DEF EscalationOf, Jobs
<1>4. TablesOK' /\ UNCHANGED request
  BY <1>3 DEF Shape, TypeOK, TablesOK, Finish, tables, config
<1>5. call' = [call EXCEPT ![c] = Returned(@)]
  BY DEF Finish, Return
<1> QED BY <1>1, <1>4, <1>5, ReturnedOK, OneHandlerMoves

LEMMA TakeJobShape ==
  ASSUME Shape, TakeJob
  PROVE  Shape'
<1> DEFINE run(j) == [Idle EXCEPT !.pc = "write", !.op = "ESCALATE",
                      !.r = j.r, !.snap = request[j.r], !.level = j.level,
                      !.target = EscalationStep(j.level).target,
                      !.todo = EscalationStep(j.level).todo]
           skip == [Idle EXCEPT !.pc = "done"]
<1>1. PICK j \in jobs :
        /\ jobs' = jobs \ {j}
        /\ \/ /\ request[j.r].status \in {"PENDING_L1", "PENDING_L2"}
              /\ call' = [call EXCEPT ![Worker] = run(j)]
           \/ call' = [call EXCEPT ![Worker] = skip]
  BY DEF TakeJob
<1>2. Worker \in Calls /\ j.r \in Reqs /\ j.level \in {1, 2}
  BY DEF Calls, Shape, TypeOK, TablesOK, Jobs
<1>3. request[j.r] \in RequestRows /\ RowOK(request[j.r])
  BY <1>2 DEF Shape, TypeOK, TablesOK
<1>4. /\ EscalationStep(j.level).target \in {"PENDING_L2", "NONE"}
      /\ EscalationStep(j.level).todo \in SUBSET {"status", "record"}
      /\ "status" \in EscalationStep(j.level).todo => EscalationStep(j.level).target # "NONE"
  BY DEF EscalationStep
<1>5. run(j) \in CallRows /\ skip \in CallRows
  <2>1. PICK e : e = EscalationStep(j.level)
    OBVIOUS
  <2>2. run(j) = [Idle EXCEPT !.pc = "write", !.op = "ESCALATE", !.r = j.r, !.snap = request[j.r],
                              !.level = j.level, !.target = e.target, !.todo = e.todo]
    BY <2>1
  <2>3. "write" \in Pcs /\ "ESCALATE" \in Ops /\ e.target \in Statuses
    BY <1>4, <2>1 DEF Pcs, Ops, Statuses
  <2>4. e.todo \in SUBSET {"status", "record"} /\ j.level \in {0, 1, 2}
    BY <1>2, <1>4, <2>1
  <2>5. skip \in CallRows
    BY BlankRows DEF CallRows, Pcs, Stopped
  <2>6. PICK i, q, l, t, todo : i = j.r /\ q = request[j.r] /\ l = j.level /\ t = e.target /\ todo = e.todo
    OBVIOUS
  <2>7. run(j) = [Idle EXCEPT !.pc = "write", !.op = "ESCALATE", !.r = i, !.snap = q, !.level = l,
                              !.target = t, !.todo = todo]
    BY <2>2, <2>6
  <2>8. /\ i \in Reqs /\ q \in RequestRows /\ l \in {0, 1, 2} /\ t \in Statuses
        /\ todo \in SUBSET {"status", "record"} /\ "write" \in Pcs /\ "ESCALATE" \in Ops
    BY <1>2, <1>3, <2>3, <2>4, <2>6
  <2>9. run(j) \in CallRows
    <3> HIDE DEF run
    <3>1. PICK k : k = [Idle EXCEPT !.pc = "write", !.op = "ESCALATE", !.r = i, !.snap = q]
      OBVIOUS
    <3>2. k \in CallRows
      BY <2>8, <3>1, BlankRows DEF CallRows
    <3>3. run(j) = [k EXCEPT !.level = l, !.target = t, !.todo = todo]
      BY <2>7, <3>1
    <3> QED BY <2>8, <3>2, <3>3 DEF CallRows
  <2> QED BY <2>5, <2>9
<1>6. CallOK(skip)
  BY DEF CallOK, Idle, Stopped
<1>7. request[j.r].status \in {"PENDING_L1", "PENDING_L2"} => CallOK(run(j))
  BY <1>2, <1>3, <1>4 DEF CallOK, RowOK, Idle, Stopped, Deciding
<1>8. TablesOK' /\ UNCHANGED request
  BY <1>1 DEF Shape, TypeOK, TablesOK, TakeJob, tables, config
<1> QED BY <1>1, <1>2, <1>5, <1>6, <1>7, <1>8, OneHandlerMoves

LEMMA FailShape ==
  ASSUME Shape, NEW c \in Calls, Fail(c)
  PROVE  Shape'
<1> DEFINE p == IF call[c].pc = "ledger" THEN "torn" ELSE "failed"
           k == [call[c] EXCEPT !.pc = p]
<1>1. call[c] \in CallRows /\ CallOK(call[c]) /\ call[c].pc \notin Stopped
  BY DEF Shape, TypeOK, Fail, Running
<1>2. k \in CallRows
  BY <1>1 DEF CallRows, Pcs, Stopped
<1>3. CallOK(k)
  BY <1>1 DEF CallRows, CallOK, Stopped
<1>4. jobs' \subseteq Jobs
  BY <1>1 DEF Shape, TypeOK, TablesOK, Fail, Jobs, CallOK, Deciding
<1>5. TablesOK' /\ UNCHANGED request
  BY <1>4 DEF Shape, TypeOK, TablesOK, Fail, tables, config
<1>6. call' = [call EXCEPT ![c] = k]
  BY DEF Fail, Goto
<1> QED BY <1>2, <1>3, <1>5, <1>6, OneHandlerMoves

(* Steps that touch neither requests nor handlers. *)
LEMMA EnvironmentShape ==
  ASSUME Shape, Environment \/ AccrualWorkerTakesJob \/ UNCHANGED vars
  PROVE  Shape'
<1>1. UNCHANGED <<request, call>>
  BY DEF Environment, updateSettings, updateType, editHolidays, softDelete, clockIn,
         AccrualWorkerTakesJob, vars, tables
<1>2. CASE Environment
  <2>1. ASSUME updateSettings PROVE TablesOK'
    BY <2>1 DEF updateSettings, Shape, TypeOK, TablesOK, tables, queues
  <2>2. ASSUME updateType PROVE TablesOK'
    <3>1. PICK t \in Types, p \in PolicyChoices :
            /\ policy' = [policy EXCEPT ![t] = p]
            /\ configured' = [configured EXCEPT ![t] = @ \cup {p}]
      BY <2>2 DEF updateType
    <3>2. /\ policy \in [Types -> PolicyChoices]
          /\ configured \in [Types -> SUBSET PolicyChoices]
      BY DEF Shape, TypeOK, TablesOK
    <3>3. policy' \in [Types -> PolicyChoices]
      BY <3>1, <3>2
    <3>4. configured' \in [Types -> SUBSET PolicyChoices]
      BY <3>1, <3>2
    <3> QED BY <2>2, <3>3, <3>4 DEF updateType, Shape, TypeOK, TablesOK, tables, queues
  <2>3. ASSUME editHolidays PROVE TablesOK'
    BY <2>3 DEF editHolidays, Shape, TypeOK, TablesOK, tables, queues
  <2>4. ASSUME \E e \in Applicants, d \in ClockDays : clockIn(e, d) PROVE TablesOK'
    BY <2>4, LeaveConstants
       DEF clockIn, Shape, TypeOK, TablesOK, config, queues, LeaveConstants
  <2>5. ASSUME \E r \in Reqs : softDelete(r) PROVE TablesOK'
    BY <2>5 DEF softDelete, Shape, TypeOK, TablesOK, config, queues
  <2>6. TablesOK'
    BY <1>2, <2>1, <2>2, <2>3, <2>4, <2>5 DEF Environment, Shape, TypeOK
  <2> QED BY <1>1, <2>6 DEF Shape, TypeOK, RowOK, CallOK
<1>3. CASE AccrualWorkerTakesJob
  <2>1. TablesOK'
    BY <1>3 DEF AccrualWorkerTakesJob, Shape, TypeOK, TablesOK, tables, config
  <2> QED BY <1>1, <2>1 DEF Shape, TypeOK, RowOK, CallOK
<1>4. CASE UNCHANGED vars
  <2>1. TablesOK'
    BY <1>4 DEF vars, Shape, TypeOK, TablesOK
  <2> QED BY <1>1, <2>1 DEF Shape, TypeOK, RowOK, CallOK
<1> QED BY <1>2, <1>3, <1>4

LEMMA InitShape == Init => Shape
<1> SUFFICES ASSUME Init PROVE Shape
  OBVIOUS
<1>1. TablesOK
  BY BlankRows, LeaveConstants DEF Init, TablesOK, LeaveConstants, BalanceRows
<1>2. call \in [Calls -> CallRows]
  BY BlankRows DEF Init
<1>3. \A r \in Reqs : RowOK(request[r])
  BY DEF Init, RowOK, NoRequest
<1>4. \A c \in Calls : CallOK(call[c])
  BY DEF Init, CallOK, Idle, Stopped
<1> QED BY <1>1, <1>2, <1>3, <1>4 DEF Shape, TypeOK

(* The shape of the tables and handlers is inductive. *)
LEMMA StepShape == Shape /\ [Next]_vars => Shape'
<1> SUFFICES ASSUME Shape, [Next]_vars PROVE Shape'
  OBVIOUS
<1>1. ASSUME NEW c \in UserCalls, Start(c) PROVE Shape'
  <2>1. c \in Calls
    BY DEF Calls
  <2> QED
    BY <1>1, <2>1, ApplyShape, AttachShape, ApproveShape, RejectShape, CancelShape, AdjustShape
       DEF Start
<1>2. ASSUME NEW c \in Calls, Step(c) PROVE Shape'
  BY <1>2, InsertShape, UploadShape, RouteShape, SettleShape, PostShape, LedgerShape,
     HolidaysShape, SyncShape, SyncDoneShape, WriteStatusShape, RecordShape, FinishShape
     DEF Step
<1> QED
  BY <1>1, <1>2, FailShape, TakeJobShape, EnvironmentShape DEF Next

LEMMA AlwaysShape == Spec => []Shape
BY InitShape, StepShape, PTL DEF Spec

(* Every table, queue and handler of the lifecycle stays well typed, under  *)
(* every interleaving and failure of LeaveService and the escalation job.   *)
THEOREM TypeCorrect == Spec => []TypeOK
<1>1. Shape => TypeOK
  BY DEF Shape
<1> QED BY <1>1, AlwaysShape, PTL
----------------------------------------------------------------------------
(* Who stands behind an approval.                                           *)

OnlyMoves(c) == \A d \in Calls \ {c} : call'[d] = call[d]

(* Handler c goes on (or dies) with the decision it started with. *)
Continues(c) ==
    /\ UNCHANGED request /\ OnlyMoves(c)
    /\ call[c].pc \notin Stopped /\ call'[c].pc # "route"
    /\ call'[c].op = call[c].op /\ call'[c].r = call[c].r /\ call'[c].by = call[c].by
    /\ call'[c].level = call[c].level /\ call'[c].target = call[c].target

(* Handler c returns. *)
Returns(c) ==
    /\ UNCHANGED request /\ OnlyMoves(c)
    /\ call[c].pc \notin Stopped /\ call'[c] = Returned(call[c])

LEMMA ContinuesSigned ==
  ASSUME Shape, Signed, NEW c \in Calls, Continues(c)
  PROVE  Signed'
<1>1. call'[Worker].op = call[Worker].op
  BY DEF Continues, OnlyMoves, Calls
<1>2. \A d \in Calls : call'[d].pc \notin Stopped /\ call'[d].target = "APPROVED" =>
        call'[d].op = "APPROVE" /\ Entitled(call[d])'
  BY DEF Signed, Continues, OnlyMoves, Entitled
<1>3. ASSUME NEW r \in Reqs, request'[r].status = "APPROVED"
      PROVE  \E d \in UserCalls :
               /\ call'[d].op = "APPROVE" /\ call'[d].r = r /\ call'[d].target = "APPROVED"
               /\ call'[d].pc # "route"
               /\ Entitled(call[d])'
  <2>1. PICK d \in UserCalls :
               /\ call[d].op = "APPROVE" /\ call[d].r = r /\ call[d].target = "APPROVED"
               /\ call[d].pc # "route"
               /\ Entitled(call[d])
    BY <1>3 DEF Signed, Continues
  <2>2. d \in Calls
    BY DEF Calls
  <2> WITNESS d \in UserCalls
  <2> QED BY <2>1, <2>2 DEF Continues, OnlyMoves, Entitled
<1> QED BY <1>1, <1>2, <1>3 DEF Signed

LEMMA ReturnsSigned ==
  ASSUME Shape, Signed, NEW c \in Calls, Returns(c)
  PROVE  Signed'
<1>1. call[c] \in CallRows
  BY DEF Shape, TypeOK
<1>2. /\ call'[c].pc = "done" /\ call'[c].op \in {"NONE", call[c].op}
      /\ call[c].op = "APPROVE" =>
           /\ call'[c].op = "APPROVE" /\ call'[c].r = call[c].r /\ call'[c].by = call[c].by
           /\ call'[c].level = call[c].level /\ call'[c].target = call[c].target
  BY <1>1, ReturnedRow DEF Returns
<1>3. call'[Worker].op \in {"NONE", "ESCALATE"}
  BY <1>2 DEF Signed, Returns, OnlyMoves, Calls
<1>4. \A d \in Calls : call'[d].pc \notin Stopped /\ call'[d].target = "APPROVED" =>
        call'[d].op = "APPROVE" /\ Entitled(call[d])'
  BY <1>2 DEF Signed, Returns, OnlyMoves, Entitled, Stopped
<1>5. ASSUME NEW r \in Reqs, request'[r].status = "APPROVED"
      PROVE  \E d \in UserCalls :
               /\ call'[d].op = "APPROVE" /\ call'[d].r = r /\ call'[d].target = "APPROVED"
               /\ call'[d].pc # "route"
               /\ Entitled(call[d])'
  <2>1. PICK d \in UserCalls :
               /\ call[d].op = "APPROVE" /\ call[d].r = r /\ call[d].target = "APPROVED"
               /\ call[d].pc # "route"
               /\ Entitled(call[d])
    BY <1>5 DEF Signed, Returns
  <2>2. d \in Calls
    BY DEF Calls
  <2> WITNESS d \in UserCalls
  <2> QED BY <1>2, <2>1, <2>2 DEF Returns, OnlyMoves, Entitled
<1> QED BY <1>3, <1>4, <1>5 DEF Signed

(* A handler that starts takes nobody's place: a call id is used once, and  *)
(* the worker's only operation is the escalation.                           *)
LEMMA StartsSigned ==
  ASSUME Shape, Signed, UNCHANGED request, NEW c \in Calls, OnlyMoves(c),
         \/ c \in UserCalls /\ call[c].pc = "idle"
         \/ c = Worker /\ call'[c].op \in {"NONE", "ESCALATE"},
         call'[c].pc \notin Stopped /\ call'[c].target = "APPROVED" =>
           call'[c].op = "APPROVE" /\ Entitled(call[c])'
  PROVE  Signed'
<1>1. Worker \notin UserCalls /\ UserCalls \subseteq Calls /\ Worker \in Calls
  BY LeaveConstants DEF Calls, LeaveConstants
<1>2. call'[Worker].op \in {"NONE", "ESCALATE"}
  BY <1>1 DEF Signed, OnlyMoves
<1>3. \A d \in Calls : call'[d].pc \notin Stopped /\ call'[d].target = "APPROVED" =>
        call'[d].op = "APPROVE" /\ Entitled(call[d])'
  BY DEF Signed, OnlyMoves, Entitled
<1>4. c \in UserCalls => call[c].op = "NONE"
  BY <1>1 DEF Shape, CallOK
<1>5. ASSUME NEW r \in Reqs, request'[r].status = "APPROVED"
      PROVE  \E d \in UserCalls :
               /\ call'[d].op = "APPROVE" /\ call'[d].r = r /\ call'[d].target = "APPROVED"
               /\ call'[d].pc # "route"
               /\ Entitled(call[d])'
  <2>1. PICK d \in UserCalls :
               /\ call[d].op = "APPROVE" /\ call[d].r = r /\ call[d].target = "APPROVED"
               /\ call[d].pc # "route"
               /\ Entitled(call[d])
    BY <1>5 DEF Signed
  <2>2. d \in Calls /\ d # c
    BY <1>1, <1>4, <2>1
  <2> WITNESS d \in UserCalls
  <2> QED BY <2>1, <2>2 DEF OnlyMoves, Entitled
<1> QED BY <1>2, <1>3, <1>5 DEF Signed

(* Every user operation starts on an unused call, and only approve() sets   *)
(* out to approve, after checking its caller.                               *)
LEMMA StartSigned ==
  ASSUME Shape, Signed, NEW c \in UserCalls, Start(c)
  PROVE  Signed'
<1>1. c \in Calls /\ call \in [Calls -> CallRows] /\ request \in [Reqs -> RequestRows]
  BY DEF Calls, Shape, TypeOK, TablesOK
<1> DEFINE Unapproving == /\ UNCHANGED request /\ OnlyMoves(c)
                          /\ call[c].pc = "idle" /\ call'[c].target # "APPROVED"
<1>2. ASSUME Unapproving PROVE Signed'
  BY <1>1, <1>2, StartsSigned
<1>3. CASE ReadApply(c)
  <2>1. call'[c].target = "NONE"
    BY <1>1, <1>3 DEF ReadApply, Idle
  <2> QED BY <1>1, <1>2, <1>3, <2>1 DEF ReadApply, CanStart, OnlyMoves, tables
<1>4. CASE \E u \in Employees, r \in Reqs : ReadAttach(c, u, r)
  BY <1>1, <1>2, <1>4 DEF ReadAttach, CanStart, OnlyMoves, Idle, tables
<1>5. CASE \E u \in Employees, r \in Reqs : ReadReject(c, u, r)
  BY <1>1, <1>2, <1>5 DEF ReadReject, CanStart, OnlyMoves, Idle, tables
<1>6. CASE \E u \in Employees, r \in Reqs : ReadCancel(c, u, r)
  BY <1>1, <1>2, <1>6 DEF ReadCancel, CanStart, OnlyMoves, Idle, tables
<1>7. CASE \E u \in Admins, e \in Applicants, t \in Types, y \in Years, delta \in AdjustDeltas :
             StartAdjust(c, u, e, t, y, delta)
  BY <1>1, <1>2, <1>7 DEF StartAdjust, CanStart, OnlyMoves, Idle, tables
<1>8. CASE \E u \in Employees, r \in Reqs : ReadApprove(c, u, r)
  <2>1. PICK u \in Employees, r \in Reqs : ReadApprove(c, u, r)
    BY <1>8
  <2>2. UNCHANGED request /\ OnlyMoves(c) /\ call[c].pc = "idle"
    BY <1>1, <2>1 DEF ReadApprove, CanStart, OnlyMoves, tables
  <2>3. /\ call'[c].op = "APPROVE" /\ call'[c].by = u /\ call'[c].r = r
        /\ call'[c].level = IF request[r].status = "PENDING_L1" THEN 1 ELSE 2
    BY <1>1, <2>1 DEF ReadApprove, Idle
  <2>4. Entitled(call[c])'
    BY <2>1, <2>2, <2>3 DEF ReadApprove, Entitled
  <2> QED BY <1>1, <2>2, <2>3, <2>4, StartsSigned
<1> QED BY <1>3, <1>4, <1>5, <1>6, <1>7, <1>8 DEF Start

LEMMA InsertSigned ==
  ASSUME Shape, Signed, NEW c \in Calls, InsertRequest(c)
  PROVE  Signed'
<1>1. call \in [Calls -> CallRows] /\ request \in [Reqs -> RequestRows] /\ CallOK(call[c])
  BY DEF Shape, TypeOK, TablesOK
<1>0. PICK r \in Reqs : /\ NextReq(r)
                        /\ request' = [request EXCEPT ![r] = call[c].snap]
                        /\ call' = [call EXCEPT ![c].r = r, ![c].pc = "notify"]
  BY ZenonT(20) DEF InsertRequest
<1>2. /\ request[r].status = "NONE"
      /\ request' = [request EXCEPT ![r] = call[c].snap]
      /\ call' = [call EXCEPT ![c].r = r, ![c].pc = "notify"]
  BY <1>0 DEF NextReq
<1>3. call[c].op = "APPLY" /\ call[c].snap.status \in {"PENDING_L1", "PENDING_L2"}
  BY <1>1 DEF CallOK, InsertRequest, Stopped
<1>4. \A d \in Calls : d # c => call'[d] = call[d]
  BY <1>1, <1>2
<1>5. call'[c].op = "APPLY" /\ call'[c].target = call[c].target
  BY <1>1, <1>2, <1>3 DEF CallRows
<1>6. \A s \in Reqs : s # r => request'[s] = request[s]
  BY <1>1, <1>2
<1>7. request'[r].status # "APPROVED"
  BY <1>1, <1>2, <1>3
<1>8. call'[Worker].op \in {"NONE", "ESCALATE"}
  BY <1>3, <1>4 DEF Signed, Calls
<1>9. ASSUME NEW d \in Calls, call'[d].pc \notin Stopped, call'[d].target = "APPROVED"
      PROVE  call'[d].op = "APPROVE" /\ Entitled(call[d])'
  <2>1. d # c
    BY <1>1, <1>3, <1>5, <1>9 DEF Signed, InsertRequest, Stopped
  <2>2. call'[d] = call[d] /\ CallOK(call[d])
    BY <1>4, <2>1 DEF Shape
  <2>3. call[d].op = "APPROVE" /\ Entitled(call[d])
    BY <1>9, <2>2 DEF Signed
  <2>4. call[d].r \in Reqs /\ call[d].r # r
    BY <1>2, <1>9, <2>2, <2>3 DEF CallOK, Deciding
  <2> QED BY <1>6, <2>2, <2>3, <2>4 DEF Entitled
<1>10. ASSUME NEW s \in Reqs, request'[s].status = "APPROVED"
      PROVE  \E d \in UserCalls :
               /\ call'[d].op = "APPROVE" /\ call'[d].r = s /\ call'[d].target = "APPROVED"
               /\ call'[d].pc # "route"
               /\ Entitled(call[d])'
  <2>1. s # r /\ request'[s] = request[s]
    BY <1>6, <1>7, <1>10
  <2>2. PICK d \in UserCalls :
               /\ call[d].op = "APPROVE" /\ call[d].r = s /\ call[d].target = "APPROVED"
               /\ call[d].pc # "route"
               /\ Entitled(call[d])
    BY <1>10, <2>1 DEF Signed
  <2>3. call'[d] = call[d]
    BY <1>3, <1>4, <2>2 DEF Calls
  <2> WITNESS d \in UserCalls
  <2> QED BY <2>1, <2>2, <2>3 DEF Entitled
<1> QED BY <1>8, <1>9, <1>10 DEF Signed

LEMMA WriteStatusSigned ==
  ASSUME Shape, Signed, NEW c \in Calls, WriteStatus(c)
  PROVE  Signed'
<1>1. /\ call \in [Calls -> CallRows] /\ request \in [Reqs -> RequestRows]
      /\ CallOK(call[c]) /\ call[c].pc = "write"
  BY DEF Shape, TypeOK, TablesOK, WriteStatus
<1>2. call[c].r \in Reqs
  BY <1>1 DEF CallOK, Stopped, Deciding
<1>3. \A r \in Reqs : request'[r].emp = request[r].emp
  BY <1>1, <1>2 DEF WriteStatus, RequestRows
<1>4. \A r \in Reqs : request'[r].status = "APPROVED" =>
        request[r].status = "APPROVED" \/ (r = call[c].r /\ call[c].target = "APPROVED")
  BY <1>1, <1>2 DEF WriteStatus, RequestRows
<1>5. \A d \in Calls : /\ call'[d].pc = call[d].pc /\ call'[d].op = call[d].op
                       /\ call'[d].r = call[d].r /\ call'[d].by = call[d].by
                       /\ call'[d].level = call[d].level /\ call'[d].target = call[d].target
  BY <1>1 DEF WriteStatus, CallRows
<1>6. call'[Worker].op \in {"NONE", "ESCALATE"}
  BY <1>5 DEF Signed, Calls
<1>7. ASSUME NEW d \in Calls, call'[d].pc \notin Stopped, call'[d].target = "APPROVED"
      PROVE  call'[d].op = "APPROVE" /\ Entitled(call[d])'
  <2>1. call[d].op = "APPROVE" /\ Entitled(call[d])
    BY <1>5, <1>7 DEF Signed
  <2>2. call[d].r \in Reqs
    BY <1>5, <1>7, <2>1 DEF Shape, CallOK, Deciding
  <2> QED BY <1>3, <1>5, <2>1, <2>2 DEF Entitled
<1>8. ASSUME NEW r \in Reqs, request'[r].status = "APPROVED"
      PROVE  \E d \in UserCalls :
               /\ call'[d].op = "APPROVE" /\ call'[d].r = r /\ call'[d].target = "APPROVED"
               /\ call'[d].pc # "route"
               /\ Entitled(call[d])'
  <2>1. PICK d \in UserCalls :
               /\ call[d].op = "APPROVE" /\ call[d].r = r /\ call[d].target = "APPROVED"
               /\ call[d].pc # "route"
               /\ Entitled(call[d])
    <3>1. CASE request[r].status = "APPROVED"
      BY <3>1 DEF Signed
    <3>2. CASE r = call[c].r /\ call[c].target = "APPROVED"
      <4>1. call[c].op = "APPROVE" /\ Entitled(call[c])
        BY <1>1, <3>2 DEF Signed, Stopped
      <4>2. c \in UserCalls
        BY <4>1 DEF Signed, Calls
      <4> QED BY <1>1, <3>2, <4>1, <4>2
    <3> QED BY <1>4, <1>8, <3>1, <3>2
  <2>2. d \in Calls
    BY DEF Calls
  <2> WITNESS d \in UserCalls
  <2> QED BY <1>3, <1>5, <2>1, <2>2 DEF Entitled
<1> QED BY <1>6, <1>7, <1>8 DEF Signed

(* Every other statement of a handler goes on with its decision or returns. *)
LEMMA StepSigned ==
  ASSUME Shape, Signed, NEW c \in Calls, Step(c)
  PROVE  Signed'
<1>1. /\ call \in [Calls -> CallRows] /\ call[c] \in CallRows /\ CallOK(call[c])
  BY DEF Shape, TypeOK
<1>2. CASE InsertRequest(c)
  BY <1>2, InsertSigned
<1>3. CASE WriteStatus(c)
  BY <1>3, WriteStatusSigned
<1>4. CASE Upload(c) \/ Finish(c)
  <2>1. Returns(c)
    BY <1>1, <1>4 DEF Upload, Finish, Return, Returns, OnlyMoves, tables, Stopped
  <2> QED BY <2>1, ReturnsSigned
<1>5. CASE RouteL1(c)
  <2>1. CASE call' = [call EXCEPT ![c].pc = "settle"]
    <3>1. Continues(c)
      BY <1>1, <1>5, <2>1 DEF RouteL1, Continues, OnlyMoves, CallRows, tables, Stopped
    <3> QED BY <3>1, ContinuesSigned
  <2>2. CASE call' = [call EXCEPT ![c].pc = "write", ![c].target = "PENDING_L2",
                                  ![c].todo = {"status", "record"}]
    <3>1. call[c].pc = "route" /\ UNCHANGED request
      BY <1>5 DEF RouteL1, tables
    <3>2. OnlyMoves(c) /\ call'[c].op = call[c].op /\ call'[c].target = "PENDING_L2"
      BY <1>1, <2>2 DEF OnlyMoves, CallRows
    <3>3. call'[Worker].op \in {"NONE", "ESCALATE"}
      BY <3>2 DEF Signed, OnlyMoves, Calls
    <3>4. \A d \in Calls : call'[d].pc \notin Stopped /\ call'[d].target = "APPROVED" =>
            call'[d].op = "APPROVE" /\ Entitled(call[d])'
      BY <3>1, <3>2 DEF Signed, OnlyMoves, Entitled
    <3>5. ASSUME NEW r \in Reqs, request'[r].status = "APPROVED"
          PROVE  \E d \in UserCalls :
               /\ call'[d].op = "APPROVE" /\ call'[d].r = r /\ call'[d].target = "APPROVED"
               /\ call'[d].pc # "route"
               /\ Entitled(call[d])'
      <4>1. PICK d \in UserCalls :
               /\ call[d].op = "APPROVE" /\ call[d].r = r /\ call[d].target = "APPROVED"
               /\ call[d].pc # "route"
               /\ Entitled(call[d])
        BY <3>1, <3>5 DEF Signed
      <4>2. d \in Calls /\ d # c
        BY <3>1, <4>1 DEF Calls
      <4> WITNESS d \in UserCalls
      <4> QED BY <3>1, <3>2, <4>1, <4>2 DEF OnlyMoves, Entitled
    <3> QED BY <3>3, <3>4, <3>5 DEF Signed
  <2> QED BY <1>5, <2>1, <2>2 DEF RouteL1, Goto
<1>6. CASE Settle(c)
  <2>1. UNCHANGED request /\ call[c].pc = "settle" /\ call[c].pc \notin Stopped
    BY <1>6 DEF Settle, tables, Stopped
  <2>2. CASE Return(c)
    <3>1. Returns(c)
      BY <1>1, <2>1, <2>2 DEF Return, Returns, OnlyMoves
    <3> QED BY <3>1, ReturnsSigned
  <2>3. CASE \E y, plan, mark : call' = [call EXCEPT ![c].pc = "post", ![c].year = y,
                                                    ![c].plan = plan, ![c].mark = mark]
    <3>1. Continues(c)
      BY <1>1, <2>1, <2>3 DEF Continues, OnlyMoves, CallRows
    <3> QED BY <3>1, ContinuesSigned
  <2>4. \/ Return(c)
        \/ \E y, plan, mark : call' = [call EXCEPT ![c].pc = "post", ![c].year = y,
                                                   ![c].plan = plan, ![c].mark = mark]
    <3>1. PICK q, p, mark : q = call[c].snap /\ p = policy[q.type] /\ mark = (call[c].op = "APPROVE")
      OBVIOUS
    <3>2. PICK y, plan : /\ y = resolveLeaveYear(q.from, settings.fy)
                         /\ plan = IF mark THEN PlanApproval(q, p) ELSE PlanCancel(q)
      OBVIOUS
    <3>3. \/ Return(c)
          \/ call' = [call EXCEPT ![c].pc = "post", ![c].year = y, ![c].plan = plan, ![c].mark = mark]
      BY <1>6, <3>1, <3>2 DEF Settle
    <3> QED BY <3>3
  <2> QED BY <2>2, <2>3, <2>4
<1>7. CASE ReadHolidays(c)
  <2>1. Continues(c) \/ Returns(c)
    BY <1>1, <1>7 DEF ReadHolidays, Continues, Returns, OnlyMoves, CallRows, tables, Stopped
  <2> QED BY <2>1, ContinuesSigned, ReturnsSigned
<1>8. CASE Post(c) \/ WriteLedger(c)
  <2>1. CASE Post(c)
    <3>1. Continues(c)
      BY <1>1, <2>1 DEF Post, Goto, Continues, OnlyMoves, CallRows, Stopped
    <3> QED BY <3>1, ContinuesSigned
  <2>2. CASE WriteLedger(c)
    <3>1. Continues(c)
      BY <1>1, <2>2 DEF WriteLedger, Goto, Continues, OnlyMoves, CallRows, Stopped
    <3> QED BY <3>1, ContinuesSigned
  <2> QED BY <1>8, <2>1, <2>2
<1>9. CASE SyncDay(c)
  <2>1. Continues(c)
    BY <1>1, <1>9 DEF SyncDay, Continues, OnlyMoves, CallRows, Stopped
  <2> QED BY <2>1, ContinuesSigned
<1>10. CASE SyncDone(c)
  <2>1. Continues(c)
    BY <1>1, <1>10 DEF SyncDone, Continues, OnlyMoves, CallRows, tables, Stopped
  <2> QED BY <2>1, ContinuesSigned
<1>11. CASE RecordDecision(c)
  <2>1. Continues(c)
    BY <1>1, <1>11 DEF RecordDecision, Continues, OnlyMoves, CallRows, Stopped
  <2> QED BY <2>1, ContinuesSigned
<1> QED
  BY <1>2, <1>3, <1>4, <1>5, <1>6, <1>7, <1>8, <1>9, <1>10, <1>11 DEF Step

LEMMA WorkerSigned ==
  ASSUME Shape, Signed, TakeJob
  PROVE  Signed'
<1>1. Worker \in Calls /\ call \in [Calls -> CallRows] /\ UNCHANGED request
  BY DEF Calls, Shape, TypeOK, TakeJob, tables
<1>2. OnlyMoves(Worker)
  BY <1>1 DEF TakeJob, OnlyMoves
<1>3. /\ call'[Worker].op \in {"NONE", "ESCALATE"}
      /\ call'[Worker].target # "APPROVED"
  BY <1>1 DEF TakeJob, Idle, EscalationStep
<1> QED BY <1>1, <1>2, <1>3, StartsSigned

LEMMA NextSigned == Shape /\ Signed /\ [Next]_vars => Signed'
<1> SUFFICES ASSUME Shape, Signed, [Next]_vars PROVE Signed'
  OBVIOUS
<1>1. ASSUME NEW c \in Calls, Fail(c) PROVE Signed'
  <2>1. call \in [Calls -> CallRows] /\ call[c] \in CallRows /\ call[c].pc \notin Stopped
    BY <1>1 DEF Shape, TypeOK, Fail, Running
  <2>2. UNCHANGED request /\ OnlyMoves(c)
    BY <1>1, <2>1 DEF Fail, Goto, OnlyMoves, tables
  <2>3. Continues(c)
    BY <1>1, <2>1, <2>2 DEF Fail, Goto, Continues, CallRows
  <2> QED BY <2>3, ContinuesSigned
<1>2. ASSUME UNCHANGED <<request, call>> PROVE Signed'
  BY <1>2 DEF Signed, Entitled
<1>3. CASE Environment \/ AccrualWorkerTakesJob \/ UNCHANGED vars
  <2>1. UNCHANGED <<request, call>>
    BY <1>3 DEF Environment, updateSettings, updateType, editHolidays, softDelete, clockIn,
         AccrualWorkerTakesJob, vars, tables
  <2> QED BY <1>2, <2>1
<1> QED
  BY <1>1, <1>3, StartSigned, StepSigned, WorkerSigned DEF Next

LEMMA InitSigned == Init => Signed
BY DEF Init, Signed, Idle, NoRequest, Calls

LEMMA AlwaysSigned == Spec => []Signed
BY AlwaysShape, InitSigned, NextSigned, PTL DEF Spec

(* RULE-5 for every tenant: however approve(), reject(), cancel() and the   *)
(* escalation job interleave and fail, a request is APPROVED only if an     *)
(* approve() call of an admin, or of its reporting manager at level 1,      *)
(* decided so.                                                              *)
THEOREM ApprovalIsHuman == Spec => []HumanApproved
<1>1. Signed => HumanApproved
  BY DEF Signed, HumanApproved, Entitled
<1> QED BY <1>1, AlwaysSigned, PTL
-----------------------------------------------------------------------------
(* The leave ledger: which rows a handler has written, and which it still   *)
(* has to write, when it changes a request's status.  Paid rests on Shape.  *)

Moves(k, source) == \E i \in 1..Len(k.plan) : k.plan[i].source = source

(* The movements a handler has still to post, and those it must have posted. *)
PlanOK(k) ==
    /\ k.pc \in {"post", "ledger"} =>
         /\ Moves(k, "REQUEST_APPROVED") => k.op = "APPROVE" /\ ~k.snap.lop
         /\ Moves(k, "REQUEST_CANCELLED") => k.op = "CANCEL" /\ ~k.snap.lop
    /\ k.op = "CANCEL" /\ ~k.snap.lop /\ k.pc \in {"settle", "post", "ledger"} =>
         Posted(k.r, "REQUEST_APPROVED") # {}
    /\ k.op = "APPROVE" /\ ~k.snap.lop /\ k.pc \in {"post", "ledger"} =>
         Posted(k.r, "REQUEST_APPROVED") # {} \/ Moves(k, "REQUEST_APPROVED")
    /\ k.op = "APPROVE" /\ ~k.snap.lop /\ k.target = "APPROVED" /\ k.pc \in {"sync", "write"} =>
         Posted(k.r, "REQUEST_APPROVED") # {}

(* Ledger rows of requests belong to requests that were inserted. *)
RowsHaveRequests == \A x \in ledger : x.r \in Reqs => request[x.r].status # "NONE"

Paid ==
    /\ \A c \in Calls : PlanOK(call[c])
    /\ RowsHaveRequests
    /\ ApprovedWasDeducted
    /\ RefundNeedsDeduction

(* A step that writes neither requests nor ledger rows keeps Paid when the  *)
(* handler that takes it is in order afterwards.                            *)
LEMMA OneHandlerPays ==
  ASSUME Shape, Paid, UNCHANGED <<request, ledger>>, NEW c \in Calls, OnlyMoves(c),
         PlanOK(call[c])'
  PROVE  Paid'
<1>1. \A d \in Calls : PlanOK(call[d])'
  BY DEF Paid, PlanOK, Moves, Posted, OnlyMoves
<1> QED BY <1>1 DEF Paid, RowsHaveRequests, ApprovedWasDeducted, RefundNeedsDeduction, Posted

(* What the plans post: only an approval that takes days posts a deduction, *)
(* only a cancellation of one that took days posts a refund.                *)
LEMMA ApprovalSources ==
  ASSUME NEW q \in RequestRows, NEW p
  PROVE  /\ \A i \in 1..Len(PlanApproval(q, p)) :
              \/ PlanApproval(q, p)[i].source = "EVENT_GRANT"
              \/ PlanApproval(q, p)[i].source = "REQUEST_APPROVED" /\ ~q.lop
         /\ ~q.lop => \E i \in 1..Len(PlanApproval(q, p)) :
                        PlanApproval(q, p)[i].source = "REQUEST_APPROVED"
<1> DEFINE s == IF p.mode = "ON_EVENT" THEN <<grantEventDays(q.days)>> ELSE <<>>
           t == IF ~q.lop THEN <<adjustUsedDays(q.days, "REQUEST_APPROVED")>> ELSE <<>>
<1>1. q.days \in Int
  BY DEF RequestRows
<1>2. /\ grantEventDays(q.days) \in Movements
      /\ grantEventDays(q.days).source = "EVENT_GRANT"
      /\ adjustUsedDays(q.days, "REQUEST_APPROVED") \in Movements
      /\ adjustUsedDays(q.days, "REQUEST_APPROVED").source = "REQUEST_APPROVED"
  BY <1>1 DEF grantEventDays, adjustUsedDays, Movements, Postings
<1>3. s \in Seq(Movements) /\ \A i \in 1..Len(s) : s[i].source = "EVENT_GRANT"
  BY <1>2
<1>4. /\ t \in Seq(Movements)
      /\ \A i \in 1..Len(t) : t[i].source = "REQUEST_APPROVED" /\ ~q.lop
      /\ ~q.lop => Len(t) = 1
  BY <1>2
<1>5. PlanApproval(q, p) = s \o t
  BY DEF PlanApproval
<1> HIDE DEF s, t
<1>6. /\ Len(s \o t) = Len(s) + Len(t) /\ Len(s) \in Nat /\ Len(t) \in Nat
      /\ \A i \in 1..Len(s) + Len(t) :
           (s \o t)[i] = IF i <= Len(s) THEN s[i] ELSE t[i - Len(s)]
  BY <1>3, <1>4, ConcatProperties
<1>7. ASSUME NEW i \in 1..Len(s) + Len(t)
      PROVE  \/ (s \o t)[i].source = "EVENT_GRANT"
             \/ (s \o t)[i].source = "REQUEST_APPROVED" /\ ~q.lop
  BY <1>3, <1>4, <1>6
<1>8. ASSUME ~q.lop
      PROVE  (s \o t)[Len(s) + 1].source = "REQUEST_APPROVED" /\ Len(s) + 1 \in 1..Len(s \o t)
  BY <1>4, <1>6, <1>8
<1> QED BY <1>5, <1>6, <1>7, <1>8

LEMMA CancelSources ==
  ASSUME NEW q \in RequestRows
  PROVE  \A i \in 1..Len(PlanCancel(q)) :
           \/ PlanCancel(q)[i].source = "EVENT_GRANT"
           \/ PlanCancel(q)[i].source = "REQUEST_CANCELLED" /\ ~q.lop
<1> DEFINE s == IF ~q.lop THEN <<adjustUsedDays(-q.days, "REQUEST_CANCELLED")>> ELSE <<>>
           t == IF q.event # NoDay THEN <<grantEventDays(-q.days)>> ELSE <<>>
<1>1. -q.days \in Int
  BY DEF RequestRows
<1>2. /\ grantEventDays(-q.days) \in Movements
      /\ grantEventDays(-q.days).source = "EVENT_GRANT"
      /\ adjustUsedDays(-q.days, "REQUEST_CANCELLED") \in Movements
      /\ adjustUsedDays(-q.days, "REQUEST_CANCELLED").source = "REQUEST_CANCELLED"
  BY <1>1 DEF grantEventDays, adjustUsedDays, Movements, Postings
<1>3. t \in Seq(Movements) /\ \A i \in 1..Len(t) : t[i].source = "EVENT_GRANT"
  BY <1>2
<1>4. /\ s \in Seq(Movements)
      /\ \A i \in 1..Len(s) : s[i].source = "REQUEST_CANCELLED" /\ ~q.lop
  BY <1>2
<1>5. PlanCancel(q) = s \o t
  BY DEF PlanCancel
<1> HIDE DEF s, t
<1>6. /\ Len(s \o t) = Len(s) + Len(t) /\ Len(s) \in Nat /\ Len(t) \in Nat
      /\ \A i \in 1..Len(s) + Len(t) :
           (s \o t)[i] = IF i <= Len(s) THEN s[i] ELSE t[i - Len(s)]
  BY <1>3, <1>4, ConcatProperties
<1> QED BY <1>3, <1>4, <1>5, <1>6
----------------------------------------------------------------------------
LEMMA StartPays ==
  ASSUME Shape, Paid, NEW c \in UserCalls, Start(c)
  PROVE  Paid'
<1>1. c \in Calls /\ call \in [Calls -> CallRows] /\ request \in [Reqs -> RequestRows]
  BY DEF Calls, Shape, TypeOK, TablesOK
<1> DEFINE Fresh == UNCHANGED <<request, ledger>> /\ OnlyMoves(c)
<1>2. ASSUME Fresh, PlanOK(call[c])' PROVE Paid'
  BY <1>1, <1>2, OneHandlerPays
<1>3. CASE ReadApply(c)
  <2>1. Fresh /\ call'[c].pc = "insert"
    BY <1>1, <1>3 DEF ReadApply, Idle, OnlyMoves, tables
  <2>2. PlanOK(call[c])'
    BY <2>1 DEF PlanOK
  <2> QED BY <1>2, <2>1, <2>2
<1>4. CASE \E u \in Employees, r \in Reqs : ReadAttach(c, u, r)
  <2>1. Fresh /\ call'[c].pc = "upload"
    BY <1>1, <1>4 DEF ReadAttach, Idle, OnlyMoves, tables
  <2>2. PlanOK(call[c])'
    BY <2>1 DEF PlanOK
  <2> QED BY <1>2, <2>1, <2>2
<1>5. CASE \E u \in Employees, r \in Reqs : ReadReject(c, u, r)
  <2>1. Fresh /\ call'[c].pc = "write" /\ call'[c].op = "REJECT"
    BY <1>1, <1>5 DEF ReadReject, Idle, OnlyMoves, tables
  <2>2. PlanOK(call[c])'
    BY <2>1 DEF PlanOK
  <2> QED BY <1>2, <2>1, <2>2
<1>6. CASE \E u \in Employees, r \in Reqs : ReadCancel(c, u, r)
  <2>1. PICK u \in Employees, r \in Reqs : ReadCancel(c, u, r)
    BY <1>6
  <2>2. /\ Fresh /\ call'[c].op = "CANCEL" /\ call'[c].r = r /\ call'[c].snap = request[r]
        /\ call'[c].pc = IF request[r].status = "APPROVED" THEN "settle" ELSE "write"
    BY <1>1, <2>1 DEF ReadCancel, Idle, OnlyMoves, tables
  <2>3. request[r].status = "APPROVED" /\ ~request[r].lop => Posted(r, "REQUEST_APPROVED") # {}
    BY DEF Paid, ApprovedWasDeducted
  <2>4. PlanOK(call[c])'
    BY <2>2, <2>3 DEF PlanOK, Posted
  <2> QED BY <1>2, <2>2, <2>4
<1>7. CASE \E u \in Admins, e \in Applicants, t \in Types, y \in Years, delta \in AdjustDeltas :
             StartAdjust(c, u, e, t, y, delta)
  <2>1. PICK delta \in AdjustDeltas :
           /\ Fresh /\ call'[c].pc = "post" /\ call'[c].op = "ADJUST"
           /\ call'[c].plan = <<manualDelta(delta)>>
    BY <1>1, <1>7 DEF StartAdjust, Idle, OnlyMoves, tables
  <2>2. \A i \in 1..Len(call'[c].plan) : call'[c].plan[i].source = "HR_ADJUSTMENT"
    BY <2>1 DEF manualDelta
  <2>3. PlanOK(call[c])'
    BY <2>1, <2>2 DEF PlanOK, Moves
  <2> QED BY <1>2, <2>1, <2>3
<1>8. CASE \E u \in Employees, r \in Reqs : ReadApprove(c, u, r)
  <2>1. Fresh /\ call'[c].op = "APPROVE" /\ call'[c].pc \in {"route", "settle"}
    BY <1>1, <1>8 DEF ReadApprove, Idle, OnlyMoves, tables
  <2>2. PlanOK(call[c])'
    BY <2>1 DEF PlanOK
  <2> QED BY <1>2, <2>1, <2>2
<1> QED BY <1>3, <1>4, <1>5, <1>6, <1>7, <1>8 DEF Start

LEMMA SettlePays ==
  ASSUME Shape, Paid, NEW c \in Calls, Settle(c)
  PROVE  Paid'
<1> DEFINE q == call[c].snap
           p == policy[q.type]
           plan == IF call[c].op = "APPROVE" THEN PlanApproval(q, p) ELSE PlanCancel(q)
<1>1. /\ call \in [Calls -> CallRows] /\ call[c] \in CallRows /\ CallOK(call[c])
      /\ call[c].pc = "settle" /\ PlanOK(call[c])
  BY DEF Shape, TypeOK, Settle, Paid
<1>2. q \in RequestRows /\ call[c].op \in {"APPROVE", "CANCEL"}
  BY <1>1 DEF CallRows, CallOK, Stopped
<1>3. OnlyMoves(c) /\ UNCHANGED <<request, ledger>>
  BY <1>1 DEF Settle, Return, OnlyMoves, tables
<1>4. CASE call' = [call EXCEPT ![c] = Returned(@)]
  <2>1. call'[c].pc = "done"
    BY <1>1, <1>4, ReturnedRow
  <2>2. PlanOK(call[c])'
    BY <2>1 DEF PlanOK
  <2> QED BY <1>3, <2>2, OneHandlerPays
<1>5. CASE call' = [call EXCEPT ![c].pc = "post",
                       ![c].year = resolveLeaveYear(q.from, settings.fy),
                       ![c].plan = plan, ![c].mark = (call[c].op = "APPROVE")]
  <2>1. /\ call'[c].pc = "post" /\ call'[c].op = call[c].op /\ call'[c].r = call[c].r
        /\ call'[c].snap = q /\ call'[c].plan = plan
    BY <1>1, <1>5 DEF CallRows
  <2>2. CASE call[c].op = "APPROVE"
    <3>1. call'[c].plan = PlanApproval(q, p)
      BY <2>1, <2>2
    <3>2. /\ \A i \in 1..Len(PlanApproval(q, p)) :
               /\ PlanApproval(q, p)[i].source # "REQUEST_CANCELLED"
               /\ PlanApproval(q, p)[i].source = "REQUEST_APPROVED" => ~q.lop
          /\ ~q.lop => \E i \in 1..Len(PlanApproval(q, p)) :
                         PlanApproval(q, p)[i].source = "REQUEST_APPROVED"
      BY <1>2, ApprovalSources
    <3>3. PlanOK(call[c])'
      <4> HIDE DEF p, plan, q
      <4> QED BY <2>1, <2>2, <3>1, <3>2 DEF PlanOK, Moves
    <3> QED BY <1>3, <3>3, OneHandlerPays
  <2>3. CASE call[c].op = "CANCEL"
    <3>1. call'[c].plan = PlanCancel(q)
      BY <2>1, <2>3
    <3>2. ~q.lop => Posted(call[c].r, "REQUEST_APPROVED") # {}
      BY <1>1, <2>3 DEF PlanOK
    <3>3. \A i \in 1..Len(PlanCancel(q)) :
             /\ PlanCancel(q)[i].source # "REQUEST_APPROVED"
             /\ PlanCancel(q)[i].source = "REQUEST_CANCELLED" => ~q.lop
      BY <1>2, CancelSources
    <3>4. PlanOK(call[c])'
      BY <1>3, <2>1, <2>3, <3>1, <3>2, <3>3 DEF PlanOK, Moves, Posted
    <3> QED BY <1>3, <3>4, OneHandlerPays
  <2> QED BY <1>2, <2>2, <2>3
<1> QED BY <1>4, <1>5 DEF Settle, Return

LEMMA LedgerPays ==
  ASSUME Shape, Paid, NEW c \in Calls, WriteLedger(c)
  PROVE  Paid'
<1> DEFINE k == call[c]
           m == Head(k.plan)
           row == [call |-> c, r |-> k.r, emp |-> k.snap.emp, type |-> k.snap.type,
                   source |-> m.source, delta |-> m.delta]
<1>1. /\ call \in [Calls -> CallRows] /\ k \in CallRows /\ CallOK(k) /\ PlanOK(k)
      /\ k.pc = "ledger"
  BY DEF Shape, TypeOK, Paid, WriteLedger
<1>2. k.plan \in Seq(Movements) /\ k.plan # <<>>
  BY <1>1 DEF CallRows, CallOK, Stopped
<1>3. /\ m = k.plan[1] /\ 1 \in 1..Len(k.plan)
      /\ \A i \in 1..Len(Tail(k.plan)) : i + 1 \in 1..Len(k.plan) /\ Tail(k.plan)[i] = k.plan[i + 1]
      /\ \A i \in 1..Len(k.plan) : i # 1 => i - 1 \in 1..Len(Tail(k.plan))
  BY <1>2
<1>4. ledger' = ledger \cup {row}
  BY DEF WriteLedger
<1>5. row.r = k.r /\ row.source = m.source
  OBVIOUS
<1>6. UNCHANGED request /\ call' = [call EXCEPT ![c].pc = "post", ![c].plan = Tail(@)]
  BY DEF WriteLedger
<1>7. /\ OnlyMoves(c)
      /\ call'[c].pc = "post" /\ call'[c].op = k.op /\ call'[c].r = k.r
      /\ call'[c].snap = k.snap /\ call'[c].target = k.target /\ call'[c].plan = Tail(k.plan)
  BY <1>1, <1>6 DEF OnlyMoves, CallRows
<1> HIDE DEF row, m
<1>8. \A r, source :
        /\ Posted(r, source) \subseteq Posted(r, source)'
        /\ (r # k.r \/ source # m.source) => Posted(r, source)' = Posted(r, source)
        /\ r = k.r /\ source = m.source => Posted(r, source)' # {}
  BY <1>4, <1>5 DEF Posted
<1>9. \A source : Moves(call[c], source)' => Moves(k, source)
  BY <1>3, <1>7 DEF Moves
<1>10. \A source : Moves(k, source) => m.source = source \/ Moves(call[c], source)'
  <2> TAKE source
  <2> HAVE Moves(k, source)
  <2>1. PICK i \in 1..Len(k.plan) : k.plan[i].source = source
    BY DEF Moves
  <2>2. CASE i = 1
    BY <1>3, <2>1, <2>2
  <2>3. CASE i # 1
    <3>1. i - 1 \in 1..Len(Tail(k.plan)) /\ Tail(k.plan)[i - 1] = k.plan[i]
      BY <1>3, <2>3
    <3> QED BY <1>7, <2>1, <3>1 DEF Moves
  <2> QED BY <2>2, <2>3
<1>11. Moves(k, m.source)
  BY <1>3 DEF Moves
<1>12. PlanOK(call[c])'
  BY <1>1, <1>7, <1>8, <1>9, <1>10 DEF PlanOK
<1>13. \A d \in Calls \ {c} : PlanOK(call[d])'
  <2> TAKE d \in Calls \ {c}
  <2>1. call'[d] = call[d] /\ PlanOK(call[d])
    BY <1>7 DEF OnlyMoves, Paid
  <2>2. \A source : Moves(call[d], source)' <=> Moves(call[d], source)
    BY <2>1 DEF Moves
  <2>3. Posted(call[d].r, "REQUEST_APPROVED") \subseteq Posted(call[d].r, "REQUEST_APPROVED")'
    BY <1>8, <2>1
  <2> QED BY <2>1, <2>2, <2>3 DEF PlanOK
<1>14. /\ k.op \in {"APPROVE", "CANCEL", "ADJUST"}
       /\ k.op # "ADJUST" => /\ k.r \in Reqs /\ request[k.r].status # "NONE"
                             /\ k.snap.lop = request[k.r].lop
  BY <1>1 DEF CallOK, Stopped, Deciding
<1>15. RowsHaveRequests'
  <2>1. k.r \in Reqs => request[k.r].status # "NONE"
    BY <1>1, <1>14, LeaveConstants DEF CallOK, Stopped, LeaveConstants
  <2> QED BY <1>4, <1>5, <1>6, <2>1 DEF Paid, RowsHaveRequests
<1>16. ApprovedWasDeducted'
  BY <1>6, <1>8 DEF Paid, ApprovedWasDeducted
<1>17. ASSUME NEW r \in Reqs
       PROVE  /\ (Posted(r, "REQUEST_CANCELLED") # {})' => (Posted(r, "REQUEST_APPROVED") # {})'
              /\ request'[r].lop => (Posted(r, "REQUEST_APPROVED") = {})'
  <2>1. CASE r = k.r /\ m.source = "REQUEST_APPROVED"
    <3>1. k.op = "APPROVE" /\ ~k.snap.lop
      BY <1>1, <1>11, <2>1 DEF PlanOK
    <3> QED BY <1>6, <1>8, <1>14, <2>1, <3>1
  <2>2. CASE r = k.r /\ m.source = "REQUEST_CANCELLED"
    <3>1. k.op = "CANCEL" /\ ~k.snap.lop /\ Posted(r, "REQUEST_APPROVED") # {}
      BY <1>1, <1>11, <2>2 DEF PlanOK
    <3> QED BY <1>6, <1>8, <1>14, <2>2, <3>1
  <2>3. CASE r # k.r \/ m.source \notin {"REQUEST_APPROVED", "REQUEST_CANCELLED"}
    BY <1>6, <1>8, <2>3 DEF Paid, RefundNeedsDeduction
  <2> QED BY <2>1, <2>2, <2>3
<1> QED BY <1>12, <1>13, <1>15, <1>16, <1>17 DEF Paid, RefundNeedsDeduction

LEMMA HolidaysPay ==
  ASSUME Shape, Paid, NEW c \in Calls, ReadHolidays(c)
  PROVE  Paid'
<1>1. /\ call \in [Calls -> CallRows] /\ call[c] \in CallRows /\ PlanOK(call[c])
      /\ call[c].pc = "post" /\ call[c].plan = <<>>
  BY DEF Shape, TypeOK, Paid, ReadHolidays
<1>2. OnlyMoves(c) /\ UNCHANGED <<request, ledger>>
  BY <1>1 DEF ReadHolidays, OnlyMoves, tables
<1>3. CASE call' = [call EXCEPT ![c] = Returned(@)]
  <2>1. call'[c].pc = "done"
    BY <1>1, <1>3, ReturnedRow
  <2>2. PlanOK(call[c])'
    BY <2>1 DEF PlanOK
  <2> QED BY <1>2, <2>2, OneHandlerPays
<1>4. CASE call' = [call EXCEPT ![c].pc = "sync",
                      ![c].days = WorkingDays(call[c].snap.from, call[c].snap.to, holidays)]
  <2>1. /\ call'[c].pc = "sync" /\ call'[c].op = call[c].op /\ call'[c].r = call[c].r
        /\ call'[c].snap = call[c].snap
    BY <1>1, <1>4 DEF CallRows
  <2>2. ~Moves(call[c], "REQUEST_APPROVED")
    BY <1>1 DEF Moves
  <2>3. PlanOK(call[c])'
    BY <1>1, <1>2, <2>1, <2>2 DEF PlanOK, Posted
  <2> QED BY <1>2, <2>3, OneHandlerPays
<1> QED BY <1>3, <1>4 DEF ReadHolidays

LEMMA InsertPays ==
  ASSUME Shape, Paid, NEW c \in Calls, InsertRequest(c)
  PROVE  Paid'
<1>1. /\ call \in [Calls -> CallRows] /\ call[c] \in CallRows /\ CallOK(call[c])
      /\ request \in [Reqs -> RequestRows] /\ UNCHANGED ledger
  BY DEF Shape, TypeOK, TablesOK, InsertRequest
<1>0. PICK r \in Reqs : /\ NextReq(r)
                        /\ request' = [request EXCEPT ![r] = call[c].snap]
                        /\ call' = [call EXCEPT ![c].r = r, ![c].pc = "notify"]
  BY ZenonT(20) DEF InsertRequest
<1>2. /\ request[r].status = "NONE"
      /\ request' = [request EXCEPT ![r] = call[c].snap]
      /\ call' = [call EXCEPT ![c].r = r, ![c].pc = "notify"]
  BY <1>0 DEF NextReq
<1>3. call[c].snap.status \in {"PENDING_L1", "PENDING_L2"}
  BY <1>1 DEF CallOK, InsertRequest, Stopped
<1>4. /\ request'[r] = call[c].snap
      /\ \A s \in Reqs : s # r => request'[s] = request[s]
  BY <1>1, <1>2
<1>5. call'[c].pc = "notify" /\ OnlyMoves(c)
  BY <1>1, <1>2 DEF CallRows, OnlyMoves
<1>6. \A d \in Calls : PlanOK(call[d])'
  BY <1>1, <1>5 DEF Paid, PlanOK, Moves, Posted, OnlyMoves
<1>7. \A source : Posted(r, source) = {}
  BY <1>2 DEF Paid, RowsHaveRequests, Posted
<1>8. RowsHaveRequests' /\ ApprovedWasDeducted'
  BY <1>1, <1>3, <1>4 DEF Paid, RowsHaveRequests, ApprovedWasDeducted, Posted
<1>9. RefundNeedsDeduction'
  BY <1>1, <1>4, <1>7 DEF Paid, RefundNeedsDeduction, Posted
<1> QED BY <1>6, <1>8, <1>9 DEF Paid

LEMMA WriteStatusPays ==
  ASSUME Shape, Paid, NEW c \in Calls, WriteStatus(c)
  PROVE  Paid'
<1>1. /\ call \in [Calls -> CallRows] /\ call[c] \in CallRows /\ CallOK(call[c])
      /\ PlanOK(call[c]) /\ call[c].pc = "write" /\ "status" \in call[c].todo
      /\ request \in [Reqs -> RequestRows] /\ UNCHANGED ledger
  BY DEF Shape, TypeOK, TablesOK, Paid, WriteStatus
<1>2. /\ call[c].r \in Reqs /\ call[c].target # "NONE"
      /\ call[c].snap.lop = request[call[c].r].lop
      /\ call[c].target = "APPROVED" => call[c].op = "APPROVE"
  BY <1>1 DEF CallOK, Stopped, Deciding
<1>3. \A r \in Reqs : /\ request'[r].lop = request[r].lop
                      /\ request'[r].status = IF r = call[c].r THEN call[c].target
                                              ELSE request[r].status
  BY <1>1, <1>2 DEF WriteStatus, RequestRows
<1>4. \A d \in Calls : /\ call'[d].pc = call[d].pc /\ call'[d].op = call[d].op
                       /\ call'[d].r = call[d].r /\ call'[d].snap = call[d].snap
                       /\ call'[d].plan = call[d].plan /\ call'[d].target = call[d].target
  BY <1>1 DEF WriteStatus, CallRows
<1>5. \A d \in Calls : PlanOK(call[d])'
  BY <1>1, <1>4 DEF Paid, PlanOK, Moves, Posted
<1>6. RowsHaveRequests'
  BY <1>1, <1>2, <1>3 DEF Paid, RowsHaveRequests
<1>7. call[c].target = "APPROVED" /\ ~request[call[c].r].lop =>
        Posted(call[c].r, "REQUEST_APPROVED") # {}
  BY <1>1, <1>2 DEF PlanOK
<1>8. \A r, source : Posted(r, source)' = Posted(r, source)
  BY <1>1 DEF Posted
<1>9. ApprovedWasDeducted'
  BY <1>3, <1>7, <1>8 DEF Paid, ApprovedWasDeducted
<1>10. RefundNeedsDeduction'
  BY <1>3, <1>8 DEF Paid, RefundNeedsDeduction
<1> QED BY <1>5, <1>6, <1>9, <1>10 DEF Paid

LEMMA StepPays ==
  ASSUME Shape, Paid, NEW c \in Calls, Step(c)
  PROVE  Paid'
<1>1. /\ call \in [Calls -> CallRows] /\ call[c] \in CallRows
      /\ CallOK(call[c]) /\ PlanOK(call[c])
  BY DEF Shape, TypeOK, Paid
<1>2. CASE Upload(c) \/ Finish(c)
  <2>1. /\ UNCHANGED <<request, ledger>> /\ OnlyMoves(c) /\ call'[c] = Returned(call[c])
    BY <1>1, <1>2 DEF Upload, Finish, Return, OnlyMoves, tables
  <2>2. call'[c].pc = "done"
    BY <1>1, <2>1, ReturnedRow
  <2>3. PlanOK(call[c])'
    BY <2>2 DEF PlanOK
  <2> QED BY <2>1, <2>3, OneHandlerPays
<1>3. CASE RouteL1(c)
  <2>1. /\ UNCHANGED <<request, ledger>> /\ OnlyMoves(c)
        /\ call[c].op = "APPROVE"
        /\ call'[c].op = call[c].op
        /\ \/ call'[c].pc = "settle"
           \/ call'[c].pc = "write" /\ call'[c].target = "PENDING_L2"
    BY <1>1, <1>3 DEF RouteL1, Goto, OnlyMoves, CallRows, CallOK, Stopped, tables
  <2>2. PlanOK(call[c])'
    BY <2>1 DEF PlanOK
  <2> QED BY <2>1, <2>2, OneHandlerPays
<1>4. CASE Post(c)
  <2>1. /\ UNCHANGED <<request, ledger>> /\ OnlyMoves(c) /\ call[c].pc = "post"
        /\ call'[c] = [call[c] EXCEPT !.pc = "ledger"]
    BY <1>1, <1>4 DEF Post, Goto, OnlyMoves
  <2>2. /\ call'[c].pc = "ledger" /\ call'[c].op = call[c].op /\ call'[c].r = call[c].r
        /\ call'[c].snap = call[c].snap /\ call'[c].plan = call[c].plan
    BY <1>1, <2>1 DEF CallRows
  <2>3. PlanOK(call[c])'
    BY <1>1, <2>1, <2>2 DEF PlanOK, Moves, Posted
  <2> QED BY <2>1, <2>3, OneHandlerPays
<1>5. CASE SyncDay(c)
  <2>1. /\ UNCHANGED <<request, ledger>> /\ OnlyMoves(c) /\ call[c].pc = "sync"
        /\ call'[c].pc = "sync" /\ call'[c].op = call[c].op /\ call'[c].r = call[c].r
        /\ call'[c].snap = call[c].snap /\ call'[c].target = call[c].target
    BY <1>1, <1>5 DEF SyncDay, OnlyMoves, CallRows
  <2>2. PlanOK(call[c])'
    BY <1>1, <2>1 DEF PlanOK, Posted
  <2> QED BY <2>1, <2>2, OneHandlerPays
<1>6. CASE SyncDone(c)
  <2>1. /\ UNCHANGED <<request, ledger>> /\ OnlyMoves(c) /\ call[c].pc = "sync"
        /\ call'[c].pc = "write" /\ call'[c].op = call[c].op /\ call'[c].r = call[c].r
        /\ call'[c].snap = call[c].snap /\ call'[c].target = call[c].target
    BY <1>1, <1>6 DEF SyncDone, OnlyMoves, CallRows, tables
  <2>2. PlanOK(call[c])'
    BY <1>1, <2>1 DEF PlanOK, Posted
  <2> QED BY <2>1, <2>2, OneHandlerPays
<1>7. CASE RecordDecision(c)
  <2>1. /\ UNCHANGED <<request, ledger>> /\ OnlyMoves(c) /\ call[c].pc = "write"
        /\ call'[c].pc = "write" /\ call'[c].op = call[c].op /\ call'[c].r = call[c].r
        /\ call'[c].snap = call[c].snap /\ call'[c].target = call[c].target
    BY <1>1, <1>7 DEF RecordDecision, OnlyMoves, CallRows
  <2>2. PlanOK(call[c])'
    BY <1>1, <2>1 DEF PlanOK, Posted
  <2> QED BY <2>1, <2>2, OneHandlerPays
<1> QED
  BY <1>2, <1>3, <1>4, <1>5, <1>6, <1>7, InsertPays, SettlePays, LedgerPays, HolidaysPay,
     WriteStatusPays DEF Step

LEMMA NextPays == Shape /\ Paid /\ [Next]_vars => Paid'
<1> SUFFICES ASSUME Shape, Paid, [Next]_vars PROVE Paid'
  OBVIOUS
<1>1. ASSUME NEW c \in Calls, Fail(c) PROVE Paid'
  <2>1. call \in [Calls -> CallRows] /\ call[c] \in CallRows
    BY DEF Shape, TypeOK
  <2>2. /\ UNCHANGED <<request, ledger>> /\ OnlyMoves(c)
        /\ call'[c].pc \in {"torn", "failed"}
    BY <1>1, <2>1 DEF Fail, Goto, OnlyMoves, CallRows, tables
  <2>3. PlanOK(call[c])'
    BY <2>2 DEF PlanOK
  <2> QED BY <2>2, <2>3, OneHandlerPays
<1>2. CASE TakeJob
  <2>1. Worker \in Calls /\ call \in [Calls -> CallRows]
    BY DEF Calls, Shape, TypeOK
  <2>2. UNCHANGED <<request, ledger>> /\ OnlyMoves(Worker)
    BY <1>2, <2>1 DEF TakeJob, OnlyMoves, tables
  <2>3. \/ call'[Worker].pc = "done"
        \/ call'[Worker].pc = "write" /\ call'[Worker].op = "ESCALATE"
    BY <1>2, <2>1 DEF TakeJob, Idle
  <2>4. PlanOK(call[Worker])'
    BY <2>3 DEF PlanOK
  <2> QED BY <2>1, <2>2, <2>4, OneHandlerPays
<1>3. CASE Environment \/ AccrualWorkerTakesJob \/ UNCHANGED vars
  <2>1. UNCHANGED <<request, ledger, call>>
    BY <1>3 DEF Environment, updateSettings, updateType, editHolidays, softDelete, clockIn,
         AccrualWorkerTakesJob, vars, tables
  <2> QED
    BY <2>1 DEF Paid, PlanOK, Moves, RowsHaveRequests, ApprovedWasDeducted,
                RefundNeedsDeduction, Posted
<1> QED
  BY <1>1, <1>2, <1>3, StartPays, StepPays DEF Next

LEMMA InitPaid == Init => Paid
<1> SUFFICES ASSUME Init PROVE Paid
  OBVIOUS
<1>1. \A c \in Calls : PlanOK(call[c])
  BY DEF Init, PlanOK, Idle
<1>2. RowsHaveRequests /\ ApprovedWasDeducted /\ RefundNeedsDeduction
  BY DEF Init, RowsHaveRequests, ApprovedWasDeducted, RefundNeedsDeduction, Posted, NoRequest
<1> QED BY <1>1, <1>2 DEF Paid

LEMMA AlwaysPaid == Spec => []Paid
BY AlwaysShape, InitPaid, NextPays, PTL DEF Spec

(* For every tenant: at no moment, not even with finalApprove() dead half   *)
(* way or racing another decision, is a paid request APPROVED without its   *)
(* REQUEST_APPROVED row in the ledger.                                      *)
THEOREM ApprovalsArePaidFor == Spec => []ApprovedWasDeducted
<1>1. Paid => ApprovedWasDeducted
  BY DEF Paid
<1> QED BY <1>1, AlwaysPaid, PTL

(* For every tenant: cancel() refunds only what some approval deducted, and *)
(* a loss-of-pay request never moves the used days.                         *)
THEOREM RefundsAreEarned == Spec => []RefundNeedsDeduction
<1>1. Paid => RefundNeedsDeduction
  BY DEF Paid
<1> QED BY <1>1, AlwaysPaid, PTL
-----------------------------------------------------------------------------
(* The books: balance, ledger, and what handlers owe the ledger.  Booked    *)
(* rests on Shape, and on Signed for the worker, which posts nothing.       *)

(* The plans of finalApprove() and cancel(): each movement has the sign of  *)
(* its column and a source of its own.                                      *)
SignOK(m) == m.delta = IF m.col = "accrued" THEN m.by ELSE -m.by
Signs(plan) == \A i \in 1..Len(plan) : SignOK(plan[i])
Distinct(plan) ==
    \A i, j \in 1..Len(plan) : plan[i].source = plan[j].source => i = j

(* What a handler has still to post, and has not posted before: a ledger    *)
(* row is new when it is written, or the set of rows would not grow by it.  *)
BookOK(c) ==
    LET k == call[c] IN
    /\ Signs(k.plan)
    /\ k.pc = "torn" => k.plan # <<>> /\ c \in UserCalls
    /\ k.pc \in {"idle", "insert", "upload", "route", "settle"} => \A x \in ledger : x.call # c
    /\ k.pc \in {"post", "ledger"} =>
         /\ Distinct(k.plan)
         /\ \A i \in 1..Len(k.plan) :
              \A x \in ledger : x.call = c => x.source # k.plan[i].source

(* Calls with a balance changed and its ledger row not written.             *)
Owing == {c \in Calls : call[c].pc \in {"ledger", "torn"}}

Booked ==
    /\ \A c \in Calls : BookOK(c)
    /\ \A x \in ledger : x.call \in UserCalls
    /\ \A e \in Employees, t \in Types, y \in Years : balance[e][t][y].exists
    /\ IsFiniteSet(ledger) /\ IsFiniteSet(Owing)
    /\ LedgerReconstructs

(* A plan of at most two movements of different sources.                    *)
LEMMA ShortPlans ==
  ASSUME NEW a, NEW b, a.source # b.source,
         SignOK(a), SignOK(b),
         NEW plan, plan \in {<<>>, <<a>>, <<b>>, <<a, b>>}
  PROVE  Signs(plan) /\ Distinct(plan)
<1>1. CASE plan = <<>>
  BY <1>1 DEF Signs, Distinct
<1>2. CASE plan = <<a>>
  BY <1>2 DEF Signs, Distinct
<1>3. CASE plan = <<b>>
  BY <1>3 DEF Signs, Distinct
<1>4. CASE plan = <<a, b>>
  BY <1>4 DEF Signs, Distinct
<1> QED BY <1>1, <1>2, <1>3, <1>4

(* Joining the two parts of a plan. *)
LEMMA ShortJoins ==
  ASSUME NEW a, NEW b
  PROVE  /\ <<>> \o <<>> = <<>> /\ <<a>> \o <<>> = <<a>>
         /\ <<>> \o <<b>> = <<b>> /\ <<a>> \o <<b>> = <<a, b>>
<1> DEFINE S == {a, b}
<1>1. <<>> \in Seq(S) /\ <<a>> \in Seq(S) /\ <<b>> \in Seq(S) /\ <<a, b>> \in Seq(S)
  OBVIOUS
<1>2. <<>> \o <<>> = <<>> /\ <<a>> \o <<>> = <<a>> /\ <<>> \o <<b>> = <<b>>
  BY <1>1, ConcatEmptySeq
<1>3. <<a>> \o <<b>> = <<a, b>>
  <2>1. <<a>> \o <<b>> \in Seq(S) /\ Len(<<a>> \o <<b>>) = 2
    BY <1>1, ConcatProperties
  <2>2. (<<a>> \o <<b>>)[1] = a /\ (<<a>> \o <<b>>)[2] = b
    BY <1>1, ConcatProperties
  <2>3. \A i \in 1..2 : (<<a>> \o <<b>>)[i] = <<a, b>>[i]
    BY <2>2
  <2> HIDE DEF S
  <2> QED BY <1>1, <2>1, <2>3, SeqEqual
<1> QED BY <1>2, <1>3

(* What finalApprove() and cancel() plan has its signs right.               *)
LEMMA PlanSigns ==
  ASSUME NEW q \in RequestRows, NEW p
  PROVE  /\ Signs(PlanApproval(q, p)) /\ Distinct(PlanApproval(q, p))
         /\ Signs(PlanCancel(q)) /\ Distinct(PlanCancel(q))
<1> DEFINE grant == grantEventDays(q.days)
           take  == adjustUsedDays(q.days, "REQUEST_APPROVED")
           give  == adjustUsedDays(-q.days, "REQUEST_CANCELLED")
           back  == grantEventDays(-q.days)
<1>1. /\ grant.source # take.source /\ SignOK(grant) /\ SignOK(take)
      /\ give.source # back.source /\ SignOK(give) /\ SignOK(back)
  BY DEF grantEventDays, adjustUsedDays, SignOK
<1>2. PlanApproval(q, p) \in {<<>>, <<grant>>, <<take>>, <<grant, take>>}
  <2> DEFINE s == IF p.mode = "ON_EVENT" THEN <<grant>> ELSE <<>>
             t == IF ~q.lop THEN <<take>> ELSE <<>>
  <2>1. /\ s \in {<<>>, <<grant>>} /\ t \in {<<>>, <<take>>} /\ PlanApproval(q, p) = s \o t
    BY DEF PlanApproval
  <2> HIDE DEF s, t, grant, take
  <2> QED BY <2>1, ShortJoins
<1>3. PlanCancel(q) \in {<<>>, <<give>>, <<back>>, <<give, back>>}
  <2> DEFINE s == IF ~q.lop THEN <<give>> ELSE <<>>
             t == IF q.event # NoDay THEN <<back>> ELSE <<>>
  <2>1. /\ s \in {<<>>, <<give>>} /\ t \in {<<>>, <<back>>} /\ PlanCancel(q) = s \o t
    BY DEF PlanCancel
  <2> HIDE DEF s, t, give, back
  <2> QED BY <2>1, ShortJoins
<1> HIDE DEF grant, take, give, back
<1> QED BY <1>1, <1>2, <1>3, ShortPlans
----------------------------------------------------------------------------
(* The books of a step that moves no balance, writes no ledger row, and     *)
(* leaves what is owed as it was.                                           *)
LEMMA BooksKept ==
  ASSUME Shape, Booked, UNCHANGED <<balance, ledger>>, NEW c \in Calls, OnlyMoves(c),
         call[c].pc \in {"ledger", "torn"} <=> call'[c].pc \in {"ledger", "torn"},
         call[c].pc \in {"ledger", "torn"} =>
           call'[c].snap = call[c].snap /\ call'[c].plan = call[c].plan,
         BookOK(c)'
  PROVE  Booked'
<1>1. \A d \in Calls : BookOK(d)'
  BY DEF Booked, BookOK, OnlyMoves
<1>2. Owing' = Owing
  BY DEF Owing, OnlyMoves
<1>3. \A d \in Owing : call'[d].snap = call[d].snap /\ call'[d].plan = call[d].plan
  BY DEF Owing, OnlyMoves
<1>4. ASSUME NEW e \in Employees, NEW t \in Types
      PROVE  (Moved(e, t) = Recorded(e, t) + Owed(e, t))'
  <2>1. Unledgered(e, t)' = Unledgered(e, t)
    BY <1>2, <1>3 DEF Unledgered, Owing
  <2>2. [d \in Unledgered(e, t) |-> Head(call[d].plan).delta]'
          = [d \in Unledgered(e, t) |-> Head(call[d].plan).delta]
    BY <1>3, <2>1 DEF Unledgered, Owing
  <2>3. Owed(e, t)' = Owed(e, t)
    BY <2>1, <2>2 DEF Owed
  <2>4. Moved(e, t)' = Moved(e, t) /\ Recorded(e, t)' = Recorded(e, t)
    BY DEF Moved, Recorded, Available
  <2> QED BY <2>3, <2>4 DEF Booked, LedgerReconstructs
<1>5. LedgerReconstructs'
  BY <1>4 DEF LedgerReconstructs
<1> QED BY <1>1, <1>2, <1>5 DEF Booked

(* A step that changes no plan, row, balance or program counter.            *)
LEMMA BooksUntouched ==
  ASSUME Booked, UNCHANGED <<balance, ledger>>,
         \A d \in Calls : call'[d].pc = call[d].pc /\ call'[d].snap = call[d].snap
                           /\ call'[d].plan = call[d].plan
  PROVE  Booked'
<1>1. \A d \in Calls : BookOK(d)'
  BY DEF Booked, BookOK
<1>2. Owing' = Owing
  BY DEF Owing
<1>3. ASSUME NEW e \in Employees, NEW t \in Types
      PROVE  (Moved(e, t) = Recorded(e, t) + Owed(e, t))'
  <2>1. Unledgered(e, t)' = Unledgered(e, t)
    BY DEF Unledgered
  <2>2. [d \in Unledgered(e, t) |-> Head(call[d].plan).delta]'
          = [d \in Unledgered(e, t) |-> Head(call[d].plan).delta]
    BY <2>1 DEF Unledgered
  <2>3. Owed(e, t)' = Owed(e, t)
    BY <2>1, <2>2 DEF Owed
  <2>4. Moved(e, t)' = Moved(e, t) /\ Recorded(e, t)' = Recorded(e, t)
    BY DEF Moved, Recorded, Available
  <2> QED BY <2>3, <2>4 DEF Booked, LedgerReconstructs
<1>4. LedgerReconstructs'
  BY <1>3 DEF LedgerReconstructs
<1> QED BY <1>1, <1>2, <1>4 DEF Booked

(* Finitely many days span finitely many leave years. *)
LEMMA YearsFinite == IsFiniteSet(Years)
<1>1. IsFiniteSet(Days)
  BY LeaveConstants DEF LeaveConstants
<1> DEFINE A == {CalYear[d] : d \in Days}
           B == {CalYear[d] - 1 : d \in Days}
           f == [d \in Days |-> CalYear[d]]
           g == [d \in Days |-> CalYear[d] - 1]
<1>2. f \in Surjection(Days, A) /\ g \in Surjection(Days, B)
  BY DEF Surjection
<1> HIDE DEF A, B, f, g
<1>3. IsFiniteSet(A) /\ IsFiniteSet(B)
  BY <1>1, <1>2, FS_Surjection
<1>4. Years = A \cup B
  BY DEF Years, A, B
<1> QED BY <1>3, <1>4, FS_Union

(* What the sums add up are integers, over finite sets. *)
LEMMA BookTypes ==
  ASSUME Shape, Booked, NEW e \in Employees, NEW t \in Types
  PROVE  /\ \A y \in Years : Available(e, t, y)
                 - (IF y \in OpeningYears THEN OpeningDays ELSE 0) \in Int
         /\ \A x \in ledger : x.delta \in Int
         /\ \A c \in Unledgered(e, t) : Head(call[c].plan) \in Movements
         /\ IsFiniteSet(Unledgered(e, t))
         /\ IsFiniteSet({x \in ledger : x.emp = e /\ x.type = t})
<1>1. \A y \in Years : balance[e][t][y] \in BalanceRows
  BY DEF Shape, TypeOK, TablesOK
<1>2. \A y \in Years : Available(e, t, y)
                 - (IF y \in OpeningYears THEN OpeningDays ELSE 0) \in Int
  BY <1>1, LeaveConstants DEF LeaveConstants, Available, BalanceRows
<1>3. \A x \in ledger : x.delta \in Int
  BY DEF Shape, TypeOK, TablesOK, LedgerEntries
<1>4. ASSUME NEW c \in Unledgered(e, t) PROVE Head(call[c].plan) \in Movements
  <2>1. c \in Calls /\ call[c] \in CallRows /\ CallOK(call[c]) /\ BookOK(c)
        /\ call[c].pc \in {"ledger", "torn"}
    BY DEF Unledgered, Shape, TypeOK, Booked
  <2>2. call[c].plan \in Seq(Movements) /\ call[c].plan # <<>>
    BY <2>1 DEF CallRows, CallOK, BookOK, Stopped
  <2> QED BY <2>2
<1>5. Unledgered(e, t) \subseteq Owing
  BY DEF Unledgered, Owing
<1> QED BY <1>2, <1>3, <1>4, <1>5, FS_Subset DEF Booked

(* The balance upsert adds the movement to the balance, and to what is owed *)
(* to the ledger.                                                           *)
LEMMA PostBooks ==
  ASSUME Shape, Booked, NEW c \in Calls, Post(c)
  PROVE  Booked'
<1>0. PICK k : k = call[c]
  OBVIOUS
<1>1. /\ call \in [Calls -> CallRows] /\ k \in CallRows /\ CallOK(k) /\ BookOK(c)
      /\ k.pc = "post" /\ k.plan # <<>>
      /\ balance \in [Employees -> [Types -> [Years -> BalanceRows]]]
  BY <1>0 DEF Shape, TypeOK, TablesOK, Booked, Post
<1>2. PICK m : m = Head(k.plan)
  OBVIOUS
<1>3. PICK e0, t0, y0 : e0 = k.snap.emp /\ t0 = k.snap.type /\ y0 = k.year
  OBVIOUS
<1>4. e0 \in Employees /\ t0 \in Types /\ y0 \in Years
  BY <1>1, <1>3 DEF CallOK, Stopped
<1>5. m \in Movements /\ m = k.plan[1] /\ 1 \in 1..Len(k.plan)
  BY <1>1, <1>2 DEF CallRows
<1>6. m.delta = IF m.col = "accrued" THEN m.by ELSE -m.by
  BY <1>0, <1>1, <1>5 DEF BookOK, Signs, SignOK
<1>7. /\ UNCHANGED ledger /\ OnlyMoves(c)
      /\ call'[c].pc = "ledger" /\ call'[c].plan = k.plan /\ call'[c].snap = k.snap
  BY <1>0, <1>1 DEF Post, Goto, OnlyMoves, CallRows
<1>8. PICK row : row = balance[e0][t0][y0]
  OBVIOUS
<1>9. row \in BalanceRows /\ row.exists
  BY <1>1, <1>4, <1>8 DEF Booked
<1>10. PICK new : new = [row EXCEPT ![m.col] = @ + m.by]
  OBVIOUS
<1>11. /\ new.exists /\ new \in BalanceRows
       /\ new.accrued - new.used = row.accrued - row.used + m.delta
  BY <1>5, <1>6, <1>9, <1>10 DEF BalanceRows, Movements
<1>12. balance' = [balance EXCEPT ![e0][t0][y0] = new]
  BY <1>0, <1>1, <1>2, <1>3, <1>4, <1>8, <1>9, <1>10 DEF Post, Upserted
<1>13. /\ balance'[e0][t0][y0] = new
       /\ \A e \in Employees, t \in Types, y \in Years :
            e # e0 \/ t # t0 \/ y # y0 => balance'[e][t][y] = balance[e][t][y]
  BY <1>1, <1>4, <1>12
<1>14. \A e \in Employees, t \in Types, y \in Years : balance'[e][t][y].exists
  BY <1>11, <1>13 DEF Booked
<1>15. BookOK(c)'
  BY <1>0, <1>1, <1>7 DEF BookOK
<1>16. \A d \in Calls : BookOK(d)'
  BY <1>7, <1>15 DEF Booked, BookOK, OnlyMoves
<1>17. Owing' = Owing \cup {c} /\ IsFiniteSet(Owing')
  <2>1. Owing' = Owing \cup {c}
    BY <1>7 DEF Owing, OnlyMoves
  <2> QED BY <2>1, FS_AddElement DEF Booked
<1>18. ASSUME NEW e \in Employees, NEW t \in Types
       PROVE  (Moved(e, t) = Recorded(e, t) + Owed(e, t))'
  <2>0. Moved(e, t) = Recorded(e, t) + Owed(e, t)
    BY DEF Booked, LedgerReconstructs
  <2>1. Recorded(e, t)' = Recorded(e, t)
    BY <1>7 DEF Recorded
  <2>2. CASE e # e0 \/ t # t0
    <3>1. \A y \in Years : balance'[e][t][y] = balance[e][t][y]
      BY <1>13, <2>2
    <3>2. [y \in Years |-> Available(e, t, y) - (IF y \in OpeningYears THEN OpeningDays ELSE 0)]'
           = [y \in Years |-> Available(e, t, y) - (IF y \in OpeningYears THEN OpeningDays ELSE 0)]
      BY <3>1 DEF Available
    <3>3. Moved(e, t)' = Moved(e, t)
      BY <3>2 DEF Moved
    <3>4. Unledgered(e, t)' = Unledgered(e, t) /\ c \notin Unledgered(e, t)
      BY <1>0, <1>1, <1>3, <1>7, <2>2 DEF Unledgered, OnlyMoves
    <3>5. [d \in Unledgered(e, t) |-> Head(call[d].plan).delta]'
            = [d \in Unledgered(e, t) |-> Head(call[d].plan).delta]
      BY <1>7, <3>4 DEF Unledgered, OnlyMoves
    <3>6. Owed(e, t)' = Owed(e, t)
      BY <3>4, <3>5 DEF Owed
    <3> QED BY <2>0, <2>1, <3>3, <3>6
  <2>3. CASE e = e0 /\ t = t0
    <3> DEFINE bal == [y \in Years |-> Available(e, t, y)
                         - (IF y \in OpeningYears THEN OpeningDays ELSE 0)]
               owe == [d \in Unledgered(e, t) |-> Head(call[d].plan).delta]
    <3>1. PICK f, g : f = bal /\ g = bal'
      OBVIOUS
    <3>2. PICK h, j : h = owe /\ j = owe'
      OBVIOUS
    <3>3. PICK S, T : S = Unledgered(e, t) /\ T = Unledgered(e, t)'
      OBVIOUS
    <3>4. /\ \A y \in Years : f[y] \in Int
          /\ \A d \in S : h[d] \in Int
          /\ IsFiniteSet(S) /\ IsFiniteSet(Years)
      BY <3>1, <3>2, <3>3, BookTypes, YearsFinite DEF Movements
    <3>5. T = S \cup {c} /\ c \notin S
      BY <1>0, <1>1, <1>3, <1>7, <2>3, <3>3 DEF Unledgered, OnlyMoves
    <3>6. j[c] = m.delta /\ \A d \in S : j[d] = h[d]
      BY <1>2, <1>7, <3>2, <3>3, <3>5 DEF OnlyMoves, Unledgered
    <3>7. g[y0] = f[y0] + m.delta /\ \A y \in Years \ {y0} : g[y] = f[y]
      <4>1. OpeningDays \in Int
        BY LeaveConstants DEF LeaveConstants
      <4>2. m.delta \in Int /\ row.accrued \in Int /\ row.used \in Int
            /\ new.accrued \in Int /\ new.used \in Int
        BY <1>5, <1>9, <1>11 DEF Movements, BalanceRows
      <4>3. /\ f[y0] = row.accrued - row.used - (IF y0 \in OpeningYears THEN OpeningDays ELSE 0)
            /\ g[y0] = new.accrued - new.used - (IF y0 \in OpeningYears THEN OpeningDays ELSE 0)
        BY <1>4, <1>8, <1>13, <2>3, <3>1 DEF Available
      <4>4. \A y \in Years \ {y0} : g[y] = f[y]
        BY <1>13, <2>3, <3>1 DEF Available
      <4> QED BY <1>11, <4>1, <4>2, <4>3, <4>4
    <3>8. /\ Moved(e, t) = SumFunctionOnSet(f, Years) /\ Owed(e, t) = SumFunctionOnSet(h, S)
          /\ Moved(e, t)' = SumFunctionOnSet(g, Years) /\ Owed(e, t)' = SumFunctionOnSet(j, T)
      BY <3>1, <3>2, <3>3 DEF Moved, Owed
    <3>9. m.delta \in Int
      BY <1>5 DEF Movements
    <3> HIDE DEF bal, owe
    <3>10. SumFunctionOnSet(g, Years) = SumFunctionOnSet(f, Years) + m.delta
      BY <1>4, <3>4, <3>7, <3>9, SumChanges
    <3>11. SumFunctionOnSet(j, T) = SumFunctionOnSet(h, S) + m.delta
      <4>1. \A d \in S \cup {c} : j[d] \in Int
        BY <3>4, <3>6, <3>9
      <4>2. SumFunctionOnSet(j, S \cup {c}) = j[c] + SumFunctionOnSet(j, S)
        BY <3>4, <3>5, <4>1, SumAdds
      <4>3. SumFunctionOnSet(j, S) = SumFunctionOnSet(h, S) /\ SumFunctionOnSet(h, S) \in Int
        BY <3>4, <3>6, SumSame, SumIsInt
      <4> QED BY <3>5, <3>6, <3>9, <4>2, <4>3
    <3>12. /\ SumFunctionOnSet(f, Years) \in Int /\ SumFunctionOnSet(h, S) \in Int
           /\ Recorded(e, t) \in Int
      <4>1. Recorded(e, t) \in Int
        <5> DEFINE led == [x \in ledger |-> x.delta]
                   R == {x \in ledger : x.emp = e /\ x.type = t}
        <5>1. IsFiniteSet(R) /\ \A x \in R : led[x] \in Int
          BY BookTypes
        <5> HIDE DEF led, R
        <5>2. SumFunctionOnSet(led, R) \in Int
          BY <5>1, SumIsInt
        <5> QED BY <5>2 DEF Recorded, led, R
      <4> QED BY <3>4, <4>1, SumIsInt
    <3> QED BY <2>0, <2>1, <3>8, <3>9, <3>10, <3>11, <3>12
  <2> QED BY <2>2, <2>3
<1>19. LedgerReconstructs'
  BY <1>18 DEF LedgerReconstructs
<1> QED BY <1>7, <1>14, <1>16, <1>17, <1>19 DEF Booked

(* The ledger row settles what the handler owed. *)
LEMMA LedgerBooks ==
  ASSUME Shape, Signed, Booked, NEW c \in Calls, WriteLedger(c)
  PROVE  Booked'
<1>0. PICK k : k = call[c]
  OBVIOUS
<1>1. /\ call \in [Calls -> CallRows] /\ k \in CallRows /\ CallOK(k) /\ BookOK(c)
      /\ k.pc = "ledger" /\ k.plan # <<>>
  BY <1>0 DEF Shape, TypeOK, TablesOK, Booked, WriteLedger, CallOK, Stopped
<1>2. PICK m : m = Head(k.plan)
  OBVIOUS
<1>3. PICK e0, t0 : e0 = k.snap.emp /\ t0 = k.snap.type
  OBVIOUS
<1>4. k.plan \in Seq(Movements)
  BY <1>1 DEF CallRows
<1>5. /\ m \in Movements /\ m = k.plan[1] /\ 1 \in 1..Len(k.plan)
      /\ \A i \in 1..Len(Tail(k.plan)) : i + 1 \in 1..Len(k.plan) /\ Tail(k.plan)[i] = k.plan[i + 1]
  BY <1>1, <1>2, <1>4
<1>6. /\ UNCHANGED balance /\ OnlyMoves(c)
      /\ call'[c].pc = "post" /\ call'[c].plan = Tail(k.plan) /\ call'[c].snap = k.snap
  BY <1>0, <1>1 DEF WriteLedger, OnlyMoves, CallRows
<1>7. PICK row : row = [call |-> c, r |-> k.r, emp |-> e0, type |-> t0, source |-> m.source,
                        delta |-> m.delta]
  OBVIOUS
<1>8. /\ row.call = c /\ row.emp = e0 /\ row.type = t0 /\ row.source = m.source
      /\ row.delta = m.delta
  BY <1>7
<1>9. ledger' = ledger \cup {row}
  BY <1>0, <1>2, <1>3, <1>7 DEF WriteLedger
<1>10. row \notin ledger
  BY <1>0, <1>1, <1>5, <1>8 DEF BookOK
<1>11. c \in UserCalls
  <2>1. k.op \notin {"NONE", "ESCALATE"}
    BY <1>1 DEF CallOK, Stopped
  <2> QED BY <1>0, <2>1 DEF Signed, Calls
<1>12. \A x \in ledger' : x.call \in UserCalls
  BY <1>8, <1>9, <1>11 DEF Booked
<1>13. BookOK(c)'
  <2>1. Signs(Tail(k.plan))
    BY <1>0, <1>1, <1>5 DEF BookOK, Signs
  <2>2. \A i \in 1..Len(Tail(k.plan)) : Tail(k.plan)[i].source # row.source
    BY <1>0, <1>1, <1>5, <1>8 DEF BookOK, Distinct
  <2>3. Distinct(Tail(k.plan))
    BY <1>0, <1>1, <1>5 DEF BookOK, Distinct
  <2>4. \A i \in 1..Len(Tail(k.plan)) :
          \A x \in ledger' : x.call = c => x.source # Tail(k.plan)[i].source
    BY <1>0, <1>1, <1>5, <1>9, <2>2 DEF BookOK
  <2> QED BY <1>6, <2>1, <2>3, <2>4 DEF BookOK
<1>14. \A d \in Calls \ {c} : BookOK(d)'
  BY <1>6, <1>8, <1>9 DEF Booked, BookOK, OnlyMoves
<1>15. IsFiniteSet(Owing')
  <2>1. Owing' \subseteq Owing
    BY <1>6 DEF Owing, OnlyMoves
  <2> QED BY <2>1, FS_Subset DEF Booked
<1>16. IsFiniteSet(ledger')
  BY <1>9, FS_AddElement DEF Booked
<1>17. ASSUME NEW e \in Employees, NEW t \in Types
       PROVE  (Moved(e, t) = Recorded(e, t) + Owed(e, t))'
  <2>0. Moved(e, t) = Recorded(e, t) + Owed(e, t)
    BY DEF Booked, LedgerReconstructs
  <2>1. Moved(e, t)' = Moved(e, t)
    BY <1>6 DEF Moved, Available
  <2> DEFINE led == [x \in ledger |-> x.delta]
             Rows == {x \in ledger : x.emp = e /\ x.type = t}
             owe == [d \in Unledgered(e, t) |-> Head(call[d].plan).delta]
  <2>2. PICK f, g : f = led /\ g = led'
    OBVIOUS
  <2>3. PICK h, j : h = owe /\ j = owe'
    OBVIOUS
  <2>4. PICK S, T : S = Unledgered(e, t) /\ T = Unledgered(e, t)'
    OBVIOUS
  <2>5. PICK R, Q : R = Rows /\ Q = Rows'
    OBVIOUS
  <2>6. /\ Recorded(e, t) = SumFunctionOnSet(f, R) /\ Owed(e, t) = SumFunctionOnSet(h, S)
        /\ Recorded(e, t)' = SumFunctionOnSet(g, Q) /\ Owed(e, t)' = SumFunctionOnSet(j, T)
    BY <2>2, <2>3, <2>4, <2>5 DEF Recorded, Owed
  <2>7. /\ \A x \in R : f[x] \in Int /\ g[x] = f[x]
        /\ \A d \in S : h[d] \in Int
        /\ IsFiniteSet(S) /\ IsFiniteSet(R) /\ m.delta \in Int
    <3>1. \A x \in R : f[x] = x.delta /\ g[x] = x.delta
      BY <1>9, <2>2, <2>5
    <3> QED BY <1>5, <2>2, <2>3, <2>4, <2>5, <3>1, BookTypes DEF Movements
  <2> HIDE DEF led, Rows, owe
  <2>8. CASE e # e0 \/ t # t0
    <3>1. Q = R
      BY <1>8, <1>9, <2>5, <2>8 DEF Rows
    <3>2. T = S
      BY <1>0, <1>1, <1>3, <1>6, <2>4, <2>8 DEF Unledgered, OnlyMoves
    <3>3. \A d \in S : j[d] = h[d]
      BY <1>0, <1>3, <1>6, <2>3, <2>4, <2>8, <3>2 DEF owe, Unledgered, OnlyMoves
    <3>4. SumFunctionOnSet(g, R) = SumFunctionOnSet(f, R)
      BY <2>7, SumSame
    <3>5. SumFunctionOnSet(j, S) = SumFunctionOnSet(h, S)
      BY <2>7, <3>3, SumSame
    <3> QED BY <2>0, <2>1, <2>6, <3>1, <3>2, <3>4, <3>5
  <2>9. CASE e = e0 /\ t = t0
    <3>1. Q = R \cup {row} /\ row \notin R
      BY <1>8, <1>9, <1>10, <2>5, <2>9 DEF Rows
    <3>2. T = S \ {c} /\ c \in S
      BY <1>0, <1>1, <1>3, <1>6, <2>4, <2>9 DEF Unledgered, OnlyMoves
    <3>3. h[c] = m.delta /\ \A d \in T : j[d] = h[d]
      BY <1>0, <1>2, <1>6, <2>3, <2>4, <3>2 DEF owe, Unledgered, OnlyMoves
    <3>4. SumFunctionOnSet(g, Q) = m.delta + SumFunctionOnSet(f, R)
      <4>1. g[row] = m.delta
        BY <1>8, <1>9, <2>2 DEF led
      <4>2. \A x \in R \cup {row} : g[x] \in Int
        BY <2>7, <4>1
      <4>3. SumFunctionOnSet(g, R \cup {row}) = g[row] + SumFunctionOnSet(g, R)
        BY <2>7, <3>1, <4>2, SumAdds
      <4>4. SumFunctionOnSet(g, R) = SumFunctionOnSet(f, R)
        BY <2>7, SumSame
      <4> QED BY <3>1, <4>1, <4>3, <4>4
    <3>5. SumFunctionOnSet(h, S) = m.delta + SumFunctionOnSet(j, T)
      <4>1. SumFunctionOnSet(h, S) = h[c] + SumFunctionOnSet(h, S \ {c})
        BY <2>7, <3>2, SumTakes
      <4>2. IsFiniteSet(T)
        BY <2>7, <3>2, FS_Subset
      <4>3. SumFunctionOnSet(j, T) = SumFunctionOnSet(h, T)
        BY <3>3, <4>2, SumSame
      <4> QED BY <3>2, <3>3, <4>1, <4>3
    <3>6. /\ SumFunctionOnSet(f, R) \in Int /\ SumFunctionOnSet(j, T) \in Int
      <4>1. IsFiniteSet(T) /\ \A d \in T : j[d] \in Int
        BY <2>7, <3>2, <3>3, FS_Subset
      <4> QED BY <2>7, <4>1, SumIsInt
    <3> QED BY <2>0, <2>1, <2>6, <2>7, <3>4, <3>5, <3>6
  <2> QED BY <2>8, <2>9
<1>18. LedgerReconstructs'
  BY <1>17 DEF LedgerReconstructs
<1> QED BY <1>6, <1>12, <1>13, <1>14, <1>15, <1>16, <1>18 DEF Booked

(* Settle plans movements in order; nothing of this call is in the ledger.  *)
LEMMA SettleBooks ==
  ASSUME Shape, Booked, NEW c \in Calls, Settle(c)
  PROVE  Booked'
<1> DEFINE q == call[c].snap
           plan == IF call[c].op = "APPROVE" THEN PlanApproval(q, policy[q.type]) ELSE PlanCancel(q)
<1>1. /\ call \in [Calls -> CallRows] /\ call[c] \in CallRows /\ call[c].pc = "settle"
      /\ BookOK(c) /\ q \in RequestRows
  BY DEF Shape, TypeOK, Settle, Booked, CallRows
<1>2. OnlyMoves(c) /\ UNCHANGED <<balance, ledger>>
  BY <1>1 DEF Settle, Return, OnlyMoves, tables
<1>3. CASE call' = [call EXCEPT ![c] = Returned(@)]
  <2>1. call'[c].pc = "done" /\ call'[c].plan = <<>>
    BY <1>1, <1>3 DEF Returned, Idle
  <2>2. BookOK(c)'
    BY <2>1 DEF BookOK, Signs
  <2> QED BY <1>1, <1>2, <2>1, <2>2, BooksKept
<1>4. CASE call'[c].pc = "post" /\ call'[c].plan = plan
  <2>1. Signs(plan) /\ Distinct(plan)
    BY <1>1, PlanSigns
  <2>2. BookOK(c)'
    BY <1>1, <1>2, <1>4, <2>1 DEF BookOK
  <2> QED BY <1>1, <1>2, <1>4, <2>2, BooksKept
<1>5. \/ call' = [call EXCEPT ![c] = Returned(@)]
      \/ call'[c].pc = "post" /\ call'[c].plan = plan
  BY <1>1 DEF Settle, Return, CallRows
<1> QED BY <1>3, <1>4, <1>5

(* A call that starts has nothing in the ledger and owes nothing.           *)
LEMMA StartBooks ==
  ASSUME Shape, Booked, NEW c \in UserCalls, Start(c)
  PROVE  Booked'
<1>1. /\ c \in Calls /\ call \in [Calls -> CallRows] /\ call[c].pc = "idle" /\ BookOK(c)
  <2>1. CanStart(c)
    <3>1. CASE ReadApply(c)
      BY <3>1 DEF ReadApply
    <3>2. CASE \E u \in Employees, r \in Reqs : ReadAttach(c, u, r) \/ ReadApprove(c, u, r)
      BY <3>2 DEF ReadAttach, ReadApprove
    <3>3. CASE \E u \in Employees, r \in Reqs : ReadReject(c, u, r) \/ ReadCancel(c, u, r)
      BY <3>3 DEF ReadReject, ReadCancel
    <3>4. CASE \E u \in Admins, e \in Applicants, t \in Types, y \in Years, delta \in AdjustDeltas :
                 StartAdjust(c, u, e, t, y, delta)
      BY <3>4 DEF StartAdjust
    <3> QED BY <3>1, <3>2, <3>3, <3>4 DEF Start
  <2> QED BY <2>1 DEF CanStart, Calls, Shape, TypeOK, Booked
<1> DEFINE Fresh == UNCHANGED <<balance, ledger>> /\ OnlyMoves(c)
<1>2. ASSUME Fresh, call'[c].pc \notin {"ledger", "torn"}, Signs(call'[c].plan),
             call'[c].pc = "post" => Distinct(call'[c].plan)
      PROVE  Booked'
  <2>1. BookOK(c)'
    BY <1>1, <1>2 DEF BookOK
  <2> QED BY <1>1, <1>2, <2>1, BooksKept
<1>3. Signs(<<>>)
  BY DEF Signs
<1>4. CASE ReadApply(c)
  <2>1. Fresh /\ call'[c].pc = "insert" /\ call'[c].plan = <<>>
    BY <1>1, <1>4 DEF ReadApply, Idle, OnlyMoves, tables
  <2> QED BY <1>2, <1>3, <2>1
<1>5. CASE \E u \in Employees, r \in Reqs : ReadAttach(c, u, r)
  <2>1. Fresh /\ call'[c].pc = "upload" /\ call'[c].plan = <<>>
    BY <1>1, <1>5 DEF ReadAttach, Idle, OnlyMoves, tables
  <2> QED BY <1>2, <1>3, <2>1
<1>6. CASE \E u \in Employees, r \in Reqs : ReadApprove(c, u, r)
  <2>1. Fresh /\ call'[c].pc \in {"route", "settle"} /\ call'[c].plan = <<>>
    BY <1>1, <1>6 DEF ReadApprove, Idle, OnlyMoves, tables
  <2> QED BY <1>2, <1>3, <2>1
<1>7. CASE \E u \in Employees, r \in Reqs : ReadReject(c, u, r)
  <2>1. Fresh /\ call'[c].pc = "write" /\ call'[c].plan = <<>>
    BY <1>1, <1>7 DEF ReadReject, Idle, OnlyMoves, tables
  <2> QED BY <1>2, <1>3, <2>1
<1>8. CASE \E u \in Employees, r \in Reqs : ReadCancel(c, u, r)
  <2>1. Fresh /\ call'[c].pc \in {"settle", "write"} /\ call'[c].plan = <<>>
    BY <1>1, <1>8 DEF ReadCancel, Idle, OnlyMoves, tables
  <2> QED BY <1>2, <1>3, <2>1
<1>9. CASE \E u \in Admins, e \in Applicants, t \in Types, y \in Years, delta \in AdjustDeltas :
             StartAdjust(c, u, e, t, y, delta)
  <2>1. PICK delta \in AdjustDeltas :
           Fresh /\ call'[c].pc = "post" /\ call'[c].plan = <<manualDelta(delta)>>
    BY <1>1, <1>9 DEF StartAdjust, Idle, OnlyMoves, tables
  <2>2. SignOK(manualDelta(delta))
    BY DEF SignOK, manualDelta
  <2>3. Signs(call'[c].plan) /\ Distinct(call'[c].plan)
    BY <2>1, <2>2 DEF Signs, Distinct
  <2> QED BY <1>2, <2>1, <2>3
<1> QED BY <1>4, <1>5, <1>6, <1>7, <1>8, <1>9 DEF Start

LEMMA StepBooks ==
  ASSUME Shape, Signed, Booked, NEW c \in Calls, Step(c)
  PROVE  Booked'
<1>1. /\ call \in [Calls -> CallRows] /\ call[c] \in CallRows /\ CallOK(call[c]) /\ BookOK(c)
  BY DEF Shape, TypeOK, Booked
<1>2. CASE Upload(c) \/ Finish(c)
  <2>1. /\ UNCHANGED <<balance, ledger>> /\ OnlyMoves(c) /\ call'[c] = Returned(call[c])
        /\ call[c].pc \notin {"ledger", "torn"}
    BY <1>1, <1>2 DEF Upload, Finish, Return, OnlyMoves, tables
  <2>2. call'[c].pc = "done" /\ call'[c].plan = <<>>
    BY <2>1 DEF Returned, Idle
  <2>3. BookOK(c)'
    BY <2>2 DEF BookOK, Signs
  <2> QED BY <2>1, <2>2, <2>3, BooksKept
<1>3. CASE ReadHolidays(c)
  <2>1. /\ UNCHANGED <<balance, ledger>> /\ OnlyMoves(c) /\ call[c].pc = "post"
        /\ call[c].plan = <<>>
    BY <1>1, <1>3 DEF ReadHolidays, OnlyMoves, tables
  <2>2. call'[c].pc \in {"done", "sync"} /\ call'[c].plan = <<>>
    BY <1>1, <1>3, <2>1 DEF ReadHolidays, Returned, Idle, CallRows
  <2>3. BookOK(c)'
    BY <2>2 DEF BookOK, Signs
  <2> QED BY <2>1, <2>2, <2>3, BooksKept
<1> DEFINE Quietly == /\ UNCHANGED <<balance, ledger>> /\ OnlyMoves(c)
                      /\ call'[c].plan = call[c].plan
                      /\ call[c].pc \notin {"ledger", "torn"}
                      /\ \/ call'[c].pc \in {"notify", "sync", "write"}
                         \/ call[c].pc = "route" /\ call'[c].pc = "settle"
<1>4. ASSUME Quietly PROVE Booked'
  <2>1. BookOK(c)'
    BY <1>1, <1>4 DEF BookOK
  <2> QED BY <1>4, <2>1, BooksKept
<1>5. CASE InsertRequest(c)
  <2>1. Quietly
    BY <1>1, <1>5 DEF InsertRequest, OnlyMoves, CallRows
  <2> QED BY <1>4, <2>1
<1>6. CASE RouteL1(c)
  <2>1. Quietly
    BY <1>1, <1>6 DEF RouteL1, Goto, OnlyMoves, CallRows, tables
  <2> QED BY <1>4, <2>1
<1>7. CASE SyncDay(c)
  <2>1. Quietly
    BY <1>1, <1>7 DEF SyncDay, OnlyMoves, CallRows
  <2> QED BY <1>4, <2>1
<1>8. CASE SyncDone(c)
  <2>1. Quietly
    BY <1>1, <1>8 DEF SyncDone, OnlyMoves, CallRows, tables
  <2> QED BY <1>4, <2>1
<1>9. CASE WriteStatus(c) \/ RecordDecision(c)
  <2>1. Quietly
    BY <1>1, <1>9 DEF WriteStatus, RecordDecision, OnlyMoves, CallRows
  <2> QED BY <1>4, <2>1
<1> QED
  BY <1>2, <1>3, <1>5, <1>6, <1>7, <1>8, <1>9, SettleBooks, PostBooks, LedgerBooks DEF Step

LEMMA NextBooks == Shape /\ Signed /\ Booked /\ [Next]_vars => Booked'
<1> SUFFICES ASSUME Shape, Signed, Booked, [Next]_vars PROVE Booked'
  OBVIOUS
<1>0. call \in [Calls -> CallRows]
  BY DEF Shape, TypeOK
<1>1. ASSUME NEW c \in Calls, Fail(c) PROVE Booked'
  <2>1. /\ UNCHANGED <<balance, ledger>> /\ OnlyMoves(c) /\ call[c].pc \notin Stopped
        /\ call'[c].pc = (IF call[c].pc = "ledger" THEN "torn" ELSE "failed")
        /\ call'[c].plan = call[c].plan /\ call'[c].snap = call[c].snap
    BY <1>0, <1>1 DEF Fail, Running, Goto, OnlyMoves, CallRows, tables
  <2>2. BookOK(c) /\ CallOK(call[c])
    BY DEF Booked, Shape
  <2>3. call[c].pc = "ledger" => call[c].plan # <<>> /\ c \in UserCalls
    BY <2>1, <2>2 DEF CallOK, Signed, Calls
  <2>4. BookOK(c)'
    BY <2>1, <2>2, <2>3 DEF BookOK
  <2>5. call[c].pc \in {"ledger", "torn"} <=> call'[c].pc \in {"ledger", "torn"}
    BY <2>1 DEF Stopped
  <2> QED BY <2>1, <2>4, <2>5, BooksKept
<1>2. CASE TakeJob
  <2>1. Worker \in Calls /\ BookOK(Worker) /\ Worker \notin UserCalls
    BY LeaveConstants DEF Calls, Booked, LeaveConstants
  <2>2. /\ UNCHANGED <<balance, ledger>> /\ OnlyMoves(Worker)
        /\ call[Worker].pc \in Stopped
        /\ call'[Worker].pc \in {"write", "done"} /\ call'[Worker].plan = <<>>
    BY <1>0, <1>2, <2>1 DEF TakeJob, OnlyMoves, Idle, tables
  <2>3. call[Worker].pc \notin {"ledger", "torn"}
    BY <2>1, <2>2 DEF BookOK, Stopped
  <2>4. BookOK(Worker)'
    BY <2>2 DEF BookOK, Signs
  <2> QED BY <2>1, <2>2, <2>3, <2>4, BooksKept
<1>3. CASE Environment \/ AccrualWorkerTakesJob \/ UNCHANGED vars
  <2>1. UNCHANGED <<balance, ledger, call>>
    BY <1>3 DEF Environment, updateSettings, updateType, editHolidays, softDelete, clockIn,
         AccrualWorkerTakesJob, vars, tables
  <2> QED BY <2>1, BooksUntouched
<1> QED BY <1>1, <1>2, <1>3, StartBooks, StepBooks DEF Next

LEMMA InitBooks ==
  ASSUME Years \subseteq OpeningYears
  PROVE  Init => Booked
<1> SUFFICES ASSUME Init PROVE Booked
  OBVIOUS
<1>1. \A c \in Calls : BookOK(c)
  BY DEF Init, BookOK, Idle, Signs
<1>2. \A e \in Employees, t \in Types, y \in Years : balance[e][t][y].exists
  BY DEF Init
<1>3. ledger = {} /\ Owing = {} /\ IsFiniteSet({})
  BY FS_EmptySet DEF Init, Owing, Idle
<1>4. ASSUME NEW e \in Employees, NEW t \in Types
      PROVE  Moved(e, t) = Recorded(e, t) + Owed(e, t)
  <2>1. Unledgered(e, t) = {} /\ {x \in ledger : x.emp = e /\ x.type = t} = {}
    BY <1>3 DEF Unledgered, Owing
  <2>2. Recorded(e, t) = 0 /\ Owed(e, t) = 0
    BY <2>1, SumEmpty DEF Recorded, Owed
  <2>3. PICK f : f = [y \in Years |-> Available(e, t, y)
                        - (IF y \in OpeningYears THEN OpeningDays ELSE 0)]
    OBVIOUS
  <2>4. \A y \in Years : f[y] = 0
    BY <2>3, LeaveConstants DEF Init, Available, LeaveConstants
  <2>5. SumFunctionOnSet(f, Years) = 0
    BY <2>4, YearsFinite, SumZero
  <2> QED BY <2>2, <2>3, <2>5 DEF Moved
<1>5. LedgerReconstructs
  BY <1>4 DEF LedgerReconstructs
<1> QED BY <1>1, <1>2, <1>3, <1>5 DEF Booked

(* When every balance row of the years in question exists: at every moment, *)
(* however handlers interleave and die, an employee's balance of a type has *)
(* moved by what its ledger rows add up to and what handlers between their  *)
(* two statements still owe.                                                *)
LEMMA LedgerIsExact ==
  ASSUME Years \subseteq OpeningYears
  PROVE  Spec => []LedgerReconstructs
<1>1. Init => Booked
  BY InitBooks
<1>2. Booked => LedgerReconstructs
  BY DEF Booked
<1> QED BY <1>1, <1>2, AlwaysShape, AlwaysSigned, NextBooks, PTL DEF Spec
-----------------------------------------------------------------------------
(* Attendance rows: what a handler that writes them says of its request.    *)
MarkOK(k) ==
    /\ k.pc \in {"route", "settle", "post", "ledger", "sync"} /\ k.op = "APPROVE" =>
         k.target = "APPROVED"
    /\ k.pc \in {"post", "ledger", "sync"} /\ k.mark => k.op = "APPROVE"
    /\ k.pc \in {"route", "settle", "post", "ledger", "sync"} /\ k.op # "ADJUST" =>
         k.snap.from = request[k.r].from /\ k.snap.to = request[k.r].to
    /\ k.pc = "sync" => \A d \in k.days : k.snap.from <= d /\ d <= k.snap.to

Marked ==
    /\ \A c \in Calls : MarkOK(call[c])
    /\ \A r \in Reqs : request[r].status = "NONE" => request[r].emp = Nobody
    /\ OnLeaveHasApproval

(* A step that writes neither requests nor attendance rows.                 *)
LEMMA OneHandlerMarks ==
  ASSUME Shape, Marked, UNCHANGED <<request, attendance>>, ledger \subseteq ledger',
         NEW c \in Calls, OnlyMoves(c), MarkOK(call[c])'
  PROVE  Marked'
<1>1. \A d \in Calls : MarkOK(call[d])'
  BY DEF Marked, MarkOK, OnlyMoves
<1>2. \A r : Posted(r, "REQUEST_APPROVED") # {} => (Posted(r, "REQUEST_APPROVED") # {})'
  BY DEF Posted
<1>3. OnLeaveHasApproval'
  BY <1>2 DEF Marked, OnLeaveHasApproval
<1> QED BY <1>1, <1>3 DEF Marked

LEMMA StartMarks ==
  ASSUME Shape, Marked, NEW c \in UserCalls, Start(c)
  PROVE  Marked'
<1>1. /\ c \in Calls /\ call \in [Calls -> CallRows]
  BY DEF Calls, Shape, TypeOK
<1> DEFINE Fresh == UNCHANGED <<request, attendance, ledger>> /\ OnlyMoves(c)
<1>2. ASSUME Fresh, MarkOK(call[c])' PROVE Marked'
  BY <1>1, <1>2, OneHandlerMarks
<1>3. CASE \/ ReadApply(c)
           \/ \E u \in Employees, r \in Reqs : ReadAttach(c, u, r) \/ ReadReject(c, u, r)
  <2>1. Fresh /\ call'[c].pc \in {"insert", "upload", "write"}
    <3>1. CASE ReadApply(c)
      BY <1>1, <3>1 DEF ReadApply, Idle, OnlyMoves, tables
    <3>2. CASE \E u \in Employees, r \in Reqs : ReadAttach(c, u, r)
      BY <1>1, <3>2 DEF ReadAttach, Idle, OnlyMoves, tables
    <3>3. CASE \E u \in Employees, r \in Reqs : ReadReject(c, u, r)
      BY <1>1, <3>3 DEF ReadReject, Idle, OnlyMoves, tables
    <3> QED BY <1>3, <3>1, <3>2, <3>3
  <2>2. MarkOK(call[c])'
    BY <2>1 DEF MarkOK
  <2> QED BY <1>2, <2>1, <2>2
<1>4. CASE \E u \in Employees, r \in Reqs : ReadApprove(c, u, r)
  <2>1. PICK r \in Reqs :
          /\ Fresh /\ call'[c].pc \in {"route", "settle"} /\ call'[c].target = "APPROVED"
          /\ call'[c].snap = request[r] /\ call'[c].r = r
    BY <1>1, <1>4 DEF ReadApprove, Idle, OnlyMoves, tables
  <2>2. MarkOK(call[c])'
    BY <2>1 DEF MarkOK
  <2> QED BY <1>2, <2>1, <2>2
<1>5. CASE \E u \in Employees, r \in Reqs : ReadCancel(c, u, r)
  <2>1. PICK r \in Reqs :
          /\ Fresh /\ call'[c].pc \in {"write", "settle"} /\ call'[c].op = "CANCEL"
          /\ call'[c].snap = request[r] /\ call'[c].r = r
    BY <1>1, <1>5 DEF ReadCancel, Idle, OnlyMoves, tables
  <2>2. MarkOK(call[c])'
    BY <2>1 DEF MarkOK
  <2> QED BY <1>2, <2>1, <2>2
<1>6. CASE \E u \in Admins, e \in Applicants, t \in Types, y \in Years, delta \in AdjustDeltas :
             StartAdjust(c, u, e, t, y, delta)
  <2>1. Fresh /\ call'[c].pc = "post" /\ call'[c].op = "ADJUST" /\ call'[c].mark = FALSE
    BY <1>1, <1>6 DEF StartAdjust, Idle, OnlyMoves, tables
  <2>2. MarkOK(call[c])'
    BY <2>1 DEF MarkOK
  <2> QED BY <1>2, <2>1, <2>2
<1> QED BY <1>3, <1>4, <1>5, <1>6 DEF Start

(* A day is set ON_LEAVE only by an approval that has deducted its days, or *)
(* had none to deduct, and inside the request's dates.                      *)
LEMMA SyncMarks ==
  ASSUME Shape, Paid, Marked, NEW c \in Calls, SyncDay(c)
  PROVE  Marked'
<1>0. PICK k : k = call[c]
  OBVIOUS
<1>1. /\ call \in [Calls -> CallRows] /\ k \in CallRows /\ CallOK(k) /\ PlanOK(k) /\ MarkOK(k)
      /\ k.pc = "sync" /\ UNCHANGED <<request, ledger>>
      /\ attendance \in [Employees -> [Days -> {"NONE", "ON_LEAVE", "WORKED"}]]
  BY <1>0 DEF Shape, TypeOK, TablesOK, Paid, Marked, SyncDay
<1>2. PICK d0 \in k.days :
        /\ attendance' = [attendance EXCEPT ![k.snap.emp][d0] = Synced(@, k.mark)]
        /\ call' = [call EXCEPT ![c].days = @ \ {d0}]
  BY <1>0 DEF SyncDay
<1>3. PICK e0, r0 : e0 = k.snap.emp /\ r0 = k.r
  OBVIOUS
<1>4. /\ e0 \in Employees /\ d0 \in Days
      /\ k.op \in {"APPROVE", "CANCEL"} /\ r0 \in Reqs
      /\ e0 = request[r0].emp /\ k.snap.lop = request[r0].lop
  BY <1>1, <1>2, <1>3 DEF CallOK, Stopped, Deciding, CallRows
<1>5. \A e \in Employees, d \in Days :
        attendance'[e][d] = IF e = e0 /\ d = d0 THEN Synced(attendance[e][d], k.mark)
                            ELSE attendance[e][d]
  BY <1>1, <1>2, <1>3, <1>4
<1>6. /\ OnlyMoves(c) /\ call'[c].pc = k.pc /\ call'[c].op = k.op /\ call'[c].r = k.r
      /\ call'[c].target = k.target /\ call'[c].mark = k.mark /\ call'[c].snap = k.snap
      /\ call'[c].days = k.days \ {d0}
  BY <1>0, <1>1, <1>2 DEF OnlyMoves, CallRows
<1>7. MarkOK(call[c])'
  BY <1>1, <1>6 DEF MarkOK
<1>8. \A d \in Calls : MarkOK(call[d])'
  BY <1>1, <1>6, <1>7 DEF Marked, MarkOK, OnlyMoves
<1>9. ASSUME NEW e \in Employees, NEW d \in Days, attendance'[e][d] = "ON_LEAVE"
      PROVE  \E r \in Reqs :
               /\ request'[r].emp = e /\ request'[r].from <= d /\ d <= request'[r].to
               /\ request'[r].lop \/ (Posted(r, "REQUEST_APPROVED") # {})'
  <2>0. \A r : Posted(r, "REQUEST_APPROVED")' = Posted(r, "REQUEST_APPROVED")
    BY <1>1 DEF Posted
  <2>1. CASE attendance[e][d] = "ON_LEAVE"
    <3>1. PICK r \in Reqs :
            /\ request[r].emp = e /\ request[r].from <= d /\ d <= request[r].to
            /\ request[r].lop \/ Posted(r, "REQUEST_APPROVED") # {}
      BY <2>1 DEF Marked, OnLeaveHasApproval
    <3> QED BY <1>1, <2>0, <3>1
  <2>2. CASE attendance[e][d] # "ON_LEAVE"
    <3>1. e = e0 /\ d = d0 /\ k.mark
      BY <1>5, <1>9, <2>2 DEF Synced
    <3>2. k.op = "APPROVE" /\ k.target = "APPROVED"
      BY <1>1, <3>1 DEF MarkOK
    <3>3. k.snap.lop \/ Posted(r0, "REQUEST_APPROVED") # {}
      BY <1>1, <1>3, <3>2 DEF PlanOK
    <3>4. request[r0].from <= d /\ d <= request[r0].to
      BY <1>1, <1>3, <1>4, <3>1, <3>2 DEF MarkOK
    <3> QED BY <1>1, <1>4, <2>0, <3>1, <3>3, <3>4
  <2> QED BY <2>1, <2>2
<1>10. OnLeaveHasApproval'
  BY <1>9 DEF OnLeaveHasApproval
<1> QED BY <1>1, <1>8, <1>10 DEF Marked

(* An inserted row was nobody's; a status is the one column ever updated.   *)
LEMMA InsertMarks ==
  ASSUME Shape, Marked, NEW c \in Calls, InsertRequest(c)
  PROVE  Marked'
<1>1. /\ call \in [Calls -> CallRows] /\ call[c] \in CallRows /\ CallOK(call[c])
      /\ request \in [Reqs -> RequestRows] /\ UNCHANGED <<ledger, attendance>>
  BY DEF Shape, TypeOK, TablesOK, InsertRequest
<1>0. PICK r \in Reqs : /\ NextReq(r)
                        /\ request' = [request EXCEPT ![r] = call[c].snap]
                        /\ call' = [call EXCEPT ![c].r = r, ![c].pc = "notify"]
  BY ZenonT(20) DEF InsertRequest
<1>2. /\ request[r].status = "NONE"
      /\ request' = [request EXCEPT ![r] = call[c].snap]
      /\ call' = [call EXCEPT ![c].r = r, ![c].pc = "notify"]
  BY <1>0 DEF NextReq
<1>3. /\ request'[r] = call[c].snap /\ call[c].snap.status # "NONE"
      /\ \A s \in Reqs : s # r => request'[s] = request[s]
  BY <1>1, <1>2 DEF CallOK, InsertRequest, Stopped
<1>4. OnlyMoves(c) /\ call'[c].pc = "notify"
  BY <1>1, <1>2 DEF OnlyMoves, CallRows
<1>5. ASSUME NEW d \in Calls PROVE MarkOK(call[d])'
  <2>1. CASE d = c
    BY <1>4, <2>1 DEF MarkOK
  <2>2. CASE d # c
    <3>1. call'[d] = call[d] /\ MarkOK(call[d]) /\ CallOK(call[d])
      BY <1>4, <2>2 DEF OnlyMoves, Marked, Shape
    <3>2. call[d].pc \in {"route", "settle", "post", "ledger", "sync"} /\ call[d].op # "ADJUST" =>
            request'[call[d].r] = request[call[d].r]
      BY <1>2, <1>3, <3>1 DEF CallOK, Stopped, Deciding
    <3> QED BY <3>1, <3>2 DEF MarkOK
  <2> QED BY <2>1, <2>2
<1>6. \A s \in Reqs : request'[s].status = "NONE" => request'[s].emp = Nobody
  BY <1>3 DEF Marked
<1>7. request[r].emp = Nobody /\ Nobody \notin Employees
  BY <1>2, LeaveConstants DEF Marked, LeaveConstants
<1>8. OnLeaveHasApproval'
  BY <1>1, <1>3, <1>7 DEF Marked, OnLeaveHasApproval, Posted
<1> QED BY <1>5, <1>6, <1>8 DEF Marked

LEMMA WriteStatusMarks ==
  ASSUME Shape, Marked, NEW c \in Calls, WriteStatus(c)
  PROVE  Marked'
<1>1. /\ call \in [Calls -> CallRows] /\ call[c] \in CallRows /\ CallOK(call[c])
      /\ call[c].pc = "write" /\ "status" \in call[c].todo
      /\ request \in [Reqs -> RequestRows] /\ UNCHANGED <<ledger, attendance>>
  BY DEF Shape, TypeOK, TablesOK, WriteStatus
<1>2. call[c].r \in Reqs /\ call[c].target # "NONE"
  BY <1>1 DEF CallOK, Stopped, Deciding
<1>3. \A r \in Reqs :
        /\ request'[r].emp = request[r].emp /\ request'[r].lop = request[r].lop
        /\ request'[r].from = request[r].from /\ request'[r].to = request[r].to
        /\ request'[r].status = IF r = call[c].r THEN call[c].target ELSE request[r].status
  BY <1>1, <1>2 DEF WriteStatus, RequestRows
<1>4. OnlyMoves(c) /\ call'[c].pc = "write"
  BY <1>1 DEF WriteStatus, OnlyMoves, CallRows
<1>5. ASSUME NEW d \in Calls PROVE MarkOK(call[d])'
  <2>1. CASE d = c
    BY <1>4, <2>1 DEF MarkOK
  <2>2. CASE d # c
    <3>1. call'[d] = call[d] /\ MarkOK(call[d]) /\ CallOK(call[d])
      BY <1>4, <2>2 DEF OnlyMoves, Marked, Shape
    <3>2. call[d].pc \in {"route", "settle", "post", "ledger", "sync"} /\ call[d].op # "ADJUST" =>
            call[d].r \in Reqs
      BY <3>1 DEF CallOK, Stopped, Deciding
    <3> QED BY <1>3, <3>1, <3>2 DEF MarkOK
  <2> QED BY <2>1, <2>2
<1>6. \A s \in Reqs : request'[s].status = "NONE" => request'[s].emp = Nobody
  BY <1>2, <1>3 DEF Marked
<1>7. OnLeaveHasApproval'
  BY <1>1, <1>3 DEF Marked, OnLeaveHasApproval, Posted
<1> QED BY <1>5, <1>6, <1>7 DEF Marked

LEMMA StepMarks ==
  ASSUME Shape, Paid, Marked, NEW c \in Calls, Step(c)
  PROVE  Marked'
<1>1. /\ call \in [Calls -> CallRows] /\ call[c] \in CallRows /\ CallOK(call[c])
      /\ MarkOK(call[c])
  BY DEF Shape, TypeOK, Marked
<1> DEFINE Quietly == UNCHANGED <<request, attendance>> /\ ledger \subseteq ledger' /\ OnlyMoves(c)
<1>2. ASSUME Quietly, MarkOK(call[c])' PROVE Marked'
  BY <1>2, OneHandlerMarks
<1>3. CASE Upload(c) \/ Finish(c)
  <2>1. Quietly /\ call'[c].pc = "done"
    BY <1>1, <1>3, ReturnedRow DEF Upload, Finish, Return, OnlyMoves, tables
  <2>2. MarkOK(call[c])'
    BY <2>1 DEF MarkOK
  <2> QED BY <1>2, <2>1, <2>2
<1>4. CASE RouteL1(c)
  <2>1. /\ Quietly /\ call[c].pc = "route"
        /\ \/ call'[c].pc = "settle" /\ call'[c].target = call[c].target
              /\ call'[c].op = call[c].op
              /\ call'[c].snap = call[c].snap /\ call'[c].r = call[c].r
           \/ call'[c].pc = "write"
    BY <1>1, <1>4 DEF RouteL1, Goto, OnlyMoves, CallRows, tables
  <2>2. MarkOK(call[c])'
    BY <1>1, <2>1 DEF MarkOK
  <2> QED BY <1>2, <2>1, <2>2
<1>5. CASE Settle(c)
  <2>1. /\ Quietly /\ call[c].pc = "settle"
        /\ \/ call' = [call EXCEPT ![c] = Returned(@)]
           \/ /\ call'[c].pc = "post" /\ call'[c].target = call[c].target
              /\ call'[c].op = call[c].op
              /\ call'[c].snap = call[c].snap /\ call'[c].r = call[c].r
              /\ call'[c].mark = (call[c].op = "APPROVE")
    BY <1>1, <1>5 DEF Settle, Return, OnlyMoves, CallRows, tables
  <2>2. call'[c] = Returned(call[c]) => call'[c].pc = "done"
    BY <1>1, ReturnedRow
  <2>3. MarkOK(call[c])'
    BY <1>1, <2>1, <2>2 DEF MarkOK
  <2> QED BY <1>2, <2>1, <2>3
<1>6. CASE Post(c) \/ WriteLedger(c)
  <2>1. /\ Quietly /\ call[c].pc \in {"post", "ledger"} /\ call'[c].pc \in {"post", "ledger"}
        /\ call'[c].target = call[c].target
        /\ call'[c].op = call[c].op /\ call'[c].mark = call[c].mark
        /\ call'[c].snap = call[c].snap /\ call'[c].r = call[c].r
    <3>1. CASE Post(c)
      BY <1>1, <3>1 DEF Post, Goto, OnlyMoves, CallRows
    <3>2. CASE WriteLedger(c)
      BY <1>1, <3>2 DEF WriteLedger, OnlyMoves, CallRows
    <3> QED BY <1>6, <3>1, <3>2
  <2>2. MarkOK(call[c])'
    BY <1>1, <2>1 DEF MarkOK
  <2> QED BY <1>2, <2>1, <2>2
<1>7. CASE ReadHolidays(c)
  <2>1. /\ Quietly /\ call[c].pc = "post"
        /\ \/ call' = [call EXCEPT ![c] = Returned(@)]
           \/ /\ call'[c].pc = "sync" /\ call'[c].target = call[c].target
              /\ call'[c].op = call[c].op /\ call'[c].mark = call[c].mark
              /\ call'[c].snap = call[c].snap /\ call'[c].r = call[c].r
              /\ call'[c].days = WorkingDays(call[c].snap.from, call[c].snap.to, holidays)
    BY <1>1, <1>7 DEF ReadHolidays, OnlyMoves, CallRows, tables
  <2>2. call'[c] = Returned(call[c]) => call'[c].pc = "done"
    BY <1>1, ReturnedRow
  <2>3. MarkOK(call[c])'
    BY <1>1, <2>1, <2>2 DEF MarkOK, WorkingDays
  <2> QED BY <1>2, <2>1, <2>3
<1>8. CASE SyncDone(c) \/ RecordDecision(c)
  <2>1. Quietly /\ call'[c].pc = "write"
    BY <1>1, <1>8 DEF SyncDone, RecordDecision, OnlyMoves, CallRows, tables
  <2>2. MarkOK(call[c])'
    BY <2>1 DEF MarkOK
  <2> QED BY <1>2, <2>1, <2>2
<1> QED
  BY <1>3, <1>4, <1>5, <1>6, <1>7, <1>8, SyncMarks, InsertMarks, WriteStatusMarks DEF Step

LEMMA NextMarks == Shape /\ Paid /\ Marked /\ [Next]_vars => Marked'
<1> SUFFICES ASSUME Shape, Paid, Marked, [Next]_vars PROVE Marked'
  OBVIOUS
<1>0. call \in [Calls -> CallRows]
  BY DEF Shape, TypeOK
<1>1. ASSUME NEW c \in Calls, Fail(c) PROVE Marked'
  <2>1. /\ UNCHANGED <<request, attendance, ledger>> /\ OnlyMoves(c)
        /\ call'[c].pc \in {"torn", "failed"}
    BY <1>0, <1>1 DEF Fail, Goto, OnlyMoves, CallRows, tables
  <2>2. MarkOK(call[c])'
    BY <2>1 DEF MarkOK
  <2> QED BY <2>1, <2>2, OneHandlerMarks
<1>2. CASE TakeJob
  <2>1. /\ Worker \in Calls /\ UNCHANGED <<request, attendance, ledger>> /\ OnlyMoves(Worker)
        /\ call'[Worker].pc \in {"write", "done"}
    BY <1>0, <1>2 DEF TakeJob, OnlyMoves, Idle, tables, Calls
  <2>2. MarkOK(call[Worker])'
    BY <2>1 DEF MarkOK
  <2> QED BY <2>1, <2>2, OneHandlerMarks
<1>3. ASSUME NEW e \in Applicants, NEW d \in ClockDays, clockIn(e, d) PROVE Marked'
  <2>1. /\ UNCHANGED <<request, call, ledger>>
        /\ attendance' = [attendance EXCEPT ![e][d] = "WORKED"]
        /\ attendance \in [Employees -> [Days -> {"NONE", "ON_LEAVE", "WORKED"}]]
    BY <1>3 DEF clockIn, Shape, TypeOK, TablesOK
  <2>2. \A x \in Employees, y \in Days :
          attendance'[x][y] = "ON_LEAVE" => attendance[x][y] = "ON_LEAVE"
    BY <2>1
  <2>3. OnLeaveHasApproval'
    BY <2>1, <2>2 DEF Marked, OnLeaveHasApproval, Posted
  <2> QED BY <2>1, <2>3 DEF Marked, MarkOK
<1>4. CASE updateSettings \/ updateType \/ editHolidays \/ (\E r \in Reqs : softDelete(r)) \/ AccrualWorkerTakesJob \/ UNCHANGED vars
  <2>1. UNCHANGED <<request, attendance, ledger, call>>
    BY <1>4 DEF updateSettings, updateType, editHolidays, softDelete, AccrualWorkerTakesJob, vars, tables
  <2> QED BY <2>1 DEF Marked, MarkOK, OnLeaveHasApproval, Posted
<1> QED BY <1>1, <1>2, <1>3, <1>4, StartMarks, StepMarks DEF Next, Environment

LEMMA InitMarks == Init => Marked
BY DEF Init, Marked, MarkOK, Idle, NoRequest, OnLeaveHasApproval

(* For every tenant: an ON_LEAVE attendance row lies inside a request of    *)
(* its employee whose days some approval took, or that had none to take.    *)
LEMMA LeaveDaysAreApproved == Spec => []OnLeaveHasApproval
<1>1. Marked => OnLeaveHasApproval
  BY DEF Marked
<1> QED BY <1>1, AlwaysShape, AlwaysPaid, InitMarks, NextMarks, PTL DEF Spec

(* When every balance row of the years in question exists: at every moment, *)
(* however handlers interleave and die, no day is on leave without an       *)
(* approval that took its days, and no movement of a balance is without its *)
(* ledger row or a handler that stands, or died, before it.                 *)
THEOREM LeaveStaysExplained ==
  ASSUME Years \subseteq OpeningYears
  PROVE  Spec => []LeaveIsExplained
<1>1. OnLeaveHasApproval /\ LedgerReconstructs => LeaveIsExplained
  BY DEF LeaveIsExplained
<1> QED BY <1>1, LeaveDaysAreApproved, LedgerIsExact, PTL
-----------------------------------------------------------------------------
(***************************************************************************)
(* Handlers one at a time, none of them lost.  What a handler has read is  *)
(* then still so when it writes, and the decision it carries out on one    *)
(* request is the only one under way.                                      *)
(***************************************************************************)
OneAtATime == \A c, d \in Running : c = d
Alone(c) == \A d \in Calls \ {c} : call[d].pc \in Stopped

Deductions(r) == Posted(r, "REQUEST_APPROVED")
Refunds(r)    == Posted(r, "REQUEST_CANCELLED")

(* A handler that has decided and not yet written the status; one that      *)
(* carries an approval or the cancellation of one out has begun to post.    *)
Posting(k)    == k.pc \in {"post", "ledger", "sync"} \/ (k.pc = "write" /\ "status" \in k.todo)
Unwritten(k)  == k.pc \in {"route", "settle"} \/ Posting(k)
Approving(k)  == k.op = "APPROVE" /\ k.target = "APPROVED" /\ Posting(k)
Cancelling(k) == k.op = "CANCEL" /\ k.snap.status = "APPROVED" /\ Posting(k)
InHand(k)     == Approving(k) \/ Cancelling(k)

(* It has read the request as it is, in a status that it may decide on.     *)
ReadIsCurrent(k) ==
    /\ k.op \in {"APPROVE", "REJECT", "CANCEL", "ESCALATE"} /\ Unwritten(k) => k.snap = request[k.r]
    /\ k.op \in {"APPROVE", "ESCALATE"} /\ Unwritten(k) => k.snap.status \in {"PENDING_L1", "PENDING_L2"}
    /\ k.op = "CANCEL" /\ k.pc \in {"settle", "post", "ledger", "sync"} => k.snap.status = "APPROVED"
    /\ k.op = "REJECT" => k.target = "REJECTED"
    /\ k.op = "ESCALATE" => k.target \in {"NONE", "PENDING_L2"}

(* A rejection is recorded or about to be.                                  *)
Recording(k) == k.pc = "write" /\ k.op = "REJECT" /\ "record" \in k.todo
RejectionIsRecorded(k) == k.op = "REJECT" => Recording(k) \/ EverRejected(k.r)

(* What of its plan is posted, and that it posts nothing twice.             *)
PlanIsPosted(k) ==
    /\ Distinct(k.plan) /\ (k.pc \notin {"post", "ledger"} => k.plan = <<>>)
    /\ Approving(k) =>
         /\ Refunds(k.r) = {}
         /\ Moves(k, "REQUEST_APPROVED") => Deductions(k.r) = {}
    /\ Cancelling(k) =>
         /\ Moves(k, "REQUEST_CANCELLED") => Refunds(k.r) = {}
         /\ k.snap.lop \/ Moves(k, "REQUEST_CANCELLED") \/ Refunds(k.r) # {}

(* What the ledger holds of a request that no decision is in hand for.      *)
Netted(r) ==
    /\ request[r].status \in {"NONE", "PENDING_L1", "PENDING_L2"} => Deductions(r) = {}
    /\ request[r].status \in {"NONE", "PENDING_L1", "PENDING_L2", "APPROVED"} => Refunds(r) = {}
    /\ request[r].status = "CANCELLED" => EverRejected(r) \/ (Deductions(r) = {} <=> Refunds(r) = {})
    /\ request[r].status = "REJECTED" =>
         \/ EverRejected(r)
         \/ \E c \in Calls : Recording(call[c]) /\ call[c].r = r
OnceEach(r) ==
    /\ \A x, y \in Deductions(r) : x = y
    /\ \A x, y \in Refunds(r) : x = y

InOrder(k) == ReadIsCurrent(k) /\ RejectionIsRecorded(k) /\ PlanIsPosted(k)
Carried ==
    /\ OneAtATime
    /\ \A c \in Calls : call[c].pc \notin Stopped => InOrder(call[c])
    /\ \A r \in Reqs : OnceEach(r)
    /\ \A r \in Reqs : Netted(r) \/ \E c \in Calls : call[c].r = r /\ InHand(call[c])

(* The days of an approval that is in hand or written have their rows,      *)
(* unless the cancellation of another request cleared them.                 *)
SureDays(r) == WorkingDays(request[r].from, request[r].to, UNION HolidayChoices)
Over(s, r, d) == request[s].emp = request[r].emp /\ request[s].from <= d /\ d <= request[s].to
Clears(k) == k.op = "CANCEL" /\ (k.pc = "sync" \/ (k.pc = "write" /\ "status" \in k.todo))
Accounted(r, d) ==
    \/ attendance[request[r].emp][d] # "NONE"
    \/ \E s \in Reqs \ {r} : request[s].status \in {"CANCELLED", "REJECTED"} /\ Over(s, r, d)
    \/ \E c \in Calls : Clears(call[c]) /\ Over(call[c].r, r, d)

DaysOK(k) ==
    /\ k.op = "APPROVE" /\ k.pc \in {"post", "ledger", "sync"} => k.mark
    /\ Approving(k) /\ k.pc = "sync" => \A d \in SureDays(k.r) \ k.days : Accounted(k.r, d)
    /\ Approving(k) /\ k.pc = "write" => \A d \in SureDays(k.r) : Accounted(k.r, d)

DaysFollow ==
    /\ \A c \in Calls : DaysOK(call[c])
    /\ \A r \in Reqs : request[r].status = "APPROVED" => \A d \in SureDays(r) : Accounted(r, d)


LEMMA OthersRest ==
  ASSUME OneAtATime, NEW c \in Calls, call[c].pc \notin Stopped
  PROVE  Alone(c)
BY DEF OneAtATime, Running, Alone

(* A handler starts only where none is running. *)
LEMMA FreeSlot ==
  ASSUME MaxInFlight <= 1, OneAtATime, HasSlot
  PROVE  \A c \in Calls : call[c].pc \in Stopped
<1>1. SUFFICES ASSUME NEW c \in Calls, call[c].pc \notin Stopped PROVE FALSE
  OBVIOUS
<1>2. Running = {c}
  BY <1>1 DEF OneAtATime, Running
<1>3. Cardinality(Running) = 1
  BY <1>2, FS_Singleton
<1> QED BY <1>3, LeaveConstants DEF HasSlot, LeaveConstants

(* What is in hand or being recorded belongs to a running handler.          *)
LEMMA InHandRuns == \A k : InHand(k) \/ Recording(k) => k.pc \notin Stopped
BY DEF InHand, Approving, Cancelling, Posting, Recording, Stopped

(* One handler moves, alone, and leaves requests and ledger as they are.    *)
LEMMA OneHandlerCarries ==
  ASSUME Carried, NEW c \in Calls, Alone(c), OnlyMoves(c),
         UNCHANGED <<request, ledger>>, approvals \subseteq approvals',
         call'[c].pc \notin Stopped => InOrder(call[c])',
         InHand(call[c]) => InHand(call'[c]) /\ call'[c].r = call[c].r,
         \A r \in Reqs : Recording(call[c]) /\ call[c].r = r =>
           EverRejected(r)' \/ (Recording(call'[c]) /\ call'[c].r = r)
  PROVE  Carried'
<1>1. \A d \in Calls \ {c} : call'[d] = call[d] /\ call[d].pc \in Stopped
  BY DEF Alone, OnlyMoves
<1>2. OneAtATime'
  BY <1>1 DEF OneAtATime, Running
<1>3. \A d \in Calls : call'[d].pc \notin Stopped => InOrder(call[d])'
  BY <1>1
<1>4. \A r, source : Posted(r, source)' = Posted(r, source)
  BY DEF Posted
<1>5. \A r : OnceEach(r)' = OnceEach(r)
  BY <1>4 DEF OnceEach, Deductions, Refunds
<1>6. \A r : EverRejected(r) => EverRejected(r)'
  BY DEF EverRejected
<1>7. ASSUME NEW r \in Reqs PROVE Netted(r)' \/ \E d \in Calls : call'[d].r = r /\ InHand(call'[d])
  <2>1. CASE \E d \in Calls : call[d].r = r /\ InHand(call[d])
    <3>1. PICK d \in Calls : call[d].r = r /\ InHand(call[d])
      BY <2>1
    <3>2. call[d].pc \notin Stopped
      BY <3>1, InHandRuns
    <3>3. d = c
      BY <1>1, <3>2
    <3>4. call'[c].r = r /\ InHand(call'[c])
      BY <3>1, <3>3
    <3> QED BY <3>4
  <2>2. CASE Netted(r)
    <3>1. Deductions(r)' = Deductions(r) /\ Refunds(r)' = Refunds(r) /\ request'[r] = request[r]
      BY <1>4 DEF Deductions, Refunds
    <3>2. (\E d \in Calls : Recording(call[d]) /\ call[d].r = r) =>
            EverRejected(r)' \/ \E d \in Calls : Recording(call'[d]) /\ call'[d].r = r
      <4>1. SUFFICES ASSUME NEW d \in Calls, Recording(call[d]), call[d].r = r
                     PROVE  EverRejected(r)' \/ (Recording(call'[c]) /\ call'[c].r = r)
        OBVIOUS
      <4>2. d = c
        BY <1>1, <4>1, InHandRuns
      <4> QED BY <4>1, <4>2
    <3>3. Netted(r)'
      <4>1. EverRejected(r) => EverRejected(r)'
        BY <1>6
      <4> QED BY <2>2, <3>1, <3>2, <4>1 DEF Netted
    <3> QED BY <3>3
  <2> QED BY <2>1, <2>2 DEF Carried
<1>8. (\A r \in Reqs : OnceEach(r))'
  BY <1>5 DEF Carried
<1>9. (\A r \in Reqs : Netted(r) \/ \E d \in Calls : call[d].r = r /\ InHand(call[d]))'
  BY <1>7
<1> QED BY <1>2, <1>3, <1>8, <1>9 DEF Carried

(* A handler that starts, or takes a job, has nothing posted and has read   *)
(* its request as it is.                                                    *)
LEMMA NewHandlerCarries ==
  ASSUME Carried, NEW c \in Calls, Alone(c), OnlyMoves(c), call[c].pc \in Stopped,
         UNCHANGED <<request, approvals, ledger>>,
         call'[c].pc \notin Stopped => InOrder(call[c])'
  PROVE  Carried'
<1>1. ~InHand(call[c]) /\ ~Recording(call[c])
  BY InHandRuns
<1> QED BY <1>1, OneHandlerCarries

LEMMA StartCarries ==
  ASSUME Shape, Carried, MaxInFlight <= 1, NEW c \in UserCalls, Start(c)
  PROVE  Carried'
<1>1. c \in Calls /\ call \in [Calls -> CallRows] /\ request \in [Reqs -> RequestRows]
  BY DEF Calls, Shape, TypeOK, TablesOK
<1>2. HasSlot /\ call[c].pc \in Stopped
  <2>1. CanStart(c)
    <3>1. CASE ReadApply(c)
      BY <3>1 DEF ReadApply
    <3>2. CASE \E u \in Employees, r \in Reqs :
                 \/ ReadAttach(c, u, r) \/ ReadApprove(c, u, r)
                 \/ ReadReject(c, u, r) \/ ReadCancel(c, u, r)
      BY <3>2 DEF ReadAttach, ReadApprove, ReadReject, ReadCancel
    <3>3. CASE \E u \in Admins, e \in Applicants, t \in Types, y \in Years, delta \in AdjustDeltas :
                 StartAdjust(c, u, e, t, y, delta)
      BY <3>3 DEF StartAdjust
    <3> QED BY <3>1, <3>2, <3>3 DEF Start
  <2> QED BY <2>1 DEF CanStart, Stopped
<1>3. Alone(c) /\ call[c].pc \in Stopped
  <2>1. OneAtATime
    BY DEF Carried
  <2> QED BY <1>2, <2>1, FreeSlot DEF Alone
<1> DEFINE Fresh == UNCHANGED <<request, approvals, ledger>> /\ OnlyMoves(c)
<1>4. ASSUME Fresh, ReadIsCurrent(call[c])', RejectionIsRecorded(call[c])', PlanIsPosted(call[c])'
      PROVE  Carried'
  <2>1. InOrder(call[c])'
    BY <1>4 DEF InOrder
  <2> QED BY <1>1, <1>3, <1>4, <2>1, NewHandlerCarries
<1>5. CASE \/ ReadApply(c) \/ \E u \in Employees, r \in Reqs : ReadAttach(c, u, r)
  <2>1. Fresh /\ call'[c].op \in {"APPLY", "ATTACH"} /\ call'[c].plan = <<>> /\ call'[c].pc \in {"insert", "upload"}
    <3>1. CASE ReadApply(c)
      BY <1>1, <3>1 DEF ReadApply, Idle, OnlyMoves, tables
    <3>2. CASE \E u \in Employees, r \in Reqs : ReadAttach(c, u, r)
      BY <1>1, <3>2 DEF ReadAttach, Idle, OnlyMoves, tables
    <3> QED BY <1>5, <3>1, <3>2
  <2>2. ReadIsCurrent(call[c])' /\ RejectionIsRecorded(call[c])'
    BY <2>1 DEF ReadIsCurrent, RejectionIsRecorded
  <2>3. PlanIsPosted(call[c])'
    BY <2>1 DEF PlanIsPosted, Distinct, Approving, Cancelling
  <2> QED BY <1>4, <2>1, <2>2, <2>3
<1>6. CASE \E u \in Admins, e \in Applicants, t \in Types, y \in Years, delta \in AdjustDeltas :
             StartAdjust(c, u, e, t, y, delta)
  <2>1. PICK delta \in AdjustDeltas :
          /\ Fresh /\ call'[c].op = "ADJUST" /\ call'[c].pc = "post"
          /\ call'[c].plan = <<manualDelta(delta)>>
    BY <1>1, <1>6 DEF StartAdjust, Idle, OnlyMoves, tables
  <2>2. ReadIsCurrent(call[c])' /\ RejectionIsRecorded(call[c])'
    BY <2>1 DEF ReadIsCurrent, RejectionIsRecorded
  <2>3. Distinct(call'[c].plan)
    BY <2>1 DEF Distinct
  <2>4. PlanIsPosted(call[c])'
    BY <2>1, <2>3 DEF PlanIsPosted, Approving, Cancelling
  <2> QED BY <1>4, <2>1, <2>2, <2>4
<1>7. CASE \E u \in Employees, r \in Reqs : ReadApprove(c, u, r)
  <2>1. PICK r \in Reqs :
          /\ Fresh /\ call'[c].op = "APPROVE" /\ call'[c].plan = <<>>
          /\ call'[c].pc \in {"route", "settle"} /\ call'[c].r = r /\ call'[c].snap = request[r]
          /\ request[r].status \in {"PENDING_L1", "PENDING_L2"}
    BY <1>1, <1>7 DEF ReadApprove, Idle, OnlyMoves, tables
  <2>2. ReadIsCurrent(call[c])' /\ RejectionIsRecorded(call[c])'
    BY <2>1 DEF ReadIsCurrent, RejectionIsRecorded
  <2>3. PlanIsPosted(call[c])'
    BY <2>1 DEF PlanIsPosted, Distinct, Approving, Cancelling, Posting
  <2> QED BY <1>4, <2>1, <2>2, <2>3
<1>8. CASE \E u \in Employees, r \in Reqs : ReadReject(c, u, r)
  <2>1. PICK r \in Reqs :
          /\ Fresh /\ call'[c].op = "REJECT" /\ call'[c].plan = <<>> /\ call'[c].target = "REJECTED"
          /\ call'[c].pc = "write" /\ call'[c].r = r /\ call'[c].snap = request[r]
          /\ "record" \in call'[c].todo
    BY <1>1, <1>8 DEF ReadReject, Idle, OnlyMoves, tables
  <2>2. ReadIsCurrent(call[c])' /\ RejectionIsRecorded(call[c])'
    BY <2>1 DEF ReadIsCurrent, RejectionIsRecorded, Recording
  <2>3. PlanIsPosted(call[c])'
    BY <2>1 DEF PlanIsPosted, Distinct, Approving, Cancelling
  <2> QED BY <1>4, <2>1, <2>2, <2>3
<1>9. CASE \E u \in Employees, r \in Reqs : ReadCancel(c, u, r)
  <2>1. PICK r \in Reqs :
          /\ Fresh /\ call'[c].op = "CANCEL" /\ call'[c].plan = <<>>
          /\ call'[c].pc = (IF request[r].status = "APPROVED" THEN "settle" ELSE "write")
          /\ call'[c].r = r /\ call'[c].snap = request[r]
    BY <1>1, <1>9 DEF ReadCancel, Idle, OnlyMoves, tables
  <2>2. ReadIsCurrent(call[c])' /\ RejectionIsRecorded(call[c])'
    BY <2>1 DEF ReadIsCurrent, RejectionIsRecorded
  <2>3. PlanIsPosted(call[c])'
    BY <2>1 DEF PlanIsPosted, Distinct, Approving, Cancelling, Posting
  <2> QED BY <1>4, <2>1, <2>2, <2>3
<1> QED BY <1>5, <1>6, <1>7, <1>8, <1>9 DEF Start

(* The worker takes a job only where no handler runs, and acts on it only   *)
(* if the request still waits.                                              *)
LEMMA TakeJobCarries ==
  ASSUME Shape, Carried, MaxInFlight <= 1, TakeJob
  PROVE  Carried'
<1>1. Worker \in Calls /\ call \in [Calls -> CallRows] /\ jobs \subseteq Jobs
  BY DEF Calls, Shape, TypeOK, TablesOK
<1>2. PICK j \in jobs :
        /\ call[Worker].pc \in Stopped /\ HasSlot
        /\ \/ call'[Worker].pc = "done"
           \/ /\ call'[Worker].pc = "write" /\ call'[Worker].op = "ESCALATE"
              /\ call'[Worker].r = j.r /\ call'[Worker].snap = request[j.r]
              /\ call'[Worker].plan = <<>>
              /\ request[j.r].status \in {"PENDING_L1", "PENDING_L2"}
              /\ call'[Worker].target \in {"NONE", "PENDING_L2"}
  BY <1>1 DEF TakeJob, Idle, EscalationStep
<1>3. OnlyMoves(Worker) /\ UNCHANGED <<request, approvals, ledger>>
  BY <1>1 DEF TakeJob, OnlyMoves, tables
<1>4. Alone(Worker) /\ call[Worker].pc \in Stopped
  <2>1. OneAtATime
    BY DEF Carried
  <2> QED BY <1>2, <2>1, FreeSlot DEF Alone
<1>6. call'[Worker].pc \notin Stopped => InOrder(call[Worker])'
  <2>1. SUFFICES ASSUME call'[Worker].pc \notin Stopped PROVE InOrder(call[Worker])'
    OBVIOUS
  <2>2. call'[Worker].pc # "done"
    BY <2>1 DEF Stopped
  <2>3. ReadIsCurrent(call[Worker])' /\ RejectionIsRecorded(call[Worker])'
    BY <1>3, <1>2, <2>2 DEF ReadIsCurrent, RejectionIsRecorded
  <2>4. PlanIsPosted(call[Worker])'
    BY <1>2, <2>2 DEF PlanIsPosted, Distinct, Approving, Cancelling
  <2> QED BY <2>3, <2>4 DEF InOrder
<1> QED BY <1>1, <1>3, <1>4, <1>6, NewHandlerCarries
----------------------------------------------------------------------------
(* A handler that returns has its decision behind it. *)
LEMMA ReturnCarries ==
  ASSUME Carried, NEW c \in Calls, call[c].pc \notin Stopped, OnlyMoves(c),
         UNCHANGED <<request, approvals, ledger>>, call'[c].pc = "done",
         ~InHand(call[c]), ~Recording(call[c])
  PROVE  Carried'
<1>1. Alone(c)
  BY OthersRest DEF Carried
<1>2. call'[c].pc \in Stopped
  BY DEF Stopped
<1> QED BY <1>1, <1>2, OneHandlerCarries

(* A handler that goes on with what it read, and writes no request and no   *)
(* ledger row.                                                              *)
LEMMA GoingOnCarries ==
  ASSUME Carried, NEW c \in Calls, call[c].pc \notin Stopped, OnlyMoves(c),
         UNCHANGED <<request, ledger>>, approvals \subseteq approvals',
         NEW k, k = call[c], NEW l, l = call'[c],
         l.op = k.op, l.r = k.r, l.snap = k.snap,
         k.op \in {"REJECT", "ESCALATE"} => l.target = k.target,
         Unwritten(l) => Unwritten(k),
         l.pc \in {"settle", "post", "ledger", "sync"} =>
           k.pc \in {"settle", "post", "ledger", "sync"} \/ k.op = "APPROVE",
         RejectionIsRecorded(call[c])', PlanIsPosted(call[c])',
         InHand(k) => InHand(l),
         Recording(k) => (Recording(l) \/ EverRejected(k.r)')
  PROVE  Carried'
<1>1. Alone(c)
  BY OthersRest DEF Carried
<1>2. ReadIsCurrent(k)
  BY DEF Carried, InOrder
<1>3. ReadIsCurrent(call[c])'
  BY <1>2 DEF ReadIsCurrent
<1>4. InOrder(call[c])'
  BY <1>3 DEF InOrder
<1> QED BY <1>1, <1>4, OneHandlerCarries

(* A cancellation of a request that took days plans to give them back.      *)
LEMMA CancelRefunds ==
  ASSUME NEW q \in RequestRows, ~q.lop
  PROVE  \E i \in 1..Len(PlanCancel(q)) : PlanCancel(q)[i].source = "REQUEST_CANCELLED"
<1> DEFINE give == adjustUsedDays(-q.days, "REQUEST_CANCELLED")
           t == IF q.event # NoDay THEN <<grantEventDays(-q.days)>> ELSE <<>>
<1>1. /\ give \in Movements /\ give.source = "REQUEST_CANCELLED"
      /\ grantEventDays(-q.days) \in Movements
  BY DEF RequestRows, adjustUsedDays, grantEventDays, Movements, Postings
<1>2. <<give>> \in Seq(Movements) /\ t \in Seq(Movements)
  BY <1>1
<1>3. PlanCancel(q) = <<give>> \o t
  BY DEF PlanCancel
<1> HIDE DEF give, t
<1>4. /\ Len(<<give>> \o t) = 1 + Len(t) /\ Len(t) \in Nat
      /\ (<<give>> \o t)[1] = give
  BY <1>2, ConcatProperties
<1> QED BY <1>1, <1>3, <1>4

(* The first level passes a request on, or decides it as it was read.       *)
LEMMA RouteCarries ==
  ASSUME Shape, Carried, NEW c \in Calls, RouteL1(c)
  PROVE  Carried'
<1>0. PICK k, l : k = call[c] /\ l = call'[c]
  OBVIOUS
<1>1. /\ call \in [Calls -> CallRows] /\ k \in CallRows /\ CallOK(k) /\ k.pc = "route"
      /\ PlanIsPosted(k)
  BY <1>0 DEF Shape, TypeOK, RouteL1, Carried, InOrder, Stopped
<1>2. k.op = "APPROVE" /\ k.pc \notin Stopped
  BY <1>1 DEF CallOK, Stopped
<1>3. /\ OnlyMoves(c) /\ UNCHANGED <<request, approvals, ledger>>
      /\ l.op = k.op /\ l.r = k.r /\ l.snap = k.snap /\ l.plan = k.plan
      /\ \/ l.pc = "settle" /\ l.target = k.target
         \/ l.pc = "write" /\ l.target = "PENDING_L2"
  BY <1>0, <1>1 DEF RouteL1, Goto, OnlyMoves, CallRows, tables
<1>4. Unwritten(k) /\ ~InHand(k) /\ ~Recording(k)
  BY <1>1, <1>2 DEF Unwritten, InHand, Approving, Cancelling, Posting, Recording
<1>5. RejectionIsRecorded(call[c])'
  BY <1>0, <1>2, <1>3 DEF RejectionIsRecorded
<1>6. PlanIsPosted(call[c])'
  <2>1. k.plan = <<>>
    BY <1>1 DEF PlanIsPosted
  <2>2. ~Approving(l) /\ ~Cancelling(l)
    BY <1>2, <1>3 DEF Approving, Cancelling, Posting
  <2> QED BY <1>0, <1>3, <2>1, <2>2 DEF PlanIsPosted, Distinct
<1> QED BY <1>0, <1>2, <1>3, <1>4, <1>5, <1>6, GoingOnCarries

(* The decision is planned from the row as it is: nothing of an approval is *)
(* posted yet, and a deduction is not yet given back.                       *)
LEMMA SettleCarries ==
  ASSUME Shape, Carried, NEW c \in Calls, Settle(c)
  PROVE  Carried'
<1>0. PICK k, l : k = call[c] /\ l = call'[c]
  OBVIOUS
<1>1. /\ call \in [Calls -> CallRows] /\ k \in CallRows /\ CallOK(k) /\ k.pc = "settle"
      /\ k.pc \notin Stopped
  BY <1>0 DEF Shape, TypeOK, Settle, Stopped
<1>2. InOrder(k) /\ Alone(c)
  BY <1>0, <1>1, OthersRest DEF Carried
<1>3. /\ k.op \in {"APPROVE", "CANCEL"} /\ k.r \in Reqs /\ k.snap \in RequestRows
      /\ k.snap = request[k.r]
      /\ k.op = "APPROVE" => k.snap.status \in {"PENDING_L1", "PENDING_L2"}
      /\ k.op = "CANCEL" => k.snap.status = "APPROVED"
  <2>1. k.op \in {"APPROVE", "CANCEL"} /\ k.r \in Reqs /\ k.snap \in RequestRows
    BY <1>1 DEF CallOK, Deciding, Stopped, CallRows
  <2>2. ReadIsCurrent(k) /\ Unwritten(k)
    BY <1>1, <1>2 DEF InOrder, Unwritten
  <2> QED BY <1>1, <2>1, <2>2 DEF ReadIsCurrent
<1>4. OnlyMoves(c) /\ UNCHANGED <<request, approvals, ledger>>
  BY <1>1 DEF Settle, Return, OnlyMoves, tables
<1>5. ~InHand(k) /\ ~Recording(k) /\ Unwritten(k)
  BY <1>1 DEF InHand, Approving, Cancelling, Posting, Recording, Unwritten
<1>6. Netted(k.r)
  <2>1. \A d \in Calls : ~InHand(call[d])
    BY <1>0, <1>2, <1>5, InHandRuns DEF Alone
  <2> QED BY <1>3, <2>1 DEF Carried
<1>7. CASE l = Returned(k)
  <2>1. l.pc = "done"
    BY <1>1, <1>7, ReturnedRow
  <2> QED BY <1>0, <1>1, <1>4, <1>5, <2>1, ReturnCarries
<1>8. CASE /\ l.op = k.op /\ l.r = k.r /\ l.snap = k.snap /\ l.target = k.target /\ l.pc = "post"
           /\ \/ k.op = "APPROVE" /\ \E p : l.plan = PlanApproval(k.snap, p)
              \/ k.op = "CANCEL" /\ l.plan = PlanCancel(k.snap)
  <2>1. Distinct(l.plan)
    BY <1>3, <1>8, PlanSigns
  <2>2. RejectionIsRecorded(call[c])'
    BY <1>0, <1>3, <1>8 DEF RejectionIsRecorded
  <2>3. Approving(l) => Refunds(k.r) = {} /\ Deductions(k.r) = {}
    BY <1>3, <1>6, <1>8 DEF Netted, Approving
  <2>4. Cancelling(l) => Refunds(k.r) = {}
    BY <1>3, <1>6, <1>8 DEF Netted, Cancelling
  <2>5. Cancelling(l) => k.snap.lop \/ Moves(l, "REQUEST_CANCELLED")
    BY <1>3, <1>8, CancelRefunds DEF Moves, Cancelling
  <2>6. PlanIsPosted(l)
    BY <1>8, <2>1, <2>3, <2>4, <2>5 DEF PlanIsPosted
  <2>7. PlanIsPosted(call[c])'
    BY <1>0, <1>4, <2>6 DEF PlanIsPosted, Deductions, Refunds, Posted
  <2> QED BY <1>0, <1>1, <1>3, <1>4, <1>5, <1>8, <2>2, <2>7, GoingOnCarries
<1> QED BY <1>0, <1>1, <1>3, <1>7, <1>8 DEF Settle, Return, CallRows

(* Carrying a decision out: between the plan and the status.                *)
LEMMA PostingCarries ==
  ASSUME Carried, NEW c \in Calls, OnlyMoves(c), UNCHANGED <<request, approvals, ledger>>,
         NEW k, k = call[c], NEW l, l = call'[c],
         k.pc \in {"post", "ledger", "sync"},
         Posting(l), l.pc \in {"post", "ledger"} \/ k.plan = <<>>,
         l.op = k.op, l.r = k.r, l.snap = k.snap, l.target = k.target, l.plan = k.plan
  PROVE  Carried'
<1>1. call[c].pc \notin Stopped /\ Posting(k) /\ Unwritten(k)
  BY DEF Stopped, Posting, Unwritten
<1>2. RejectionIsRecorded(k) /\ PlanIsPosted(k)
  BY <1>1 DEF Carried, InOrder
<1>3. ~Recording(k)
  BY DEF Recording
<1>4. (Approving(l) <=> Approving(k)) /\ (Cancelling(l) <=> Cancelling(k)) /\ (InHand(l) <=> InHand(k))
  BY <1>1 DEF Approving, Cancelling, InHand
<1>5. RejectionIsRecorded(call[c])'
  BY <1>2, <1>3 DEF RejectionIsRecorded, EverRejected
<1>6. PlanIsPosted(l)
  BY <1>2, <1>4 DEF PlanIsPosted, Moves
<1>7. PlanIsPosted(call[c])'
  BY <1>6 DEF PlanIsPosted, Deductions, Refunds, Posted
<1> QED BY <1>1, <1>3, <1>4, <1>5, <1>7, GoingOnCarries

LEMMA PostCarries ==
  ASSUME Shape, Carried, NEW c \in Calls, Post(c) \/ SyncDay(c) \/ SyncDone(c)
  PROVE  Carried'
<1>0. PICK k, l : k = call[c] /\ l = call'[c]
  OBVIOUS
<1>1. call \in [Calls -> CallRows] /\ k \in CallRows
  BY <1>0 DEF Shape, TypeOK
<1>2. k.pc = "sync" => k.plan = <<>>
  <2>1. k.pc = "sync" => PlanIsPosted(k)
    BY <1>0 DEF Carried, InOrder, Stopped
  <2> QED BY <2>1 DEF PlanIsPosted
<1>3. /\ OnlyMoves(c) /\ UNCHANGED <<request, approvals, ledger>>
      /\ k.pc \in {"post", "sync"}
      /\ Posting(l) /\ (l.pc \in {"post", "ledger"} \/ k.plan = <<>>)
      /\ l.op = k.op /\ l.r = k.r /\ l.snap = k.snap /\ l.target = k.target /\ l.plan = k.plan
  <2>1. CASE Post(c)
    BY <1>0, <1>1, <2>1 DEF Post, Goto, OnlyMoves, CallRows, Posting
  <2>2. CASE SyncDay(c)
    BY <1>0, <1>1, <1>2, <2>2 DEF SyncDay, OnlyMoves, CallRows, Posting
  <2>3. CASE SyncDone(c)
    BY <1>0, <1>1, <1>2, <2>3 DEF SyncDone, OnlyMoves, CallRows, Posting, tables
  <2> QED BY <2>1, <2>2, <2>3
<1> QED BY <1>0, <1>3, PostingCarries

LEMMA HolidaysCarry ==
  ASSUME Shape, Carried, NEW c \in Calls, ReadHolidays(c)
  PROVE  Carried'
<1>0. PICK k, l : k = call[c] /\ l = call'[c]
  OBVIOUS
<1>1. /\ call \in [Calls -> CallRows] /\ k \in CallRows
      /\ k.pc = "post" /\ k.plan = <<>> /\ k.pc \notin Stopped
  BY <1>0 DEF Shape, TypeOK, ReadHolidays, Stopped
<1>2. OnlyMoves(c) /\ UNCHANGED <<request, approvals, ledger>>
  BY <1>1 DEF ReadHolidays, OnlyMoves, tables
<1>3. CASE k.op = "ADJUST" /\ l = Returned(k)
  <2>1. l.pc = "done" /\ ~InHand(k) /\ ~Recording(k)
    BY <1>1, <1>3, ReturnedRow DEF InHand, Approving, Cancelling, Recording
  <2> QED BY <1>0, <1>1, <1>2, <2>1, ReturnCarries
<1>4. CASE /\ l.pc = "sync" /\ l.op = k.op /\ l.r = k.r /\ l.snap = k.snap
           /\ l.target = k.target /\ l.plan = k.plan
  <2>1. Posting(l)
    BY <1>4 DEF Posting
  <2> QED BY <1>0, <1>1, <1>2, <1>4, <2>1, PostingCarries
<1> QED BY <1>0, <1>1, <1>3, <1>4 DEF ReadHolidays, CallRows

LEMMA RecordCarries ==
  ASSUME Shape, Carried, NEW c \in Calls, RecordDecision(c)
  PROVE  Carried'
<1>0. PICK k, l : k = call[c] /\ l = call'[c]
  OBVIOUS
<1>1. /\ call \in [Calls -> CallRows] /\ k \in CallRows /\ k.pc = "write" /\ k.pc \notin Stopped
  BY <1>0 DEF Shape, TypeOK, RecordDecision, Stopped
<1>2. RejectionIsRecorded(k) /\ PlanIsPosted(k)
  BY <1>0, <1>1 DEF Carried, InOrder
<1>3. /\ OnlyMoves(c) /\ UNCHANGED <<request, ledger>>
      /\ l.pc = k.pc /\ l.op = k.op /\ l.r = k.r /\ l.snap = k.snap /\ l.target = k.target
      /\ l.plan = k.plan /\ l.todo = k.todo \ {"record"}
  BY <1>0, <1>1 DEF RecordDecision, OnlyMoves, CallRows
<1>4. /\ approvals \subseteq approvals'
      /\ k.op = "REJECT" => EverRejected(k.r)'
  <2>1. approvals \subseteq approvals'
    BY DEF RecordDecision
  <2>2. CASE k.op = "REJECT"
    <3> DEFINE row == [call |-> c, r |-> k.r, level |-> k.level, by |-> k.by, decision |-> "REJECTED"]
    <3>1. row \in approvals'
      BY <1>0, <2>2 DEF RecordDecision
    <3>2. row.r = k.r /\ row.decision = "REJECTED"
      OBVIOUS
    <3> QED BY <2>1, <3>1, <3>2 DEF EverRejected
  <2> QED BY <2>1, <2>2
<1>5. (Posting(l) <=> Posting(k)) /\ (Unwritten(l) <=> Unwritten(k))
  BY <1>3 DEF Posting, Unwritten
<1>6. (Approving(l) <=> Approving(k)) /\ (Cancelling(l) <=> Cancelling(k)) /\ (InHand(l) <=> InHand(k))
  BY <1>3, <1>5 DEF Approving, Cancelling, InHand
<1>7. RejectionIsRecorded(call[c])' /\ (Recording(k) => EverRejected(k.r)')
  BY <1>0, <1>3, <1>4 DEF RejectionIsRecorded, Recording
<1>8. PlanIsPosted(l)
  BY <1>2, <1>3, <1>6 DEF PlanIsPosted, Moves
<1>9. PlanIsPosted(call[c])'
  BY <1>0, <1>3, <1>8 DEF PlanIsPosted, Deductions, Refunds, Posted
<1> QED BY <1>0, <1>1, <1>3, <1>4, <1>5, <1>6, <1>7, <1>9, GoingOnCarries

(* Attaching a document and the tail of every handler decide nothing.       *)
LEMMA FinishCarries ==
  ASSUME Shape, Carried, NEW c \in Calls, Upload(c) \/ Finish(c)
  PROVE  Carried'
<1>0. PICK k, l : k = call[c] /\ l = call'[c]
  OBVIOUS
<1>1. /\ call \in [Calls -> CallRows] /\ k \in CallRows /\ k.pc \notin Stopped
      /\ k.pc \in {"upload", "notify"} \/ (k.pc = "write" /\ k.todo = {})
  BY <1>0 DEF Shape, TypeOK, Upload, Finish, Stopped
<1>2. /\ OnlyMoves(c) /\ UNCHANGED <<request, approvals, ledger>> /\ l = Returned(k)
  BY <1>0, <1>1 DEF Upload, Finish, Return, OnlyMoves, tables
<1>3. l.pc = "done" /\ ~InHand(k) /\ ~Recording(k)
  BY <1>1, <1>2, ReturnedRow DEF InHand, Approving, Cancelling, Posting, Recording
<1> QED BY <1>0, <1>1, <1>2, <1>3, ReturnCarries

(* What is left of a plan when its first movement is posted. *)
LEMMA RestOfPlan ==
  ASSUME NEW k, k.plan \in Seq(Movements), k.plan # <<>>, NEW l, l.plan = Tail(k.plan),
         Distinct(k.plan)
  PROVE  /\ Distinct(l.plan) /\ ~Moves(l, Head(k.plan).source)
         /\ Moves(k, Head(k.plan).source)
         /\ \A source : source # Head(k.plan).source => (Moves(l, source) <=> Moves(k, source))
<1>1. /\ Head(k.plan) = k.plan[1] /\ 1 \in 1..Len(k.plan)
      /\ \A i \in 1..Len(Tail(k.plan)) : i + 1 \in 1..Len(k.plan) /\ Tail(k.plan)[i] = k.plan[i + 1]
      /\ \A i \in 1..Len(k.plan) : i # 1 => i - 1 \in 1..Len(Tail(k.plan)) /\ (i - 1) + 1 = i
  OBVIOUS
<1>2. Distinct(l.plan)
  BY <1>1 DEF Distinct
<1>3. ~Moves(l, Head(k.plan).source)
  <2>1. SUFFICES ASSUME NEW i \in 1..Len(Tail(k.plan)), Tail(k.plan)[i].source = Head(k.plan).source
                 PROVE  FALSE
    BY DEF Moves
  <2>2. i + 1 = 1
    BY <1>1, <2>1 DEF Distinct
  <2> QED BY <2>2
<1>4. Moves(k, Head(k.plan).source)
  BY <1>1 DEF Moves
<1>5. ASSUME NEW source, source # Head(k.plan).source
      PROVE  Moves(l, source) <=> Moves(k, source)
  <2>1. Moves(l, source) => Moves(k, source)
    BY <1>1 DEF Moves
  <2>2. ASSUME NEW i \in 1..Len(k.plan), k.plan[i].source = source PROVE Moves(l, source)
    <3>1. i # 1
      BY <1>1, <1>5, <2>2
    <3>2. i - 1 \in 1..Len(Tail(k.plan)) /\ Tail(k.plan)[i - 1] = k.plan[i]
      BY <1>1, <3>1
    <3> QED BY <2>2, <3>2 DEF Moves
  <2> QED BY <2>1, <2>2 DEF Moves
<1> QED BY <1>2, <1>3, <1>4, <1>5

(* A ledger row of a request is the first of its source, and is written by  *)
(* the one handler that has the decision in hand.                           *)
LEMMA LedgerCarries ==
  ASSUME Shape, Paid, Marked, Carried, NEW c \in Calls, WriteLedger(c)
  PROVE  Carried'
<1>0. PICK k, l : k = call[c] /\ l = call'[c]
  OBVIOUS
<1>1. /\ call \in [Calls -> CallRows] /\ k \in CallRows /\ CallOK(k) /\ PlanOK(k) /\ MarkOK(k)
      /\ k.pc = "ledger" /\ k.pc \notin Stopped
  BY <1>0 DEF Shape, TypeOK, Paid, Marked, WriteLedger, Stopped
<1>2. /\ k.plan \in Seq(Movements) /\ k.plan # <<>> /\ k.op \in {"APPROVE", "CANCEL", "ADJUST"}
      /\ k.op # "ADJUST" => k.r \in Reqs
  BY <1>1 DEF CallRows, CallOK, Stopped, Deciding
<1>3. PICK m : m = Head(k.plan)
  OBVIOUS
<1>4. PICK row : row = [call |-> c, r |-> k.r, emp |-> k.snap.emp, type |-> k.snap.type,
                        source |-> m.source, delta |-> m.delta]
  OBVIOUS
<1>5. ledger' = ledger \cup {row} /\ row.r = k.r /\ row.source = m.source
  BY <1>0, <1>3, <1>4 DEF WriteLedger
<1>6. /\ OnlyMoves(c) /\ UNCHANGED <<request, approvals>>
      /\ l.pc = "post" /\ l.op = k.op /\ l.r = k.r /\ l.snap = k.snap /\ l.target = k.target
      /\ l.plan = Tail(k.plan)
  BY <1>0, <1>1 DEF WriteLedger, OnlyMoves, CallRows
<1>7. Alone(c) /\ InOrder(k)
  BY <1>0, <1>1, OthersRest DEF Carried
<1>8. ReadIsCurrent(k) /\ RejectionIsRecorded(k) /\ PlanIsPosted(k)
  BY <1>7 DEF InOrder
<1>9. /\ Distinct(l.plan) /\ ~Moves(l, m.source) /\ Moves(k, m.source)
      /\ \A source : source # m.source => (Moves(l, source) <=> Moves(k, source))
  <2>1. Distinct(k.plan)
    BY <1>8 DEF PlanIsPosted
  <2> QED BY <1>2, <1>3, <1>6, <2>1, RestOfPlan
<1>10. /\ \A r, source : r # k.r \/ source # m.source => Posted(r, source)' = Posted(r, source)
       /\ Posted(k.r, m.source)' = Posted(k.r, m.source) \cup {row}
  BY <1>5 DEF Posted
<1>11. /\ Posting(k) /\ Posting(l) /\ (Approving(l) <=> Approving(k))
       /\ (Cancelling(l) <=> Cancelling(k)) /\ (InHand(l) <=> InHand(k))
  BY <1>1, <1>6 DEF Posting, Approving, Cancelling, InHand
<1>12. ~Recording(k)
  BY <1>1 DEF Recording
<1>13. m.source = "REQUEST_APPROVED" => Approving(k)
  BY <1>1, <1>9, <1>11 DEF PlanOK, MarkOK, Approving
<1>14. m.source = "REQUEST_CANCELLED" => Cancelling(k)
  BY <1>1, <1>8, <1>9, <1>11 DEF PlanOK, ReadIsCurrent, Cancelling
<1>15. ReadIsCurrent(call[c])'
  BY <1>0, <1>1, <1>6, <1>8 DEF ReadIsCurrent, Unwritten, Posting
<1>16. RejectionIsRecorded(call[c])'
  BY <1>0, <1>6, <1>8, <1>12 DEF RejectionIsRecorded, EverRejected
<1>17. ~(Approving(k) /\ Cancelling(k))
  BY DEF Approving, Cancelling
<1>18. Approving(k) => /\ Refunds(k.r)' = {}
                       /\ Moves(l, "REQUEST_APPROVED") => Deductions(k.r)' = {}
  <2>1. SUFFICES ASSUME Approving(k)
                 PROVE  /\ Refunds(k.r)' = {}
                        /\ Moves(l, "REQUEST_APPROVED") => Deductions(k.r)' = {}
    OBVIOUS
  <2>2. Refunds(k.r) = {} /\ (Moves(k, "REQUEST_APPROVED") => Deductions(k.r) = {})
    BY <1>8, <2>1 DEF PlanIsPosted
  <2>3. m.source # "REQUEST_CANCELLED"
    BY <1>14, <1>17, <2>1
  <2> QED BY <1>9, <1>10, <2>2, <2>3 DEF Refunds, Deductions
<1>19. Cancelling(k) => /\ Moves(l, "REQUEST_CANCELLED") => Refunds(k.r)' = {}
                        /\ k.snap.lop \/ Moves(l, "REQUEST_CANCELLED") \/ Refunds(k.r)' # {}
  <2>1. SUFFICES ASSUME Cancelling(k)
                 PROVE  /\ Moves(l, "REQUEST_CANCELLED") => Refunds(k.r)' = {}
                        /\ k.snap.lop \/ Moves(l, "REQUEST_CANCELLED") \/ Refunds(k.r)' # {}
    OBVIOUS
  <2>2. /\ Moves(k, "REQUEST_CANCELLED") => Refunds(k.r) = {}
        /\ k.snap.lop \/ Moves(k, "REQUEST_CANCELLED") \/ Refunds(k.r) # {}
    BY <1>8, <2>1 DEF PlanIsPosted
  <2>3. CASE m.source = "REQUEST_CANCELLED"
    BY <1>9, <1>10, <2>3 DEF Refunds
  <2>4. CASE m.source # "REQUEST_CANCELLED"
    BY <1>9, <1>10, <2>2, <2>4 DEF Refunds
  <2> QED BY <2>3, <2>4
<1>20. PlanIsPosted(call[c])'
  BY <1>0, <1>6, <1>9, <1>11, <1>18, <1>19 DEF PlanIsPosted
<1>21. \A d \in Calls \ {c} : call'[d] = call[d] /\ call[d].pc \in Stopped
  BY <1>6, <1>7 DEF Alone, OnlyMoves
<1>22. OneAtATime'
  BY <1>21 DEF OneAtATime, Running
<1>23. \A d \in Calls : call'[d].pc \notin Stopped => InOrder(call[d])'
  BY <1>15, <1>16, <1>20, <1>21 DEF InOrder
<1>24. ASSUME NEW r \in Reqs PROVE OnceEach(r)'
  <2>1. OnceEach(r)
    BY DEF Carried
  <2>2. CASE r # k.r \/ m.source \notin {"REQUEST_APPROVED", "REQUEST_CANCELLED"}
    BY <1>10, <2>1, <2>2 DEF OnceEach, Deductions, Refunds
  <2>3. CASE r = k.r /\ m.source = "REQUEST_APPROVED"
    <3>1. Deductions(k.r) = {} /\ Refunds(k.r) = {}
      BY <1>8, <1>9, <1>13, <2>3 DEF PlanIsPosted
    <3>2. Deductions(k.r)' = {row} /\ Refunds(k.r)' = {}
      BY <1>10, <2>3, <3>1 DEF Deductions, Refunds
    <3> QED BY <2>3, <3>2 DEF OnceEach
  <2>4. CASE r = k.r /\ m.source = "REQUEST_CANCELLED"
    <3>1. Refunds(k.r) = {}
      BY <1>8, <1>9, <1>14, <2>4 DEF PlanIsPosted
    <3>2. Refunds(k.r)' = {row} /\ Deductions(k.r)' = Deductions(k.r)
      BY <1>10, <2>4, <3>1 DEF Deductions, Refunds
    <3> QED BY <2>1, <2>4, <3>2 DEF OnceEach
  <2> QED BY <2>2, <2>3, <2>4
<1>25. ASSUME NEW r \in Reqs
       PROVE  Netted(r)' \/ \E d \in Calls : call'[d].r = r /\ InHand(call'[d])
  <2>1. CASE InHand(k) /\ r = k.r
    BY <1>0, <1>6, <1>11, <2>1
  <2>2. CASE ~(InHand(k) /\ r = k.r)
    <3>1. ~\E d \in Calls : call[d].r = r /\ InHand(call[d])
      BY <1>0, <1>21, <2>2, InHandRuns
    <3>2. Netted(r)
      BY <3>1 DEF Carried
    <3>3. r # k.r \/ m.source \notin {"REQUEST_APPROVED", "REQUEST_CANCELLED"}
      BY <1>13, <1>14, <2>2 DEF InHand
    <3>4. Deductions(r)' = Deductions(r) /\ Refunds(r)' = Refunds(r) /\ request'[r] = request[r]
      BY <1>6, <1>10, <3>3 DEF Deductions, Refunds
    <3>5. ~\E d \in Calls : Recording(call[d]) /\ call[d].r = r
      BY <1>0, <1>12, <1>21, InHandRuns
    <3>6. EverRejected(r)' = EverRejected(r)
      BY <1>6 DEF EverRejected
    <3>7. Netted(r)'
      BY <3>2, <3>4, <3>5, <3>6 DEF Netted
    <3> QED BY <3>7
  <2> QED BY <2>1, <2>2
<1>26. (\A r \in Reqs : Netted(r) \/ \E d \in Calls : call[d].r = r /\ InHand(call[d]))'
  BY <1>25
<1> QED BY <1>22, <1>23, <1>24, <1>26 DEF Carried

(* A new request has nothing posted.                                        *)
LEMMA InsertCarries ==
  ASSUME Shape, Paid, Carried, NEW c \in Calls, InsertRequest(c)
  PROVE  Carried'
<1>0. PICK k, l : k = call[c] /\ l = call'[c]
  OBVIOUS
<1>1. /\ call \in [Calls -> CallRows] /\ k \in CallRows /\ CallOK(k)
      /\ request \in [Reqs -> RequestRows] /\ UNCHANGED <<approvals, ledger>>
      /\ k.pc = "insert"
  BY <1>0 DEF Shape, TypeOK, TablesOK, InsertRequest
<1>2. PICK r0 \in Reqs : /\ request[r0].status = "NONE"
                         /\ request' = [request EXCEPT ![r0] = k.snap]
                         /\ call' = [call EXCEPT ![c].r = r0, ![c].pc = "notify"]
  BY <1>0 DEF InsertRequest, NextReq
<1>3. k.snap.status \in {"PENDING_L1", "PENDING_L2"} /\ k.op = "APPLY" /\ k.pc \notin Stopped
  BY <1>1 DEF CallOK, Stopped
<1>4. /\ request'[r0] = k.snap
      /\ \A s \in Reqs : s # r0 => request'[s] = request[s]
  BY <1>1, <1>2
<1>5. OnlyMoves(c) /\ l.pc = "notify" /\ l.op = k.op /\ l.plan = k.plan
  BY <1>0, <1>1, <1>2 DEF CallRows, OnlyMoves
<1>6. Alone(c) /\ InOrder(k)
  BY <1>0, <1>3, OthersRest DEF Carried
<1>7. \A d \in Calls \ {c} : call'[d] = call[d] /\ call[d].pc \in Stopped
  BY <1>5, <1>6 DEF Alone, OnlyMoves
<1>8. ~InHand(k) /\ ~Recording(k)
  BY <1>1 DEF InHand, Approving, Cancelling, Posting, Recording
<1>9. InOrder(call[c])'
  <2>1. k.plan = <<>>
    BY <1>1, <1>6 DEF InOrder, PlanIsPosted
  <2>2. ReadIsCurrent(call[c])' /\ RejectionIsRecorded(call[c])'
    BY <1>0, <1>3, <1>5 DEF ReadIsCurrent, RejectionIsRecorded
  <2>3. PlanIsPosted(call[c])'
    BY <1>0, <1>3, <1>5, <2>1 DEF PlanIsPosted, Distinct, Approving, Cancelling
  <2> QED BY <2>2, <2>3 DEF InOrder
<1>10. OneAtATime'
  BY <1>7 DEF OneAtATime, Running
<1>11. \A d \in Calls : call'[d].pc \notin Stopped => InOrder(call[d])'
  BY <1>7, <1>9
<1>12. \A r, source : Posted(r, source)' = Posted(r, source)
  BY <1>1 DEF Posted
<1>13. \A r : OnceEach(r)' = OnceEach(r)
  BY <1>12 DEF OnceEach, Deductions, Refunds
<1>14. ASSUME NEW r \in Reqs PROVE Netted(r)'
  <2>1. CASE r = r0
    <3>1. Deductions(r) = {} /\ Refunds(r) = {}
      BY <1>2, <2>1 DEF Paid, RowsHaveRequests, Posted, Deductions, Refunds
    <3>2. Deductions(r)' = {} /\ Refunds(r)' = {}
      BY <1>12, <3>1 DEF Deductions, Refunds
    <3> QED BY <1>3, <1>4, <2>1, <3>2 DEF Netted
  <2>2. CASE r # r0
    <3>1. ~\E d \in Calls : InHand(call[d]) \/ Recording(call[d])
      BY <1>0, <1>7, <1>8, InHandRuns
    <3>2. Netted(r)
      BY <3>1 DEF Carried
    <3>3. Deductions(r)' = Deductions(r) /\ Refunds(r)' = Refunds(r) /\ request'[r] = request[r]
      BY <1>4, <1>12, <2>2 DEF Deductions, Refunds
    <3>4. EverRejected(r)' = EverRejected(r)
      BY <1>1 DEF EverRejected
    <3> QED BY <3>1, <3>2, <3>3, <3>4 DEF Netted
  <2> QED BY <2>1, <2>2
<1>15. (\A r \in Reqs : OnceEach(r))'
  BY <1>13 DEF Carried
<1>16. (\A r \in Reqs : Netted(r) \/ \E d \in Calls : call[d].r = r /\ InHand(call[d]))'
  BY <1>14
<1> QED BY <1>10, <1>11, <1>15, <1>16 DEF Carried

(* The status that is written says what of the request is posted.           *)
LEMMA WriteStatusCarries ==
  ASSUME Shape, Paid, Carried, NEW c \in Calls, WriteStatus(c)
  PROVE  Carried'
<1>0. PICK k, l : k = call[c] /\ l = call'[c]
  OBVIOUS
<1>1. /\ call \in [Calls -> CallRows] /\ k \in CallRows /\ CallOK(k)
      /\ k.pc = "write" /\ "status" \in k.todo /\ k.pc \notin Stopped
      /\ request \in [Reqs -> RequestRows] /\ UNCHANGED <<approvals, ledger>>
  BY <1>0 DEF Shape, TypeOK, TablesOK, WriteStatus, Stopped
<1>2. /\ k.op \in {"APPROVE", "CANCEL", "REJECT", "ESCALATE"} /\ k.r \in Reqs /\ k.target # "NONE"
      /\ request[k.r].status # "NONE" /\ k.snap.lop = request[k.r].lop
      /\ k.op = "APPROVE" => k.target \in {"APPROVED", "PENDING_L2"}
      /\ k.op = "CANCEL" => k.target = "CANCELLED"
  BY <1>1 DEF CallOK, Stopped, Deciding
<1>3. \A r \in Reqs : request'[r].status = IF r = k.r THEN k.target ELSE request[r].status
  BY <1>0, <1>1, <1>2 DEF WriteStatus, RequestRows
<1>4. /\ OnlyMoves(c) /\ l.pc = "write" /\ l.op = k.op /\ l.r = k.r /\ l.plan = k.plan
      /\ l.target = k.target /\ l.todo = k.todo \ {"status"}
  BY <1>0, <1>1 DEF WriteStatus, OnlyMoves, CallRows
<1>5. Alone(c) /\ ReadIsCurrent(k) /\ RejectionIsRecorded(k) /\ PlanIsPosted(k)
  BY <1>0, <1>1, OthersRest DEF Carried, InOrder
<1>6. \A d \in Calls \ {c} : call'[d] = call[d] /\ call[d].pc \in Stopped
  BY <1>4, <1>5 DEF Alone, OnlyMoves
<1>7. /\ Recording(l) <=> Recording(k)
      /\ ~Posting(l) /\ ~Unwritten(l) /\ ~InHand(l)
      /\ Posting(k) /\ Unwritten(k)
  BY <1>1, <1>4 DEF Recording, Posting, Unwritten, InHand, Approving, Cancelling
<1>8. /\ k.snap = request[k.r] /\ k.plan = <<>>
      /\ k.op \in {"APPROVE", "ESCALATE"} => k.snap.status \in {"PENDING_L1", "PENDING_L2"}
      /\ k.op = "REJECT" => k.target = "REJECTED"
      /\ k.op = "ESCALATE" => k.target = "PENDING_L2"
  <2>1. k.snap = request[k.r]
    BY <1>2, <1>5, <1>7 DEF ReadIsCurrent
  <2>2. k.plan = <<>>
    BY <1>1, <1>5 DEF PlanIsPosted
  <2> QED BY <1>2, <1>5, <1>7, <2>1, <2>2 DEF ReadIsCurrent
<1>9. InOrder(call[c])'
  <2>1. ReadIsCurrent(call[c])'
    BY <1>0, <1>4, <1>5, <1>7 DEF ReadIsCurrent
  <2>2. RejectionIsRecorded(call[c])'
    BY <1>0, <1>1, <1>4, <1>5, <1>7 DEF RejectionIsRecorded, EverRejected
  <2>3. ~Approving(l) /\ ~Cancelling(l)
    BY <1>7 DEF InHand
  <2>4. PlanIsPosted(call[c])'
    BY <1>0, <1>4, <1>8, <2>3 DEF PlanIsPosted, Distinct
  <2> QED BY <2>1, <2>2, <2>4 DEF InOrder
<1>10. OneAtATime'
  BY <1>6 DEF OneAtATime, Running
<1>11. \A d \in Calls : call'[d].pc \notin Stopped => InOrder(call[d])'
  BY <1>6, <1>9
<1>12. \A r, source : Posted(r, source)' = Posted(r, source)
  BY <1>1 DEF Posted
<1>13. \A r : Deductions(r)' = Deductions(r) /\ Refunds(r)' = Refunds(r) /\ EverRejected(r)' = EverRejected(r)
  BY <1>1, <1>12 DEF Deductions, Refunds, EverRejected
<1>14. (\A r \in Reqs : OnceEach(r))'
  BY <1>13 DEF Carried, OnceEach
<1>15. \A d \in Calls : Recording(call[d]) => d = c
  BY <1>6, InHandRuns
<1>16. ASSUME NEW r \in Reqs, r # k.r PROVE Netted(r)'
  <2>1. ~\E d \in Calls : call[d].r = r /\ InHand(call[d])
    BY <1>0, <1>6, <1>16, InHandRuns
  <2>2. Netted(r)
    BY <2>1 DEF Carried
  <2>3. ~\E d \in Calls : Recording(call[d]) /\ call[d].r = r
    BY <1>0, <1>15, <1>16
  <2>4. request'[r].status = request[r].status
    BY <1>3, <1>16
  <2> QED BY <1>13, <2>2, <2>3, <2>4 DEF Netted
<1>17. ~InHand(k) => Netted(k.r)
  <2>1. ~InHand(k) => ~\E d \in Calls : InHand(call[d])
    BY <1>0, <1>6, InHandRuns
  <2> QED BY <1>2, <2>1 DEF Carried
<1>18. Netted(k.r)'
  <2>0. request'[k.r].status = k.target
    BY <1>2, <1>3
  <2>1. CASE k.target = "APPROVED"
    <3>1. k.op = "APPROVE"
      BY <1>2, <1>8, <2>1
    <3>2. Refunds(k.r) = {}
      BY <1>5, <1>7, <2>1, <3>1 DEF Approving, PlanIsPosted
    <3> QED BY <1>13, <2>0, <2>1, <3>2 DEF Netted
  <2>2. CASE k.target = "PENDING_L2"
    <3>1. k.op \in {"APPROVE", "ESCALATE"}
      BY <1>2, <1>8, <2>2
    <3>2. Netted(k.r)
      BY <1>17, <2>2, <3>1 DEF InHand, Approving, Cancelling
    <3>3. Deductions(k.r) = {} /\ Refunds(k.r) = {}
      BY <1>8, <3>1, <3>2 DEF Netted
    <3> QED BY <1>13, <2>0, <2>2, <3>3 DEF Netted
  <2>3. CASE k.op = "REJECT"
    <3>1. EverRejected(k.r) \/ Recording(l)
      BY <1>5, <1>7, <2>3 DEF RejectionIsRecorded
    <3>2. EverRejected(k.r)' \/ \E d \in Calls : Recording(call'[d]) /\ call'[d].r = k.r
      BY <1>0, <1>4, <1>13, <3>1
    <3> QED BY <1>8, <2>0, <2>3, <3>2 DEF Netted
  <2>4. CASE k.op = "CANCEL"
    <3>1. EverRejected(k.r) \/ (Deductions(k.r) = {} <=> Refunds(k.r) = {})
      <4>1. CASE k.snap.status = "APPROVED"
        <5>1. Cancelling(k) /\ ~Moves(k, "REQUEST_CANCELLED")
          BY <1>7, <1>8, <2>4, <4>1 DEF Cancelling, Moves
        <5>2. k.snap.lop \/ Refunds(k.r) # {}
          BY <1>5, <5>1 DEF PlanIsPosted
        <5>3. /\ Refunds(k.r) # {} => Deductions(k.r) # {}
              /\ request[k.r].lop => Deductions(k.r) = {}
          BY <1>2 DEF Paid, RefundNeedsDeduction, Refunds, Deductions
        <5> QED BY <1>2, <5>2, <5>3
      <4>2. CASE k.snap.status # "APPROVED"
        <5>1. Netted(k.r)
          BY <1>17, <2>4, <4>2 DEF InHand, Approving, Cancelling
        <5>2. ~\E d \in Calls : Recording(call[d])
          BY <1>0, <1>15, <2>4 DEF Recording
        <5>3. request[k.r].status \in {"PENDING_L1", "PENDING_L2", "CANCELLED", "REJECTED"}
          BY <1>1, <1>2, <1>8, <4>2 DEF RequestRows, Statuses
        <5> QED BY <5>1, <5>2, <5>3 DEF Netted
      <4> QED BY <4>1, <4>2
    <3> QED BY <1>2, <1>13, <2>0, <2>4, <3>1 DEF Netted
  <2> QED BY <1>2, <1>8, <2>1, <2>2, <2>3, <2>4
<1>19. (\A r \in Reqs : Netted(r) \/ \E d \in Calls : call[d].r = r /\ InHand(call[d]))'
  <2>1. ASSUME NEW r \in Reqs PROVE Netted(r)'
    BY <1>16, <1>18
  <2> QED BY <2>1
<1> QED BY <1>10, <1>11, <1>14, <1>19 DEF Carried

LEMMA NextCarries ==
  ASSUME MaxInFlight <= 1, ~MayFail
  PROVE  Shape /\ Paid /\ Marked /\ Carried /\ [Next]_vars => Carried'
<1> SUFFICES ASSUME Shape, Paid, Marked, Carried, [Next]_vars PROVE Carried'
  OBVIOUS
<1>1. ASSUME NEW c \in Calls, Step(c) PROVE Carried'
  BY <1>1, InsertCarries, FinishCarries, RouteCarries, SettleCarries, PostCarries, LedgerCarries,
     HolidaysCarry, WriteStatusCarries, RecordCarries DEF Step
<1>2. ASSUME NEW c \in Calls PROVE ~Fail(c)
  BY DEF Fail
<1>3. CASE Environment \/ AccrualWorkerTakesJob \/ UNCHANGED vars
  <2>1. UNCHANGED <<request, approvals, ledger, call>>
    BY <1>3 DEF Environment, updateSettings, updateType, editHolidays, softDelete, clockIn,
         AccrualWorkerTakesJob, vars, tables
  <2>2. /\ \A r, source : Posted(r, source)' = Posted(r, source)
        /\ \A r : EverRejected(r)' = EverRejected(r)
    BY <2>1 DEF Posted, EverRejected
  <2>3. \A r : Deductions(r)' = Deductions(r) /\ Refunds(r)' = Refunds(r)
    BY <2>2 DEF Deductions, Refunds
  <2>4. OneAtATime' /\ \A r \in Reqs : OnceEach(r)'
    BY <2>1, <2>3 DEF Carried, OneAtATime, Running, OnceEach
  <2>5. ASSUME NEW c \in Calls, call'[c].pc \notin Stopped PROVE InOrder(call[c])'
    <3>1. InOrder(call[c])
      BY <2>1, <2>5 DEF Carried
    <3>2. ReadIsCurrent(call[c])' /\ RejectionIsRecorded(call[c])'
      BY <2>1, <2>2, <3>1 DEF InOrder, ReadIsCurrent, RejectionIsRecorded
    <3>3. PlanIsPosted(call[c])'
      BY <2>1, <2>3, <3>1 DEF InOrder, PlanIsPosted
    <3> QED BY <3>2, <3>3 DEF InOrder
  <2>6. ASSUME NEW r \in Reqs
        PROVE  Netted(r)' \/ \E c \in Calls : call'[c].r = r /\ InHand(call'[c])
    <3>1. Netted(r) \/ \E c \in Calls : call[c].r = r /\ InHand(call[c])
      BY DEF Carried
    <3>2. Netted(r) => Netted(r)'
      BY <2>1, <2>2, <2>3 DEF Netted
    <3> QED BY <2>1, <3>1, <3>2
  <2>7. (\A r \in Reqs : Netted(r) \/ \E c \in Calls : call[c].r = r /\ InHand(call[c]))'
    BY <2>6
  <2> QED BY <2>4, <2>5, <2>7 DEF Carried
<1> QED BY <1>1, <1>2, <1>3, StartCarries, TakeJobCarries DEF Next

LEMMA InitCarried == Init => Carried
<1> SUFFICES ASSUME Init PROVE Carried
  OBVIOUS
<1>1. \A c \in Calls : call[c].pc = "idle"
  BY DEF Init, Idle
<1>2. \A c \in Calls : call[c].pc \in Stopped
  BY <1>1 DEF Stopped
<1>3. \A r \in Reqs : request[r].status = "NONE" /\ Deductions(r) = {} /\ Refunds(r) = {}
  BY DEF Init, NoRequest, Deductions, Refunds, Posted
<1>4. \A r \in Reqs : Netted(r) /\ OnceEach(r)
  BY <1>3 DEF Netted, OnceEach
<1>5. OneAtATime
  BY <1>2 DEF OneAtATime, Running
<1> QED BY <1>2, <1>4, <1>5 DEF Carried

(* A set with no two members. *)
LEMMA AtMostOne ==
  ASSUME NEW S, \A x, y \in S : x = y
  PROVE  Cardinality(S) = IF S = {} THEN 0 ELSE 1
<1>1. CASE S = {}
  BY <1>1, FS_EmptySet
<1>2. CASE S # {}
  <2>1. PICK x \in S : TRUE
    BY <1>2
  <2>2. S = {x}
    BY <2>1
  <2> QED BY <1>2, <2>2, FS_Singleton
<1> QED BY <1>1, <1>2

(* When no handler runs, every row of the ledger is accounted for.          *)
LEMMA CarriedNets ==
  ASSUME Shape, Paid, Carried
  PROVE  NetDeduction
<1>1. SUFFICES ASSUME Quiet, NEW r \in Reqs, ~EverRejected(r)
               PROVE  Cardinality(Deductions(r)) - Cardinality(Refunds(r))
                        = IF request[r].status = "APPROVED" /\ ~request[r].lop THEN 1 ELSE 0
  BY DEF NetDeduction, Deductions, Refunds
<1>2. \A c \in Calls : call[c].pc \in Stopped
  BY <1>1 DEF Quiet, Running
<1>3. Netted(r) /\ ~\E c \in Calls : Recording(call[c])
  BY <1>2, InHandRuns DEF Carried
<1>4. OnceEach(r)
  BY DEF Carried
<1>5. /\ Cardinality(Deductions(r)) = IF Deductions(r) = {} THEN 0 ELSE 1
      /\ Cardinality(Refunds(r)) = IF Refunds(r) = {} THEN 0 ELSE 1
  BY <1>4, AtMostOne DEF OnceEach
<1>6. /\ Refunds(r) # {} => Deductions(r) # {}
      /\ request[r].lop => Deductions(r) = {}
      /\ request[r].status = "APPROVED" /\ ~request[r].lop => Deductions(r) # {}
  BY DEF Paid, RefundNeedsDeduction, ApprovedWasDeducted, Refunds, Deductions
<1>7. request[r].status \in Statuses
  BY DEF Shape, TypeOK, TablesOK, RequestRows
<1>8. CASE request[r].status = "APPROVED"
  <2>1. Refunds(r) = {}
    BY <1>3, <1>8 DEF Netted
  <2> QED BY <1>5, <1>6, <1>8, <2>1
<1>9. CASE request[r].status # "APPROVED"
  <2>1. Deductions(r) = {} <=> Refunds(r) = {}
    BY <1>1, <1>3, <1>7, <1>9 DEF Netted, Statuses
  <2> QED BY <1>5, <1>9, <2>1
<1> QED BY <1>8, <1>9
----------------------------------------------------------------------------
(* A step that changes no request and clears no day keeps what accounts for *)
(* the days.                                                                *)
LEMMA DaysKept ==
  ASSUME UNCHANGED request,
         \A e \in Employees, d \in Days : attendance[e][d] # "NONE" => attendance'[e][d] # "NONE",
         \A c \in Calls : Clears(call[c]) => Clears(call'[c]) /\ call'[c].r = call[c].r,
         NEW r, request[r].emp \in Employees, NEW d \in Days, Accounted(r, d)
  PROVE  Accounted(r, d)'
<1>1. CASE attendance[request[r].emp][d] # "NONE"
  BY <1>1 DEF Accounted
<1>2. CASE \E s \in Reqs \ {r} : request[s].status \in {"CANCELLED", "REJECTED"} /\ Over(s, r, d)
  BY <1>2 DEF Accounted, Over
<1>3. CASE \E c \in Calls : Clears(call[c]) /\ Over(call[c].r, r, d)
  <2>1. PICK c \in Calls : Clears(call[c]) /\ Over(call[c].r, r, d)
    BY <1>3
  <2>2. Clears(call'[c]) /\ call'[c].r = call[c].r
    BY <2>1
  <2>3. Over(call[c].r, r, d)'
    BY <2>1, <2>2 DEF Over
  <2> QED BY <2>2, <2>3 DEF Accounted
<1> QED BY <1>1, <1>2, <1>3 DEF Accounted

(* The employee of an inserted request, and that its sure days are days.    *)
LEMMA SureRows ==
  ASSUME Shape, NEW r \in Reqs, request[r].status # "NONE"
  PROVE  request[r].emp \in Employees /\ SureDays(r) \subseteq Days
BY DEF Shape, RowOK, SureDays, WorkingDays

(* One handler moves, alone, and leaves requests and attendance rows as     *)
(* they are.                                                                *)
LEMMA OneHandlerDays ==
  ASSUME Shape, DaysFollow, NEW c \in Calls, Alone(c), OnlyMoves(c),
         UNCHANGED <<request, attendance>>,
         NEW k, k = call[c], NEW l, l = call'[c],
         Clears(k) => Clears(l) /\ l.r = k.r,
         l.op = "APPROVE" /\ l.pc \in {"post", "ledger", "sync"} => l.mark,
         Approving(l) /\ l.pc \in {"sync", "write"} => l.r \in Reqs /\ request[l.r].status # "NONE",
         Approving(l) /\ l.pc = "sync" => \A d \in SureDays(l.r) \ l.days : Accounted(l.r, d),
         Approving(l) /\ l.pc = "write" => \A d \in SureDays(l.r) : Accounted(l.r, d)
  PROVE  DaysFollow'
<1>1. \A d \in Calls \ {c} : call'[d] = call[d] /\ call'[d].pc \in Stopped
  BY DEF OnlyMoves, Alone
<1>2. \A d \in Calls : Clears(call[d]) => Clears(call'[d]) /\ call'[d].r = call[d].r
  BY <1>1
<1>3. \A r : SureDays(r)' = SureDays(r)
  BY DEF SureDays
<1>4. ASSUME NEW r \in Reqs, request[r].status # "NONE", NEW d \in SureDays(r), Accounted(r, d)
      PROVE  Accounted(r, d)'
  <2>1. request[r].emp \in Employees /\ d \in Days
    BY <1>4, SureRows
  <2> QED BY <1>2, <1>4, <2>1, DaysKept
<1>5. DaysOK(call[c])'
  <2>1. Approving(l) /\ l.pc = "sync" => \A d \in SureDays(l.r) \ l.days : Accounted(l.r, d)'
    BY <1>4
  <2>2. Approving(l) /\ l.pc = "write" => \A d \in SureDays(l.r) : Accounted(l.r, d)'
    BY <1>4
  <2> QED BY <1>3, <2>1, <2>2 DEF DaysOK
<1>6. \A d \in Calls \ {c} : DaysOK(call[d])'
  BY <1>1 DEF DaysOK, Approving, Posting, Stopped
<1>7. \A r \in Reqs : request'[r].status = "APPROVED" => \A d \in SureDays(r)' : Accounted(r, d)'
  BY <1>3, <1>4 DEF DaysFollow
<1>8. \A d \in Calls : DaysOK(call[d])'
  BY <1>5, <1>6
<1> QED BY <1>7, <1>8 DEF DaysFollow

(* A handler that has not come to the attendance rows, or is past them.     *)
LEMMA ElsewhereDays ==
  ASSUME Shape, DaysFollow, NEW c \in Calls, Alone(c), OnlyMoves(c),
         UNCHANGED <<request, attendance>>,
         ~Clears(call[c]), ~Approving(call'[c]) \/ call'[c].pc \in {"post", "ledger"},
         call'[c].op = "APPROVE" /\ call'[c].pc \in {"post", "ledger", "sync"} => call'[c].mark
  PROVE  DaysFollow'
BY OneHandlerDays

LEMMA StartDays ==
  ASSUME Shape, Carried, DaysFollow, MaxInFlight <= 1, NEW c \in UserCalls, Start(c)
  PROVE  DaysFollow'
<1>1. c \in Calls /\ call \in [Calls -> CallRows]
  BY DEF Calls, Shape, TypeOK
<1>2. HasSlot /\ call[c].pc = "idle"
  <2>1. CanStart(c)
    <3>1. CASE ReadApply(c)
      BY <3>1 DEF ReadApply
    <3>2. CASE \E u \in Employees, r \in Reqs :
                 \/ ReadAttach(c, u, r) \/ ReadApprove(c, u, r)
                 \/ ReadReject(c, u, r) \/ ReadCancel(c, u, r)
      BY <3>2 DEF ReadAttach, ReadApprove, ReadReject, ReadCancel
    <3>3. CASE \E u \in Admins, e \in Applicants, t \in Types, y \in Years, delta \in AdjustDeltas :
                 StartAdjust(c, u, e, t, y, delta)
      BY <3>3 DEF StartAdjust
    <3> QED BY <3>1, <3>2, <3>3 DEF Start
  <2> QED BY <2>1 DEF CanStart
<1>3. Alone(c) /\ ~Clears(call[c])
  <2>1. OneAtATime
    BY DEF Carried
  <2> QED BY <1>2, <2>1, FreeSlot DEF Alone, Clears
<1>4. /\ UNCHANGED <<request, attendance>> /\ OnlyMoves(c)
      /\ \/ call'[c].op \in {"APPLY", "ATTACH", "REJECT", "CANCEL", "ADJUST"}
         \/ call'[c].pc \in {"route", "settle"}
  <2>1. CASE ReadApply(c)
    BY <1>1, <2>1 DEF ReadApply, Idle, OnlyMoves, tables
  <2>2. CASE \E u \in Employees, r \in Reqs : ReadAttach(c, u, r)
    BY <1>1, <2>2 DEF ReadAttach, Idle, OnlyMoves, tables
  <2>3. CASE \E u \in Employees, r \in Reqs : ReadReject(c, u, r)
    BY <1>1, <2>3 DEF ReadReject, Idle, OnlyMoves, tables
  <2>4. CASE \E u \in Employees, r \in Reqs : ReadCancel(c, u, r)
    BY <1>1, <2>4 DEF ReadCancel, Idle, OnlyMoves, tables
  <2>5. CASE \E u \in Employees, r \in Reqs : ReadApprove(c, u, r)
    BY <1>1, <2>5 DEF ReadApprove, Idle, OnlyMoves, tables
  <2>6. CASE \E u \in Admins, e \in Applicants, t \in Types, y \in Years, delta \in AdjustDeltas :
               StartAdjust(c, u, e, t, y, delta)
    BY <1>1, <2>6 DEF StartAdjust, Idle, OnlyMoves, tables
  <2> QED BY <2>1, <2>2, <2>3, <2>4, <2>5, <2>6 DEF Start
<1>5. /\ ~Approving(call'[c])
      /\ ~(call'[c].op = "APPROVE" /\ call'[c].pc \in {"post", "ledger", "sync"})
  BY <1>4 DEF Approving, Posting
<1> QED BY <1>1, <1>3, <1>4, <1>5, ElsewhereDays

LEMMA TakeJobDays ==
  ASSUME Shape, Carried, DaysFollow, MaxInFlight <= 1, TakeJob
  PROVE  DaysFollow'
<1>1. Worker \in Calls /\ call \in [Calls -> CallRows]
  BY DEF Calls, Shape, TypeOK
<1>2. /\ call[Worker].pc \in Stopped /\ HasSlot
      /\ call'[Worker].op \in {"NONE", "ESCALATE"}
  BY <1>1 DEF TakeJob, Idle
<1>3. OnlyMoves(Worker) /\ UNCHANGED <<request, attendance>>
  BY <1>1 DEF TakeJob, OnlyMoves, tables
<1>4. Alone(Worker) /\ ~Clears(call[Worker])
  <2>1. OneAtATime
    BY DEF Carried
  <2> QED BY <1>2, <2>1, FreeSlot DEF Alone, Clears, Stopped
<1>5. ~Approving(call'[Worker]) /\ call'[Worker].op # "APPROVE"
  BY <1>2 DEF Approving
<1> QED BY <1>1, <1>3, <1>4, <1>5, ElsewhereDays

(* The steps before and after the attendance rows.                          *)
LEMMA PassingDays ==
  ASSUME Shape, Carried, DaysFollow, NEW c \in Calls,
         Upload(c) \/ Finish(c) \/ RouteL1(c) \/ Settle(c) \/ Post(c) \/ WriteLedger(c)
  PROVE  DaysFollow'
<1>0. PICK k, l : k = call[c] /\ l = call'[c]
  OBVIOUS
<1>1. call \in [Calls -> CallRows] /\ k \in CallRows /\ CallOK(k) /\ DaysOK(k)
  BY <1>0 DEF Shape, TypeOK, DaysFollow
<1>2. /\ OnlyMoves(c) /\ UNCHANGED <<request, attendance>>
      /\ k.pc \in {"upload", "notify", "route", "settle", "post", "ledger"} \/ (k.pc = "write" /\ k.todo = {})
      /\ \/ l = Returned(k)
         \/ l.pc = "settle"
         \/ l.pc = "write" /\ l.target = "PENDING_L2" /\ l.op = "APPROVE"
         \/ l.pc = "post" /\ l.mark = (l.op = "APPROVE")
         \/ k.pc \in {"post", "ledger"} /\ l.pc \in {"post", "ledger"} /\ l.op = k.op /\ l.mark = k.mark
  <2>1. CASE Upload(c) \/ Finish(c)
    BY <1>0, <1>1, <2>1 DEF Upload, Finish, Return, OnlyMoves, tables
  <2>2. CASE RouteL1(c)
    BY <1>0, <1>1, <2>2 DEF RouteL1, Goto, OnlyMoves, CallRows, CallOK, Stopped, tables
  <2>3. CASE Settle(c)
    BY <1>0, <1>1, <2>3 DEF Settle, Return, OnlyMoves, CallRows, tables
  <2>4. CASE Post(c)
    BY <1>0, <1>1, <2>4 DEF Post, Goto, OnlyMoves, CallRows
  <2>5. CASE WriteLedger(c)
    BY <1>0, <1>1, <2>5 DEF WriteLedger, OnlyMoves, CallRows
  <2> QED BY <2>1, <2>2, <2>3, <2>4, <2>5
<1>3. Alone(c)
  <2>1. k.pc \notin Stopped
    BY <1>2 DEF Stopped
  <2> QED BY <1>0, <2>1, OthersRest DEF Carried
<1>4. ~Clears(k)
  BY <1>2 DEF Clears
<1>5. l = Returned(k) => l.pc = "done"
  BY <1>1, ReturnedRow
<1>6. ~Approving(l) \/ l.pc \in {"post", "ledger"}
  BY <1>2, <1>5 DEF Approving, Posting
<1>7. l.op = "APPROVE" /\ l.pc \in {"post", "ledger", "sync"} => l.mark
  BY <1>1, <1>2, <1>5 DEF DaysOK
<1> QED BY <1>0, <1>2, <1>3, <1>4, <1>6, <1>7, ElsewhereDays

(* The days to mark are read from the holidays as they are now, whatever    *)
(* they become.                                                             *)
LEMMA HolidaysDays ==
  ASSUME Shape, Marked, Carried, DaysFollow, NEW c \in Calls, ReadHolidays(c)
  PROVE  DaysFollow'
<1>0. PICK k, l : k = call[c] /\ l = call'[c]
  OBVIOUS
<1>1. /\ call \in [Calls -> CallRows] /\ k \in CallRows /\ CallOK(k) /\ MarkOK(k) /\ DaysOK(k)
      /\ k.pc = "post" /\ k.pc \notin Stopped /\ holidays \in HolidayChoices
  BY <1>0 DEF Shape, TypeOK, TablesOK, Marked, DaysFollow, ReadHolidays, Stopped
<1>2. OnlyMoves(c) /\ UNCHANGED <<request, attendance>>
  BY <1>1 DEF ReadHolidays, OnlyMoves, tables
<1>3. Alone(c) /\ ~Clears(k)
  BY <1>0, <1>1, OthersRest DEF Carried, Clears
<1>4. CASE k.op = "ADJUST" /\ l = Returned(k)
  <2>1. l.pc = "done"
    BY <1>1, <1>4, ReturnedRow
  <2>2. ~Approving(l)
    BY <2>1 DEF Approving, Posting
  <2> QED BY <1>0, <1>2, <1>3, <2>1, <2>2, ElsewhereDays
<1>5. CASE /\ k.op # "ADJUST" /\ l.pc = "sync" /\ l.op = k.op /\ l.r = k.r /\ l.mark = k.mark
           /\ l.days = WorkingDays(k.snap.from, k.snap.to, holidays)
  <2>1. k.snap.from = request[k.r].from /\ k.snap.to = request[k.r].to
    BY <1>1, <1>5 DEF MarkOK
  <2>2. SureDays(l.r) \subseteq l.days
    BY <1>1, <1>5, <2>1 DEF SureDays, WorkingDays
  <2>3. l.op = "APPROVE" => l.mark
    BY <1>1, <1>5 DEF DaysOK
  <2>4. k.r \in Reqs /\ request[k.r].status # "NONE"
    BY <1>1, <1>5 DEF CallOK, Stopped, Deciding
  <2> QED BY <1>0, <1>2, <1>3, <1>5, <2>2, <2>3, <2>4, OneHandlerDays
<1> QED BY <1>0, <1>1, <1>4, <1>5 DEF ReadHolidays, CallRows

LEMMA SyncDoneDays ==
  ASSUME Shape, Carried, DaysFollow, NEW c \in Calls, SyncDone(c) \/ RecordDecision(c)
  PROVE  DaysFollow'
<1>0. PICK k, l : k = call[c] /\ l = call'[c]
  OBVIOUS
<1>1. call \in [Calls -> CallRows] /\ k \in CallRows /\ CallOK(k) /\ DaysOK(k)
  BY <1>0 DEF Shape, TypeOK, DaysFollow
<1>2. /\ OnlyMoves(c) /\ UNCHANGED <<request, attendance>>
      /\ l.pc = "write" /\ l.op = k.op /\ l.r = k.r /\ l.target = k.target
      /\ \/ k.pc = "sync" /\ k.days = {} /\ "status" \in l.todo
         \/ k.pc = "write" /\ ("status" \in l.todo <=> "status" \in k.todo)
  <2>1. CASE SyncDone(c)
    BY <1>0, <1>1, <2>1 DEF SyncDone, OnlyMoves, CallRows, tables
  <2>2. CASE RecordDecision(c)
    BY <1>0, <1>1, <2>2 DEF RecordDecision, OnlyMoves, CallRows
  <2> QED BY <2>1, <2>2
<1>3. k.pc \notin Stopped
  BY <1>2 DEF Stopped
<1>4. Alone(c)
  BY <1>0, <1>3, OthersRest DEF Carried
<1>5. Clears(k) => Clears(l)
  BY <1>2 DEF Clears
<1>6. Approving(l) => Approving(k)
  BY <1>2 DEF Approving, Posting
<1>7. Approving(l) => k.r \in Reqs /\ request[k.r].status # "NONE"
  BY <1>1, <1>3, <1>6 DEF CallOK, Deciding, Approving
<1>8. Approving(l) => \A d \in SureDays(l.r) : Accounted(l.r, d)
  BY <1>1, <1>2, <1>6 DEF DaysOK
<1> QED BY <1>0, <1>2, <1>4, <1>5, <1>7, <1>8, OneHandlerDays

(* A day that is marked has its row; one that is cleared is a day of the    *)
(* request being cancelled.                                                 *)
LEMMA SyncDays ==
  ASSUME Shape, Marked, Carried, DaysFollow, NEW c \in Calls, SyncDay(c)
  PROVE  DaysFollow'
<1>0. PICK k : k = call[c]
  OBVIOUS
<1>1. /\ call \in [Calls -> CallRows] /\ k \in CallRows /\ CallOK(k) /\ MarkOK(k) /\ DaysOK(k)
      /\ k.pc = "sync" /\ k.pc \notin Stopped /\ UNCHANGED request
      /\ attendance \in [Employees -> [Days -> {"NONE", "ON_LEAVE", "WORKED"}]]
  BY <1>0 DEF Shape, TypeOK, TablesOK, Marked, DaysFollow, SyncDay, Stopped
<1>2. PICK d0 \in k.days :
        /\ attendance' = [attendance EXCEPT ![k.snap.emp][d0] = Synced(@, k.mark)]
        /\ call' = [call EXCEPT ![c].days = @ \ {d0}]
  BY <1>0 DEF SyncDay
<1>3. PICK e0, r0 : e0 = k.snap.emp /\ r0 = k.r
  OBVIOUS
<1>4. /\ e0 \in Employees /\ d0 \in Days
      /\ k.op \in {"APPROVE", "CANCEL"} /\ r0 \in Reqs /\ request[r0].status # "NONE"
      /\ e0 = request[r0].emp
  BY <1>1, <1>2, <1>3 DEF CallOK, Stopped, Deciding, CallRows
<1>5. \A e \in Employees, d \in Days :
        attendance'[e][d] = IF e = e0 /\ d = d0 THEN Synced(attendance[e][d], k.mark)
                            ELSE attendance[e][d]
  BY <1>1, <1>2, <1>3, <1>4
<1>6. PICK l : l = call'[c]
  OBVIOUS
<1>7. /\ OnlyMoves(c) /\ l.pc = k.pc /\ l.op = k.op /\ l.r = k.r /\ l.target = k.target
      /\ l.mark = k.mark /\ l.days = k.days \ {d0}
  BY <1>0, <1>1, <1>2, <1>6 DEF OnlyMoves, CallRows
<1>8. \A d \in Calls \ {c} : call'[d] = call[d] /\ call'[d].pc \in Stopped
  <2>1. Alone(c)
    BY <1>0, <1>1, OthersRest DEF Carried
  <2> QED BY <1>7, <2>1 DEF Alone, OnlyMoves
<1>9. \A r : SureDays(r)' = SureDays(r)
  BY <1>1 DEF SureDays
<1>10. \A d \in Calls : Clears(call[d]) => Clears(call'[d]) /\ call'[d].r = call[d].r
  <2>1. Clears(call[c]) => Clears(call'[c]) /\ call'[c].r = call[c].r
    BY <1>0, <1>6, <1>1, <1>7 DEF Clears
  <2> QED BY <1>8, <2>1
<1>11. request[r0].from <= d0 /\ d0 <= request[r0].to
  <2>1. k.snap.from <= d0 /\ d0 <= k.snap.to
    BY <1>1, <1>2 DEF MarkOK
  <2> QED BY <1>1, <1>3, <1>4, <2>1 DEF MarkOK
<1>12. ASSUME NEW r \in Reqs, request[r].status # "NONE", NEW d \in SureDays(r), Accounted(r, d)
       PROVE  Accounted(r, d)'
  <2>1. request[r].emp \in Employees /\ d \in Days
    BY <1>12, SureRows
  <2>2. CASE ~(request[r].emp = e0 /\ d = d0) \/ k.mark
    <3>1. attendance[request[r].emp][d] # "NONE" => attendance'[request[r].emp][d] # "NONE"
      BY <1>5, <2>1, <2>2 DEF Synced
    <3>2. CASE attendance[request[r].emp][d] # "NONE"
      BY <1>1, <3>1, <3>2 DEF Accounted
    <3>3. CASE \E s \in Reqs \ {r} : request[s].status \in {"CANCELLED", "REJECTED"} /\ Over(s, r, d)
      BY <1>1, <3>3 DEF Accounted, Over
    <3>4. CASE \E x \in Calls : Clears(call[x]) /\ Over(call[x].r, r, d)
      <4>1. PICK x \in Calls : Clears(call[x]) /\ Over(call[x].r, r, d)
        BY <3>4
      <4>2. Clears(call'[x]) /\ call'[x].r = call[x].r
        BY <1>10, <4>1
      <4>3. Over(call[x].r, r, d)'
        BY <1>1, <4>1, <4>2 DEF Over
      <4> QED BY <4>2, <4>3 DEF Accounted
    <3> QED BY <1>12, <3>2, <3>3, <3>4 DEF Accounted
  <2>3. CASE request[r].emp = e0 /\ d = d0 /\ ~k.mark
    <3>1. Clears(l)
      BY <1>1, <1>4, <1>7, <2>3 DEF DaysOK, Clears
    <3>2. Over(call[c].r, r, d)'
      BY <1>6, <1>1, <1>3, <1>4, <1>7, <1>11, <2>3 DEF Over
    <3> QED BY <1>6, <3>1, <3>2 DEF Accounted
  <2> QED BY <2>2, <2>3
<1>13. k.mark => Accounted(r0, d0)'
  <2>1. k.mark => attendance'[e0][d0] # "NONE"
    BY <1>4, <1>5 DEF Synced
  <2> QED BY <1>1, <1>4, <2>1 DEF Accounted
<1>14. DaysOK(call[c])'
  <2>1. Approving(l) => Approving(k) /\ k.mark
    BY <1>1, <1>7 DEF Approving, Posting, DaysOK
  <2>2. Approving(l) => \A d \in SureDays(r0) \ l.days : Accounted(r0, d)'
    <3>1. SUFFICES ASSUME Approving(l), NEW d \in SureDays(r0) \ l.days PROVE Accounted(r0, d)'
      OBVIOUS
    <3>2. CASE d = d0
      BY <1>13, <2>1, <3>1, <3>2
    <3>3. CASE d # d0
      <4>1. Accounted(r0, d)
        BY <1>1, <1>3, <1>7, <2>1, <3>1, <3>3 DEF DaysOK
      <4> QED BY <1>4, <1>12, <3>1, <4>1
    <3> QED BY <3>2, <3>3
  <2>3. l.op = "APPROVE" => l.mark
    BY <1>1, <1>7 DEF DaysOK
  <2> QED BY <1>6, <1>1, <1>3, <1>7, <1>9, <2>2, <2>3 DEF DaysOK
<1>15. \A d \in Calls : DaysOK(call[d])'
  <2>1. \A d \in Calls \ {c} : DaysOK(call[d])'
    BY <1>8 DEF DaysOK, Approving, Posting, Stopped
  <2> QED BY <1>14, <2>1
<1>16. \A r \in Reqs : request'[r].status = "APPROVED" => \A d \in SureDays(r)' : Accounted(r, d)'
  BY <1>1, <1>9, <1>12 DEF DaysFollow
<1> QED BY <1>15, <1>16 DEF DaysFollow

LEMMA InsertDays ==
  ASSUME Shape, Carried, DaysFollow, NEW c \in Calls, InsertRequest(c)
  PROVE  DaysFollow'
<1>0. PICK k : k = call[c]
  OBVIOUS
<1>1. /\ call \in [Calls -> CallRows] /\ k \in CallRows /\ CallOK(k)
      /\ request \in [Reqs -> RequestRows] /\ UNCHANGED attendance
      /\ k.pc = "insert" /\ k.pc \notin Stopped
  BY <1>0 DEF Shape, TypeOK, TablesOK, InsertRequest, Stopped
<1>2. PICK r0 \in Reqs : /\ request[r0].status = "NONE"
                         /\ request' = [request EXCEPT ![r0] = k.snap]
                         /\ call' = [call EXCEPT ![c].r = r0, ![c].pc = "notify"]
  BY <1>0 DEF InsertRequest, NextReq
<1>3. k.snap.status \in {"PENDING_L1", "PENDING_L2"}
  BY <1>1 DEF CallOK
<1>4. /\ request'[r0] = k.snap
      /\ \A s \in Reqs : s # r0 => request'[s] = request[s]
  BY <1>1, <1>2
<1>5. OnlyMoves(c) /\ call'[c].pc = "notify"
  BY <1>1, <1>2 DEF CallRows, OnlyMoves
<1>6. \A d \in Calls : call'[d].pc \in Stopped \/ call'[d].pc = "notify"
  <2>1. Alone(c)
    BY <1>0, <1>1, OthersRest DEF Carried
  <2> QED BY <1>5, <2>1 DEF Alone, OnlyMoves
<1>7. \A d \in Calls : DaysOK(call[d])'
  BY <1>6 DEF DaysOK, Approving, Posting, Stopped
<1>8. \A d \in Calls : ~Clears(call[d])
  <2>1. \A d \in Calls \ {c} : call[d].pc \in Stopped
    BY <1>0, <1>1, OthersRest DEF Carried, Alone
  <2> QED BY <1>0, <1>1, <2>1 DEF Clears, Stopped
<1>9. ASSUME NEW r \in Reqs, request'[r].status = "APPROVED", NEW d \in SureDays(r)'
      PROVE  Accounted(r, d)'
  <2>1. r # r0 /\ request'[r] = request[r]
    BY <1>3, <1>4, <1>9
  <2>2. d \in SureDays(r)
    BY <1>9, <2>1 DEF SureDays
  <2>3. Accounted(r, d)
    BY <1>9, <2>1, <2>2 DEF DaysFollow
  <2>4. CASE attendance[request[r].emp][d] # "NONE"
    BY <1>1, <2>1, <2>4 DEF Accounted
  <2>5. CASE attendance[request[r].emp][d] = "NONE"
    <3>1. PICK s \in Reqs \ {r} : request[s].status \in {"CANCELLED", "REJECTED"} /\ Over(s, r, d)
      BY <1>8, <2>3, <2>5 DEF Accounted
    <3>2. request'[s] = request[s]
      BY <1>2, <1>4, <3>1
    <3>3. Over(s, r, d)'
      BY <2>1, <3>1, <3>2 DEF Over
    <3> QED BY <3>1, <3>2, <3>3 DEF Accounted
  <2> QED BY <2>4, <2>5
<1> QED BY <1>7, <1>9 DEF DaysFollow

(* An approval has marked its days; a cancellation that cleared some leaves *)
(* a cancelled request over them, and no such request is decided again      *)
(* except to be rejected or cancelled.                                      *)
LEMMA WriteStatusDays ==
  ASSUME Shape, Carried, DaysFollow, NEW c \in Calls, WriteStatus(c)
  PROVE  DaysFollow'
<1>0. PICK k : k = call[c]
  OBVIOUS
<1>1. /\ call \in [Calls -> CallRows] /\ k \in CallRows /\ CallOK(k) /\ DaysOK(k)
      /\ k.pc = "write" /\ "status" \in k.todo /\ k.pc \notin Stopped
      /\ request \in [Reqs -> RequestRows] /\ UNCHANGED attendance
  BY <1>0 DEF Shape, TypeOK, TablesOK, DaysFollow, WriteStatus, Stopped
<1>2. /\ k.op \in {"APPROVE", "CANCEL", "REJECT", "ESCALATE"} /\ k.r \in Reqs /\ k.target # "NONE"
      /\ k.op = "CANCEL" => k.target = "CANCELLED"
  BY <1>1 DEF CallOK, Stopped, Deciding
<1>3. \A r \in Reqs : /\ request'[r].emp = request[r].emp
                      /\ request'[r].from = request[r].from /\ request'[r].to = request[r].to
                      /\ request'[r].status = IF r = k.r THEN k.target ELSE request[r].status
  BY <1>0, <1>1, <1>2 DEF WriteStatus, RequestRows
<1>4. PICK l : l = call'[c]
  OBVIOUS
<1>5. OnlyMoves(c) /\ l.pc = "write" /\ l.todo = k.todo \ {"status"}
  BY <1>0, <1>1, <1>4 DEF WriteStatus, OnlyMoves, CallRows
<1>6. Alone(c) /\ ReadIsCurrent(k)
  BY <1>0, <1>1, OthersRest DEF Carried, InOrder
<1>7. \A d \in Calls \ {c} : call'[d] = call[d] /\ call[d].pc \in Stopped
  BY <1>5, <1>6 DEF Alone, OnlyMoves
<1>8. \A d \in Calls : DaysOK(call[d])'
  <2>1. DaysOK(call[c])'
    BY <1>4, <1>5 DEF DaysOK, Approving, Posting
  <2>2. \A d \in Calls \ {c} : DaysOK(call[d])'
    BY <1>7 DEF DaysOK, Approving, Posting, Stopped
  <2> QED BY <2>1, <2>2
<1>9. \A d \in Calls : Clears(call[d]) => d = c /\ k.op = "CANCEL"
  BY <1>0, <1>7 DEF Clears, Stopped
<1>10. /\ k.snap = request[k.r]
       /\ k.op \in {"APPROVE", "ESCALATE"} => k.snap.status \in {"PENDING_L1", "PENDING_L2"}
       /\ k.op = "REJECT" => k.target = "REJECTED"
       /\ k.op = "ESCALATE" => k.target = "PENDING_L2"
  BY <1>1, <1>2, <1>6 DEF ReadIsCurrent, Unwritten, Posting
<1>11. \A s \in Reqs : request[s].status \in {"CANCELLED", "REJECTED"} =>
                         request'[s].status \in {"CANCELLED", "REJECTED"}
  BY <1>2, <1>3, <1>10
<1>12. \A r \in Reqs : SureDays(r)' = SureDays(r)
  BY <1>3 DEF SureDays
<1>13. \A r, s \in Reqs : \A d : Over(s, r, d)' <=> Over(s, r, d)
  BY <1>3 DEF Over
<1>14. ASSUME NEW r \in Reqs, request'[r].status = "APPROVED", NEW d \in SureDays(r)
       PROVE  Accounted(r, d)'
  <2>1. Accounted(r, d) /\ (r = k.r => k.op = "APPROVE")
    <3>1. CASE r # k.r
      <4>1. request[r].status = "APPROVED"
        BY <1>3, <1>14, <3>1
      <4> QED BY <1>14, <3>1, <4>1 DEF DaysFollow
    <3>2. CASE r = k.r
      <4>1. k.target = "APPROVED"
        BY <1>3, <1>14, <3>2
      <4>2. k.op = "APPROVE"
        BY <1>2, <1>10, <4>1
      <4>3. Approving(k)
        BY <1>1, <4>1, <4>2 DEF Approving, Posting
      <4> QED BY <1>1, <1>14, <3>2, <4>2, <4>3 DEF DaysOK
    <3> QED BY <3>1, <3>2
  <2>2. CASE attendance[request[r].emp][d] # "NONE"
    BY <1>1, <1>3, <2>2 DEF Accounted
  <2>3. CASE \E s \in Reqs \ {r} : request[s].status \in {"CANCELLED", "REJECTED"} /\ Over(s, r, d)
    BY <1>11, <1>13, <2>3 DEF Accounted
  <2>4. CASE \E x \in Calls : Clears(call[x]) /\ Over(call[x].r, r, d)
    <3>1. k.op = "CANCEL" /\ Over(k.r, r, d)
      BY <1>0, <1>9, <2>4
    <3>2. k.r # r
      BY <2>1, <3>1
    <3>3. request'[k.r].status = "CANCELLED" /\ Over(k.r, r, d)'
      BY <1>2, <1>3, <1>13, <3>1
    <3> QED BY <1>2, <3>2, <3>3 DEF Accounted
  <2> QED BY <2>1, <2>2, <2>3, <2>4 DEF Accounted
<1> QED BY <1>8, <1>12, <1>14 DEF DaysFollow

LEMMA NextDays ==
  ASSUME MaxInFlight <= 1, ~MayFail
  PROVE  Shape /\ Marked /\ Carried /\ DaysFollow /\ [Next]_vars => DaysFollow'
<1> SUFFICES ASSUME Shape, Marked, Carried, DaysFollow, [Next]_vars PROVE DaysFollow'
  OBVIOUS
<1>1. ASSUME NEW c \in Calls, Step(c) PROVE DaysFollow'
  BY <1>1, InsertDays, PassingDays, HolidaysDays, SyncDays, SyncDoneDays, WriteStatusDays DEF Step
<1>2. ASSUME NEW c \in Calls PROVE ~Fail(c)
  BY DEF Fail
<1>3. CASE Environment \/ AccrualWorkerTakesJob \/ UNCHANGED vars
  <2>1. /\ UNCHANGED <<request, call>>
        /\ \A e \in Employees, d \in Days : attendance[e][d] # "NONE" => attendance'[e][d] # "NONE"
    <3>1. CASE \E e \in Applicants, d \in ClockDays : clockIn(e, d)
      <4>1. PICK e0, d0 : clockIn(e0, d0)
        BY <3>1
      <4>2. UNCHANGED <<request, call>> /\ attendance' = [attendance EXCEPT ![e0][d0] = "WORKED"]
        BY <4>1 DEF clockIn
      <4>3. attendance \in [Employees -> [Days -> {"NONE", "ON_LEAVE", "WORKED"}]]
        BY DEF Shape, TypeOK, TablesOK
      <4> QED BY <4>2, <4>3
    <3>2. CASE updateSettings \/ updateType \/ editHolidays \/ (\E r \in Reqs : softDelete(r)) \/ AccrualWorkerTakesJob \/ UNCHANGED vars
      BY <3>2 DEF updateSettings, updateType, editHolidays, softDelete, AccrualWorkerTakesJob, vars, tables
    <3> QED BY <1>3, <3>1, <3>2 DEF Environment
  <2>2. \A c \in Calls : Clears(call[c]) => Clears(call'[c]) /\ call'[c].r = call[c].r
    BY <2>1
  <2>3. \A r : SureDays(r)' = SureDays(r)
    BY <2>1 DEF SureDays
  <2>4. ASSUME NEW r \in Reqs, request[r].status # "NONE", NEW d \in SureDays(r), Accounted(r, d)
        PROVE  Accounted(r, d)'
    <3>1. request[r].emp \in Employees /\ d \in Days
      BY <2>4, SureRows
    <3> QED BY <2>1, <2>2, <2>4, <3>1, DaysKept
  <2>5. ASSUME NEW c \in Calls PROVE DaysOK(call[c])'
    <3>1. DaysOK(call[c])
      BY DEF DaysFollow
    <3>2. PICK k : k = call[c]
      OBVIOUS
    <3>3. Approving(k) => k.r \in Reqs /\ request[k.r].status # "NONE"
      BY <3>2 DEF Shape, CallOK, Deciding, Approving, Posting, Stopped
    <3>4. call'[c] = k
      BY <2>1, <3>2
    <3>5. /\ Approving(k) /\ k.pc = "sync" => \A d \in SureDays(k.r) \ k.days : Accounted(k.r, d)'
          /\ Approving(k) /\ k.pc = "write" => \A d \in SureDays(k.r) : Accounted(k.r, d)'
      BY <2>4, <3>1, <3>2, <3>3 DEF DaysOK
    <3> QED BY <2>3, <3>1, <3>2, <3>4, <3>5 DEF DaysOK
  <2>6. \A r \in Reqs : request'[r].status = "APPROVED" => \A d \in SureDays(r)' : Accounted(r, d)'
    BY <2>1, <2>3, <2>4 DEF DaysFollow
  <2> QED BY <2>5, <2>6 DEF DaysFollow
<1> QED BY <1>1, <1>2, <1>3, StartDays, TakeJobDays DEF Next

LEMMA InitDays == Init => DaysFollow
<1> SUFFICES ASSUME Init PROVE DaysFollow
  OBVIOUS
<1>1. \A c \in Calls : call[c].pc = "idle"
  BY DEF Init, Idle
<1>2. \A r \in Reqs : request[r].status = "NONE"
  BY DEF Init, NoRequest
<1> QED BY <1>1, <1>2 DEF DaysFollow, DaysOK

(* When no handler runs, no cancellation is clearing days.                  *)
LEMMA DaysMarked ==
  ASSUME DaysFollow
  PROVE  LeaveDaysMarked
<1>1. SUFFICES ASSUME Quiet, NEW r \in Reqs, request[r].status = "APPROVED", NEW d \in SureDays(r)
               PROVE  \/ attendance[request[r].emp][d] # "NONE"
                      \/ \E s \in Reqs \ {r} :
                           /\ request[s].emp = request[r].emp
                           /\ request[s].status \in {"CANCELLED", "REJECTED"}
                           /\ request[s].from <= d /\ d <= request[s].to
  BY DEF LeaveDaysMarked, SureDays
<1>2. \A c \in Calls : ~Clears(call[c])
  BY <1>1 DEF Quiet, Running, Clears, Stopped
<1>3. Accounted(r, d)
  BY <1>1 DEF DaysFollow
<1> QED BY <1>2, <1>3 DEF Accounted, Over

(* For every tenant whose handlers run one at a time and to their end,      *)
(* whatever is edited meanwhile: when none runs, what approve() and         *)
(* cancel() decided is carried out.  An approved paid request has been      *)
(* deducted exactly once and not refunded, any other that was never         *)
(* rejected nets to zero, and every working day of an approved request has  *)
(* its attendance row unless the cancellation of another request over that  *)
(* day cleared it.                                                          *)
THEOREM DecisionsAreCarriedOut ==
  ASSUME MaxInFlight <= 1, ~MayFail
  PROVE  Spec => []ApprovedIsCarriedOut
<1>1. Shape /\ Paid /\ Marked /\ Carried /\ [Next]_vars => Carried'
  BY NextCarries
<1>2. Shape /\ Marked /\ Carried /\ DaysFollow /\ [Next]_vars => DaysFollow'
  BY NextDays
<1>3. Shape /\ Paid /\ Carried /\ DaysFollow => ApprovedIsCarriedOut
  BY CarriedNets, DaysMarked DEF ApprovedIsCarriedOut
<1> QED BY <1>1, <1>2, <1>3, AlwaysShape, AlwaysPaid, InitMarks, NextMarks, InitCarried, InitDays, PTL
        DEF Spec
-----------------------------------------------------------------------------
(***************************************************************************)
(* Event leave, handlers one at a time, none lost, leave types edited at    *)
(* any moment.  EventsFit is about requests: that an event request is paid, *)
(* that the row apply() is about to insert still fits in an allowance the   *)
(* type has had, and that an approval past finalApprove()'s check has had   *)
(* its document.  EventsNet is about the ledger: what is posted for an      *)
(* event request and what the handler at work has still to post cancel      *)
(* out, but for the days that an approval takes without granting them.      *)
(***************************************************************************)
SameEvent(e, t, ev) == {r \in ActiveOf(e, t) : request[r].event = ev}
Inserted == {r \in Reqs : request[r].status # "NONE"}

Allowed(t, n) == \E p \in configured[t] : p.mode = "ON_EVENT" /\ n <= p.perEvent
Needs(t) == \A p \in configured[t] : p.mode = "ON_EVENT" /\ p.requiresDocument

EventRow(q) == q.days >= 0 /\ (q.event # NoDay => ~q.lop)
Fits(q) ==
    q.event # NoDay =>
      Allowed(q.type, SumDays(SameEvent(q.emp, q.type, q.event)) + q.days)

EventOK(k) ==
    /\ k.pc = "insert" => EventRow(k.snap) /\ Fits(k.snap)
    /\ Approving(k) /\ Needs(k.snap.type) => docs[k.r] # "NONE"

EventsFit ==
    /\ \A t \in Types : policy[t] \in configured[t]
    /\ IsFiniteSet(Inserted)
    /\ \A r \in Reqs : EventRow(request[r])
    /\ \A c \in Calls : EventOK(call[c])
    /\ EventWithinAllowance /\ ApprovedIsDocumented

(* Documents are not forgotten, nor the configurations of a leave type.     *)
DocsStay == \A r \in Reqs : docs[r] # "NONE" => docs'[r] # "NONE"
Grows ==
    /\ \A t \in Types : configured[t] \subseteq configured'[t] /\ policy'[t] \in configured'[t]
    /\ DocsStay

(* A call writes no ledger row twice, an approval posts its grant before    *)
(* its deduction, and no other handler posts a deduction.                   *)
Writes(k) == k.pc \in {"post", "ledger"}
UnpostedOK(c) ==
    LET k == call[c] IN
    /\ k.pc \in {"idle", "insert", "upload", "route", "settle"} => \A x \in ledger : x.call # c
    /\ Writes(k) => /\ Len(k.plan) <= 2
                    /\ \A i \in 1..Len(k.plan) :
                         \A x \in ledger : x.call = c => x.source # k.plan[i].source
                    /\ k.op # "APPROVE" =>
                         \A x \in ledger : x.call = c => x.source # "REQUEST_APPROVED"
                    /\ k.op = "APPROVE" =>
                         \A i \in 1..Len(k.plan) :
                           /\ k.plan[i].source \in {"EVENT_GRANT", "REQUEST_APPROVED"}
                           /\ k.plan[i].source = "EVENT_GRANT" => i = 1 /\ \A x \in ledger : x.call # c

(* What is posted for a request, and what the handler at work has left.     *)
NetOf(r) == SumFunctionOnSet([x \in ledger |-> x.delta], {x \in ledger : x.r = r})
Left(plan) ==
    IF plan = <<>> THEN 0
    ELSE IF Len(plan) = 1 THEN plan[1].delta ELSE plan[1].delta + plan[2].delta
Pending(k, r) == IF Writes(k) /\ k.r = r THEN Left(k.plan) ELSE 0

(* The handler is about to take days that it did not grant.                 *)
Granted(c, r) == \E g \in Posted(r, "EVENT_GRANT") : g.call = c
Withholds(k, c, r) ==
    /\ Writes(k) /\ k.op = "APPROVE" /\ k.r = r
    /\ Moves(k, "REQUEST_APPROVED") /\ ~Moves(k, "EVENT_GRANT") /\ ~Granted(c, r)
Due(k, c, r) == IF Ungranted(r) \/ Withholds(k, c, r) THEN -request[r].days ELSE 0

EventsNet ==
    /\ IsFiniteSet(ledger) /\ \A x \in ledger : x.call \in UserCalls
    /\ \A c \in Calls : UnpostedOK(c)
    /\ \A r \in Reqs, c \in Calls :
         request[r].event # NoDay /\ Alone(c) => NetOf(r) + Pending(call[c], r) = Due(call[c], c, r)

(* A day count is not negative.                                             *)
LEMMA DaysAreNatural ==
  ASSUME NEW from \in Days, NEW to \in Days, NEW hols
  PROVE  /\ countWorkingDays(from, to, hols) >= 0
         /\ from <= to => calendarDays(from, to) >= 0
<1>1. WorkingDays(from, to, hols) \subseteq Days /\ IsFiniteSet(Days) /\ Days \subseteq Nat
  BY LeaveConstants DEF WorkingDays, LeaveConstants
<1>2. Cardinality(WorkingDays(from, to, hols)) \in Nat
  BY <1>1, FS_Subset, FS_CardinalityType
<1>3. countWorkingDays(from, to, hols) >= 0
  BY <1>2 DEF countWorkingDays
<1>4. from <= to => calendarDays(from, to) >= 0
  BY <1>1 DEF calendarDays
<1> QED BY <1>3, <1>4

(* What fits in what is left of an event's allowance fits in the allowance; *)
(* when nothing is left, only no days at all fit.                           *)
LEMMA AllowanceFits ==
  ASSUME NEW p \in PolicyChoices, p.reduced <= p.perEvent, NEW earlier,
         NEW taken \in Int, NEW days \in Int, days >= 0,
         days <= AtLeastZero(eventAllowance(p, earlier) - taken)
  PROVE  taken + days <= p.perEvent \/ days = 0
<1>1. p.perEvent \in Nat /\ p.reduced \in Nat
  BY LeaveConstants DEF LeaveConstants
<1>2. PICK a : a = eventAllowance(p, earlier)
  OBVIOUS
<1>3. a \in Nat /\ a <= p.perEvent
  BY <1>1, <1>2 DEF eventAllowance
<1>4. PICK n : n = a - taken
  OBVIOUS
<1>5. days <= IF n < 0 THEN 0 ELSE n
  BY <1>2, <1>4 DEF AtLeastZero
<1>6. CASE n < 0
  BY <1>5, <1>6
<1>7. CASE ~(n < 0)
  BY <1>1, <1>3, <1>4, <1>5, <1>7
<1> QED BY <1>6, <1>7

(* The requests that name one event are finitely many, and their days are   *)
(* natural numbers.                                                         *)
LEMMA SameEventDays ==
  ASSUME Shape, EventsFit, NEW e, NEW t, NEW ev, NEW S, S = SameEvent(e, t, ev)
  PROVE  /\ S \subseteq Reqs /\ S \subseteq Inserted /\ IsFiniteSet(S)
         /\ \A r \in S : request[r].days \in Int /\ request[r].days >= 0
         /\ SumDays(S) \in Int
<1>1. S \subseteq Reqs /\ S \subseteq Inserted
  BY DEF SameEvent, ActiveOf, Active, Inserted
<1>2. IsFiniteSet(S)
  BY <1>1, FS_Subset DEF EventsFit
<1>3. request \in [Reqs -> RequestRows]
  BY DEF Shape, TypeOK, TablesOK
<1>4. \A r \in S : request[r].days \in Int /\ request[r].days >= 0
  BY <1>1, <1>3 DEF EventsFit, EventRow, RequestRows
<1>5. PICK f : f = [r \in S |-> request[r].days]
  OBVIOUS
<1>6. SumFunctionOnSet(f, S) \in Int
  BY <1>2, <1>4, <1>5, SumIsInt
<1> QED BY <1>1, <1>2, <1>4, <1>5, <1>6 DEF SumDays

(* Handlers edit no leave type.                                             *)
LEMMA HandlersKeepTypes ==
  ASSUME NEW c, Start(c) \/ Step(c) \/ TakeJob
  PROVE  UNCHANGED <<policy, configured>>
<1>1. CASE ReadApply(c)
  BY <1>1 DEF ReadApply, config
<1>2. CASE \E u \in Employees, r \in Reqs :
             \/ ReadAttach(c, u, r) \/ ReadApprove(c, u, r)
             \/ ReadReject(c, u, r) \/ ReadCancel(c, u, r)
  <2>1. UNCHANGED config
    BY <1>2, Zenon DEF ReadAttach, ReadApprove, ReadReject, ReadCancel
  <2> QED BY <2>1 DEF config
<1>3. CASE \E u \in Admins, e \in Applicants, t \in Types, y \in Years, delta \in AdjustDeltas :
             StartAdjust(c, u, e, t, y, delta)
  <2>1. UNCHANGED config
    BY <1>3, Zenon DEF StartAdjust
  <2> QED BY <2>1 DEF config
<1>4. CASE Step(c)
  <2>1. CASE InsertRequest(c) \/ Upload(c) \/ RouteL1(c) \/ Settle(c) \/ Post(c) \/ WriteLedger(c)
    <3>1. UNCHANGED config
      BY <2>1, Zenon DEF InsertRequest, Upload, RouteL1, Settle, Post, WriteLedger
    <3> QED BY <3>1 DEF config
  <2>2. CASE ReadHolidays(c) \/ SyncDay(c) \/ SyncDone(c)
    <3>1. UNCHANGED config
      BY <2>2, Zenon DEF ReadHolidays, SyncDay, SyncDone
    <3> QED BY <3>1 DEF config
  <2>3. CASE WriteStatus(c) \/ RecordDecision(c) \/ Finish(c)
    <3>1. UNCHANGED config
      BY <2>3, Zenon DEF WriteStatus, RecordDecision, Finish
    <3> QED BY <3>1 DEF config
  <2> QED BY <1>4, <2>1, <2>2, <2>3 DEF Step
<1>5. CASE TakeJob
  <2>1. UNCHANGED config
    BY <1>5, Zenon DEF TakeJob
  <2> QED BY <2>1 DEF config
<1>6. CASE Start(c)
  BY <1>1, <1>2, <1>3, <1>6, Zenon DEF Start
<1> QED BY <1>4, <1>5, <1>6

LEMMA SteadyGrows ==
  ASSUME EventsFit, UNCHANGED <<policy, configured>>, DocsStay
  PROVE  Grows
BY DEF EventsFit, Grows

(* What fits goes on fitting when HR edits a leave type, and no type comes  *)
(* to need a document that did not.                                         *)
LEMMA FitsKept ==
  ASSUME UNCHANGED request, Grows
  PROVE  /\ \A e, t, ev : SameEvent(e, t, ev)' = SameEvent(e, t, ev)
         /\ \A S : SumDays(S)' = SumDays(S)
         /\ \A t \in Types : \A n : Allowed(t, n) => Allowed(t, n)'
         /\ \A q : q.type \in Types /\ Fits(q) => Fits(q)'
         /\ \A t \in Types : Needs(t)' => Needs(t)
<1>1. \A e, t, ev : SameEvent(e, t, ev)' = SameEvent(e, t, ev)
  BY DEF SameEvent, ActiveOf
<1>2. \A S : SumDays(S)' = SumDays(S)
  BY DEF SumDays
<1>3. \A t \in Types : configured[t] \subseteq configured'[t]
  BY DEF Grows
<1>4. \A t \in Types : \A n : Allowed(t, n) => Allowed(t, n)'
  BY <1>3 DEF Allowed
<1>5. \A t \in Types : Needs(t)' => Needs(t)
  BY <1>3 DEF Needs
<1>6. ASSUME NEW q, q.type \in Types, Fits(q) PROVE Fits(q)'
  <2>1. SUFFICES ASSUME q.event # NoDay
                 PROVE  Allowed(q.type, SumDays(SameEvent(q.emp, q.type, q.event)) + q.days)'
    BY DEF Fits
  <2>2. PICK n : n = SumDays(SameEvent(q.emp, q.type, q.event)) + q.days
    OBVIOUS
  <2>3. SumDays(SameEvent(q.emp, q.type, q.event))' = SumDays(SameEvent(q.emp, q.type, q.event))
    BY <1>1, <1>2 DEF SumDays
  <2>4. Allowed(q.type, n)
    BY <1>6, <2>1, <2>2 DEF Fits
  <2>5. Allowed(q.type, n)'
    BY <1>4, <1>6, <2>4
  <2> QED BY <2>2, <2>3, <2>5 DEF Allowed
<1> QED BY <1>1, <1>2, <1>4, <1>5, <1>6

(* The allowance of an event, put in the terms of these proofs.             *)
LEMMA WithinAllowance ==
  EventWithinAllowance <=>
    \A e \in Employees, t \in Types, ev \in EventDates :
      SameEvent(e, t, ev) # {} => Allowed(t, SumDays(SameEvent(e, t, ev)))
BY DEF EventWithinAllowance, SameEvent, Allowed

(* A handler that does not move stays in order.                             *)
LEMMA StillOK ==
  ASSUME Shape, EventsFit, UNCHANGED request, Grows, NEW d \in Calls, call'[d] = call[d]
  PROVE  EventOK(call[d])'
<1>1. PICK k : k = call[d] /\ k = call'[d]
  OBVIOUS
<1>2. EventOK(k) /\ CallOK(k)
  BY <1>1 DEF EventsFit, Shape
<1>3. k.pc = "insert" => EventRow(k.snap) /\ Fits(k.snap)'
  <2>1. k.pc = "insert" => k.snap.type \in Types
    BY <1>2 DEF CallOK, Stopped
  <2> QED BY <1>2, <2>1, FitsKept DEF EventOK
<1>4. Approving(k) => k.snap.type \in Types /\ k.r \in Reqs
  BY <1>2 DEF CallOK, Stopped, Approving, Posting, Deciding
<1>5. Approving(k) /\ Needs(k.snap.type)' => docs'[k.r] # "NONE"
  <2>1. Approving(k) /\ Needs(k.snap.type) => docs[k.r] # "NONE"
    BY <1>2 DEF EventOK
  <2>2. Approving(k) /\ Needs(k.snap.type)' => Needs(k.snap.type)
    BY <1>4, FitsKept
  <2> QED BY <1>4, <2>1, <2>2 DEF Grows, DocsStay
<1>6. EventOK(k)'
  BY <1>3, <1>5 DEF EventOK, Approving, Posting, EventRow
<1> QED BY <1>1, <1>6

(* A handler moves and writes no request. *)
LEMMA OneHandlerFits ==
  ASSUME Shape, EventsFit, UNCHANGED request, Grows,
         NEW c \in Calls, OnlyMoves(c), EventOK(call[c])'
  PROVE  EventsFit'
<1>1. ASSUME NEW d \in Calls PROVE EventOK(call[d])'
  <2>1. CASE d = c
    BY <2>1
  <2>2. CASE d # c
    BY <2>2, StillOK DEF OnlyMoves
  <2> QED BY <2>1, <2>2
<1>2. \A r \in Reqs : EventRow(request[r])'
  BY DEF EventsFit, EventRow
<1>3. EventWithinAllowance'
  <2>1. SUFFICES ASSUME NEW e \in Employees, NEW t \in Types, NEW ev \in EventDates,
                        SameEvent(e, t, ev)' # {}
                 PROVE  Allowed(t, SumDays(SameEvent(e, t, ev)))'
    BY DEF EventWithinAllowance, SameEvent, Allowed
  <2>2. PICK n : n = SumDays(SameEvent(e, t, ev))
    OBVIOUS
  <2>3. SumDays(SameEvent(e, t, ev))' = n /\ SameEvent(e, t, ev) # {}
    BY <2>1, <2>2, FitsKept DEF SumDays
  <2>4. Allowed(t, n)
    BY <2>2, <2>3, WithinAllowance DEF EventsFit
  <2>5. Allowed(t, n)'
    BY <2>4, FitsKept
  <2> QED BY <2>3, <2>5 DEF Allowed
<1>4. ApprovedIsDocumented'
  <2>1. SUFFICES ASSUME NEW r \in Reqs, request[r].status = "APPROVED", Needs(request[r].type)'
                 PROVE  docs'[r] # "NONE"
    BY DEF ApprovedIsDocumented, Needs
  <2>2. request[r].type \in Types
    BY <2>1 DEF Shape, RowOK
  <2>3. Needs(request[r].type)
    BY <2>1, <2>2, FitsKept
  <2>4. docs[r] # "NONE"
    BY <2>1, <2>3 DEF EventsFit, ApprovedIsDocumented, Needs
  <2> QED BY <2>4 DEF Grows, DocsStay
<1>5. Inserted' = Inserted
  BY DEF Inserted
<1> QED BY <1>1, <1>2, <1>3, <1>4, <1>5 DEF EventsFit, Grows

(* apply() reads what the event's other requests take: what it will insert  *)
(* fits.                                                                    *)
LEMMA ApplyFits ==
  ASSUME Shape, EventsFit, UNCHANGED <<policy, configured>>,
         \A p \in PolicyChoices : p.reduced <= p.perEvent, NEW c \in Calls, ReadApply(c)
  PROVE  EventsFit'
<1> DEFINE row(e, t, from, to, half, event) == NewRequest(e, t, from, to, half, event)
<1>1. PICK e \in Applicants, t \in Types, from \in Days, to \in Days, half \in HalfDays,
           event \in EventDates \cup {NoDay} :
        /\ ApplyAccepts(row(e, t, from, to, half, event), event)
        /\ call' = [call EXCEPT ![c] =
             [Idle EXCEPT !.pc = "insert", !.op = "APPLY", !.by = e,
                          !.snap = row(e, t, from, to, half, event)]]
  BY Zenon DEF ReadApply
<1>2. PICK p : p = policy[t]
  OBVIOUS
<1>3. p \in PolicyChoices /\ p.reduced <= p.perEvent /\ e \in Employees
  BY <1>2, LeaveConstants DEF Shape, TypeOK, TablesOK, LeaveConstants
<1>4. PICK q : q = row(e, t, from, to, half, event)
  OBVIOUS
<1>5. q \in RequestRows /\ q.emp = e /\ q.type = t /\ q.from = from
  BY <1>4, NewRequestRow
<1>6. /\ q.to = to /\ q.half = half
      /\ q.event = (IF p.mode = "ON_EVENT" THEN event ELSE NoDay)
      /\ p.mode = "ON_EVENT" => ~q.lop
      /\ q.days = (IF p.mode = "ON_EVENT" /\ p.calendar THEN calendarDays(from, to)
                   ELSE IF half THEN 1 ELSE countWorkingDays(from, to, holidays))
  BY <1>2, <1>4 DEF NewRequest
<1>7. /\ q.from <= q.to
      /\ p.mode = "ON_EVENT" => eventRequestOk(p, q.emp, q.type, event, q.from, q.half, q.days)
  BY <1>1, <1>2, <1>4, <1>5 DEF ApplyAccepts
<1>8. q.days \in Int /\ q.days >= 0
  BY <1>5, <1>6, <1>7, DaysAreNatural DEF RequestRows
<1>9. EventRow(q)
  BY <1>6, <1>8 DEF EventRow
<1>10. Fits(q)
  <2>1. PICK taken : taken = SumDays(SameEvent(e, t, q.event))
    OBVIOUS
  <2>2. SUFFICES ASSUME q.event # NoDay PROVE Allowed(t, taken + q.days)
    BY <1>5, <2>1 DEF Fits
  <2>3. p.mode = "ON_EVENT" /\ q.event = event /\ event \in EventDates
    BY <1>6, <2>2
  <2>4. PICK n : q.days <= AtLeastZero(eventAllowance(p, n) - taken)
    BY <1>5, <1>7, <2>1, <2>3 DEF eventRequestOk, SameEvent
  <2>5. taken \in Int
    BY <2>1, SameEventDays
  <2>6. taken + q.days <= p.perEvent \/ q.days = 0
    BY <1>3, <1>8, <2>4, <2>5, AllowanceFits
  <2>7. p \in configured[t]
    BY <1>2 DEF EventsFit
  <2>8. CASE taken + q.days <= p.perEvent
    BY <2>3, <2>7, <2>8 DEF Allowed
  <2>9. CASE q.days = 0 /\ SameEvent(e, t, q.event) = {}
    <3>1. taken = 0
      BY <2>1, <2>9, SumEmpty DEF SumDays
    <3>2. p.perEvent \in Nat
      BY <1>3, LeaveConstants DEF LeaveConstants
    <3>3. taken + q.days <= p.perEvent
      BY <2>9, <3>1, <3>2
    <3> QED BY <2>8, <3>3
  <2>10. CASE q.days = 0 /\ SameEvent(e, t, q.event) # {}
    <3>1. Allowed(t, taken)
      BY <1>3, <2>1, <2>3, <2>10, WithinAllowance DEF EventsFit
    <3>2. taken + q.days = taken
      BY <2>5, <2>10
    <3> QED BY <3>1, <3>2
  <2> QED BY <2>6, <2>8, <2>9, <2>10
<1>11. UNCHANGED <<request, docs>>
  BY DEF ReadApply, tables
<1>12. call \in [Calls -> CallRows]
  BY DEF Shape, TypeOK
<1>13. OnlyMoves(c) /\ call'[c].pc = "insert" /\ call'[c].snap = q
  BY <1>1, <1>4, <1>12 DEF OnlyMoves, Idle
<1>14. Grows
  BY <1>11, SteadyGrows DEF DocsStay
<1>15. Fits(q)'
  BY <1>5, <1>10, <1>11, <1>14, FitsKept
<1>16. EventOK(call[c])'
  BY <1>9, <1>13, <1>15 DEF EventOK, Approving, Posting, EventRow
<1> QED BY <1>11, <1>13, <1>14, <1>16, OneHandlerFits

(* The other calls read a request and decide nothing yet.                   *)
LEMMA StartFits ==
  ASSUME Shape, EventsFit, UNCHANGED <<policy, configured>>,
         \A p \in PolicyChoices : p.reduced <= p.perEvent, NEW c \in UserCalls, Start(c)
  PROVE  EventsFit'
<1>1. c \in Calls /\ call \in [Calls -> CallRows]
  BY DEF Calls, Shape, TypeOK
<1> DEFINE Decides == /\ UNCHANGED <<request, docs>> /\ OnlyMoves(c)
                      /\ call'[c].pc # "insert"
                      /\ call'[c].op # "APPROVE" \/ call'[c].pc \in {"route", "settle"}
<1>2. ASSUME Decides PROVE EventsFit'
  <2>1. EventOK(call[c])'
    BY <1>2 DEF EventOK, Approving, Posting
  <2>2. Grows
    BY <1>2, SteadyGrows DEF DocsStay
  <2> QED BY <1>1, <1>2, <2>1, <2>2, OneHandlerFits
<1>3. CASE \E u \in Employees, r \in Reqs : ReadAttach(c, u, r)
  <2>1. Decides
    BY <1>1, <1>3 DEF ReadAttach, Idle, OnlyMoves, tables
  <2> QED BY <1>2, <2>1
<1>4. CASE \E u \in Employees, r \in Reqs : ReadApprove(c, u, r)
  <2>1. Decides
    BY <1>1, <1>4 DEF ReadApprove, Idle, OnlyMoves, tables
  <2> QED BY <1>2, <2>1
<1>5. CASE \E u \in Employees, r \in Reqs : ReadReject(c, u, r)
  <2>1. Decides
    BY <1>1, <1>5 DEF ReadReject, Idle, OnlyMoves, tables
  <2> QED BY <1>2, <2>1
<1>6. CASE \E u \in Employees, r \in Reqs : ReadCancel(c, u, r)
  <2>1. Decides
    BY <1>1, <1>6 DEF ReadCancel, Idle, OnlyMoves, tables
  <2> QED BY <1>2, <2>1
<1>7. CASE \E u \in Admins, e \in Applicants, t \in Types, y \in Years, delta \in AdjustDeltas :
             StartAdjust(c, u, e, t, y, delta)
  <2>1. Decides
    BY <1>1, <1>7 DEF StartAdjust, Idle, OnlyMoves, tables
  <2> QED BY <1>2, <2>1
<1> QED BY <1>1, <1>3, <1>4, <1>5, <1>6, <1>7, ApplyFits DEF Start

LEMMA TakeJobFits ==
  ASSUME Shape, EventsFit, UNCHANGED <<policy, configured>>, TakeJob
  PROVE  EventsFit'
<1>1. Worker \in Calls /\ call \in [Calls -> CallRows]
  BY DEF Calls, Shape, TypeOK
<1>2. /\ UNCHANGED <<request, docs>> /\ OnlyMoves(Worker)
      /\ call'[Worker].pc \in {"write", "done"} /\ call'[Worker].op # "APPROVE"
  BY <1>1 DEF TakeJob, OnlyMoves, Idle, tables
<1>3. EventOK(call[Worker])'
  BY <1>2 DEF EventOK, Approving
<1>4. Grows
  BY <1>2, SteadyGrows DEF DocsStay
<1> QED BY <1>1, <1>2, <1>3, <1>4, OneHandlerFits

(* finalApprove() goes on only with the document there.                     *)
LEMMA SettleFits ==
  ASSUME Shape, EventsFit, UNCHANGED <<policy, configured>>, NEW c \in Calls, Settle(c)
  PROVE  EventsFit'
<1>0. PICK k, l : k = call[c] /\ l = call'[c]
  OBVIOUS
<1>1. call \in [Calls -> CallRows] /\ k \in CallRows /\ k.snap.type \in Types /\ k.pc = "settle"
  BY <1>0 DEF Shape, TypeOK, CallOK, Settle, Stopped
<1>2. UNCHANGED <<request, docs>> /\ OnlyMoves(c)
  BY <1>1 DEF Settle, Return, OnlyMoves, tables
<1>3. Grows
  BY <1>2, SteadyGrows DEF DocsStay
<1>4. CASE l = Returned(k)
  <2>1. l.pc = "done"
    BY <1>1, <1>4, ReturnedRow
  <2>2. EventOK(call[c])'
    BY <1>0, <2>1 DEF EventOK, Approving, Posting
  <2> QED BY <1>2, <1>3, <2>2, OneHandlerFits
<1>5. CASE /\ l.pc = "post" /\ l.op = k.op /\ l.r = k.r /\ l.snap = k.snap
           /\ k.op = "APPROVE" => ~LacksDocument(k, policy[k.snap.type])
  <2>1. Approving(l) => ~LacksDocument(k, policy[k.snap.type])
    BY <1>5 DEF Approving
  <2>2. policy[k.snap.type] \in configured[k.snap.type]
    BY <1>1 DEF EventsFit
  <2>3. Approving(l) /\ Needs(l.snap.type) => docs[l.r] = "LIVE"
    BY <1>5, <2>1, <2>2 DEF LacksDocument, Needs
  <2>4. Approving(l) /\ Needs(l.snap.type)' => docs'[l.r] # "NONE"
    BY <1>2, <2>3 DEF Needs
  <2>5. EventOK(call[c])'
    BY <1>0, <1>5, <2>4 DEF EventOK, Approving, Posting
  <2> QED BY <1>2, <1>3, <2>5, OneHandlerFits
<1> QED BY <1>0, <1>1, <1>4, <1>5 DEF Settle, Return, CallRows

(* Past that check a handler goes on with the request it read.              *)
LEMMA PassingFits ==
  ASSUME Shape, EventsFit, UNCHANGED <<policy, configured>>, NEW c \in Calls,
         \/ Upload(c) \/ RouteL1(c) \/ Post(c) \/ WriteLedger(c) \/ ReadHolidays(c)
         \/ SyncDay(c) \/ SyncDone(c) \/ RecordDecision(c) \/ Finish(c)
  PROVE  EventsFit'
<1>0. PICK k, l : k = call[c] /\ l = call'[c]
  OBVIOUS
<1>1. call \in [Calls -> CallRows] /\ k \in CallRows
  BY <1>0 DEF Shape, TypeOK
<1> DEFINE Passes == /\ UNCHANGED request /\ DocsStay /\ OnlyMoves(c)
                     /\ l.pc # "insert"
                     /\ Approving(l) => Approving(k) /\ l.r = k.r /\ l.snap = k.snap
<1>2. ASSUME Passes PROVE EventsFit'
  <2>1. EventOK(k) /\ CallOK(k)
    BY <1>0 DEF EventsFit, Shape
  <2>2. Grows
    BY <1>2, SteadyGrows
  <2>3. Approving(k) => k.r \in Reqs
    BY <2>1 DEF CallOK, Stopped, Approving, Posting, Deciding
  <2>4. Approving(l) /\ Needs(l.snap.type)' => docs[l.r] # "NONE" /\ l.r \in Reqs
    BY <1>2, <2>1, <2>3 DEF EventOK, Needs
  <2>5. Approving(l) /\ Needs(l.snap.type)' => docs'[l.r] # "NONE"
    BY <1>2, <2>4 DEF DocsStay
  <2>6. EventOK(call[c])'
    BY <1>0, <1>2, <2>5 DEF EventOK, Approving, Posting
  <2> QED BY <1>2, <2>2, <2>6, OneHandlerFits
<1>3. CASE Upload(c) \/ Finish(c)
  <2>1. UNCHANGED request /\ OnlyMoves(c) /\ l = Returned(k)
    BY <1>0, <1>1, <1>3 DEF Upload, Finish, Return, OnlyMoves, tables
  <2>2. DocsStay
    <3>1. docs \in [Reqs -> {"NONE", "LIVE", "DELETED"}]
      BY DEF Shape, TypeOK, TablesOK
    <3>2. docs' = docs \/ \E r : docs' = [docs EXCEPT ![r] = "LIVE"]
      BY <1>3 DEF Upload, Finish, tables
    <3> QED BY <3>1, <3>2 DEF DocsStay
  <2>3. l.pc = "done"
    BY <1>1, <2>1, ReturnedRow
  <2>4. Passes
    BY <2>1, <2>2, <2>3 DEF Approving, Posting
  <2> QED BY <1>2, <2>4
<1>4. CASE RouteL1(c)
  <2>1. /\ UNCHANGED <<request, docs>> /\ OnlyMoves(c)
        /\ l.pc = "settle" \/ (l.pc = "write" /\ l.target = "PENDING_L2")
    BY <1>0, <1>1, <1>4 DEF RouteL1, Goto, OnlyMoves, CallRows, tables
  <2>2. Passes
    BY <2>1 DEF Approving, Posting, DocsStay
  <2> QED BY <1>2, <2>2
<1> DEFINE Kept == /\ UNCHANGED request /\ docs' = docs /\ OnlyMoves(c)
                   /\ l.op = k.op /\ l.r = k.r /\ l.snap = k.snap /\ l.target = k.target
<1>5. CASE Post(c)
  <2>1. Kept /\ k.pc = "post" /\ l.pc = "ledger"
    BY <1>0, <1>1, <1>5 DEF Post, OnlyMoves, CallRows, Goto
  <2>2. Passes
    BY <2>1 DEF Approving, Posting, DocsStay
  <2> QED BY <1>2, <2>2
<1>9. CASE WriteLedger(c)
  <2>1. Kept /\ k.pc = "ledger" /\ l.pc = "post"
    BY <1>0, <1>1, <1>9 DEF WriteLedger, OnlyMoves, CallRows
  <2>2. Passes
    BY <2>1 DEF Approving, Posting, DocsStay
  <2> QED BY <1>2, <2>2
<1>6. CASE ReadHolidays(c)
  <2>1. CASE k.op = "ADJUST"
    <3>1. UNCHANGED <<request, docs>> /\ OnlyMoves(c) /\ l = Returned(k)
      BY <1>0, <1>1, <1>6, <2>1 DEF ReadHolidays, OnlyMoves, tables
    <3>2. l.pc = "done"
      BY <1>1, <3>1, ReturnedRow
    <3>3. Passes
      BY <3>1, <3>2 DEF Approving, Posting, DocsStay
    <3> QED BY <1>2, <3>3
  <2>2. CASE k.op # "ADJUST"
    <3>1. Kept /\ k.pc = "post" /\ l.pc = "sync"
      BY <1>0, <1>1, <1>6, <2>2 DEF ReadHolidays, OnlyMoves, CallRows, tables
    <3>2. Passes
      BY <3>1 DEF Approving, Posting, DocsStay
    <3> QED BY <1>2, <3>2
  <2> QED BY <2>1, <2>2
<1>7. CASE SyncDay(c)
  <2>1. Kept /\ k.pc = "sync" /\ l.pc = "sync"
    BY <1>0, <1>1, <1>7 DEF SyncDay, OnlyMoves, CallRows
  <2>2. Passes
    BY <2>1 DEF Approving, Posting, DocsStay
  <2> QED BY <1>2, <2>2
<1>10. CASE SyncDone(c)
  <2>1. Kept /\ k.pc = "sync" /\ l.pc = "write"
    BY <1>0, <1>1, <1>10 DEF SyncDone, OnlyMoves, CallRows, tables
  <2>2. Passes
    BY <2>1 DEF Approving, Posting, DocsStay
  <2> QED BY <1>2, <2>2
<1>8. CASE RecordDecision(c)
  <2>1. Kept /\ k.pc = "write" /\ l.pc = "write" /\ l.todo = k.todo \ {"record"}
    BY <1>0, <1>1, <1>8 DEF RecordDecision, OnlyMoves, CallRows
  <2>2. Passes
    BY <2>1 DEF Approving, Posting, DocsStay
  <2> QED BY <1>2, <2>2
<1> QED BY <1>3, <1>4, <1>5, <1>6, <1>7, <1>8, <1>9, <1>10

(* A handler that writes a request, alone: what the others hold is not      *)
(* asked about.                                                             *)
LEMMA WrittenFits ==
  ASSUME NEW c \in Calls, Alone(c), OnlyMoves(c),
         call'[c].pc # "insert", Approving(call'[c]) => FALSE
  PROVE  \A d \in Calls : EventOK(call[d])'
<1>1. SUFFICES ASSUME NEW d \in Calls PROVE EventOK(call[d])'
  OBVIOUS
<1>2. CASE d = c
  BY <1>2 DEF EventOK
<1>3. CASE d # c
  <2>1. call'[d].pc \in Stopped
    BY <1>3 DEF Alone, OnlyMoves
  <2> QED BY <2>1 DEF EventOK, Approving, Posting, Stopped
<1> QED BY <1>2, <1>3

(* The inserted request joins those of its event, and they still fit.       *)
LEMMA InsertFits ==
  ASSUME Shape, Carried, EventsFit, UNCHANGED <<policy, configured>>,
         NEW c \in Calls, InsertRequest(c)
  PROVE  EventsFit'
<1>0. PICK k, l : k = call[c] /\ l = call'[c]
  OBVIOUS
<1>1. /\ call \in [Calls -> CallRows] /\ k \in CallRows /\ CallOK(k) /\ EventOK(k)
      /\ request \in [Reqs -> RequestRows] /\ UNCHANGED docs /\ k.pc = "insert"
      /\ k.pc \notin Stopped
  BY <1>0 DEF Shape, TypeOK, TablesOK, InsertRequest, EventsFit, Stopped
<1>2. PICK r0 \in Reqs : /\ request[r0].status = "NONE"
                         /\ request' = [request EXCEPT ![r0] = k.snap]
                         /\ call' = [call EXCEPT ![c].r = r0, ![c].pc = "notify"]
  BY <1>0 DEF InsertRequest, NextReq
<1>3. PICK q : q = k.snap
  OBVIOUS
<1>4. /\ q.status \in {"PENDING_L1", "PENDING_L2"} /\ q \in RequestRows
      /\ EventRow(q) /\ Fits(q)
  BY <1>1, <1>3 DEF CallOK, EventOK, CallRows
<1>5. request'[r0] = q /\ \A s \in Reqs : s # r0 => request'[s] = request[s]
  BY <1>1, <1>2, <1>3
<1>6. OnlyMoves(c) /\ l.pc = "notify"
  BY <1>0, <1>1, <1>2 DEF CallRows, OnlyMoves
<1>7. Alone(c)
  BY <1>0, <1>1, OthersRest DEF Carried
<1>8. \A d \in Calls : EventOK(call[d])'
  BY <1>0, <1>6, <1>7, WrittenFits DEF Approving, Posting
<1>9. IsFiniteSet(Inserted')
  <2>1. Inserted' = Inserted \cup {r0}
    BY <1>4, <1>5 DEF Inserted
  <2> QED BY <2>1, FS_AddElement DEF EventsFit
<1>10. \A r \in Reqs : EventRow(request[r])'
  BY <1>4, <1>5 DEF EventsFit, EventRow
<1>11. ApprovedIsDocumented'
  BY <1>1, <1>4, <1>5 DEF EventsFit, ApprovedIsDocumented
<1>12. ASSUME NEW e \in Employees, NEW t \in Types, NEW ev \in EventDates,
              SameEvent(e, t, ev)' # {}
       PROVE  Allowed(t, SumDays(SameEvent(e, t, ev))')
  <2>1. PICK S, T : S = SameEvent(e, t, ev) /\ T = SameEvent(e, t, ev)'
    OBVIOUS
  <2>2. PICK f, g : f = [r \in S |-> request[r].days] /\ g = [r \in T |-> request'[r].days]
    OBVIOUS
  <2>3. SumDays(S) = SumFunctionOnSet(f, S) /\ SumDays(SameEvent(e, t, ev))' = SumFunctionOnSet(g, T)
    BY <2>1, <2>2 DEF SumDays
  <2>4. /\ S \subseteq Reqs /\ IsFiniteSet(S) /\ SumDays(S) \in Int
        /\ \A r \in S : request[r].days \in Int
    BY <2>1, SameEventDays
  <2>5. r0 \notin S
    BY <1>2, <2>1 DEF SameEvent, ActiveOf, Active
  <2>6. S # {} => Allowed(t, SumDays(S))
    BY <2>1, WithinAllowance DEF EventsFit
  <2>7. CASE q.emp = e /\ q.type = t /\ q.event = ev
    <3>1. T = S \cup {r0}
      BY <1>4, <1>5, <2>1, <2>7 DEF SameEvent, ActiveOf, Active
    <3>2. g[r0] = q.days /\ q.days \in Int /\ \A r \in S : g[r] = f[r] /\ f[r] \in Int
      BY <1>4, <1>5, <2>2, <2>4, <2>5, <3>1 DEF RequestRows
    <3>3. SumFunctionOnSet(g, T) = q.days + SumFunctionOnSet(g, S)
      BY <2>4, <2>5, <3>1, <3>2, SumAdds
    <3>4. SumFunctionOnSet(g, S) = SumFunctionOnSet(f, S)
      BY <2>4, <3>2, SumSame
    <3>5. Allowed(t, SumDays(S) + q.days)
      <4>1. ev # NoDay
        BY LeaveConstants DEF LeaveConstants
      <4> QED BY <1>4, <2>1, <2>7, <4>1 DEF Fits
    <3>6. SumFunctionOnSet(g, T) = SumDays(S) + q.days
      BY <2>3, <2>4, <3>2, <3>3, <3>4
    <3> QED BY <2>3, <3>5, <3>6
  <2>8. CASE ~(q.emp = e /\ q.type = t /\ q.event = ev)
    <3>1. T = S
      BY <1>2, <1>5, <2>1, <2>5, <2>8 DEF SameEvent, ActiveOf, Active
    <3>2. \A r \in S : g[r] = f[r]
      BY <1>5, <2>2, <2>4, <2>5, <3>1
    <3>3. SumFunctionOnSet(g, S) = SumFunctionOnSet(f, S)
      BY <2>4, <3>2, SumSame
    <3>4. S # {}
      BY <1>12, <2>1, <3>1
    <3> QED BY <2>3, <2>6, <3>1, <3>3, <3>4
  <2> QED BY <2>7, <2>8
<1>13. EventWithinAllowance'
  BY <1>12 DEF EventWithinAllowance, SameEvent, Allowed
<1> QED BY <1>8, <1>9, <1>10, <1>11, <1>13 DEF EventsFit

(* A status that is written makes no request active that was not, and       *)
(* approves only what has its document.                                     *)
LEMMA WriteStatusFits ==
  ASSUME Shape, Signed, Carried, EventsFit, UNCHANGED <<policy, configured>>,
         NEW c \in Calls, WriteStatus(c)
  PROVE  EventsFit'
<1>0. PICK k, l : k = call[c] /\ l = call'[c]
  OBVIOUS
<1>1. /\ call \in [Calls -> CallRows] /\ k \in CallRows /\ CallOK(k) /\ EventOK(k)
      /\ request \in [Reqs -> RequestRows] /\ UNCHANGED docs /\ k.pc = "write" /\ "status" \in k.todo
      /\ k.pc \notin Stopped
  BY <1>0 DEF Shape, TypeOK, TablesOK, WriteStatus, EventsFit, Stopped
<1>2. PICK r0 : r0 = k.r
  OBVIOUS
<1>3. /\ r0 \in Reqs /\ request[r0].status # "NONE" /\ k.target # "NONE"
      /\ k.op \in {"APPROVE", "CANCEL", "REJECT", "ESCALATE"}
  BY <1>1, <1>2 DEF CallOK, Deciding
<1>4. /\ \A s \in Reqs \ {r0} : request'[s] = request[s]
      /\ request'[r0] = [request[r0] EXCEPT !.status = k.target]
  BY <1>0, <1>1, <1>2, <1>3 DEF WriteStatus
<1>5. /\ request'[r0].status = k.target
      /\ \A s \in Reqs : /\ request'[s].emp = request[s].emp /\ request'[s].type = request[s].type
                         /\ request'[s].days = request[s].days /\ request'[s].lop = request[s].lop
                         /\ request'[s].event = request[s].event
  <2>1. request[r0] \in RequestRows
    BY <1>1, <1>3
  <2> QED BY <1>4, <2>1 DEF RequestRows
<1>6. OnlyMoves(c) /\ l.pc = "write" /\ "status" \notin l.todo
  BY <1>0, <1>1 DEF WriteStatus, CallRows, OnlyMoves
<1>7. Alone(c) /\ ReadIsCurrent(k)
  BY <1>0, <1>1, OthersRest DEF Carried, InOrder
<1>8. k.op \in {"APPROVE", "ESCALATE"} =>
        k.snap = request[r0] /\ request[r0].status \in {"PENDING_L1", "PENDING_L2"}
  BY <1>1, <1>2, <1>7 DEF ReadIsCurrent, Unwritten, Posting
<1>9. \A d \in Calls : EventOK(call[d])'
  BY <1>0, <1>6, <1>7, WrittenFits DEF Approving, Posting
<1>10. Inserted' = Inserted
  BY <1>3, <1>4, <1>5 DEF Inserted
<1>11. \A r \in Reqs : EventRow(request[r])'
  BY <1>5 DEF EventsFit, EventRow
<1>12. ApprovedIsDocumented'
  <2>1. SUFFICES ASSUME NEW r \in Reqs, request'[r].status = "APPROVED", Needs(request[r].type)
                 PROVE  docs[r] # "NONE"
    BY <1>1, <1>5 DEF ApprovedIsDocumented, Needs
  <2>2. CASE r # r0
    BY <1>4, <2>1, <2>2 DEF EventsFit, ApprovedIsDocumented, Needs
  <2>3. CASE r = r0
    <3>1. k.target = "APPROVED"
      BY <1>5, <2>1, <2>3
    <3>2. k.op = "APPROVE"
      BY <1>0, <1>1, <3>1 DEF Signed
    <3>3. Needs(k.snap.type) => docs[k.r] # "NONE"
      BY <1>1, <3>1, <3>2 DEF EventOK, Approving, Posting
    <3> QED BY <1>2, <1>8, <2>1, <2>3, <3>2, <3>3
  <2> QED BY <2>2, <2>3
<1>13. k.target \in Active => request[r0].status \in Active
  BY <1>0, <1>1, <1>3, <1>7, <1>8 DEF Active, CallOK, ReadIsCurrent
<1>14. ASSUME NEW e \in Employees, NEW t \in Types, NEW ev \in EventDates,
              SameEvent(e, t, ev)' # {}
       PROVE  Allowed(t, SumDays(SameEvent(e, t, ev))')
  <2>1. PICK S, T : S = SameEvent(e, t, ev) /\ T = SameEvent(e, t, ev)'
    OBVIOUS
  <2>2. PICK f, g : f = [r \in S |-> request[r].days] /\ g = [r \in T |-> request'[r].days]
    OBVIOUS
  <2>3. SumDays(S) = SumFunctionOnSet(f, S) /\ SumDays(SameEvent(e, t, ev))' = SumFunctionOnSet(g, T)
    BY <2>1, <2>2 DEF SumDays
  <2>4. /\ S \subseteq Reqs /\ IsFiniteSet(S) /\ SumDays(S) \in Int
        /\ \A r \in S : request[r].days \in Int /\ request[r].days >= 0
    BY <2>1, SameEventDays
  <2>5. S # {} => Allowed(t, SumDays(S))
    BY <2>1, WithinAllowance DEF EventsFit
  <2>6. T = S \/ (r0 \in S /\ T = S \ {r0})
    <3>1. \A s \in Reqs \ {r0} : s \in T <=> s \in S
      BY <1>4, <2>1 DEF SameEvent, ActiveOf
    <3>2. r0 \in T => r0 \in S
      BY <1>3, <1>5, <1>13, <2>1 DEF SameEvent, ActiveOf
    <3>3. T \subseteq Reqs
      BY <2>1 DEF SameEvent, ActiveOf
    <3>4. S \subseteq Reqs
      BY <2>4
    <3>5. CASE r0 \in T
      <4>1. \A s \in Reqs : s \in T <=> s \in S
        BY <3>1, <3>2, <3>5
      <4>2. T = S
        BY <3>3, <3>4, <4>1
      <4> QED BY <4>2
    <3>6. CASE r0 \notin T
      <4>1. T = S \ {r0}
        BY <3>1, <3>3, <3>4, <3>6
      <4> QED BY <4>1
    <3> QED BY <3>5, <3>6
  <2>7. IsFiniteSet(T) /\ T \subseteq S
    BY <2>4, <2>6, FS_Subset
  <2>8. \A r \in T : g[r] = f[r]
    BY <1>5, <2>2, <2>4, <2>7
  <2>9. \A r \in S : f[r] \in Int /\ f[r] >= 0
    BY <2>2, <2>4
  <2>10. SumFunctionOnSet(g, T) = SumFunctionOnSet(f, T)
    BY <2>7, <2>8, SumSame
  <2>11. SumFunctionOnSet(f, T) <= SumFunctionOnSet(f, S)
    <3>1. CASE T = S
      BY <2>3, <2>4, <3>1
    <3>2. CASE r0 \in S /\ T = S \ {r0}
      <4>1. SumFunctionOnSet(f, S) = f[r0] + SumFunctionOnSet(f, T)
        BY <2>4, <2>9, <3>2, SumTakes
      <4>2. SumFunctionOnSet(f, T) \in Int
        BY <2>7, <2>9, SumIsInt
      <4> QED BY <2>9, <3>2, <4>1, <4>2
    <3> QED BY <2>6, <3>1, <3>2
  <2>12. PICK p \in configured[t] : p.mode = "ON_EVENT" /\ SumDays(S) <= p.perEvent
    <3>1. S # {}
      BY <1>14, <2>1, <2>7
    <3> QED BY <2>5, <3>1 DEF Allowed
  <2>13. SumFunctionOnSet(f, T) \in Int /\ p.perEvent \in Int
    <3>1. p \in PolicyChoices
      BY DEF Shape, TypeOK, TablesOK
    <3>2. p.perEvent \in Nat
      BY <3>1, LeaveConstants DEF LeaveConstants
    <3> QED BY <2>7, <2>9, <3>2, SumIsInt
  <2>14. SumFunctionOnSet(g, T) <= p.perEvent
    BY <2>3, <2>4, <2>10, <2>11, <2>12, <2>13
  <2> QED BY <2>3, <2>12, <2>14 DEF Allowed
<1>15. EventWithinAllowance'
  BY <1>14 DEF EventWithinAllowance, SameEvent, Allowed
<1> QED BY <1>9, <1>10, <1>11, <1>12, <1>15 DEF EventsFit

(* HR edits a leave type, or deletes a document. *)
LEMMA EnvironmentFits ==
  ASSUME Shape, EventsFit, Environment \/ AccrualWorkerTakesJob \/ UNCHANGED vars
  PROVE  EventsFit'
<1>1. UNCHANGED <<request, call>>
  BY DEF Environment, updateSettings, updateType, editHolidays, softDelete, clockIn,
     AccrualWorkerTakesJob, vars, tables
<1>2. /\ policy \in [Types -> PolicyChoices] /\ configured \in [Types -> SUBSET PolicyChoices]
      /\ docs \in [Reqs -> {"NONE", "LIVE", "DELETED"}]
  BY DEF Shape, TypeOK, TablesOK
<1>3. Grows
  <2>1. CASE updateType
    <3>1. PICK t0 \in Types, p \in PolicyChoices :
            /\ policy' = [policy EXCEPT ![t0] = p]
            /\ configured' = [configured EXCEPT ![t0] = @ \cup {p}]
      BY <2>1 DEF updateType
    <3>2. UNCHANGED docs
      BY <2>1 DEF updateType, tables
    <3>3. ASSUME NEW t \in Types
          PROVE  configured[t] \subseteq configured'[t] /\ policy'[t] \in configured'[t]
      <4>1. CASE t = t0
        BY <1>2, <3>1, <4>1
      <4>2. CASE t # t0
        BY <1>2, <3>1, <4>2 DEF EventsFit
      <4> QED BY <4>1, <4>2
    <3> QED BY <3>2, <3>3 DEF Grows, DocsStay
  <2>2. CASE \E r \in Reqs : softDelete(r)
    <3>1. PICK r0 \in Reqs : docs' = [docs EXCEPT ![r0] = "DELETED"]
      BY <2>2 DEF softDelete
    <3>2. UNCHANGED <<policy, configured>>
      BY <2>2 DEF softDelete, config
    <3>3. DocsStay
      BY <1>2, <3>1 DEF DocsStay
    <3> QED BY <3>2, <3>3, SteadyGrows
  <2>3. CASE UNCHANGED <<policy, configured, docs>>
    BY <2>3, SteadyGrows DEF DocsStay
  <2>4. updateType \/ (\E r \in Reqs : softDelete(r)) \/ UNCHANGED <<policy, configured, docs>>
    BY DEF Environment, updateSettings, editHolidays, clockIn, AccrualWorkerTakesJob, vars, tables,
       config
  <2> QED BY <2>1, <2>2, <2>3, <2>4
<1>4. Worker \in Calls /\ OnlyMoves(Worker)
  BY <1>1 DEF Calls, OnlyMoves
<1>5. EventOK(call[Worker])'
  <2>1. call'[Worker] = call[Worker]
    BY <1>1
  <2> QED BY <1>1, <1>3, <1>4, <2>1, StillOK
<1> QED BY <1>1, <1>3, <1>4, <1>5, OneHandlerFits

LEMMA NextFits ==
  ASSUME ~MayFail, \A p \in PolicyChoices : p.reduced <= p.perEvent
  PROVE  Shape /\ Signed /\ Carried /\ EventsFit /\ [Next]_vars => EventsFit'
<1> SUFFICES ASSUME Shape, Signed, Carried, EventsFit, [Next]_vars PROVE EventsFit'
  OBVIOUS
<1>1. ASSUME NEW c \in Calls, Step(c) PROVE EventsFit'
  <2>1. UNCHANGED <<policy, configured>>
    BY <1>1, HandlersKeepTypes
  <2> QED BY <1>1, <2>1, InsertFits, SettleFits, WriteStatusFits, PassingFits DEF Step
<1>2. ASSUME NEW c \in UserCalls, Start(c) PROVE EventsFit'
  <2>1. UNCHANGED <<policy, configured>>
    BY <1>2, HandlersKeepTypes
  <2> QED BY <1>2, <2>1, StartFits
<1>3. CASE TakeJob
  <2>1. UNCHANGED <<policy, configured>>
    BY <1>3, HandlersKeepTypes
  <2> QED BY <1>3, <2>1, TakeJobFits
<1>4. ASSUME NEW c \in Calls PROVE ~Fail(c)
  BY DEF Fail
<1>5. CASE Environment \/ AccrualWorkerTakesJob \/ UNCHANGED vars
  BY <1>5, EnvironmentFits
<1> QED BY <1>1, <1>2, <1>3, <1>4, <1>5 DEF Next

LEMMA InitFits == Init => EventsFit
<1> SUFFICES ASSUME Init PROVE EventsFit
  OBVIOUS
<1>1. \A c \in Calls : call[c].pc = "idle"
  BY DEF Init, Idle
<1>2. \A r \in Reqs : request[r] = NoRequest
  BY DEF Init
<1>3. \A r \in Reqs : request[r].status = "NONE" /\ request[r].days = 0 /\ request[r].event = NoDay
  BY <1>2 DEF NoRequest
<1>4. Inserted = {} /\ IsFiniteSet({})
  BY <1>3, FS_EmptySet DEF Inserted
<1>5. \A r \in Reqs : EventRow(request[r])
  BY <1>3 DEF EventRow
<1>6. \A c \in Calls : EventOK(call[c])
  BY <1>1 DEF EventOK, Approving, Posting
<1>7. ApprovedIsDocumented
  BY <1>3 DEF ApprovedIsDocumented
<1>8. EventWithinAllowance
  <2>1. SUFFICES ASSUME NEW e \in Employees, NEW t \in Types, NEW ev \in EventDates
                 PROVE  SameEvent(e, t, ev) = {}
    BY WithinAllowance
  <2> QED BY <1>3 DEF SameEvent, ActiveOf, Active
<1>9. \A t \in Types : policy[t] \in configured[t]
  BY DEF Init
<1> QED BY <1>4, <1>5, <1>6, <1>7, <1>8, <1>9 DEF EventsFit
----------------------------------------------------------------------------
(* A handler that is alone moves and posts nothing: what it has left to     *)
(* post for each event request must still come to what is due.              *)
LEMMA OneHandlerNets ==
  ASSUME EventsNet, UNCHANGED ledger, NEW c \in Calls, OnlyMoves(c), Alone(c),
         \A r \in Reqs : request'[r].event = request[r].event /\ request'[r].days = request[r].days,
         UnpostedOK(c)',
         \A r \in Reqs : request[r].event # NoDay =>
           NetOf(r) + Pending(call'[c], r) = Due(call'[c], c, r)
  PROVE  EventsNet'
<1>1. \A d \in Calls \ {c} : call'[d] = call[d] /\ call[d].pc \in Stopped
  BY DEF Alone, OnlyMoves
<1>2. \A d \in Calls : UnpostedOK(d)'
  <2>1. ASSUME NEW d \in Calls \ {c} PROVE UnpostedOK(d)'
    <3>1. UnpostedOK(d) /\ call'[d] = call[d]
      BY <1>1 DEF EventsNet
    <3> QED BY <3>1 DEF UnpostedOK
  <2> QED BY <2>1
<1>3. \A r : NetOf(r)' = NetOf(r)
  BY DEF NetOf
<1>4. ASSUME NEW r \in Reqs, NEW d \in Calls, request'[r].event # NoDay, Alone(d)'
      PROVE  (NetOf(r) + Pending(call[d], r) = Due(call[d], d, r))'
  <2>1. PICK k, l : k = call'[d] /\ l = call'[c]
    OBVIOUS
  <2>2. NetOf(r) + Pending(l, r) = Due(l, c, r)
    BY <1>4, <2>1
  <2>3. Due(k, d, r)' = Due(k, d, r)
    BY DEF Due, Ungranted, Withholds, Granted, Posted
  <2>4. Pending(k, r) = Pending(l, r) /\ Due(k, d, r) = Due(l, c, r)
    <3>1. CASE d = c
      BY <2>1, <3>1
    <3>2. CASE d # c
      <4>1. k.pc \in Stopped /\ l.pc \in Stopped
        BY <1>1, <1>4, <2>1, <3>2 DEF Alone
      <4>2. ~Writes(k) /\ ~Writes(l)
        BY <4>1 DEF Writes, Stopped
      <4> QED BY <4>2 DEF Pending, Due, Withholds
    <3> QED BY <3>1, <3>2
  <2>5. NetOf(r)' + Pending(k, r) = Due(k, d, r)'
    BY <1>3, <2>2, <2>3, <2>4
  <2> QED BY <2>1, <2>5 DEF Pending, Writes
<1> QED BY <1>2, <1>4 DEF EventsNet

(* So it does when as much is left as before.                               *)
LEMMA NetsKept ==
  ASSUME EventsNet, UNCHANGED ledger, NEW c \in Calls, OnlyMoves(c), Alone(c),
         \A r \in Reqs : request'[r].event = request[r].event /\ request'[r].days = request[r].days,
         UnpostedOK(c)',
         \A r \in Reqs :
           /\ Pending(call'[c], r) = Pending(call[c], r)
           /\ Withholds(call'[c], c, r) <=> Withholds(call[c], c, r)
  PROVE  EventsNet'
<1>1. ASSUME NEW r \in Reqs, request[r].event # NoDay
      PROVE  NetOf(r) + Pending(call'[c], r) = Due(call'[c], c, r)
  <2>1. NetOf(r) + Pending(call[c], r) = Due(call[c], c, r)
    BY <1>1 DEF EventsNet
  <2>2. Due(call'[c], c, r) = Due(call[c], c, r)
    BY DEF Due
  <2> QED BY <2>1, <2>2
<1> QED BY <1>1, OneHandlerNets

(* A call that writes no ledger row, or has none left to write, has nothing *)
(* to post and nothing to withhold.                                         *)
LEMMA NothingPending ==
  ASSUME NEW k, k.plan = <<>> \/ ~Writes(k)
  PROVE  \A r : Pending(k, r) = 0 /\ \A c : ~Withholds(k, c, r)
<1>1. CASE ~Writes(k)
  BY <1>1 DEF Pending, Withholds
<1>2. CASE k.plan = <<>>
  <2>1. \A source : ~Moves(k, source)
    BY <1>2 DEF Moves
  <2> QED BY <1>2, <2>1 DEF Pending, Left, Withholds
<1> QED BY <1>1, <1>2

LEMMA NetIsInt ==
  ASSUME Shape, EventsNet
  PROVE  \A r : NetOf(r) \in Int
<1>1. SUFFICES ASSUME NEW r PROVE NetOf(r) \in Int
  OBVIOUS
<1>2. PICK f, R : f = [x \in ledger |-> x.delta] /\ R = {x \in ledger : x.r = r}
  OBVIOUS
<1>3. IsFiniteSet(R)
  BY <1>2, FS_Subset DEF EventsNet
<1>4. \A x \in R : f[x] \in Int
  BY <1>2 DEF Shape, TypeOK, TablesOK, LedgerEntries
<1> QED BY <1>2, <1>3, <1>4, SumIsInt DEF NetOf

(* What finalApprove() and cancel() plan for an event request: an approval  *)
(* cancels out when the type is event-based and takes the days when it is   *)
(* not; a cancellation always cancels out.                                  *)
LEMMA EventPlans ==
  ASSUME NEW q \in RequestRows, NEW p
  PROVE  /\ Len(PlanApproval(q, p)) <= 2 /\ Len(PlanCancel(q)) <= 2
         /\ \A i \in 1..Len(PlanApproval(q, p)) :
              PlanApproval(q, p)[i].source = "EVENT_GRANT" => i = 1 /\ p.mode = "ON_EVENT"
         /\ p.mode = "ON_EVENT" /\ ~q.lop =>
              /\ Left(PlanApproval(q, p)) = 0
              /\ \E i \in 1..Len(PlanApproval(q, p)) : PlanApproval(q, p)[i].source = "EVENT_GRANT"
         /\ p.mode # "ON_EVENT" /\ ~q.lop => Left(PlanApproval(q, p)) = -q.days
         /\ q.event # NoDay /\ ~q.lop => Left(PlanCancel(q)) = 0
<1> DEFINE grant == grantEventDays(q.days)
           take  == adjustUsedDays(q.days, "REQUEST_APPROVED")
           give  == adjustUsedDays(-q.days, "REQUEST_CANCELLED")
           back  == grantEventDays(-q.days)
<1>1. /\ q.days \in Int /\ grant.delta = q.days /\ take.delta = -q.days
      /\ give.delta = -(-q.days) /\ back.delta = -q.days
      /\ grant.source = "EVENT_GRANT" /\ take.source = "REQUEST_APPROVED"
  BY DEF grantEventDays, adjustUsedDays, RequestRows
<1>2. /\ PlanApproval(q, p) \in {<<>>, <<grant>>, <<take>>, <<grant, take>>}
      /\ p.mode = "ON_EVENT" /\ ~q.lop => PlanApproval(q, p) = <<grant, take>>
      /\ p.mode # "ON_EVENT" => PlanApproval(q, p) \in {<<>>, <<take>>}
      /\ p.mode # "ON_EVENT" /\ ~q.lop => PlanApproval(q, p) = <<take>>
  <2> DEFINE s == IF p.mode = "ON_EVENT" THEN <<grant>> ELSE <<>>
             t == IF ~q.lop THEN <<take>> ELSE <<>>
  <2>1. /\ s \in {<<>>, <<grant>>} /\ t \in {<<>>, <<take>>} /\ PlanApproval(q, p) = s \o t
        /\ p.mode = "ON_EVENT" => s = <<grant>>
        /\ p.mode # "ON_EVENT" => s = <<>>
        /\ ~q.lop => t = <<take>>
    BY DEF PlanApproval
  <2> HIDE DEF s, t, grant, take
  <2>2. <<grant>> \o <<take>> = <<grant, take>>
    BY ShortJoins
  <2> QED BY <2>1, <2>2, ShortJoins
<1>3. /\ PlanCancel(q) \in {<<>>, <<give>>, <<back>>, <<give, back>>}
      /\ q.event # NoDay /\ ~q.lop => PlanCancel(q) = <<give, back>>
  <2> DEFINE s == IF ~q.lop THEN <<give>> ELSE <<>>
             t == IF q.event # NoDay THEN <<back>> ELSE <<>>
  <2>1. /\ s \in {<<>>, <<give>>} /\ t \in {<<>>, <<back>>} /\ PlanCancel(q) = s \o t
        /\ q.event # NoDay => t = <<back>>
        /\ ~q.lop => s = <<give>>
    BY DEF PlanCancel
  <2> HIDE DEF s, t, give, back
  <2>2. <<give>> \o <<back>> = <<give, back>>
    BY ShortJoins
  <2> QED BY <2>1, <2>2, ShortJoins
<1> HIDE DEF grant, take, give, back
<1>4. \A a, b : Len(<<>>) <= 2 /\ Len(<<a>>) <= 2 /\ Len(<<a, b>>) <= 2
  OBVIOUS
<1>5. \A a, b : Left(<<a, b>>) = a.delta + b.delta /\ Left(<<a>>) = a.delta
  <2>1. \A a, b : <<a, b>> # <<>> /\ Len(<<a, b>>) = 2 /\ <<a, b>>[1] = a /\ <<a, b>>[2] = b
    OBVIOUS
  <2>2. \A a : <<a>> # <<>> /\ Len(<<a>>) = 1 /\ <<a>>[1] = a
    OBVIOUS
  <2> QED BY <2>1, <2>2 DEF Left
<1>6. Left(<<grant, take>>) = 0 /\ Left(<<give, back>>) = 0 /\ Left(<<take>>) = -q.days
  BY <1>1, <1>5
<1>7. Len(PlanApproval(q, p)) <= 2 /\ Len(PlanCancel(q)) <= 2
  BY <1>2, <1>3, <1>4
<1>8. \A a, b : /\ 1 \in 1..Len(<<a, b>>) /\ <<a, b>>[1] = a /\ <<a, b>>[2] = b /\ <<a>>[1] = a
              /\ 1..Len(<<a, b>>) = {1, 2} /\ 1..Len(<<a>>) = {1} /\ 1..Len(<<>>) = {}
  OBVIOUS
<1>9. ASSUME NEW i \in 1..Len(PlanApproval(q, p)), PlanApproval(q, p)[i].source = "EVENT_GRANT"
      PROVE  i = 1 /\ p.mode = "ON_EVENT"
  <2>1. CASE PlanApproval(q, p) = <<>>
    BY <1>8, <1>9, <2>1
  <2>2. CASE PlanApproval(q, p) = <<take>>
    BY <1>1, <1>8, <1>9, <2>2
  <2>3. CASE PlanApproval(q, p) = <<grant>>
    <3>1. i = 1
      BY <1>8, <1>9, <2>3
    <3>2. grant # take
      BY <1>1
    <3>3. <<grant>> # <<>> /\ <<grant>> # <<take>>
      BY <1>8, <3>2
    <3> QED BY <1>2, <2>3, <3>1, <3>3
  <2>4. CASE PlanApproval(q, p) = <<grant, take>>
    <3>1. i = 1
      BY <1>1, <1>8, <1>9, <2>4
    <3>2. <<grant, take>> # <<>> /\ <<grant, take>> # <<take>>
      BY <1>4, <1>8
    <3> QED BY <1>2, <2>4, <3>1, <3>2
  <2> QED BY <1>2, <2>1, <2>2, <2>3, <2>4
<1>10. ASSUME p.mode = "ON_EVENT", ~q.lop
       PROVE  \E i \in 1..Len(PlanApproval(q, p)) : PlanApproval(q, p)[i].source = "EVENT_GRANT"
  <2>1. PlanApproval(q, p)[1] = grant /\ 1 \in 1..Len(PlanApproval(q, p))
    BY <1>2, <1>8, <1>10
  <2> QED BY <1>1, <2>1
<1>11. /\ p.mode = "ON_EVENT" /\ ~q.lop => Left(PlanApproval(q, p)) = 0
       /\ p.mode # "ON_EVENT" /\ ~q.lop => Left(PlanApproval(q, p)) = -q.days
       /\ q.event # NoDay /\ ~q.lop => Left(PlanCancel(q)) = 0
  BY <1>2, <1>3, <1>6
<1> QED BY <1>7, <1>9, <1>10, <1>11

(* The decision read is about the request as it is.  An approval is the     *)
(* first of its request; it withholds the grant when the type is no longer  *)
(* event-based.                                                             *)
LEMMA SettleNets ==
  ASSUME Shape, Carried, EventsFit, EventsNet, NEW c \in Calls, Settle(c)
  PROVE  EventsNet'
<1>0. PICK k, l : k = call[c] /\ l = call'[c]
  OBVIOUS
<1>1. /\ call \in [Calls -> CallRows] /\ k \in CallRows /\ CallOK(k) /\ k.pc = "settle"
      /\ k.pc \notin Stopped /\ UnpostedOK(c)
  BY <1>0 DEF Shape, TypeOK, Settle, Stopped, EventsNet
<1>2. InOrder(k) /\ Alone(c)
  BY <1>0, <1>1, OthersRest DEF Carried
<1>3. /\ k.op \in {"APPROVE", "CANCEL"} /\ k.r \in Reqs /\ k.snap \in RequestRows
      /\ k.snap = request[k.r] /\ Unwritten(k)
  <2>1. k.op \in {"APPROVE", "CANCEL"} /\ k.r \in Reqs /\ k.snap \in RequestRows
    BY <1>1 DEF CallOK, Deciding, Stopped, CallRows
  <2>2. ReadIsCurrent(k) /\ Unwritten(k)
    BY <1>1, <1>2 DEF InOrder, Unwritten
  <2> QED BY <2>1, <2>2 DEF ReadIsCurrent
<1>4. EventRow(k.snap)
  BY <1>3 DEF EventsFit
<1>5. OnlyMoves(c) /\ UNCHANGED <<request, ledger>>
  BY <1>1 DEF Settle, Return, OnlyMoves, tables
<1>6. \A x \in ledger : x.call # c
  BY <1>0, <1>1 DEF UnpostedOK
<1>7. \A r : Pending(k, r) = 0 /\ ~Withholds(k, c, r)
  BY <1>1, NothingPending DEF Writes
<1>8. CASE l = Returned(k)
  <2>1. l.pc = "done"
    BY <1>1, <1>8, ReturnedRow
  <2>2. \A r : Pending(l, r) = 0 /\ ~Withholds(l, c, r)
    BY <2>1, NothingPending DEF Writes
  <2>3. UnpostedOK(c)'
    BY <1>0, <2>1 DEF UnpostedOK, Writes
  <2> QED BY <1>0, <1>2, <1>5, <1>7, <2>2, <2>3, NetsKept
<1>9. CASE /\ l.r = k.r /\ l.op = "CANCEL" /\ l.pc = "post" /\ l.plan = PlanCancel(k.snap)
  <2>1. Len(l.plan) <= 2
    BY <1>3, <1>9, EventPlans
  <2>2. k.snap.event # NoDay => Left(l.plan) = 0
    BY <1>3, <1>4, <1>9, EventPlans DEF EventRow
  <2>3. ASSUME NEW r \in Reqs, request[r].event # NoDay
        PROVE  NetOf(r) + Pending(l, r) = Due(l, c, r)
    <3>1. NetOf(r) + Pending(k, r) = Due(k, c, r)
      BY <1>0, <1>2, <2>3 DEF EventsNet
    <3>2. Pending(l, r) = 0
      BY <1>3, <1>9, <2>2, <2>3 DEF Pending
    <3>3. ~Withholds(l, c, r)
      BY <1>9 DEF Withholds
    <3>4. Due(l, c, r) = Due(k, c, r)
      BY <1>7, <3>3 DEF Due
    <3> QED BY <1>7, <3>1, <3>2, <3>4
  <2>4. UnpostedOK(c)'
    BY <1>0, <1>5, <1>6, <1>9, <2>1 DEF UnpostedOK
  <2> QED BY <1>0, <1>2, <1>5, <2>3, <2>4, OneHandlerNets
<1>10. ASSUME l.r = k.r, l.op = "APPROVE", k.op = "APPROVE", l.pc = "post",
              l.plan = PlanApproval(k.snap, policy[k.snap.type])
       PROVE  EventsNet'
  <2>1. PICK p : p = policy[k.snap.type]
    OBVIOUS
  <2>2. /\ Len(l.plan) <= 2
        /\ \A i \in 1..Len(l.plan) :
             /\ l.plan[i].source \in {"EVENT_GRANT", "REQUEST_APPROVED"}
             /\ l.plan[i].source = "EVENT_GRANT" => i = 1
    <3>1. PICK plan : plan = PlanApproval(k.snap, p)
      OBVIOUS
    <3>2. /\ Len(plan) <= 2
          /\ \A i \in 1..Len(plan) : plan[i].source = "EVENT_GRANT" => i = 1
      BY <1>3, <3>1, EventPlans
    <3>3. \A i \in 1..Len(plan) : plan[i].source \in {"EVENT_GRANT", "REQUEST_APPROVED"}
      BY <1>3, <3>1, ApprovalSources
    <3>4. l.plan = plan
      BY <1>10, <2>1, <3>1
    <3> QED BY <3>2, <3>3, <3>4
  <2>3. UnpostedOK(c)'
    <3>1. PICK plan : plan = l.plan
      OBVIOUS
    <3>2. /\ Len(plan) <= 2
          /\ \A i \in 1..Len(plan) :
               /\ plan[i].source \in {"EVENT_GRANT", "REQUEST_APPROVED"}
               /\ plan[i].source = "EVENT_GRANT" => i = 1
      BY <2>2, <3>1
    <3>3. \A x \in ledger' : x.call # c
      BY <1>5, <1>6
    <3>4. /\ l.plan = plan /\ l.op = "APPROVE"
          /\ l.pc \notin {"idle", "insert", "upload", "route", "settle"}
      BY <1>10, <3>1
    <3>5. \A x \in ledger' : ~(x.call = c)
      BY <3>3
    <3>6. ASSUME NEW i \in 1..Len(plan)
          PROVE  /\ \A x \in ledger' : x.call = c => x.source # plan[i].source
                 /\ plan[i].source \in {"EVENT_GRANT", "REQUEST_APPROVED"}
                 /\ plan[i].source = "EVENT_GRANT" => i = 1 /\ \A x \in ledger' : x.call # c
      <4>1. \A x \in ledger' : x.call = c => x.source # plan[i].source
        BY <3>5
      <4>2. /\ plan[i].source \in {"EVENT_GRANT", "REQUEST_APPROVED"}
            /\ plan[i].source = "EVENT_GRANT" => i = 1
        BY <3>2
      <4> QED BY <3>3, <4>1, <4>2
    <3> QED BY <1>0, <3>2, <3>4, <3>5, <3>6 DEF UnpostedOK
  <2>4. ~Ungranted(k.r)
    <3>1. k.snap.status \in {"PENDING_L1", "PENDING_L2"}
      BY <1>2, <1>3, <1>10 DEF InOrder, ReadIsCurrent
    <3>2. Netted(k.r)
      <4>1. ~InHand(k)
        BY <1>1 DEF InHand, Approving, Cancelling, Posting
      <4>2. \A d \in Calls \ {c} : ~InHand(call[d])
        BY <1>2, InHandRuns DEF Alone
      <4> QED BY <1>0, <1>3, <4>1, <4>2 DEF Carried
    <3>3. Deductions(k.r) = {}
      BY <1>3, <3>1, <3>2 DEF Netted
    <3> QED BY <3>3 DEF Ungranted, Deductions
  <2>5. ASSUME NEW r \in Reqs, request[r].event # NoDay
        PROVE  NetOf(r) + Pending(l, r) = Due(l, c, r)
    <3>1. NetOf(r) + Pending(k, r) = Due(k, c, r)
      BY <1>0, <1>2, <2>5 DEF EventsNet
    <3>2. CASE r # k.r
      <4>1. Pending(l, r) = 0 /\ ~Withholds(l, c, r)
        BY <1>10, <3>2 DEF Pending, Withholds
      <4>2. Due(l, c, r) = Due(k, c, r)
        BY <1>7, <4>1 DEF Due
      <4> QED BY <1>7, <3>1, <4>1, <4>2
    <3>3. CASE r = k.r
      <4>1. ~k.snap.lop /\ k.snap.days = request[r].days
        BY <1>3, <1>4, <2>5, <3>3 DEF EventRow
      <4>2. NetOf(r) + 0 = 0 /\ Pending(l, r) = Left(l.plan)
        BY <1>7, <1>10, <2>4, <3>1, <3>3 DEF Due, Pending, Writes
      <4>3. CASE p.mode = "ON_EVENT"
        <5>1. Left(l.plan) = 0 /\ Moves(l, "EVENT_GRANT")
          <6>1. PICK plan : plan = PlanApproval(k.snap, p)
            OBVIOUS
          <6>2. Left(plan) = 0 /\ \E i \in 1..Len(plan) : plan[i].source = "EVENT_GRANT"
            BY <1>3, <4>1, <4>3, <6>1, EventPlans
          <6>3. l.plan = plan
            BY <1>10, <2>1, <6>1
          <6> QED BY <6>2, <6>3 DEF Moves
        <5>2. Due(l, c, r) = 0
          BY <2>4, <3>3, <5>1 DEF Due, Withholds
        <5> QED BY <4>2, <5>1, <5>2
      <4>4. CASE p.mode # "ON_EVENT"
        <5>1. Left(l.plan) = -request[r].days
          BY <1>3, <1>10, <2>1, <4>1, <4>4, EventPlans
        <5>2. ~Moves(l, "EVENT_GRANT") /\ Moves(l, "REQUEST_APPROVED")
          <6>1. PICK plan : plan = PlanApproval(k.snap, p)
            OBVIOUS
          <6>2. \A i \in 1..Len(plan) : plan[i].source # "EVENT_GRANT"
            BY <1>3, <4>4, <6>1, EventPlans
          <6>3. \E i \in 1..Len(plan) : plan[i].source = "REQUEST_APPROVED"
            BY <1>3, <4>1, <6>1, ApprovalSources
          <6>4. l.plan = plan
            BY <1>10, <2>1, <6>1
          <6> QED BY <6>2, <6>3, <6>4 DEF Moves
        <5>3. ~Granted(c, r)
          BY <1>6 DEF Granted, Posted
        <5>4. Due(l, c, r) = -request[r].days
          BY <1>10, <3>3, <5>2, <5>3 DEF Due, Withholds, Writes
        <5>5. NetOf(r) \in Int /\ request[r].days \in Int
          BY <1>3, <3>3, NetIsInt DEF RequestRows
        <5> QED BY <4>2, <5>1, <5>4, <5>5
      <4> QED BY <4>3, <4>4
    <3> QED BY <3>2, <3>3
  <2> QED BY <1>0, <1>2, <1>5, <2>3, <2>5, OneHandlerNets
<1>11. \/ l = Returned(k)
       \/ /\ l.r = k.r /\ l.pc = "post" /\ l.op = k.op
          /\ \/ k.op = "APPROVE" /\ l.plan = PlanApproval(k.snap, policy[k.snap.type])
             \/ k.op = "CANCEL" /\ l.plan = PlanCancel(k.snap)
  BY <1>0, <1>1, <1>3 DEF Settle, Return, CallRows
<1> QED BY <1>8, <1>9, <1>10, <1>11

(* A call that starts has nothing in the ledger and plans for no request.   *)
LEMMA StartNets ==
  ASSUME Shape, Carried, EventsNet, MaxInFlight <= 1, NEW c \in UserCalls, Start(c)
  PROVE  EventsNet'
<1>1. c \in Calls /\ call \in [Calls -> CallRows]
  BY DEF Calls, Shape, TypeOK
<1>2. HasSlot /\ call[c].pc = "idle"
  <2>1. CanStart(c)
    <3>1. CASE ReadApply(c)
      BY <3>1 DEF ReadApply
    <3>2. CASE \E u \in Employees, r \in Reqs :
                 \/ ReadAttach(c, u, r) \/ ReadApprove(c, u, r)
                 \/ ReadReject(c, u, r) \/ ReadCancel(c, u, r)
      BY <3>2 DEF ReadAttach, ReadApprove, ReadReject, ReadCancel
    <3>3. CASE \E u \in Admins, e \in Applicants, t \in Types, y \in Years, delta \in AdjustDeltas :
                 StartAdjust(c, u, e, t, y, delta)
      BY <3>3 DEF StartAdjust
    <3> QED BY <3>1, <3>2, <3>3 DEF Start
  <2> QED BY <2>1 DEF CanStart
<1>3. Alone(c)
  <2>1. OneAtATime
    BY DEF Carried
  <2> QED BY <1>2, <2>1, FreeSlot DEF Alone
<1>4. \A x \in ledger : x.call # c
  <2>1. UnpostedOK(c)
    BY <1>1 DEF EventsNet
  <2> QED BY <1>2, <2>1 DEF UnpostedOK
<1>5. \A r : Pending(call[c], r) = 0 /\ ~Withholds(call[c], c, r)
  BY <1>2, NothingPending DEF Writes
<1> DEFINE Reads == UNCHANGED <<request, ledger>> /\ OnlyMoves(c)
<1>6. ASSUME Reads, call'[c].pc \in {"insert", "upload", "route", "settle", "write"}
      PROVE  EventsNet'
  <2>1. UnpostedOK(c)'
    BY <1>4, <1>6 DEF UnpostedOK, Writes
  <2>2. \A r : Pending(call'[c], r) = 0 /\ ~Withholds(call'[c], c, r)
    BY <1>6, NothingPending DEF Writes
  <2> QED BY <1>1, <1>3, <1>5, <1>6, <2>1, <2>2, NetsKept
<1>7. CASE ReadApply(c)
  <2>1. Reads /\ call'[c].pc = "insert"
    BY <1>1, <1>7 DEF ReadApply, Idle, OnlyMoves, tables
  <2> QED BY <1>6, <2>1
<1>8. CASE \E u \in Employees, r \in Reqs : ReadAttach(c, u, r)
  <2>1. Reads /\ call'[c].pc = "upload"
    BY <1>1, <1>8 DEF ReadAttach, Idle, OnlyMoves, tables
  <2> QED BY <1>6, <2>1
<1>9. CASE \E u \in Employees, r \in Reqs : ReadApprove(c, u, r)
  <2>1. Reads /\ call'[c].pc \in {"route", "settle"}
    BY <1>1, <1>9 DEF ReadApprove, Idle, OnlyMoves, tables
  <2> QED BY <1>6, <2>1
<1>10. CASE \E u \in Employees, r \in Reqs : ReadReject(c, u, r)
  <2>1. Reads /\ call'[c].pc = "write"
    BY <1>1, <1>10 DEF ReadReject, Idle, OnlyMoves, tables
  <2> QED BY <1>6, <2>1
<1>11. CASE \E u \in Employees, r \in Reqs : ReadCancel(c, u, r)
  <2>1. Reads /\ call'[c].pc \in {"settle", "write"}
    BY <1>1, <1>11 DEF ReadCancel, Idle, OnlyMoves, tables
  <2> QED BY <1>6, <2>1
<1>12. CASE \E u \in Admins, e \in Applicants, t \in Types, y \in Years, delta \in AdjustDeltas :
             StartAdjust(c, u, e, t, y, delta)
  <2>1. PICK delta : /\ Reads /\ call'[c].pc = "post" /\ call'[c].r = NoReq
                     /\ call'[c].op = "ADJUST" /\ call'[c].plan = <<manualDelta(delta)>>
    BY <1>1, <1>12 DEF StartAdjust, Idle, OnlyMoves, tables
  <2>2. Len(call'[c].plan) <= 2
    BY <2>1
  <2>3. UnpostedOK(c)'
    BY <1>4, <2>1, <2>2 DEF UnpostedOK
  <2>4. \A r \in Reqs : Pending(call'[c], r) = 0 /\ ~Withholds(call'[c], c, r)
    BY <2>1, LeaveConstants DEF Pending, Withholds, LeaveConstants
  <2> QED BY <1>1, <1>3, <1>5, <2>1, <2>3, <2>4, NetsKept
<1> QED BY <1>7, <1>8, <1>9, <1>10, <1>11, <1>12 DEF Start

LEMMA TakeJobNets ==
  ASSUME Shape, Carried, EventsNet, MaxInFlight <= 1, TakeJob
  PROVE  EventsNet'
<1>1. Worker \in Calls /\ call \in [Calls -> CallRows]
  BY DEF Calls, Shape, TypeOK
<1>2. /\ UNCHANGED <<request, ledger>> /\ OnlyMoves(Worker) /\ HasSlot
      /\ call[Worker].pc \in Stopped /\ call'[Worker].pc \in {"write", "done"}
  BY <1>1 DEF TakeJob, OnlyMoves, Idle, tables
<1>3. Alone(Worker)
  <2>1. OneAtATime
    BY DEF Carried
  <2> QED BY <1>2, <2>1, FreeSlot DEF Alone
<1>4. UnpostedOK(Worker)'
  BY <1>2 DEF UnpostedOK, Writes
<1>5. /\ \A r : Pending(call[Worker], r) = 0 /\ ~Withholds(call[Worker], Worker, r)
      /\ \A r : Pending(call'[Worker], r) = 0 /\ ~Withholds(call'[Worker], Worker, r)
  BY <1>2, NothingPending DEF Writes, Stopped
<1> QED BY <1>1, <1>2, <1>3, <1>4, <1>5, NetsKept

(* A new request has no row in the ledger.                                  *)
LEMMA InsertNets ==
  ASSUME Shape, Paid, Carried, EventsNet, NEW c \in Calls, InsertRequest(c)
  PROVE  EventsNet'
<1>0. PICK k, l : k = call[c] /\ l = call'[c]
  OBVIOUS
<1>1. /\ call \in [Calls -> CallRows] /\ k \in CallRows
      /\ request \in [Reqs -> RequestRows] /\ UNCHANGED ledger /\ k.pc = "insert"
      /\ k.pc \notin Stopped
  BY <1>0 DEF Shape, TypeOK, TablesOK, InsertRequest, Stopped
<1>2. PICK r0 \in Reqs : /\ request[r0].status = "NONE"
                         /\ request' = [request EXCEPT ![r0] = k.snap]
                         /\ call' = [call EXCEPT ![c].r = r0, ![c].pc = "notify"]
  BY <1>0 DEF InsertRequest, NextReq
<1>3. \A s \in Reqs : s # r0 => request'[s] = request[s]
  BY <1>1, <1>2
<1>4. OnlyMoves(c) /\ l.pc = "notify"
  BY <1>0, <1>1, <1>2 DEF CallRows, OnlyMoves
<1>5. Alone(c)
  BY <1>0, <1>1, OthersRest DEF Carried
<1>6. \A d \in Calls : ~Writes(call[d]) /\ ~Writes(call'[d])
  <2>1. \A d \in Calls \ {c} : call'[d] = call[d] /\ call[d].pc \in Stopped
    BY <1>4, <1>5 DEF OnlyMoves, Alone
  <2> QED BY <1>0, <1>1, <1>4, <2>1 DEF Writes, Stopped
<1>7. ASSUME NEW d \in Calls
      PROVE  /\ \A r : Pending(call[d], r) = 0 /\ ~Withholds(call[d], d, r)
             /\ \A x : x = call'[d] => \A r : Pending(x, r) = 0 /\ ~Withholds(x, d, r)'
  <2>1. PICK x : x = call'[d]
    OBVIOUS
  <2>2. ~Writes(call[d]) /\ ~Writes(x)
    BY <1>6, <2>1
  <2>3. \A r : Pending(call[d], r) = 0 /\ ~Withholds(call[d], d, r)
    BY <2>2, NothingPending
  <2>4. \A r : Pending(x, r) = 0 /\ ~Withholds(x, d, r)'
    BY <2>2 DEF Pending, Withholds, Writes
  <2> QED BY <2>1, <2>3, <2>4
<1>8. \A d \in Calls : UnpostedOK(d)'
  <2>1. UnpostedOK(c)'
    BY <1>0, <1>4 DEF UnpostedOK, Writes
  <2>2. ASSUME NEW d \in Calls \ {c} PROVE UnpostedOK(d)'
    <3>1. UnpostedOK(d) /\ call'[d] = call[d]
      BY <1>4 DEF EventsNet, OnlyMoves
    <3> QED BY <1>1, <3>1 DEF UnpostedOK
  <2> QED BY <2>1, <2>2
<1>9. \A r : NetOf(r)' = NetOf(r)
  BY <1>1 DEF NetOf
<1>10. NetOf(r0) = 0 /\ ~Ungranted(r0)
  <2>1. {x \in ledger : x.r = r0} = {}
    BY <1>2 DEF Paid, RowsHaveRequests
  <2> QED BY <2>1, SumEmpty DEF NetOf, Ungranted, Posted
<1>11. \A r : Ungranted(r)' <=> Ungranted(r)
  BY <1>1 DEF Ungranted, Posted
<1>12. ASSUME NEW r \in Reqs, NEW d \in Calls, request'[r].event # NoDay
       PROVE  (NetOf(r) + Pending(call[d], r) = Due(call[d], d, r))'
  <2>1. PICK x : x = call'[d]
    OBVIOUS
  <2>2. Pending(x, r) = 0 /\ ~Withholds(x, d, r)'
    BY <1>7, <2>1
  <2>3. CASE r = r0
    <3>1. Due(x, d, r)' = 0
      BY <1>10, <1>11, <2>2, <2>3 DEF Due
    <3>2. NetOf(r)' + Pending(x, r) = Due(x, d, r)'
      BY <1>9, <1>10, <2>2, <2>3, <3>1
    <3> QED BY <2>1, <3>2
  <2>4. CASE r # r0
    <3>1. request[r].event # NoDay /\ request'[r] = request[r]
      BY <1>3, <1>12, <2>4
    <3>2. NetOf(r) + Pending(call[c], r) = Due(call[c], c, r)
      BY <1>5, <3>1 DEF EventsNet
    <3>3. Pending(call[c], r) = 0 /\ ~Withholds(call[c], c, r)
      BY <1>7
    <3>4. Due(x, d, r)' = Due(call[c], c, r)
      BY <1>11, <2>2, <3>1, <3>3 DEF Due
    <3>5. NetOf(r)' + Pending(x, r) = Due(x, d, r)'
      BY <1>9, <2>2, <3>2, <3>3, <3>4
    <3> QED BY <2>1, <3>5
  <2> QED BY <2>3, <2>4
<1> QED BY <1>1, <1>8, <1>12 DEF EventsNet

(* Every other step of a handler but the ledger row itself.                 *)
LEMMA PassingNets ==
  ASSUME Shape, Carried, EventsNet, NEW c \in Calls,
         \/ Upload(c) \/ RouteL1(c) \/ Post(c) \/ ReadHolidays(c) \/ SyncDay(c) \/ SyncDone(c)
         \/ WriteStatus(c) \/ RecordDecision(c) \/ Finish(c)
  PROVE  EventsNet'
<1>0. PICK k, l : k = call[c] /\ l = call'[c]
  OBVIOUS
<1>1. /\ call \in [Calls -> CallRows] /\ k \in CallRows /\ request \in [Reqs -> RequestRows]
      /\ UnpostedOK(c)
  BY <1>0 DEF Shape, TypeOK, TablesOK, EventsNet
<1>2. ASSUME k.pc \in {"upload", "notify", "route", "post", "sync", "write"} PROVE Alone(c)
  BY <1>0, <1>2, OthersRest DEF Carried, Stopped
<1> DEFINE Passes == /\ UNCHANGED ledger /\ OnlyMoves(c)
                     /\ \A r \in Reqs : request'[r].event = request[r].event
                                        /\ request'[r].days = request[r].days
<1>3. ASSUME Passes, ~Writes(k) \/ k.plan = <<>>, ~Writes(l),
             k.pc \in {"upload", "notify", "route", "post", "sync", "write"},
             l.pc = "settle" => k.pc = "route",
             l.pc \notin {"idle", "insert", "upload", "route"}
      PROVE  EventsNet'
  <2>1. UnpostedOK(c)'
    BY <1>0, <1>1, <1>3 DEF UnpostedOK
  <2>2. \A r : /\ Pending(k, r) = 0 /\ ~Withholds(k, c, r)
              /\ Pending(l, r) = 0 /\ ~Withholds(l, c, r)
    BY <1>3, NothingPending
  <2> QED BY <1>0, <1>2, <1>3, <2>1, <2>2, NetsKept
<1>4. CASE Upload(c) \/ Finish(c)
  <2>1. /\ UNCHANGED <<request, ledger>> /\ OnlyMoves(c) /\ l = Returned(k)
        /\ k.pc \in {"upload", "notify", "write"}
    BY <1>0, <1>1, <1>4 DEF Upload, Finish, Return, OnlyMoves, tables
  <2>2. l.pc = "done"
    BY <1>1, <2>1, ReturnedRow
  <2> QED BY <1>3, <2>1, <2>2 DEF Writes
<1>5. CASE RouteL1(c)
  <2>1. UNCHANGED <<request, ledger>> /\ OnlyMoves(c) /\ k.pc = "route" /\ l.pc \in {"settle", "write"}
    BY <1>0, <1>1, <1>5 DEF RouteL1, Goto, OnlyMoves, CallRows, tables
  <2> QED BY <1>3, <2>1 DEF Writes
<1>6. CASE ReadHolidays(c)
  <2>1. UNCHANGED <<request, ledger>> /\ OnlyMoves(c) /\ k.pc = "post" /\ k.plan = <<>>
    BY <1>0, <1>1, <1>6 DEF ReadHolidays, OnlyMoves, tables
  <2>2. l.pc \in {"done", "sync"}
    <3>1. l = Returned(k) \/ l.pc = "sync"
      BY <1>0, <1>1, <1>6 DEF ReadHolidays, CallRows
    <3> QED BY <1>1, <3>1, ReturnedRow
  <2> QED BY <1>3, <2>1, <2>2 DEF Writes
<1>7. CASE SyncDay(c)
  <2>1. UNCHANGED <<request, ledger>> /\ k.pc = "sync"
    BY <1>0, <1>7, Zenon DEF SyncDay
  <2>2. PICK d : call' = [call EXCEPT ![c].days = @ \ {d}]
    BY <1>7, Zenon DEF SyncDay
  <2>3. OnlyMoves(c) /\ l.pc = "sync"
    BY <1>0, <1>1, <2>1, <2>2 DEF OnlyMoves, CallRows
  <2> QED BY <1>3, <2>1, <2>3 DEF Writes
<1>8. CASE SyncDone(c)
  <2>1. UNCHANGED <<request, ledger>> /\ OnlyMoves(c) /\ k.pc = "sync" /\ l.pc = "write"
    BY <1>0, <1>1, <1>8 DEF SyncDone, OnlyMoves, CallRows, tables
  <2> QED BY <1>3, <2>1 DEF Writes
<1>9. CASE RecordDecision(c)
  <2>1. UNCHANGED <<request, ledger>> /\ OnlyMoves(c) /\ k.pc = "write" /\ l.pc = "write"
    BY <1>0, <1>1, <1>9 DEF RecordDecision, OnlyMoves, CallRows
  <2> QED BY <1>3, <2>1 DEF Writes
<1>10. CASE WriteStatus(c)
  <2>1. UNCHANGED ledger /\ OnlyMoves(c) /\ k.pc = "write" /\ l.pc = "write"
    BY <1>0, <1>1, <1>10 DEF WriteStatus, OnlyMoves, CallRows
  <2>2. request' = [request EXCEPT ![k.r].status = k.target]
    BY <1>0, <1>10 DEF WriteStatus
  <2>3. \A r \in Reqs : request'[r].event = request[r].event /\ request'[r].days = request[r].days
    BY <1>1, <2>2 DEF RequestRows
  <2> QED BY <1>3, <2>1, <2>3 DEF Writes
<1>11. CASE Post(c)
  <2>1. /\ UNCHANGED <<request, ledger>> /\ OnlyMoves(c) /\ k.pc = "post" /\ l.pc = "ledger"
        /\ l.plan = k.plan /\ l.r = k.r /\ l.op = k.op
    BY <1>0, <1>1, <1>11 DEF Post, Goto, OnlyMoves, CallRows
  <2>2. UnpostedOK(c)'
    BY <1>0, <1>1, <2>1 DEF UnpostedOK, Writes
  <2>3. \A r : Pending(l, r) = Pending(k, r) /\ (Withholds(l, c, r) <=> Withholds(k, c, r))
    BY <2>1 DEF Pending, Withholds, Moves, Writes
  <2> QED BY <1>0, <1>2, <2>1, <2>2, <2>3, NetsKept
<1> QED BY <1>4, <1>5, <1>6, <1>7, <1>8, <1>9, <1>10, <1>11

(* What is left of a plan when its first movement is posted.                *)
LEMMA LeftOfPlan ==
  ASSUME NEW plan \in Seq(Movements), plan # <<>>, Len(plan) <= 2
  PROVE  /\ Left(plan) = Head(plan).delta + Left(Tail(plan))
         /\ Left(plan) \in Int /\ Left(Tail(plan)) \in Int /\ Head(plan).delta \in Int
<1>1. PICK n, p, t : n = Len(plan) /\ p = plan /\ t = Tail(plan)
  OBVIOUS
<1>2. n \in Nat /\ n # 0
  BY <1>1, EmptySeq
<1>3. n = 1 \/ n = 2
  BY <1>1, <1>2
<1>4. /\ t \in Seq(Movements) /\ Len(t) = n - 1
      /\ \A i \in 1..Len(t) : t[i] = p[i + 1]
  BY <1>1, HeadTailProperties
<1>5. Head(plan) = p[1] /\ \A i \in 1..n : p[i] \in Movements
  BY <1>1, <1>3
<1>6. \A i \in 1..n : p[i].delta \in Int
  BY <1>5 DEF Movements
<1>7. t = <<>> <=> Len(t) = 0
  BY <1>4, EmptySeq
<1>8. CASE n = 1
  <2>1. t = <<>>
    BY <1>4, <1>7, <1>8
  <2>2. Left(p) = p[1].delta /\ Left(t) = 0
    BY <1>1, <1>8, <2>1 DEF Left
  <2>3. p[1].delta \in Int
    BY <1>6, <1>8
  <2> QED BY <1>1, <1>5, <2>2, <2>3
<1>9. CASE n = 2
  <2>1. Len(t) = 1 /\ t[1] = p[2]
    BY <1>4, <1>9
  <2>2. Left(p) = p[1].delta + p[2].delta /\ Left(t) = p[2].delta
    BY <1>1, <1>7, <1>9, <2>1 DEF Left
  <2>3. p[1].delta \in Int /\ p[2].delta \in Int
    BY <1>6, <1>9
  <2> QED BY <1>1, <1>5, <2>2, <2>3
<1> QED BY <1>3, <1>8, <1>9

(* A ledger row moves as much from what is left to what is posted; the      *)
(* deduction of an approval that granted nothing leaves the request         *)
(* ungranted.                                                               *)
LEMMA LedgerNets ==
  ASSUME Shape, Signed, Paid, Carried, EventsNet, NEW c \in Calls, WriteLedger(c)
  PROVE  EventsNet'
<1>0. PICK k, l : k = call[c] /\ l = call'[c]
  OBVIOUS
<1>1. /\ call \in [Calls -> CallRows] /\ k \in CallRows /\ CallOK(k) /\ UnpostedOK(c)
      /\ k.pc = "ledger" /\ k.pc \notin Stopped
  BY <1>0 DEF Shape, TypeOK, WriteLedger, Stopped, EventsNet
<1>2. /\ k.plan \in Seq(Movements) /\ k.plan # <<>> /\ Len(k.plan) <= 2
      /\ k.op \notin {"NONE", "ESCALATE"}
      /\ \A i \in 1..Len(k.plan) : \A x \in ledger : x.call = c => x.source # k.plan[i].source
  BY <1>0, <1>1 DEF CallRows, CallOK, UnpostedOK, Writes
<1>3. PICK m : m = Head(k.plan)
  OBVIOUS
<1>4. PICK row : row = [call |-> c, r |-> k.r, emp |-> k.snap.emp, type |-> k.snap.type,
                        source |-> m.source, delta |-> m.delta]
  OBVIOUS
<1>5. ledger' = ledger \cup {row}
  BY <1>0, <1>3, <1>4 DEF WriteLedger
<1>6. row.call = c /\ row.r = k.r /\ row.source = m.source /\ row.delta = m.delta
  BY <1>4
<1>7. /\ OnlyMoves(c) /\ UNCHANGED request
      /\ l.pc = "post" /\ l.r = k.r /\ l.op = k.op /\ l.plan = Tail(k.plan)
  BY <1>0, <1>1 DEF WriteLedger, OnlyMoves, CallRows
<1>8. /\ m = k.plan[1] /\ 1 \in 1..Len(k.plan) /\ Len(Tail(k.plan)) <= 2
      /\ \A i \in 1..Len(Tail(k.plan)) : i + 1 \in 1..Len(k.plan) /\ Tail(k.plan)[i] = k.plan[i + 1]
                                         /\ i + 1 # 1
  BY <1>2, <1>3
<1>9. row \notin ledger
  BY <1>2, <1>6, <1>8
<1>10. Alone(c) /\ Distinct(k.plan)
  BY <1>0, <1>1, OthersRest DEF Carried, InOrder, PlanIsPosted
<1>11. c \in UserCalls
  BY <1>0, <1>2 DEF Signed, Calls
<1>12. IsFiniteSet(ledger') /\ \A x \in ledger' : x.call \in UserCalls
  BY <1>5, <1>6, <1>11, FS_AddElement DEF EventsNet
<1>13. /\ k.op # "APPROVE" => ~Moves(k, "REQUEST_APPROVED")
       /\ k.op # "APPROVE" => \A x \in ledger : x.call = c => x.source # "REQUEST_APPROVED"
       /\ k.op = "APPROVE" => \A i \in 1..Len(k.plan) :
            /\ k.plan[i].source \in {"EVENT_GRANT", "REQUEST_APPROVED"}
            /\ k.plan[i].source = "EVENT_GRANT" => i = 1 /\ \A x \in ledger : x.call # c
  <2>1. PlanOK(k)
    BY <1>0 DEF Paid
  <2> QED BY <1>0, <1>1, <2>1 DEF PlanOK, UnpostedOK, Writes
<1>14. UnpostedOK(c)'
  <2>1. \A i \in 1..Len(Tail(k.plan)) : Tail(k.plan)[i].source # row.source
    BY <1>6, <1>8, <1>10 DEF Distinct
  <2>2. \A i \in 1..Len(Tail(k.plan)) :
          \A x \in ledger' : x.call = c => x.source # Tail(k.plan)[i].source
    BY <1>2, <1>5, <1>8, <2>1
  <2>3. k.op # "APPROVE" => \A x \in ledger' : x.call = c => x.source # "REQUEST_APPROVED"
    <3>1. k.op # "APPROVE" => m.source # "REQUEST_APPROVED"
      BY <1>8, <1>13 DEF Moves
    <3> QED BY <1>5, <1>6, <1>13, <3>1
  <2>4. k.op = "APPROVE" => \A i \in 1..Len(Tail(k.plan)) :
          /\ Tail(k.plan)[i].source \in {"EVENT_GRANT", "REQUEST_APPROVED"}
          /\ Tail(k.plan)[i].source # "EVENT_GRANT"
    BY <1>8, <1>13
  <2> QED BY <1>0, <1>7, <1>8, <2>2, <2>3, <2>4 DEF UnpostedOK
<1>15. ASSUME NEW d \in Calls \ {c} PROVE UnpostedOK(d)'
  <2>1. UnpostedOK(d) /\ call'[d] = call[d]
    BY <1>7 DEF EventsNet, OnlyMoves
  <2>2. call[d].pc \in Stopped
    BY <1>10 DEF Alone
  <2>3. ~Writes(call[d])
    BY <2>2 DEF Writes, Stopped
  <2> QED BY <1>5, <1>6, <2>1, <2>3 DEF UnpostedOK
<1>16. ASSUME NEW r \in Reqs, request[r].event # NoDay
       PROVE  NetOf(r)' + Pending(l, r) = NetOf(r) + Pending(k, r)
  <2>2. PICK f, g : f = [x \in ledger |-> x.delta] /\ g = [x \in ledger' |-> x.delta]
    OBVIOUS
  <2>3. PICK R, Q : R = {x \in ledger : x.r = r} /\ Q = {x \in ledger' : x.r = r}
    OBVIOUS
  <2>4. NetOf(r) = SumFunctionOnSet(f, R) /\ NetOf(r)' = SumFunctionOnSet(g, Q)
    BY <2>2, <2>3 DEF NetOf
  <2>5. IsFiniteSet(R) /\ R \subseteq ledger
    BY <2>3, FS_Subset DEF EventsNet
  <2>6. \A x \in R : f[x] \in Int /\ g[x] = f[x]
    <3>1. \A x \in ledger : x.delta \in Int
      BY DEF Shape, TypeOK, TablesOK, LedgerEntries
    <3> QED BY <1>5, <2>2, <2>5, <3>1
  <2>7. SumFunctionOnSet(g, R) = SumFunctionOnSet(f, R)
    BY <2>5, <2>6, SumSame
  <2>8. CASE r # k.r
    <3>1. Q = R
      BY <1>5, <1>6, <2>3, <2>8
    <3>2. Pending(l, r) = 0 /\ Pending(k, r) = 0
      BY <1>7, <2>8 DEF Pending
    <3> QED BY <2>4, <2>7, <3>1, <3>2
  <2>9. CASE r = k.r
    <3>1. Q = R \cup {row} /\ row \notin R
      BY <1>5, <1>6, <1>9, <2>3, <2>9
    <3>2. g[row] = m.delta /\ m.delta \in Int
      BY <1>2, <1>3, <1>5, <1>6, <2>2, LeftOfPlan
    <3>3. SumFunctionOnSet(g, Q) = m.delta + SumFunctionOnSet(g, R)
      <4>1. \A x \in R \cup {row} : g[x] \in Int
        BY <2>6, <3>2
      <4> QED BY <2>5, <3>1, <3>2, <4>1, SumAdds
    <3>4. SumFunctionOnSet(f, R) \in Int
      BY <2>5, <2>6, SumIsInt
    <3>5. Pending(k, r) = Left(k.plan) /\ Pending(l, r) = Left(Tail(k.plan))
      BY <1>1, <1>7, <2>9 DEF Pending, Writes
    <3>6. /\ Left(k.plan) = m.delta + Left(Tail(k.plan))
          /\ Left(k.plan) \in Int /\ Left(Tail(k.plan)) \in Int
      BY <1>2, <1>3, LeftOfPlan
    <3> QED BY <2>4, <2>7, <3>2, <3>3, <3>4, <3>5, <3>6
  <2> QED BY <2>8, <2>9
<1>17. ASSUME NEW r \in Reqs
       PROVE  (Ungranted(r) \/ Withholds(l, c, r))' <=> Ungranted(r) \/ Withholds(k, c, r)
  <2>1. CASE r # k.r
    <3>1. \A source : Posted(r, source)' = Posted(r, source)
      BY <1>5, <1>6, <2>1 DEF Posted
    <3>2. Ungranted(r)' <=> Ungranted(r)
      BY <3>1 DEF Ungranted
    <3> QED BY <1>7, <2>1, <3>2 DEF Withholds
  <2>2. CASE r = k.r /\ m.source # "REQUEST_APPROVED"
    <3>1. Posted(r, "REQUEST_APPROVED")' = Posted(r, "REQUEST_APPROVED")
      BY <1>5, <1>6, <2>2 DEF Posted
    <3>2. \A g : g \in Posted(r, "EVENT_GRANT")' <=>
                   g \in Posted(r, "EVENT_GRANT") \/ (g = row /\ m.source = "EVENT_GRANT")
      BY <1>5, <1>6, <2>2 DEF Posted
    <3>3. \A x \in Posted(r, "REQUEST_APPROVED") : x.call # c \/ m.source # "EVENT_GRANT"
      BY <1>8, <1>13 DEF Posted
    <3>4. Ungranted(r)' <=> Ungranted(r)
      BY <1>6, <3>1, <3>2, <3>3 DEF Ungranted
    <3>5. CASE k.op # "APPROVE"
      BY <1>7, <3>4, <3>5 DEF Withholds
    <3>6. CASE k.op = "APPROVE"
      <4>1. m.source = "EVENT_GRANT" /\ Moves(k, "EVENT_GRANT")
        BY <1>8, <1>13, <2>2, <3>6 DEF Moves
      <4>2. row \in Posted(r, "EVENT_GRANT")'
        BY <3>2, <4>1
      <4>3. Granted(c, r)'
        BY <1>6, <4>2 DEF Granted
      <4> QED BY <3>4, <4>1, <4>3 DEF Withholds
    <3> QED BY <3>5, <3>6
  <2>3. CASE r = k.r /\ m.source = "REQUEST_APPROVED"
    <3>1. k.op = "APPROVE" /\ Moves(k, "REQUEST_APPROVED")
      BY <1>8, <1>13, <2>3 DEF Moves
    <3>2. ~Moves(k, "EVENT_GRANT")
      BY <1>8, <1>13, <2>3, <3>1 DEF Moves
    <3>3. ~Moves(l, "REQUEST_APPROVED")
      BY <1>2, <1>3, <1>7, <1>10, <2>3, RestOfPlan
    <3>4. \A x : x \in Posted(r, "REQUEST_APPROVED")' <=> x \in Posted(r, "REQUEST_APPROVED") \/ x = row
      BY <1>5, <1>6, <2>3 DEF Posted
    <3>5. Posted(r, "EVENT_GRANT")' = Posted(r, "EVENT_GRANT")
      BY <1>5, <1>6, <2>3 DEF Posted
    <3>6. Ungranted(r)' <=> Ungranted(r) \/ ~Granted(c, r)
      BY <1>6, <3>4, <3>5 DEF Ungranted, Granted
    <3>7. Withholds(k, c, r) <=> ~Granted(c, r)
      BY <1>1, <2>3, <3>1, <3>2 DEF Withholds, Writes
    <3>8. ~Withholds(l, c, r)'
      BY <3>3 DEF Withholds
    <3> QED BY <3>6, <3>7, <3>8
  <2> QED BY <2>1, <2>2, <2>3
<1>18. ASSUME NEW r \in Reqs, NEW d \in Calls, request'[r].event # NoDay, Alone(d)'
       PROVE  (NetOf(r) + Pending(call[d], r) = Due(call[d], d, r))'
  <2>1. d = c
    <3>1. call'[c].pc \notin Stopped
      BY <1>0, <1>7 DEF Stopped
    <3> QED BY <1>18, <3>1 DEF Alone
  <2>2. request[r].event # NoDay
    BY <1>7, <1>18
  <2>3. NetOf(r)' + Pending(l, r) = NetOf(r) + Pending(k, r)
    BY <1>16, <2>2
  <2>4. NetOf(r) + Pending(k, r) = Due(k, c, r)
    BY <1>0, <1>10, <2>2 DEF EventsNet
  <2>5. Due(l, c, r)' = Due(k, c, r)
    BY <1>7, <1>17 DEF Due
  <2>6. NetOf(r)' + Pending(l, r) = Due(l, c, r)'
    BY <2>3, <2>4, <2>5
  <2> QED BY <1>0, <2>1, <2>6
<1> QED BY <1>12, <1>14, <1>15, <1>18 DEF EventsNet

LEMMA NextNets ==
  ASSUME MaxInFlight <= 1, ~MayFail
  PROVE  Shape /\ Signed /\ Paid /\ Carried /\ EventsFit /\ EventsNet /\ [Next]_vars => EventsNet'
<1> SUFFICES ASSUME Shape, Signed, Paid, Carried, EventsFit, EventsNet, [Next]_vars
             PROVE  EventsNet'
  OBVIOUS
<1>1. ASSUME NEW c \in Calls, Step(c) PROVE EventsNet'
  BY <1>1, InsertNets, SettleNets, LedgerNets, PassingNets DEF Step
<1>2. ASSUME NEW c \in Calls PROVE ~Fail(c)
  BY DEF Fail
<1>3. CASE Environment \/ AccrualWorkerTakesJob \/ UNCHANGED vars
  <2>1. UNCHANGED <<request, ledger, call>>
    BY <1>3 DEF Environment, updateSettings, updateType, editHolidays, softDelete, clockIn,
         AccrualWorkerTakesJob, vars, tables
  <2>2. \A d \in Calls : UnpostedOK(d)'
    <3>1. \A d \in Calls : UnpostedOK(d)
      BY DEF EventsNet
    <3> QED BY <2>1, <3>1 DEF UnpostedOK
  <2>3. \A r : NetOf(r)' = NetOf(r)
    BY <2>1 DEF NetOf
  <2>4. \A d : Alone(d)' <=> Alone(d)
    BY <2>1 DEF Alone
  <2>5. ASSUME NEW r \in Reqs, NEW d \in Calls, request'[r].event # NoDay, Alone(d)'
        PROVE  (NetOf(r) + Pending(call[d], r) = Due(call[d], d, r))'
    <3>1. PICK k : k = call[d] /\ k = call'[d]
      BY <2>1
    <3>2. NetOf(r) + Pending(k, r) = Due(k, d, r)
      BY <2>1, <2>4, <2>5, <3>1 DEF EventsNet
    <3>3. Due(k, d, r)' = Due(k, d, r)
      BY <2>1 DEF Due, Ungranted, Withholds, Granted, Posted
    <3>4. NetOf(r)' + Pending(k, r) = Due(k, d, r)'
      BY <2>3, <3>2, <3>3
    <3> QED BY <3>1, <3>4
  <2> QED BY <2>1, <2>2, <2>5 DEF EventsNet
<1> QED BY <1>1, <1>2, <1>3, StartNets, TakeJobNets DEF Next

LEMMA InitNets == Init => EventsNet
<1> SUFFICES ASSUME Init PROVE EventsNet
  OBVIOUS
<1>1. \A c \in Calls : call[c].pc = "idle"
  BY DEF Init, Idle
<1>2. ledger = {} /\ IsFiniteSet(ledger)
  BY FS_EmptySet DEF Init
<1>3. \A c \in Calls : UnpostedOK(c)
  BY <1>1, <1>2 DEF UnpostedOK, Writes
<1>4. \A r \in Reqs : request[r].event = NoDay
  BY DEF Init, NoRequest
<1> QED BY <1>2, <1>3, <1>4 DEF EventsNet

(* When no handler runs, nothing is left to post and nothing withheld.      *)
LEMMA EventsCancelOut ==
  ASSUME Shape, EventsNet
  PROVE  EventNetsToZero
<1>1. SUFFICES ASSUME Quiet, NEW r \in Reqs, request[r].event # NoDay
               PROVE  NetOf(r) = IF Ungranted(r) THEN -request[r].days ELSE 0
  BY DEF EventNetsToZero, NetOf
<1>2. \A c \in Calls : call[c].pc \in Stopped
  BY <1>1 DEF Quiet, Running
<1>3. Worker \in Calls /\ Alone(Worker)
  BY <1>2 DEF Calls, Alone
<1>4. NetOf(r) + Pending(call[Worker], r) = Due(call[Worker], Worker, r)
  BY <1>1, <1>3 DEF EventsNet
<1>5. Pending(call[Worker], r) = 0 /\ ~Withholds(call[Worker], Worker, r)
  BY <1>2, <1>3, NothingPending DEF Writes, Stopped
<1>6. NetOf(r) \in Int
  BY NetIsInt
<1> QED BY <1>4, <1>5, <1>6 DEF Due

(* For every tenant whose handlers run one at a time and to their end, and  *)
(* whose reduced allowances are no larger than the normal ones, as          *)
(* event-leave.ts demands of a saved type, with leave types edited and      *)
(* documents deleted at any moment: the requests that name one event stay   *)
(* within an allowance the type has had, their postings cancel out when no  *)
(* handler runs, but for approvals of a type that was switched away from    *)
(* event-based, which cost their days whatever is cancelled later, and an   *)
(* approved one has had the document its type has always required.          *)
THEOREM EventLeaveIsSound ==
  ASSUME MaxInFlight <= 1, ~MayFail, \A p \in PolicyChoices : p.reduced <= p.perEvent
  PROVE  Spec => []EventLeaveAddsUp
<1>1. Shape /\ Paid /\ Marked /\ Carried /\ [Next]_vars => Carried'
  BY NextCarries
<1>2. Shape /\ Signed /\ Carried /\ EventsFit /\ [Next]_vars => EventsFit'
  BY NextFits
<1>3. Shape /\ Signed /\ Paid /\ Carried /\ EventsFit /\ EventsNet /\ [Next]_vars => EventsNet'
  BY NextNets
<1>4. Shape /\ EventsFit /\ EventsNet => EventLeaveAddsUp
  BY EventsCancelOut DEF EventsFit, EventLeaveAddsUp
<1> QED BY <1>1, <1>2, <1>3, <1>4, AlwaysShape, AlwaysSigned, AlwaysPaid, InitMarks, NextMarks,
           InitCarried, InitFits, InitNets, PTL DEF Spec
=============================================================================
