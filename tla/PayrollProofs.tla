--------------------------- MODULE PayrollProofs ---------------------------
(***************************************************************************)
(* Payroll runs, for every number of users, runs, employees, versions of a *)
(* structure and, in the first two arguments, of handlers at a time.       *)
(*                                                                         *)
(* PInv: a handler acts on what it read, and what it read was true of      *)
(* tables that only grow: approvals are never deleted, and which employees *)
(* a run has line items for never changes.  WInv, on top of it: what is    *)
(* folded, and which run is a period's regular one, only grows as well.    *)
(* SInv: while handlers do not overlap, what one read is what the tables   *)
(* still hold when it writes.                                              *)
(***************************************************************************)
EXTENDS PayrollProperties, SumProofs

OnARun == {"RECALC", "ADJUST", "SUBMIT", "APPROVE", "PROCESS", "DISBURSE"}

ItemFields == {"on", "base", "extra", "folded", "net", "slip", "printed"}
IsItem(x) == x = [f \in ItemFields |-> x[f]] /\ x.on \in BOOLEAN /\ x.slip \in BOOLEAN
AreItems(s) == s = [e \in Employees |-> s[e]] /\ \A e \in Employees : IsItem(s[e])

Fields == {"pc", "op", "by", "r", "period", "again", "lines", "emp", "ver", "old", "pay",
           "hits"}
IsThread(k) == k = [f \in Fields |-> k[f]]

DataOK ==
    /\ run \in [Runs -> RunRows]
    /\ approvals \in [Runs -> SUBSET Managers]
    /\ items = [r \in Runs |-> items[r]] /\ \A r \in Runs : AreItems(items[r])
    /\ admins \subseteq AdminUsers
ThreadsOK == thread = [t \in Threads |-> thread[t]] /\ \A t \in Threads : IsThread(thread[t])

Backed(r) == Cardinality(approvals[r]) >= 2

(* What a handler's record says is still true of the tables. *)
Grounded(k) ==
    /\ AreItems(k.lines)
    /\ k.pc \in {"status", "approve", "count", "approved"} => k.op = "APPROVE"
    /\ k.pc \in {"existing", "structures", "arrears"} => k.op = "CREATE"
    /\ k.pc = "compute" => k.op = "RECALC"
    /\ k.pc \in {"insert", "affected", "edit", "revise"} => k.op \notin OnARun
    /\ k.op = "CREATE" => k.period \in Nat /\ k.again \in BOOLEAN
    /\ k.op \in OnARun => k.r \in Runs /\ run[k.r].status # "NONE"
    /\ k.op = "APPROVE" => k.by \in Managers
    /\ k.pc = "approved" => Backed(k.r)
    /\ k.op \in {"PROCESS", "DISBURSE"} => Backed(k.r)
    /\ k.op = "PROCESS" /\ k.pc = "commit" =>
         \A e \in Employees : k.lines[e].on = items[k.r][e].on
    /\ k.op = "ADJUST" /\ k.pc = "write" => k.emp \in Employees

PInv ==
    /\ DataOK
    /\ ThreadsOK
    /\ \A t \in Threads : Grounded(thread[t])
    /\ TwoApprovers
    /\ ProcessedHasPayslips
----------------------------------------------------------------------------
LEMMA BlankItems == IsItem(NoItem) /\ AreItems(NoItems)
BY DEF IsItem, ItemFields, AreItems, NoItem, NoItems

LEMMA IdleGrounded == IsThread(Idle) /\ Grounded(Idle) /\ Grounded(Idle)'
BY BlankItems DEF IsThread, Fields, Grounded, Idle, OnARun

LEMMA InitPInv == ASSUME Init PROVE PInv
<1>1. DataOK /\ ThreadsOK
  BY BlankItems, IdleGrounded DEF Init, DataOK, ThreadsOK, RunRows, RunStatuses, NoItems
<1>2. \A t \in Threads : Grounded(thread[t])
  BY IdleGrounded DEF Init
<1>3. TwoApprovers /\ ProcessedHasPayslips
  BY DEF Init, TwoApprovers, ProcessedHasPayslips, Committed
<1> QED BY <1>1, <1>2, <1>3 DEF PInv

(* Approval rows are only added, so two approvers stay two. *)
LEMMA StaysBacked ==
  ASSUME NEW A \in SUBSET Managers, NEW B \in SUBSET Managers, A \subseteq B,
         Cardinality(A) >= 2
  PROVE  Cardinality(B) >= 2
<1>1. IsFiniteSet(B)
  BY PayrollConstants, FS_Subset DEF PayrollConstants
<1>2. Cardinality(A) <= Cardinality(B) /\ Cardinality(A) \in Nat /\ Cardinality(B) \in Nat
  BY <1>1, FS_Subset, FS_CardinalityType
<1> QED BY <1>2

(* What every step does to the tables. *)
Grows ==
    /\ DataOK'
    /\ \A r \in Runs :
         /\ approvals[r] \subseteq approvals'[r]
         /\ run[r].status # "NONE" =>
              /\ run'[r].status # "NONE"
              /\ \A e \in Employees : items'[r][e].on = items[r][e].on

LEMMA UnchangedGrows == ASSUME PInv, UNCHANGED tables PROVE Grows
BY DEF PInv, Grows, DataOK, AreItems, IsItem, tables, RunRows

(* A handler's record stays grounded while the tables only grow. *)
LEMMA StaysGrounded ==
  ASSUME PInv, Grows, NEW u \in Threads, thread'[u] = thread[u]
  PROVE  Grounded(thread[u])'
<1> DEFINE k == thread[u]
<1>1. Grounded(k) BY DEF PInv
<1>2. k.r \in Runs /\ Backed(k.r) => Backed(k.r)'
  BY StaysBacked DEF Grows, DataOK, PInv, Backed
<1>3. k.op \in {"PROCESS", "DISBURSE"} \/ k.pc = "approved" => k.r \in Runs /\ Backed(k.r)
  BY <1>1 DEF Grounded, OnARun
<1> QED BY <1>1, <1>2, <1>3 DEF Grounded, Grows, OnARun

(* One handler moves to the record k while the tables grow. *)
LEMMA OneThreadMoves ==
  ASSUME PInv, Grows, NEW t \in Threads, NEW k, thread' = [thread EXCEPT ![t] = k],
         IsThread(k), Grounded(k)'
  PROVE  ThreadsOK' /\ \A u \in Threads : Grounded(thread[u])'
<1>1. thread'[t] = k /\ \A u \in Threads \ {t} : thread'[u] = thread[u]
  BY DEF PInv, ThreadsOK
<1>2. ThreadsOK'
  BY <1>1 DEF PInv, ThreadsOK
<1>3. \A u \in Threads \ {t} : Grounded(thread[u])'
  BY <1>1, StaysGrounded
<1>4. Grounded(thread[t])'
  BY <1>1
<1> QED BY <1>2, <1>3, <1>4

(* A statement that only reads. *)
LEMMA ReadStep ==
  ASSUME PInv, UNCHANGED tables, NEW t \in Threads, NEW k,
         thread' = [thread EXCEPT ![t] = k], IsThread(k), Grounded(k)
  PROVE  PInv'
<1>1. Grounded(k)'
  BY DEF Grounded, Backed, tables
<1>2. TwoApprovers' /\ ProcessedHasPayslips'
  BY DEF PInv, TwoApprovers, ProcessedHasPayslips, tables
<1>3. Grows
  BY UnchangedGrows
<1> QED BY <1>1, <1>2, <1>3, OneThreadMoves DEF PInv, Grows

(* A statement that writes and returns. *)
LEMMA WriteStep ==
  ASSUME PInv, Grows, NEW t \in Threads, Return(t), TwoApprovers', ProcessedHasPayslips'
  PROVE  PInv'
<1>1. ThreadsOK' /\ \A u \in Threads : Grounded(thread[u])'
  BY IdleGrounded, OneThreadMoves DEF Return
<1> QED BY <1>1 DEF PInv, Grows
----------------------------------------------------------------------------
(* The statements that read. *)

LEMMA ReturnsIdle ==
  ASSUME PInv, UNCHANGED tables, NEW t \in Threads, Return(t)
  PROVE  PInv'
BY ReadStep, IdleGrounded DEF Return

(* Moving to another pc keeps the record's form. *)
LEMMA MovedThread ==
  ASSUME PInv, NEW t \in Threads, NEW p
  PROVE  LET k == [thread[t] EXCEPT !.pc = p] IN
         /\ IsThread(k) /\ k.pc = p /\ k.op = thread[t].op /\ k.by = thread[t].by
         /\ k.r = thread[t].r /\ k.lines = thread[t].lines /\ k.emp = thread[t].emp
         /\ k.period = thread[t].period /\ k.again = thread[t].again
BY DEF PInv, ThreadsOK, IsThread, Fields

LEMMA Gotos ==
  ASSUME PInv, UNCHANGED tables, NEW t \in Threads, NEW p, Goto(t, p),
         p \in {"structures", "approve"} \/ (p = "approved" /\ Backed(thread[t].r)),
         p = "structures" => thread[t].op = "CREATE",
         p \in {"approve", "approved"} => thread[t].op = "APPROVE"
  PROVE  PInv'
<1> DEFINE k == [thread[t] EXCEPT !.pc = p]
<1>1. thread' = [thread EXCEPT ![t] = k]
  BY DEF Goto, PInv, ThreadsOK
<1>2. /\ IsThread(k) /\ k.pc = p /\ k.op = thread[t].op /\ k.by = thread[t].by
      /\ k.r = thread[t].r /\ k.lines = thread[t].lines /\ k.emp = thread[t].emp
      /\ k.period = thread[t].period /\ k.again = thread[t].again
  BY MovedThread
<1> HIDE DEF k
<1>3. Grounded(k)
  BY <1>2 DEF PInv, Grounded, OnARun
<1> QED BY <1>1, <1>2, <1>3, ReadStep

LEMMA StartPInv ==
  ASSUME PInv, NEW t \in Threads, Start(t)
  PROVE  PInv'
<1>1. CASE \E u \in Managers, p \in Periods, again \in BOOLEAN : StartCreate(t, u, p, again)
  <2>1. PICK u \in Managers, p \in Periods, again \in BOOLEAN : StartCreate(t, u, p, again)
    BY <1>1
  <2> DEFINE k == [Idle EXCEPT !.pc = IF again THEN "structures" ELSE "existing",
                               !.op = "CREATE", !.period = p, !.again = again]
  <2>2. /\ IsThread(k) /\ k.pc \in {"structures", "existing"} /\ k.op = "CREATE"
        /\ k.lines = NoItems /\ k.period \in Nat /\ k.again \in BOOLEAN
    BY PayrollConstants DEF IsThread, Fields, Idle, PayrollConstants
  <2>3. thread' = [thread EXCEPT ![t] = k] /\ UNCHANGED tables
    BY <2>1 DEF StartCreate
  <2> HIDE DEF k
  <2>4. Grounded(k)
    BY <2>2, BlankItems DEF Grounded, OnARun
  <2> QED BY <2>2, <2>3, <2>4, ReadStep
<1>2. ASSUME NEW u \in Managers, NEW r \in Runs, NEW op \in OnARun \ {"APPROVE"},
             NEW pc \in {"items", "write"}, NEW statuses,
             StartOn(t, u, r, op, pc, statuses), "NONE" \notin statuses,
             op = "PROCESS" => statuses = {"APPROVED"},
             op = "DISBURSE" => statuses = {"PROCESSED"},
             op = "ADJUST" => pc = "items"
      PROVE  PInv'
  <2> DEFINE k == [Idle EXCEPT !.pc = pc, !.op = op, !.r = r]
  <2>1. run[r].status # "NONE"
    BY <1>2 DEF StartOn
  <2>2. op \in {"PROCESS", "DISBURSE"} => Backed(r)
    BY <1>2 DEF StartOn, PInv, TwoApprovers, Committed, Backed
  <2>3. IsThread(k) /\ k.pc = pc /\ k.op = op /\ k.r = r /\ k.lines = NoItems
    BY DEF IsThread, Fields, Idle
  <2>4. thread' = [thread EXCEPT ![t] = k] /\ UNCHANGED tables
    BY <1>2 DEF StartOn
  <2> HIDE DEF k
  <2>5. Grounded(k)
    BY <1>2, <2>1, <2>2, <2>3, BlankItems DEF Grounded, OnARun
  <2> QED BY <2>3, <2>4, <2>5, ReadStep
<1>3. ASSUME NEW u \in Managers, NEW r \in Runs, StartApprove(t, u, r)
      PROVE  PInv'
  <2> DEFINE k == [Idle EXCEPT !.pc = "status", !.op = "APPROVE", !.by = u, !.r = r]
  <2>1. /\ IsThread(k) /\ k.pc = "status" /\ k.op = "APPROVE" /\ k.by = u /\ k.r = r
        /\ k.lines = NoItems
    BY DEF IsThread, Fields, Idle
  <2>2. thread' = [thread EXCEPT ![t] = k] /\ UNCHANGED tables /\ run[r].status # "NONE"
    BY <1>3 DEF StartApprove
  <2> HIDE DEF k
  <2>3. Grounded(k)
    BY <2>1, <2>2, BlankItems DEF Grounded, OnARun
  <2> QED BY <2>1, <2>2, <2>3, ReadStep
<1>4. CASE \E u \in Managers, r \in Runs : OnRun(t, u, r)
  BY <1>2, <1>3, <1>4 DEF OnRun, recalculate, setLineItemAdjustments, submitForReview, process,
                         disburse, OnARun, Editable
<1>5. ASSUME NEW u \in Managers, NEW e \in Employees, NEW pay \in Pays, NEW p \in Periods,
             NEW op \in {"CREATE_STRUCTURE", "UPDATE", "REVISE"},
             StartStructure(t, u, e, pay, p, op)
      PROVE  PInv'
  <2> DEFINE k == [Idle EXCEPT !.pc = IF op = "CREATE_STRUCTURE" THEN "insert" ELSE "affected",
                      !.op = op, !.emp = e, !.period = p, !.pay = pay,
                      !.ver = structure[e].ver, !.old = structure[e].pay]
  <2>1. /\ IsThread(k) /\ k.pc \in {"insert", "affected"} /\ k.op = op
        /\ k.lines = NoItems
    <3>1. PICK pc : pc = IF op = "CREATE_STRUCTURE" THEN "insert" ELSE "affected"
      OBVIOUS
    <3>2. PICK v, old : v = structure[e].ver /\ old = structure[e].pay
      OBVIOUS
    <3>3. k = [Idle EXCEPT !.pc = pc, !.op = op, !.emp = e, !.period = p, !.pay = pay,
                           !.ver = v, !.old = old]
      BY <3>1, <3>2
    <3>4. pc \in {"insert", "affected"}
      BY <3>1
    <3> HIDE DEF k
    <3> QED BY <3>3, <3>4 DEF IsThread, Fields, Idle
  <2>2. thread' = [thread EXCEPT ![t] = k] /\ UNCHANGED tables
    BY <1>5 DEF StartStructure
  <2> HIDE DEF k
  <2>3. Grounded(k)
    BY <2>1, BlankItems DEF Grounded, OnARun
  <2> QED BY <2>1, <2>2, <2>3, ReadStep
<1> QED BY <1>1, <1>4, <1>5 DEF Start

LEMMA CheckExistingPInv ==
  ASSUME PInv, NEW t \in Threads, CheckExisting(t)
  PROVE  PInv'
<1>1. thread[t].op = "CREATE"
  BY DEF CheckExisting, PInv, Grounded
<1> QED BY <1>1, Gotos, ReturnsIdle DEF CheckExisting

LEMMA ReadStatusPInv ==
  ASSUME PInv, NEW t \in Threads, ReadStatus(t)
  PROVE  PInv'
<1>1. thread[t].op = "APPROVE"
  BY DEF ReadStatus, PInv, Grounded
<1> QED BY <1>1, Gotos, ReturnsIdle DEF ReadStatus

LEMMA CountPInv ==
  ASSUME PInv, NEW t \in Threads, CountApprovals(t)
  PROVE  PInv'
<1>1. thread[t].op = "APPROVE"
  BY DEF CountApprovals, PInv, Grounded
<1> QED BY <1>1, Gotos, ReturnsIdle DEF CountApprovals, EnoughApprovers, Backed

(* Reading line items, structures or arrears into the handler's record. *)
LEMMA TakesLines ==
  ASSUME PInv, UNCHANGED tables, NEW t \in Threads, NEW k,
         thread' = [thread EXCEPT ![t] = k], IsThread(k),
         k.op = thread[t].op, k.by = thread[t].by, k.r = thread[t].r, AreItems(k.lines),
         k.period = thread[t].period, k.again = thread[t].again,
         \/ k.pc \in {"arrears", "commit"} /\ k.op = "CREATE"
         \/ k.pc \in {"compute", "commit"} /\ k.op = "RECALC"
         \/ k.pc = "commit" /\ k.op = "PROCESS" /\ k.lines = items[k.r]
         \/ k.pc = "write" /\ k.op = "ADJUST" /\ k.emp \in Employees
  PROVE  PInv'
<1>1. Grounded(k)
  BY DEF PInv, Grounded, OnARun
<1> QED BY <1>1, ReadStep

LEMMA ReadStructuresPInv ==
  ASSUME PInv, NEW t \in Threads, ReadStructures(t)
  PROVE  PInv'
<1> DEFINE row(e) == IF CanCompute(e)
                     THEN [NoItem EXCEPT !.on = TRUE, !.base = structure[e].pay,
                                         !.net = structure[e].pay]
                     ELSE NoItem
           lines == [e \in Employees |-> row(e)]
           k == [thread[t] EXCEPT !.pc = "arrears", !.lines = lines]
<1>1. \A e \in Employees : IsItem(row(e))
  BY DEF IsItem, ItemFields, NoItem
<1>2. AreItems(lines)
  BY <1>1 DEF AreItems
<1>3. thread[t].op = "CREATE" /\ UNCHANGED tables
  BY DEF ReadStructures, PInv, Grounded
<1>4. thread' = [thread EXCEPT ![t].pc = "arrears", ![t].lines = lines]
  BY DEF ReadStructures
<1> HIDE DEF lines
<1>5. /\ thread' = [thread EXCEPT ![t] = k] /\ IsThread(k) /\ k.op = thread[t].op
      /\ k.by = thread[t].by /\ k.r = thread[t].r
      /\ k.period = thread[t].period /\ k.again = thread[t].again
      /\ k.pc = "arrears" /\ k.lines = lines
  BY <1>4 DEF PInv, ThreadsOK, IsThread, Fields
<1> HIDE DEF k
<1> QED BY <1>2, <1>3, <1>5, TakesLines

LEMMA ReadArrearsPInv ==
  ASSUME PInv, NEW t \in Threads, ReadArrears(t)
  PROVE  PInv'
<1> DEFINE row(e) == FoldedLine(thread[t].lines[e],
                       {a \in ArrearsIds : a[1] = e /\ arrears[a].status = "PENDING"})
           lines == [e \in Employees |-> row(e)]
           k == [thread[t] EXCEPT !.pc = "commit", !.lines = lines]
<1>1. \A e \in Employees : IsItem(thread[t].lines[e])
  BY DEF PInv, Grounded, AreItems
<1>2. ASSUME NEW x, IsItem(x), NEW pending
      PROVE  IsItem(FoldedLine(x, pending))
  BY <1>2 DEF IsItem, ItemFields, FoldedLine
<1>3. AreItems(lines)
  BY <1>1, <1>2 DEF AreItems
<1>4. thread[t].op = "CREATE" /\ UNCHANGED tables
  BY DEF ReadArrears, PInv, Grounded
<1>5. thread' = [thread EXCEPT ![t].pc = "commit", ![t].lines = lines]
  BY DEF ReadArrears
<1> HIDE DEF lines
<1>6. /\ thread' = [thread EXCEPT ![t] = k] /\ IsThread(k) /\ k.op = thread[t].op
      /\ k.by = thread[t].by /\ k.r = thread[t].r
      /\ k.period = thread[t].period /\ k.again = thread[t].again
      /\ k.pc = "commit" /\ k.lines = lines
  BY <1>5 DEF PInv, ThreadsOK, IsThread, Fields
<1> HIDE DEF k
<1> QED BY <1>3, <1>4, <1>6, TakesLines

LEMMA ReadItemsPInv ==
  ASSUME PInv, NEW t \in Threads, ReadItems(t)
  PROVE  PInv'
<1> DEFINE p == IF thread[t].op = "RECALC" THEN "compute" ELSE "commit"
           lines == items[thread[t].r]
           k == [thread[t] EXCEPT !.pc = p, !.lines = lines]
<1>1. /\ thread[t].op \in {"RECALC", "PROCESS"} /\ thread[t].r \in Runs
      /\ UNCHANGED tables
  BY DEF ReadItems, PInv, Grounded, OnARun
<1>2. AreItems(lines)
  BY <1>1 DEF PInv, DataOK
<1>3. thread' = [thread EXCEPT ![t].pc = p, ![t].lines = lines]
  BY DEF ReadItems
<1>4. p \in {"compute", "commit"} /\ (thread[t].op = "PROCESS" => p = "commit")
  BY <1>1
<1> HIDE DEF p
<1>5. /\ thread' = [thread EXCEPT ![t] = k] /\ IsThread(k) /\ k.op = thread[t].op
      /\ k.by = thread[t].by /\ k.r = thread[t].r
      /\ k.period = thread[t].period /\ k.again = thread[t].again
      /\ k.pc = p /\ k.lines = lines
  BY <1>3 DEF PInv, ThreadsOK, IsThread, Fields
<1> HIDE DEF k
<1> QED BY <1>1, <1>2, <1>4, <1>5, TakesLines

LEMMA ReadItemPInv ==
  ASSUME PInv, NEW t \in Threads, NEW e \in Employees, NEW extra \in Extras,
         ReadItem(t, e, extra)
  PROVE  PInv'
<1> DEFINE row(folded) == [NoItem EXCEPT !.folded = folded, !.extra = extra,
              !.net = items[thread[t].r][e].base + AdjustmentTotal(folded, extra)]
           k(x) == [thread[t] EXCEPT !.pc = "write", !.emp = e, !.lines[e] = x]
<1>1. PICK folded \in SUBSET items[thread[t].r][e].folded :
        thread' = [thread EXCEPT ![t].pc = "write", ![t].emp = e, ![t].lines[e] = row(folded)]
  BY DEF ReadItem
<1> DEFINE x == row(folded)
<1>2. IsItem(x)
  BY DEF IsItem, ItemFields, NoItem
<1>3. thread[t].op = "ADJUST" /\ UNCHANGED tables /\ AreItems(thread[t].lines)
  BY DEF ReadItem, PInv, Grounded
<1>4. thread' = [thread EXCEPT ![t].pc = "write", ![t].emp = e, ![t].lines[e] = x]
  BY <1>1
<1> HIDE DEF x
<1>5. /\ thread' = [thread EXCEPT ![t] = k(x)] /\ IsThread(k(x))
      /\ k(x).op = thread[t].op /\ k(x).by = thread[t].by /\ k(x).r = thread[t].r
      /\ k(x).period = thread[t].period /\ k(x).again = thread[t].again
      /\ k(x).pc = "write" /\ k(x).emp = e
      /\ k(x).lines = [thread[t].lines EXCEPT ![e] = x]
  <2>1. PICK old : old = thread[t]
    OBVIOUS
  <2>2. IsThread(old) /\ thread = [u \in Threads |-> thread[u]]
    BY <2>1 DEF PInv, ThreadsOK
  <2>3. k(x) = [old EXCEPT !.pc = "write", !.emp = e, !.lines[e] = x]
    BY <2>1
  <2>4. thread' = [thread EXCEPT ![t] = k(x)]
    BY <1>4, <2>2
  <2> HIDE DEF k
  <2>5. /\ IsThread(k(x)) /\ k(x).op = old.op /\ k(x).by = old.by /\ k(x).r = old.r
        /\ k(x).period = old.period /\ k(x).again = old.again
        /\ k(x).pc = "write" /\ k(x).emp = e /\ k(x).lines = [old.lines EXCEPT ![e] = x]
    BY <2>2, <2>3 DEF IsThread, Fields
  <2> QED BY <2>1, <2>4, <2>5
<1>6. AreItems([thread[t].lines EXCEPT ![e] = x])
  BY <1>2, <1>3 DEF AreItems
<1> HIDE DEF k
<1> QED BY <1>3, <1>5, <1>6, TakesLines

LEMMA ComputePInv ==
  ASSUME PInv, NEW t \in Threads, Compute(t)
  PROVE  PInv'
<1> DEFINE row(e) == Recomputed(thread[t].lines[e], structure[e].pay)
           lines == [e \in Employees |-> row(e)]
           k == [thread[t] EXCEPT !.pc = "commit", !.lines = lines]
<1>1. UNCHANGED tables /\ thread[t].op = "RECALC"
  BY DEF Compute, PInv, Grounded
<1>2. CASE Return(t)
  BY <1>1, <1>2, ReturnsIdle
<1>3. CASE thread' = [thread EXCEPT ![t].pc = "commit", ![t].lines = lines]
  <2>1. ASSUME NEW x, NEW pay PROVE IsItem(Recomputed(x, pay))
    BY DEF IsItem, ItemFields, Recomputed, NoItem
  <2>2. AreItems(lines)
    BY <2>1 DEF AreItems
  <2> HIDE DEF lines
  <2>3. /\ thread' = [thread EXCEPT ![t] = k] /\ IsThread(k) /\ k.op = thread[t].op
        /\ k.by = thread[t].by /\ k.r = thread[t].r
      /\ k.period = thread[t].period /\ k.again = thread[t].again
      /\ k.pc = "commit" /\ k.lines = lines
    BY <1>3 DEF PInv, ThreadsOK, IsThread, Fields
  <2> HIDE DEF k
  <2> QED BY <1>1, <2>2, <2>3, TakesLines
<1> QED BY <1>2, <1>3 DEF Compute

LEMMA ReadAffectedPInv ==
  ASSUME PInv, NEW t \in Threads, ReadAffected(t)
  PROVE  PInv'
<1> DEFINE hits == findAffectedLineItems(thread[t].emp, thread[t].period)
           p == IF thread[t].op = "UPDATE" /\ hits = {} THEN "edit" ELSE "revise"
           k == [thread[t] EXCEPT !.hits = hits, !.pc = p]
<1>1. thread[t].pc = "affected" /\ UNCHANGED tables /\ p \in {"edit", "revise"}
  BY DEF ReadAffected
<1>2. thread' = [thread EXCEPT ![t].hits = hits, ![t].pc = p]
  BY DEF ReadAffected
<1> HIDE DEF hits, p
<1>3. /\ thread' = [thread EXCEPT ![t] = k] /\ IsThread(k) /\ k.op = thread[t].op
      /\ k.lines = thread[t].lines /\ k.pc = p
      /\ k.period = thread[t].period /\ k.again = thread[t].again
  BY <1>2 DEF PInv, ThreadsOK, IsThread, Fields
<1> HIDE DEF k
<1>4. Grounded(k)
  BY <1>1, <1>3 DEF PInv, Grounded, OnARun
<1> QED BY <1>1, <1>3, <1>4, ReadStep
----------------------------------------------------------------------------
(* The statements that write. *)

LEMMA CommitCreatePInv ==
  ASSUME PInv, NEW t \in Threads, CommitCreate(t)
  PROVE  PInv'
<1> DEFINE k == thread[t]
<1>1. Return(t) /\ UNCHANGED <<approvals, admins>> /\ AreItems(k.lines)
  BY DEF CommitCreate, PInv, Grounded
<1>2. CASE UNCHANGED <<run, items, arrears>>
  <2>1. Grows
    BY <1>1, <1>2 DEF PInv, Grows, DataOK
  <2>2. TwoApprovers' /\ ProcessedHasPayslips'
    BY <1>1, <1>2 DEF PInv, TwoApprovers, ProcessedHasPayslips
  <2> QED BY <1>1, <2>1, <2>2, WriteStep
<1>3. CASE \E r \in Runs :
             /\ NextRun(r)
             /\ run' = [run EXCEPT ![r] = [status |-> "DRAFT", period |-> k.period,
                                           again |-> k.again, processed |-> FALSE]]
             /\ items' = [items EXCEPT ![r] = k.lines]
  <2>1. PICK r \in Runs :
             /\ NextRun(r)
             /\ run' = [run EXCEPT ![r] = [status |-> "DRAFT", period |-> k.period,
                                           again |-> k.again, processed |-> FALSE]]
             /\ items' = [items EXCEPT ![r] = k.lines]
    BY <1>3
  <2>2. run[r].status = "NONE"
    BY <2>1 DEF NextRun
  <2>3. /\ run'[r].status = "DRAFT" /\ run'[r].processed = FALSE
        /\ \A q \in Runs \ {r} : run'[q] = run[q] /\ items'[q] = items[q]
        /\ items'[r] = k.lines
    BY <2>1 DEF PInv, DataOK
  <2>4. DataOK'
    <3>1. k.op = "CREATE" /\ k.period \in Nat /\ k.again \in BOOLEAN
      BY DEF CommitCreate, PInv, Grounded
    <3>2. run' \in [Runs -> RunRows]
      BY <2>1, <3>1 DEF PInv, DataOK, RunRows, RunStatuses
    <3>3. items' = [q \in Runs |-> items'[q]]
      BY <2>1 DEF PInv, DataOK
    <3>4. AreItems(items[r])'
      BY <1>1, <2>3 DEF AreItems, IsItem
    <3>5. \A q \in Runs \ {r} : AreItems(items[q])'
      BY <2>3 DEF PInv, DataOK, AreItems, IsItem
    <3> QED BY <1>1, <3>2, <3>3, <3>4, <3>5 DEF PInv, DataOK
  <2>5. Grows
    BY <1>1, <2>2, <2>3, <2>4 DEF Grows
  <2>6. TwoApprovers'
    BY <1>1, <2>3 DEF PInv, TwoApprovers, Committed
  <2>7. ProcessedHasPayslips'
    BY <2>3 DEF PInv, ProcessedHasPayslips
  <2> QED BY <1>1, <2>5, <2>6, <2>7, WriteStep
<1> QED BY <1>2, <1>3 DEF CommitCreate

(* Updates of line items that keep who has one, and the payslip. *)
LEMMA ItemsUpdated ==
  ASSUME PInv, NEW t \in Threads, Return(t), UNCHANGED <<run, approvals, admins>>,
         items' = [q \in Runs |-> items'[q]], \A q \in Runs : AreItems(items'[q]),
         \A q \in Runs, e \in Employees :
           items'[q][e].on = items[q][e].on /\ items'[q][e].slip = items[q][e].slip
  PROVE  PInv'
<1>1. DataOK'
  BY DEF PInv, DataOK, AreItems, IsItem
<1>2. Grows /\ TwoApprovers'
  BY <1>1 DEF PInv, Grows, TwoApprovers
<1>3. ProcessedHasPayslips'
  BY PayrollConstants DEF PInv, ProcessedHasPayslips, PayrollConstants
<1> QED BY <1>2, <1>3, WriteStep

LEMMA CommitRecalcPInv ==
  ASSUME PInv, NEW t \in Threads, CommitRecalc(t)
  PROVE  PInv'
<1> DEFINE k == thread[t]
           row(e) == IF ~k.lines[e].on THEN items[k.r][e]
                     ELSE [items[k.r][e] EXCEPT !.base = k.lines[e].base,
                                                !.net = k.lines[e].net]
<1>1. k.r \in Runs /\ Return(t) /\ UNCHANGED <<run, approvals, admins>>
  BY DEF CommitRecalc, PInv, Grounded, OnARun
<1>3. \A e \in Employees :
        IsItem(row(e)) /\ row(e).on = items[k.r][e].on /\ row(e).slip = items[k.r][e].slip
  <2> TAKE e \in Employees
  <2>1. IsItem(items[k.r][e])
    BY <1>1 DEF PInv, DataOK, AreItems
  <2>2. \/ row(e) = items[k.r][e]
        \/ row(e) = [items[k.r][e] EXCEPT !.base = k.lines[e].base, !.net = k.lines[e].net]
    OBVIOUS
  <2> QED BY <2>1, <2>2 DEF IsItem, ItemFields
<1>2. items' = items \/ items' = [items EXCEPT ![k.r] = [e \in Employees |-> row(e)]]
  BY DEF CommitRecalc
<1> HIDE DEF row
<1>4. CASE items' = items
  BY <1>1, <1>4, ItemsUpdated DEF PInv, DataOK
<1>5. CASE items' = [items EXCEPT ![k.r] = [e \in Employees |-> row(e)]]
  <2>1. /\ items'[k.r] = [e \in Employees |-> row(e)]
        /\ \A q \in Runs \ {k.r} : items'[q] = items[q]
        /\ items' = [q \in Runs |-> items'[q]]
    BY <1>1, <1>5 DEF PInv, DataOK
  <2>2. \A q \in Runs : AreItems(items'[q])
    <3>1. \A q \in Runs : AreItems(items[q])
      BY DEF PInv, DataOK
    <3>2. AreItems(items'[k.r])
      BY <1>3, <2>1 DEF AreItems
    <3> QED BY <2>1, <3>1, <3>2
  <2>3. \A q \in Runs, e \in Employees :
          items'[q][e].on = items[q][e].on /\ items'[q][e].slip = items[q][e].slip
    BY <1>3, <2>1
  <2> QED BY <1>1, <2>1, <2>2, <2>3, ItemsUpdated
<1> QED BY <1>2, <1>4, <1>5

LEMMA WriteItemPInv ==
  ASSUME PInv, NEW t \in Threads, WriteItem(t)
  PROVE  PInv'
<1> DEFINE k == thread[t]
           x == [items[k.r][k.emp] EXCEPT !.folded = k.lines[k.emp].folded,
                   !.extra = k.lines[k.emp].extra, !.net = k.lines[k.emp].net]
<1>1. /\ k.r \in Runs /\ k.emp \in Employees /\ Return(t)
      /\ UNCHANGED <<run, approvals, admins>>
  BY DEF WriteItem, PInv, Grounded, OnARun
<1>2. IsItem(items[k.r][k.emp])
  BY <1>1 DEF PInv, DataOK, AreItems
<1>3. /\ IsItem(x) /\ x.on = items[k.r][k.emp].on /\ x.slip = items[k.r][k.emp].slip
  BY <1>2 DEF IsItem, ItemFields
<1>4. items' = items \/ items' = [items EXCEPT ![k.r][k.emp] = x]
  BY DEF WriteItem
<1> HIDE DEF x
<1>5. CASE items' = items
  BY <1>1, <1>5, ItemsUpdated DEF PInv, DataOK
<1>6. CASE items' = [items EXCEPT ![k.r][k.emp] = x]
  <2>1. /\ items'[k.r] = [items[k.r] EXCEPT ![k.emp] = x]
        /\ \A q \in Runs \ {k.r} : items'[q] = items[q]
        /\ items' = [q \in Runs |-> items'[q]]
    BY <1>1, <1>6 DEF PInv, DataOK
  <2>2. /\ items'[k.r][k.emp] = x
        /\ \A e \in Employees \ {k.emp} : items'[k.r][e] = items[k.r][e]
        /\ items'[k.r] = [e \in Employees |-> items'[k.r][e]]
    BY <1>1, <2>1 DEF PInv, DataOK, AreItems
  <2>3. \A q \in Runs : AreItems(items'[q])
    <3>1. \A q \in Runs : AreItems(items[q])
      BY DEF PInv, DataOK
    <3>2. \A e \in Employees : IsItem(items[k.r][e])
      BY <1>1, <3>1 DEF AreItems
    <3>3. AreItems(items'[k.r])
      BY <1>3, <2>2, <3>2 DEF AreItems
    <3> QED BY <2>1, <3>1, <3>3
  <2>4. \A q \in Runs, e \in Employees :
          items'[q][e].on = items[q][e].on /\ items'[q][e].slip = items[q][e].slip
    BY <1>3, <2>1, <2>2
  <2> QED BY <1>1, <2>1, <2>3, <2>4, ItemsUpdated
<1> QED BY <1>4, <1>5, <1>6

LEMMA WriteStatusPInv ==
  ASSUME PInv, NEW t \in Threads, WriteStatus(t)
  PROVE  PInv'
<1> DEFINE k == thread[t]
           new == IF k.op = "SUBMIT" THEN "REVIEW" ELSE "DISBURSED"
<1>1. /\ k.op \in {"SUBMIT", "DISBURSE"} /\ k.r \in Runs /\ Return(t)
      /\ UNCHANGED <<approvals, items, admins>> /\ (k.op = "DISBURSE" => Backed(k.r))
  BY DEF WriteStatus, PInv, Grounded, OnARun
<1>2. /\ run' \in [Runs -> RunRows]
      /\ run'[k.r].status = new /\ run'[k.r].processed = run[k.r].processed
      /\ \A q \in Runs \ {k.r} : run'[q] = run[q]
  BY <1>1 DEF WriteStatus, PInv, DataOK, RunRows, RunStatuses
<1>3. Grows
  BY <1>1, <1>2 DEF PInv, Grows, DataOK
<1>4. TwoApprovers'
  BY <1>1, <1>2 DEF PInv, TwoApprovers, Committed, Backed
<1>5. ProcessedHasPayslips'
  BY <1>1, <1>2 DEF PInv, ProcessedHasPayslips
<1> QED BY <1>1, <1>3, <1>4, <1>5, WriteStep

LEMMA WriteApprovedPInv ==
  ASSUME PInv, NEW t \in Threads, WriteApproved(t)
  PROVE  PInv'
<1> DEFINE k == thread[t]
<1>1. /\ k.r \in Runs /\ Return(t) /\ UNCHANGED <<approvals, items, admins>> /\ Backed(k.r)
  BY DEF WriteApproved, PInv, Grounded, OnARun
<1>2. /\ run' \in [Runs -> RunRows]
      /\ run'[k.r].status = "APPROVED" /\ run'[k.r].processed = run[k.r].processed
      /\ \A q \in Runs \ {k.r} : run'[q] = run[q]
  BY <1>1 DEF WriteApproved, PInv, DataOK, RunRows, RunStatuses
<1>3. Grows
  BY <1>1, <1>2 DEF PInv, Grows, DataOK
<1>4. TwoApprovers'
  BY <1>1, <1>2 DEF PInv, TwoApprovers, Committed, Backed
<1>5. ProcessedHasPayslips'
  BY <1>1, <1>2 DEF PInv, ProcessedHasPayslips
<1> QED BY <1>1, <1>3, <1>4, <1>5, WriteStep

LEMMA UpsertPInv ==
  ASSUME PInv, NEW t \in Threads, UpsertApproval(t)
  PROVE  PInv'
<1> DEFINE k == thread[t]
<1>0. PICK j : j = [thread[t] EXCEPT !.pc = "count"]
  OBVIOUS
<1>1. /\ k.op = "APPROVE" /\ k.r \in Runs /\ run[k.r].status # "NONE" /\ k.by \in Managers
      /\ AreItems(k.lines) /\ UNCHANGED <<run, items, admins>>
  BY DEF UpsertApproval, PInv, Grounded, OnARun
<1>2. approvals' = [approvals EXCEPT ![k.r] = @ \cup {k.by}]
  BY DEF UpsertApproval
<1>3. /\ approvals' \in [Runs -> SUBSET Managers]
      /\ \A q \in Runs : approvals[q] \subseteq approvals'[q]
  BY <1>1, <1>2 DEF PInv, DataOK
<1>4. Grows
  BY <1>1, <1>3 DEF PInv, Grows, DataOK
<1>5. /\ thread' = [thread EXCEPT ![t] = j] /\ IsThread(j) /\ j.pc = "count"
      /\ j.op = k.op /\ j.by = k.by /\ j.r = k.r /\ j.lines = k.lines
  BY <1>0 DEF UpsertApproval, Goto, PInv, ThreadsOK, IsThread, Fields
<1>6. Grounded(j)'
  BY <1>1, <1>5 DEF Grounded, OnARun
<1>7. TwoApprovers'
  BY <1>1, <1>3, StaysBacked DEF PInv, DataOK, TwoApprovers
<1>8. ProcessedHasPayslips'
  BY <1>1 DEF PInv, ProcessedHasPayslips
<1> QED BY <1>4, <1>5, <1>6, <1>7, <1>8, OneThreadMoves DEF PInv, Grows

LEMMA CommitProcessPInv ==
  ASSUME PInv, NEW t \in Threads, CommitProcess(t)
  PROVE  PInv'
<1> DEFINE k == thread[t]
           row(e) == IF e \in Printed(k)
                     THEN [items[k.r][e] EXCEPT !.slip = TRUE, !.printed = PayslipNet(k.lines[e])]
                     ELSE items[k.r][e]
<1>1. /\ k.r \in Runs /\ Return(t) /\ UNCHANGED <<approvals, admins>> /\ Backed(k.r)
      /\ \A e \in Employees : k.lines[e].on = items[k.r][e].on
  BY DEF CommitProcess, PInv, Grounded, OnARun
<1>2. CASE UNCHANGED <<run, items>>
  <2>1. Grows
    BY <1>1, <1>2 DEF PInv, Grows, DataOK
  <2>2. TwoApprovers' /\ ProcessedHasPayslips'
    BY <1>1, <1>2 DEF PInv, TwoApprovers, ProcessedHasPayslips
  <2> QED BY <1>1, <2>1, <2>2, WriteStep
<1>3. CASE items' = [items EXCEPT ![k.r] = WithPayslips(k)] /\ MarkProcessed(k.r)
  <2>2. \A e \in Employees :
          /\ IsItem(row(e)) /\ row(e).on = items[k.r][e].on
          /\ row(e).slip = items[k.r][e].slip \/ row(e).slip = TRUE
          /\ e \in Printed(k) => row(e).slip = TRUE
    <3> TAKE e \in Employees
    <3>1. IsItem(items[k.r][e])
      BY <1>1 DEF PInv, DataOK, AreItems
    <3>2. IF e \in Printed(k)
          THEN row(e) = [items[k.r][e] EXCEPT !.slip = TRUE, !.printed = PayslipNet(k.lines[e])]
          ELSE row(e) = items[k.r][e]
      OBVIOUS
    <3> QED BY <3>1, <3>2 DEF IsItem, ItemFields
  <2>3. /\ items'[k.r] = [e \in Employees |-> row(e)]
        /\ \A q \in Runs \ {k.r} : items'[q] = items[q]
        /\ items' = [q \in Runs |-> items'[q]]
    BY <1>1, <1>3 DEF PInv, DataOK, WithPayslips
  <2> HIDE DEF row
  <2>4. \A q \in Runs : AreItems(items'[q])
    <3>1. \A q \in Runs : AreItems(items[q])
      BY DEF PInv, DataOK
    <3>2. AreItems(items'[k.r])
      BY <2>2, <2>3 DEF AreItems
    <3> QED BY <2>3, <3>1, <3>2
  <2>5. /\ run' \in [Runs -> RunRows]
        /\ run'[k.r].status = "PROCESSED"
        /\ \A q \in Runs \ {k.r} : run'[q] = run[q]
    <3>1. PICK x : x = [run[k.r] EXCEPT !.status = "PROCESSED", !.processed = TRUE]
      OBVIOUS
    <3>2. x \in RunRows /\ x.status = "PROCESSED"
      BY <1>1, <3>1 DEF PInv, DataOK, RunRows, RunStatuses
    <3>3. run \in [Runs -> RunRows] /\ run' = [run EXCEPT ![k.r] = x]
      BY <1>1, <1>3, <3>1 DEF MarkProcessed, PInv, DataOK
    <3> QED BY <1>1, <3>2, <3>3
  <2>6. \A q \in Runs, e \in Employees : items'[q][e].on = items[q][e].on
    BY <2>2, <2>3
  <2>1. DataOK'
    BY <1>1, <2>3, <2>4, <2>5 DEF PInv, DataOK, AreItems, IsItem
  <2>7. Grows
    BY <1>1, <2>1, <2>5, <2>6 DEF PInv, Grows
  <2>8. TwoApprovers'
    BY <1>1, <2>5 DEF PInv, TwoApprovers, Committed, Backed
  <2>9. \A e \in HasDob : items'[k.r][e].on => items'[k.r][e].slip = TRUE
    <3> TAKE e \in HasDob
    <3>1. e \in Employees
      BY PayrollConstants DEF PayrollConstants
    <3>2. items'[k.r][e].on => e \in Printed(k)
      BY <1>1, <2>6, <3>1 DEF Printed, On
    <3> QED BY <2>2, <2>3, <3>1, <3>2
  <2>10. ProcessedHasPayslips'
    BY <1>1, <2>3, <2>5, <2>9 DEF PInv, ProcessedHasPayslips
  <2> QED BY <1>1, <2>7, <2>8, <2>10, WriteStep
<1> QED BY <1>2, <1>3 DEF CommitProcess
----------------------------------------------------------------------------
(* Statements on salary structures and arrears, and the environment, leave  *)
(* the runs alone.                                                          *)
LEMMA RunsAlone ==
  ASSUME PInv, UNCHANGED <<run, approvals, items>>, admins' \subseteq AdminUsers
  PROVE  Grows /\ TwoApprovers' /\ ProcessedHasPayslips'
<1>1. DataOK'
  BY DEF PInv, DataOK
<1> QED BY <1>1 DEF PInv, Grows, TwoApprovers, ProcessedHasPayslips

LEMMA StepPInv ==
  ASSUME PInv, NEW t \in Threads, Step(t)
  PROVE  PInv'
<1>1. ASSUME UNCHANGED <<run, approvals, items, admins>>, Return(t)
      PROVE  PInv'
  <2>1. admins' \subseteq AdminUsers
    BY <1>1 DEF PInv, DataOK
  <2> QED BY <1>1, <2>1, RunsAlone, WriteStep
<1>2. CASE InsertStructure(t) \/ EditStructure(t) \/ applyRevision(t)
  BY <1>1, <1>2 DEF InsertStructure, EditStructure, applyRevision
<1>3. CASE CheckExisting(t) \/ ReadStructures(t) \/ ReadArrears(t) \/ CommitCreate(t)
  BY <1>3, CheckExistingPInv, ReadStructuresPInv, ReadArrearsPInv, CommitCreatePInv
<1>4. CASE ReadItems(t) \/ Compute(t) \/ CommitRecalc(t) \/ WriteItem(t) \/ CommitProcess(t)
  BY <1>4, ReadItemsPInv, ComputePInv, CommitRecalcPInv, WriteItemPInv, CommitProcessPInv
<1>5. CASE \E e \in Employees, extra \in Extras : ReadItem(t, e, extra)
  BY <1>5, ReadItemPInv
<1>6. CASE WriteStatus(t) \/ ReadStatus(t) \/ UpsertApproval(t) \/ CountApprovals(t)
             \/ WriteApproved(t) \/ ReadAffected(t)
  BY <1>6, WriteStatusPInv, ReadStatusPInv, UpsertPInv, CountPInv, WriteApprovedPInv,
     ReadAffectedPInv
<1> QED BY <1>2, <1>3, <1>4, <1>5, <1>6 DEF Step

LEMMA EnvironmentPInv ==
  ASSUME PInv, UNCHANGED <<run, approvals, items, thread>>, admins' \subseteq AdminUsers
  PROVE  PInv'
<1>1. Grows /\ TwoApprovers' /\ ProcessedHasPayslips'
  BY RunsAlone
<1>2. ThreadsOK' /\ \A u \in Threads : Grounded(thread[u])'
  BY <1>1, StaysGrounded DEF PInv, ThreadsOK
<1> QED BY <1>1, <1>2 DEF PInv, Grows

LEMMA NextPInv ==
  ASSUME PInv, [Next]_vars
  PROVE  PInv'
<1>1. ASSUME NEW t \in Threads, Lost(t) PROVE PInv'
  BY <1>1, ReturnsIdle DEF Lost
<1>2. ASSUME NEW active \in AdminChoices, ChangeAdmins(active) PROVE PInv'
  BY <1>2, EnvironmentPInv, PayrollConstants DEF ChangeAdmins, PayrollConstants
<1>3. ASSUME NEW e \in Employees, ChangePayable(e) PROVE PInv'
  BY <1>3, EnvironmentPInv DEF ChangePayable, PInv, DataOK
<1>4. CASE UNCHANGED vars
  BY <1>4, EnvironmentPInv DEF vars, PInv, DataOK
<1> QED BY <1>1, <1>2, <1>3, <1>4, StartPInv, StepPInv DEF Next
----------------------------------------------------------------------------
(* The two-person rule (module 07, INV-1): however approve() calls overlap, *)
(* repeat or die, a run is APPROVED, PROCESSED or DISBURSED only with the   *)
(* approval rows of two distinct users.                                     *)
THEOREM TwoPersonRule == Spec => []TwoApprovers
<1>1. Init => PInv
  BY InitPInv
<1>2. PInv /\ [Next]_vars => PInv'
  BY NextPInv
<1>3. PInv => TwoApprovers
  BY DEF PInv
<1> QED BY <1>1, <1>2, <1>3, PTL DEF Spec

(* process() never leaves a processed run without the payslip of a line     *)
(* item whose employee has a date of birth, whatever races it.              *)
THEOREM PayslipsAreThere == Spec => []ProcessedHasPayslips
<1>1. Init => PInv
  BY InitPInv
<1>2. PInv /\ [Next]_vars => PInv'
  BY NextPInv
<1>3. PInv => ProcessedHasPayslips
  BY DEF PInv
<1> QED BY <1>1, <1>2, <1>3, PTL DEF Spec
----------------------------------------------------------------------------
(* The second argument: types, regular runs and arrears.                    *)

(* The rows of arrears a line item or a handler's line names. *)
Theirs(x, e) == x.folded \subseteq {a \in ArrearsIds : a[1] = e}
Figures(x) == x.base \in Nat /\ x.extra \in Int /\ x.net \in Int /\ x.printed \in Int
AllFolded(x) == \A a \in x.folded : arrears[a].status = "FOLDED"

(* A row of arrears that is FOLDED names a run that is there and carries    *)
(* the employee; one of a revision yet to come is not there.                *)
RowOK(a) ==
    /\ arrears[a] = [f \in {"status", "amount", "into"} |-> arrears[a][f]]
    /\ arrears[a].status \in {"NONE", "PENDING", "FOLDED"} /\ arrears[a].amount \in Int
    /\ IF arrears[a].status = "FOLDED"
       THEN /\ arrears[a].into \in Runs /\ run[arrears[a].into].status # "NONE"
            /\ items[arrears[a].into][a[1]].on
       ELSE arrears[a].into = NoRun
    /\ arrears[a].status # "NONE" => a[3] <= structure[a[1]].ver

LinesOK(r) == \A e \in Employees :
    LET x == items[r][e] IN Figures(x) /\ Theirs(x, e) /\ AllFolded(x)

IsRegular(r) == run[r].status # "NONE" /\ ~run[r].again

TablesOK ==
    /\ \A r \in Runs : LinesOK(r)
    /\ \A a \in ArrearsIds : RowOK(a)
    /\ structure \in [Employees -> [ver: 0..MaxVersion, pay: Nat]]
    /\ payable \subseteq Employees
    /\ \A q, r \in Runs : IsRegular(q) /\ IsRegular(r) /\ run[q].period = run[r].period => q = r

(* What a handler's record says. *)
Sound(k) ==
    /\ k.pc \in Pcs /\ k.r \in Runs \cup {NoRun} /\ k.by \in Managers \cup {Nobody}
    /\ \A e \in Employees :
         /\ Figures(k.lines[e]) /\ Theirs(k.lines[e], e)
         /\ \A a \in k.lines[e].folded : arrears[a].status # "NONE"
         /\ k.op = "CREATE" /\ k.lines[e].folded # {} => k.lines[e].on
         /\ k.op # "CREATE" => AllFolded(k.lines[e])
    /\ k.pc \in {"insert", "affected", "edit", "revise"} =>
         /\ k.emp \in Employees /\ k.pay \in Nat /\ k.old \in Nat
         /\ k.ver \in Nat /\ k.ver < MaxVersion

WInv == TablesOK /\ \A t \in Threads : Sound(thread[t])
----------------------------------------------------------------------------
LEMMA IdleSound == Sound(Idle) /\ Sound(Idle)'
BY DEF Sound, Idle, Pcs, NoItems, NoItem, Figures, Theirs, AllFolded

LEMMA InitWInv == ASSUME Init PROVE WInv
<1>1. \A t \in Threads : Sound(thread[t])
  BY IdleSound DEF Init
<1>2. structure \in [Employees -> [ver: 0..MaxVersion, pay: Nat]]
  BY PayrollConstants DEF Init, PayrollConstants
<1>3. \A r \in Runs : LinesOK(r) /\ ~IsRegular(r)
  BY DEF Init, LinesOK, IsRegular, NoItems, NoItem, Figures, Theirs, AllFolded
<1>4. \A a \in ArrearsIds : RowOK(a)
  BY DEF Init, RowOK
<1> QED BY <1>1, <1>2, <1>3, <1>4 DEF WInv, TablesOK, Init

(* There are finitely many rows of arrears, so their total is a number. *)
LEMMA FiniteArrears == \A S : S \subseteq ArrearsIds => IsFiniteSet(S)
<1>1. IsFiniteSet(Employees) /\ IsFiniteSet(Runs) /\ IsFiniteSet(1..MaxVersion)
  BY PayrollConstants, FS_Interval DEF PayrollConstants
<1> DEFINE P == Runs \X (1..MaxVersion)
           T == Employees \X P
           flat == [q \in T |-> <<q[1], q[2][1], q[2][2]>>]
<1>2. IsFiniteSet(P)
  BY <1>1, FS_Product
<1>3. IsFiniteSet(T)
  BY <1>1, <1>2, FS_Product
<1>4. \A a \in ArrearsIds : \E q \in T : flat[q] = a
  <2> TAKE a \in ArrearsIds
  <2>1. a = <<a[1], a[2], a[3]>> /\ <<a[1], <<a[2], a[3]>>>> \in T
    BY DEF ArrearsIds
  <2> QED BY <2>1
<1>5. \A q \in T : flat[q] \in ArrearsIds
  BY DEF ArrearsIds
<1>6. flat \in Surjection(T, ArrearsIds)
  BY <1>4, <1>5 DEF Surjection
<1>7. IsFiniteSet(ArrearsIds)
  BY <1>3, <1>6, FS_Surjection
<1> QED BY <1>7, FS_Subset

LEMMA AdjustmentsAreInt ==
  ASSUME WInv, NEW S, S \subseteq ArrearsIds, NEW extra \in Int
  PROVE  AdjustmentTotal(S, extra) \in Int
<1> DEFINE f == [a \in ArrearsIds |-> arrears[a].amount]
<1>1. \A a \in S : f[a] \in Int
  BY DEF WInv, TablesOK, RowOK
<1> HIDE DEF f
<1>2. SumFunctionOnSet(f, S) \in Int
  BY <1>1, FiniteArrears, SumIsInt
<1> QED BY <1>2 DEF AdjustmentTotal, f

(* Rows of arrears are raised, then folded, and never go back. *)
Onward == \A a \in ArrearsIds :
    /\ arrears[a].status # "NONE" => arrears'[a].status # "NONE"
    /\ arrears[a].status = "FOLDED" => arrears'[a].status = "FOLDED"

LEMMA StaysSound ==
  ASSUME Onward, NEW k, Sound(k)
  PROVE  Sound(k)'
BY DEF Onward, Sound, AllFolded, Theirs, Figures

LEMMA ReadKeeps ==
  ASSUME PInv, WInv, UNCHANGED tables, NEW t \in Threads, NEW k,
         thread' = [thread EXCEPT ![t] = k], Sound(k)
  PROVE  WInv'
<1>1. TablesOK'
  BY DEF WInv, TablesOK, tables, LinesOK, RowOK, IsRegular, Figures, Theirs, AllFolded
<1>2. Onward
  BY DEF Onward, tables
<1>3. \A u \in Threads : thread'[u] = IF u = t THEN k ELSE thread[u]
  BY DEF PInv, ThreadsOK
<1>4. \A u \in Threads : Sound(thread[u])'
  BY <1>2, <1>3, StaysSound DEF WInv
<1> QED BY <1>1, <1>4 DEF WInv

LEMMA WriteKeeps ==
  ASSUME PInv, WInv, Onward, TablesOK', NEW t \in Threads, Return(t)
  PROVE  WInv'
<1>1. \A u \in Threads : thread'[u] = IF u = t THEN Idle ELSE thread[u]
  BY DEF PInv, ThreadsOK, Return
<1>2. \A u \in Threads : Sound(thread[u])'
  BY <1>1, StaysSound, IdleSound DEF WInv
<1> QED BY <1>2 DEF WInv

LEMMA ReturnKeeps ==
  ASSUME PInv, WInv, UNCHANGED tables, NEW t \in Threads, Return(t)
  PROVE  WInv'
BY ReadKeeps, IdleSound DEF Return
----------------------------------------------------------------------------
(* The record a handler starts with. *)
LEMMA StartKeeps ==
  ASSUME PInv, WInv, NEW t \in Threads, Start(t)
  PROVE  WInv'
<1>1. ASSUME NEW u \in Managers, NEW p \in Periods, NEW again \in BOOLEAN,
             StartCreate(t, u, p, again)
      PROVE  WInv'
  <2> DEFINE k == [Idle EXCEPT !.pc = IF again THEN "structures" ELSE "existing",
                               !.op = "CREATE", !.period = p, !.again = again]
  <2>1. Sound(k)
    BY IdleSound DEF Sound, Idle, Pcs, NoItems, NoItem, Figures, Theirs, AllFolded
  <2> QED BY <1>1, <2>1, ReadKeeps DEF StartCreate
<1>2. ASSUME NEW u \in Managers, NEW r \in Runs, NEW op, NEW pc \in {"items", "write"},
             NEW statuses, StartOn(t, u, r, op, pc, statuses)
      PROVE  WInv'
  <2> DEFINE k == [Idle EXCEPT !.pc = pc, !.op = op, !.r = r]
  <2>1. Sound(k)
    BY DEF Sound, Idle, Pcs, NoItems, NoItem, Figures, Theirs, AllFolded
  <2> QED BY <1>2, <2>1, ReadKeeps DEF StartOn
<1>3. ASSUME NEW u \in Managers, NEW r \in Runs, StartApprove(t, u, r)
      PROVE  WInv'
  <2> DEFINE k == [Idle EXCEPT !.pc = "status", !.op = "APPROVE", !.by = u, !.r = r]
  <2>1. Sound(k)
    BY DEF Sound, Idle, Pcs, NoItems, NoItem, Figures, Theirs, AllFolded
  <2> QED BY <1>3, <2>1, ReadKeeps DEF StartApprove
<1>4. ASSUME NEW u \in Managers, NEW r \in Runs, OnRun(t, u, r) PROVE WInv'
  BY <1>2, <1>3, <1>4 DEF OnRun, recalculate, setLineItemAdjustments, submitForReview, process,
                         disburse
<1>5. ASSUME NEW u \in Managers, NEW e \in Employees, NEW pay \in Pays, NEW p \in Periods,
             NEW op \in {"CREATE_STRUCTURE", "UPDATE", "REVISE"},
             StartStructure(t, u, e, pay, p, op)
      PROVE  WInv'
  <2> DEFINE k == [Idle EXCEPT !.pc = IF op = "CREATE_STRUCTURE" THEN "insert" ELSE "affected",
                      !.op = op, !.emp = e, !.period = p, !.pay = pay,
                      !.ver = structure[e].ver, !.old = structure[e].pay]
  <2>1. structure[e].ver \in Nat /\ structure[e].ver < MaxVersion /\ structure[e].pay \in Nat
        /\ pay \in Nat
    BY <1>5, PayrollConstants DEF StartStructure, WInv, TablesOK, PayrollConstants
  <2>2. Sound(k)
    BY <2>1 DEF Sound, Idle, Pcs, NoItems, NoItem, Figures, Theirs, AllFolded
  <2> QED BY <1>5, <2>2, ReadKeeps DEF StartStructure
<1> QED BY <1>1, <1>4, <1>5 DEF Start

LEMMA GotoKeeps ==
  ASSUME PInv, WInv, UNCHANGED tables, NEW t \in Threads, NEW p \in Pcs, Goto(t, p),
         p \notin {"insert", "affected", "edit", "revise"}
  PROVE  WInv'
<1> DEFINE k == [thread[t] EXCEPT !.pc = p]
<1>1. thread' = [thread EXCEPT ![t] = k]
  BY DEF Goto, PInv, ThreadsOK
<1>2. /\ k.pc = p /\ k.op = thread[t].op /\ k.by = thread[t].by
      /\ k.r = thread[t].r /\ k.lines = thread[t].lines
  BY MovedThread
<1> HIDE DEF k
<1>3. Sound(k)
  BY <1>2 DEF WInv, Sound
<1> QED BY <1>1, <1>3, ReadKeeps

(* A handler takes lines into its record. *)
LEMMA LinesKeep ==
  ASSUME PInv, WInv, UNCHANGED tables, NEW t \in Threads, NEW p \in Pcs, NEW lines,
         thread' = [thread EXCEPT ![t].pc = p, ![t].lines = lines],
         p \notin {"insert", "affected", "edit", "revise"},
         \A e \in Employees :
           /\ Figures(lines[e]) /\ Theirs(lines[e], e)
           /\ \A a \in lines[e].folded : arrears[a].status # "NONE"
           /\ thread[t].op = "CREATE" /\ lines[e].folded # {} => lines[e].on
           /\ thread[t].op # "CREATE" => AllFolded(lines[e])
  PROVE  WInv'
<1> DEFINE k == [thread[t] EXCEPT !.pc = p, !.lines = lines]
<1>1. /\ thread' = [thread EXCEPT ![t] = k] /\ k.op = thread[t].op
      /\ k.by = thread[t].by /\ k.r = thread[t].r /\ k.pc = p /\ k.lines = lines
  BY DEF PInv, ThreadsOK, IsThread, Fields
<1> HIDE DEF k
<1>2. Sound(k)
  BY <1>1 DEF WInv, Sound
<1> QED BY <1>1, <1>2, ReadKeeps

LEMMA ReadStructuresKeeps ==
  ASSUME PInv, WInv, NEW t \in Threads, ReadStructures(t)
  PROVE  WInv'
<1> DEFINE row(e) == IF CanCompute(e)
                     THEN [NoItem EXCEPT !.on = TRUE, !.base = structure[e].pay,
                                         !.net = structure[e].pay]
                     ELSE NoItem
           lines == [e \in Employees |-> row(e)]
<1>1. \A e \in Employees : structure[e].pay \in Nat
  BY DEF WInv, TablesOK
<1>2. \A e \in Employees : Figures(row(e)) /\ row(e).folded = {}
  BY <1>1 DEF Figures, NoItem
<1>3. UNCHANGED tables /\ thread' = [thread EXCEPT ![t].pc = "arrears", ![t].lines = lines]
  BY DEF ReadStructures
<1> HIDE DEF row
<1>4. \A e \in Employees : Theirs(lines[e], e) /\ Figures(lines[e]) /\ lines[e].folded = {}
                           /\ AllFolded(lines[e])
  BY <1>2 DEF Theirs, AllFolded
<1>5. PICK l : l = lines
  OBVIOUS
<1>6. thread' = [thread EXCEPT ![t].pc = "arrears", ![t].lines = l]
  BY <1>3, <1>5
<1>7. \A e \in Employees : /\ Figures(l[e]) /\ Theirs(l[e], e) /\ AllFolded(l[e])
                           /\ \A a \in l[e].folded : arrears[a].status # "NONE"
                           /\ l[e].folded # {} => l[e].on
  <2> HIDE DEF lines
  <2> QED BY <1>4, <1>5
<1>8. "arrears" \in Pcs /\ "arrears" \notin {"insert", "affected", "edit", "revise"}
  BY DEF Pcs
<1> HIDE DEF lines
<1> QED BY <1>3, <1>6, <1>7, <1>8, LinesKeep

LEMMA ReadArrearsKeeps ==
  ASSUME PInv, WInv, NEW t \in Threads, ReadArrears(t)
  PROVE  WInv'
<1> DEFINE pending(e) == {a \in ArrearsIds : a[1] = e /\ arrears[a].status = "PENDING"}
           lines == [e \in Employees |-> FoldedLine(thread[t].lines[e], pending(e))]
<1>1. /\ UNCHANGED tables /\ thread' = [thread EXCEPT ![t].pc = "commit", ![t].lines = lines]
      /\ thread[t].op = "CREATE" /\ AreItems(thread[t].lines)
  BY DEF ReadArrears, PInv, Grounded
<1>2. ASSUME NEW e \in Employees
      PROVE  /\ Figures(lines[e]) /\ Theirs(lines[e], e)
             /\ \A a \in lines[e].folded : arrears[a].status # "NONE"
             /\ lines[e].folded # {} => lines[e].on
  <2> DEFINE x == thread[t].lines[e]
             P == pending(e)
             n == x.base + AdjustmentTotal(P, 0)
  <2>1. /\ Figures(x) /\ Theirs(x, e) /\ (x.folded # {} => x.on) /\ IsItem(x)
        /\ \A a \in x.folded : arrears[a].status # "NONE"
    BY <1>1 DEF WInv, Sound, AreItems
  <2>2. P \subseteq {a \in ArrearsIds : a[1] = e} /\ \A a \in P : arrears[a].status # "NONE"
    OBVIOUS
  <2>3. n \in Int
    BY <2>1, <2>2, AdjustmentsAreInt DEF Figures
  <2>4. lines[e] = FoldedLine(x, P)
    OBVIOUS
  <2> HIDE DEF P, lines
  <2>5. CASE x.on
    <3>1. lines[e] = [x EXCEPT !.folded = P, !.net = n]
      BY <2>4, <2>5 DEF FoldedLine
    <3> HIDE DEF x, n
    <3>2. /\ lines[e].on = x.on /\ lines[e].base = x.base /\ lines[e].extra = x.extra
          /\ lines[e].folded = P /\ lines[e].net = n /\ lines[e].printed = x.printed
      BY <2>1, <3>1 DEF IsItem, ItemFields
    <3> QED BY <2>1, <2>2, <2>3, <2>5, <3>2 DEF Figures, Theirs
  <2>6. CASE ~x.on
    <3>1. lines[e] = x
      BY <2>4, <2>6 DEF FoldedLine
    <3> QED BY <2>1, <3>1
  <2> QED BY <2>5, <2>6
<1> HIDE DEF lines
<1> QED BY <1>1, <1>2, LinesKeep DEF Pcs

LEMMA ReadItemsKeeps ==
  ASSUME PInv, WInv, NEW t \in Threads, ReadItems(t)
  PROVE  WInv'
<1> DEFINE p == IF thread[t].op = "RECALC" THEN "compute" ELSE "commit"
           lines == items[thread[t].r]
<1>1. /\ thread[t].op # "CREATE" /\ thread[t].r \in Runs /\ UNCHANGED tables
      /\ thread' = [thread EXCEPT ![t].pc = p, ![t].lines = lines]
  BY DEF ReadItems, PInv, Grounded, OnARun
<1>2. \A e \in Employees : Figures(lines[e]) /\ Theirs(lines[e], e) /\ AllFolded(lines[e])
  BY <1>1 DEF WInv, TablesOK, LinesOK
<1>3. p \in Pcs /\ p \notin {"insert", "affected", "edit", "revise"}
  BY DEF Pcs
<1>4. \A e \in Employees : \A a \in lines[e].folded : arrears[a].status # "NONE"
  BY <1>2 DEF AllFolded
<1> HIDE DEF lines, p
<1> QED BY <1>1, <1>2, <1>3, <1>4, LinesKeep

LEMMA ReadItemKeeps ==
  ASSUME PInv, WInv, NEW t \in Threads, NEW e \in Employees, NEW extra \in Extras,
         ReadItem(t, e, extra)
  PROVE  WInv'
<1> DEFINE k == thread[t]
           line == items[k.r][e]
           row(folded) == [NoItem EXCEPT !.folded = folded, !.extra = extra,
                              !.net = line.base + AdjustmentTotal(folded, extra)]
<1>1. PICK folded \in SUBSET line.folded :
        thread' = [thread EXCEPT ![t].pc = "write", ![t].emp = e, ![t].lines[e] = row(folded)]
  BY DEF ReadItem
<1>2. /\ UNCHANGED tables /\ k.r \in Runs /\ k.op = "ADJUST" /\ AreItems(k.lines)
  BY DEF ReadItem, PInv, Grounded, OnARun
<1>3. Figures(line) /\ Theirs(line, e) /\ AllFolded(line)
  BY <1>2 DEF WInv, TablesOK, LinesOK
<1>4. extra \in Int
  BY PayrollConstants DEF PayrollConstants
<1>5. AdjustmentTotal(folded, extra) \in Int
  BY <1>3, <1>4, AdjustmentsAreInt DEF Theirs
<1> DEFINE x == row(folded)
<1>6. Figures(x) /\ Theirs(x, e) /\ AllFolded(x)
  BY <1>3, <1>4, <1>5 DEF Figures, Theirs, AllFolded, NoItem
<1> DEFINE j == [k EXCEPT !.pc = "write", !.emp = e, !.lines[e] = x]
<1> HIDE DEF x
<1>7. /\ thread' = [thread EXCEPT ![t] = j] /\ j.op = k.op /\ j.by = k.by /\ j.r = k.r
      /\ j.pc = "write" /\ j.lines = [k.lines EXCEPT ![e] = x]
  <2>1. PICK old : old = k
    OBVIOUS
  <2>2. IsThread(old) /\ thread = [u \in Threads |-> thread[u]]
    BY <2>1 DEF PInv, ThreadsOK
  <2>3. j = [old EXCEPT !.pc = "write", !.emp = e, !.lines[e] = x]
    BY <2>1
  <2>4. thread' = [thread EXCEPT ![t] = j]
    BY <1>1, <2>2 DEF x
  <2> HIDE DEF j
  <2>5. /\ j.op = old.op /\ j.by = old.by /\ j.r = old.r /\ j.emp = e
        /\ j.pc = "write" /\ j.lines = [old.lines EXCEPT ![e] = x]
    BY <2>2, <2>3 DEF IsThread, Fields
  <2> QED BY <2>1, <2>4, <2>5
<1> HIDE DEF j
<1>8. \A d \in Employees : j.lines[d] = IF d = e THEN x ELSE k.lines[d]
  BY <1>2, <1>7 DEF AreItems
<1>9. Sound(k)
  BY DEF WInv
<1>10. Sound(j)
  BY <1>2, <1>6, <1>7, <1>8, <1>9 DEF Sound, Pcs, AllFolded
<1> QED BY <1>2, <1>7, <1>10, ReadKeeps

LEMMA ComputeKeeps ==
  ASSUME PInv, WInv, NEW t \in Threads, Compute(t)
  PROVE  WInv'
<1> DEFINE k == thread[t]
           lines == [e \in Employees |-> Recomputed(k.lines[e], structure[e].pay)]
<1>1. UNCHANGED tables /\ k.op = "RECALC"
  BY DEF Compute, PInv, Grounded
<1>2. CASE Return(t)
  BY <1>1, <1>2, ReturnKeeps
<1>3. CASE thread' = [thread EXCEPT ![t].pc = "commit", ![t].lines = lines]
  <2>1. ASSUME NEW e \in Employees
        PROVE  /\ Figures(lines[e]) /\ lines[e].folded = {}
    <3> DEFINE x == k.lines[e]
               pay == structure[e].pay
    <3>1. Figures(x) /\ Theirs(x, e) /\ pay \in Nat
      BY DEF WInv, Sound, TablesOK
    <3>2. AdjustmentTotal(x.folded, x.extra) \in Int
      BY <3>1, AdjustmentsAreInt DEF Theirs, Figures
    <3>3. lines[e] = Recomputed(x, pay)
      OBVIOUS
    <3> HIDE DEF lines, x, pay
    <3> QED BY <3>1, <3>2, <3>3 DEF Recomputed, NoItem, Figures
  <2> HIDE DEF lines
  <2> QED BY <1>1, <1>3, <2>1, LinesKeep DEF Pcs, Theirs, AllFolded
<1> QED BY <1>2, <1>3 DEF Compute

LEMMA ReadAffectedKeeps ==
  ASSUME PInv, WInv, NEW t \in Threads, ReadAffected(t)
  PROVE  WInv'
<1> DEFINE hits == findAffectedLineItems(thread[t].emp, thread[t].period)
           p == IF thread[t].op = "UPDATE" /\ hits = {} THEN "edit" ELSE "revise"
           k == [thread[t] EXCEPT !.hits = hits, !.pc = p]
<1>1. thread[t].pc = "affected" /\ UNCHANGED tables /\ p \in {"edit", "revise"}
  BY DEF ReadAffected
<1>2. thread' = [thread EXCEPT ![t].hits = hits, ![t].pc = p]
  BY DEF ReadAffected
<1> HIDE DEF hits, p
<1>3. /\ thread' = [thread EXCEPT ![t] = k] /\ k.op = thread[t].op /\ k.by = thread[t].by
      /\ k.r = thread[t].r /\ k.lines = thread[t].lines /\ k.pc = p /\ k.emp = thread[t].emp
      /\ k.ver = thread[t].ver /\ k.old = thread[t].old /\ k.pay = thread[t].pay
  BY <1>2 DEF PInv, ThreadsOK, IsThread, Fields
<1> HIDE DEF k
<1>4. Sound(k)
  BY <1>1, <1>3 DEF WInv, Sound, Pcs
<1> QED BY <1>1, <1>3, <1>4, ReadKeeps
----------------------------------------------------------------------------
(* The statements that write.  Every statement but the last of createDraft() *)
(* keeps which runs are regular, of which period.                           *)
SameRuns == \A r \in Runs :
    /\ (run'[r].status = "NONE") = (run[r].status = "NONE")
    /\ run'[r].again = run[r].again /\ run'[r].period = run[r].period

LEMMA RunsWritten ==
  ASSUME PInv, WInv, SameRuns, UNCHANGED <<arrears, structure, payable>>,
         \A r \in Runs : LinesOK(r)',
         \A r \in Runs, e \in Employees : items'[r][e].on = items[r][e].on,
         NEW t \in Threads, Return(t)
  PROVE  WInv'
<1>1. \A a \in ArrearsIds : RowOK(a)'
  <2> TAKE a \in ArrearsIds
  <2>1. RowOK(a) /\ a[1] \in Employees
    BY DEF WInv, TablesOK, ArrearsIds
  <2> QED BY <2>1 DEF RowOK, SameRuns
<1>2. TablesOK'
  BY <1>1 DEF WInv, TablesOK, SameRuns, IsRegular
<1>3. Onward
  BY DEF Onward
<1> QED BY <1>2, <1>3, WriteKeeps

(* Nothing but the status of a run changes. *)
LEMMA StatusWritten ==
  ASSUME PInv, WInv, NEW t \in Threads, Return(t), NEW r \in Runs, NEW status,
         run' = [run EXCEPT ![r].status = status], status # "NONE", run[r].status # "NONE",
         UNCHANGED <<items, arrears, structure, payable>>
  PROVE  WInv'
<1>1. SameRuns
  BY DEF SameRuns, PInv, DataOK, RunRows
<1>2. \A q \in Runs : LinesOK(q)'
  BY DEF WInv, TablesOK, LinesOK, Figures, Theirs, AllFolded
<1> QED BY <1>1, <1>2, RunsWritten

LEMMA WriteStatusKeeps ==
  ASSUME PInv, WInv, NEW t \in Threads, WriteStatus(t) \/ WriteApproved(t)
  PROVE  WInv'
<1> DEFINE k == thread[t]
<1>1. k.r \in Runs /\ run[k.r].status # "NONE"
  BY DEF WriteStatus, WriteApproved, PInv, Grounded, OnARun
<1>2. CASE WriteStatus(t)
  <2> DEFINE status == IF k.op = "SUBMIT" THEN "REVIEW" ELSE "DISBURSED"
  <2>1. status # "NONE" /\ run' = [run EXCEPT ![k.r].status = status]
    BY <1>2 DEF WriteStatus
  <2>2. Return(t) /\ UNCHANGED <<items, arrears, structure, payable>>
    BY <1>2 DEF WriteStatus
  <2> HIDE DEF status
  <2> QED BY <1>1, <2>1, <2>2, StatusWritten
<1>3. CASE WriteApproved(t)
  BY <1>1, <1>3, StatusWritten DEF WriteApproved
<1> QED BY <1>2, <1>3

LEMMA UpsertKeeps ==
  ASSUME PInv, WInv, NEW t \in Threads, UpsertApproval(t)
  PROVE  WInv'
<1> DEFINE k == [thread[t] EXCEPT !.pc = "count"]
<1>1. /\ k.op = thread[t].op /\ k.pc = "count" /\ k.by = thread[t].by
      /\ k.r = thread[t].r /\ k.lines = thread[t].lines /\ thread' = [thread EXCEPT ![t] = k]
  BY MovedThread DEF UpsertApproval, Goto, PInv, ThreadsOK
<1> HIDE DEF k
<1>2. Sound(k)
  BY <1>1 DEF WInv, Sound, Pcs
<1>3. UNCHANGED <<run, items, arrears, structure, payable>>
  BY DEF UpsertApproval
<1>4. Onward /\ TablesOK'
  BY <1>3 DEF Onward, WInv, TablesOK, LinesOK, RowOK, IsRegular, Figures, Theirs, AllFolded
<1>5. \A u \in Threads : thread'[u] = IF u = t THEN k ELSE thread[u]
  BY <1>1 DEF PInv, ThreadsOK
<1>6. \A u \in Threads : Sound(thread[u])'
  BY <1>2, <1>4, <1>5, StaysSound DEF WInv
<1> QED BY <1>4, <1>6 DEF WInv

(* The line items of one run are written. *)
LEMMA ItemsWritten ==
  ASSUME PInv, WInv, SameRuns, UNCHANGED <<arrears, structure, payable>>,
         NEW t \in Threads, Return(t), NEW r \in Runs, NEW new,
         items' = [items EXCEPT ![r] = new],
         \A e \in Employees :
           /\ new[e].on = items[r][e].on
           /\ Figures(new[e]) /\ Theirs(new[e], e) /\ AllFolded(new[e])
  PROVE  WInv'
<1>1. \A q \in Runs : items'[q] = IF q = r THEN new ELSE items[q]
  BY DEF PInv, DataOK
<1>2. \A q \in Runs : LinesOK(q)'
  BY <1>1 DEF WInv, TablesOK, LinesOK, Figures, Theirs, AllFolded
<1>3. \A q \in Runs, e \in Employees : items'[q][e].on = items[q][e].on
  BY <1>1
<1> QED BY <1>2, <1>3, RunsWritten

LEMMA NothingWritten ==
  ASSUME PInv, WInv, UNCHANGED <<run, items, arrears, structure, payable>>,
         NEW t \in Threads, Return(t)
  PROVE  WInv'
<1>1. SameRuns
  BY DEF SameRuns
<1>2. \A r \in Runs : LinesOK(r)'
  BY DEF WInv, TablesOK, LinesOK, Figures, Theirs, AllFolded
<1> QED BY <1>1, <1>2, RunsWritten

LEMMA CommitRecalcKeeps ==
  ASSUME PInv, WInv, NEW t \in Threads, CommitRecalc(t)
  PROVE  WInv'
<1> DEFINE k == thread[t]
           row(e) == IF ~k.lines[e].on THEN items[k.r][e]
                     ELSE [items[k.r][e] EXCEPT !.base = k.lines[e].base,
                                                !.net = k.lines[e].net]
           new == [e \in Employees |-> row(e)]
<1>1. /\ k.r \in Runs /\ Return(t) /\ UNCHANGED <<run, arrears, structure, payable>>
      /\ AreItems(items[k.r])
  BY DEF CommitRecalc, PInv, Grounded, OnARun, DataOK
<1>2. items' = items \/ items' = [items EXCEPT ![k.r] = new]
  BY DEF CommitRecalc
<1>3. ASSUME NEW e \in Employees
      PROVE  /\ new[e].on = items[k.r][e].on
             /\ Figures(new[e]) /\ Theirs(new[e], e) /\ AllFolded(new[e])
  <2> DEFINE x == items[k.r][e]
             l == k.lines[e]
  <2>1. IsItem(x) /\ Figures(x) /\ Theirs(x, e) /\ AllFolded(x) /\ Figures(l)
    BY <1>1 DEF AreItems, WInv, TablesOK, LinesOK, Sound
  <2>2. new[e] = x \/ new[e] = [x EXCEPT !.base = l.base, !.net = l.net]
    OBVIOUS
  <2> HIDE DEF x, l, new
  <2>3. CASE new[e] = [x EXCEPT !.base = l.base, !.net = l.net]
    <3>1. /\ new[e].on = x.on /\ new[e].base = l.base /\ new[e].extra = x.extra
          /\ new[e].folded = x.folded /\ new[e].net = l.net /\ new[e].printed = x.printed
      BY <2>1, <2>3 DEF IsItem, ItemFields
    <3> QED BY <2>1, <3>1 DEF Figures, Theirs, AllFolded, x
  <2> QED BY <2>1, <2>2, <2>3 DEF x
<1>4. SameRuns
  BY <1>1 DEF SameRuns
<1> HIDE DEF new
<1> QED BY <1>1, <1>2, <1>3, <1>4, ItemsWritten, NothingWritten

LEMMA WriteItemKeeps ==
  ASSUME PInv, WInv, NEW t \in Threads, WriteItem(t)
  PROVE  WInv'
<1> DEFINE k == thread[t]
           l == k.lines[k.emp]
           x == items[k.r][k.emp]
           y == [x EXCEPT !.folded = l.folded, !.extra = l.extra, !.net = l.net]
           new == [items[k.r] EXCEPT ![k.emp] = y]
<1>1. /\ k.r \in Runs /\ k.emp \in Employees /\ Return(t) /\ k.op = "ADJUST"
      /\ UNCHANGED <<run, arrears, structure, payable>> /\ AreItems(items[k.r])
  BY DEF WriteItem, PInv, Grounded, OnARun, DataOK
<1>2. items' = items \/ items' = [items EXCEPT ![k.r] = new]
  <2>1. items' = items \/ items' = [items EXCEPT ![k.r][k.emp] = y]
    BY DEF WriteItem
  <2> HIDE DEF y
  <2> QED BY <2>1
<1>3. IsItem(x) /\ Figures(x)
  BY <1>1 DEF AreItems, WInv, TablesOK, LinesOK
<1>4. Figures(l) /\ Theirs(l, k.emp) /\ AllFolded(l)
  BY <1>1 DEF WInv, Sound
<1>5. /\ y.on = x.on /\ y.base = x.base /\ y.extra = l.extra
      /\ y.folded = l.folded /\ y.net = l.net /\ y.printed = x.printed
  BY <1>3 DEF IsItem, ItemFields
<1> HIDE DEF y
<1>6. Figures(y) /\ Theirs(y, k.emp) /\ AllFolded(y)
  BY <1>3, <1>4, <1>5 DEF Figures, Theirs, AllFolded
<1>7. \A e \in Employees : new[e] = IF e = k.emp THEN y ELSE items[k.r][e]
  BY <1>1 DEF AreItems
<1> HIDE DEF new
<1>8. ASSUME NEW e \in Employees
      PROVE  /\ new[e].on = items[k.r][e].on
             /\ Figures(new[e]) /\ Theirs(new[e], e) /\ AllFolded(new[e])
  <2>1. LinesOK(k.r)
    BY <1>1 DEF WInv, TablesOK
  <2>2. CASE e = k.emp
    BY <1>5, <1>6, <1>7, <2>2
  <2>3. CASE e # k.emp
    BY <1>7, <2>1, <2>3 DEF LinesOK
  <2> QED BY <2>2, <2>3
<1>9. SameRuns
  BY <1>1 DEF SameRuns
<1> QED BY <1>1, <1>2, <1>8, <1>9, ItemsWritten, NothingWritten

LEMMA CommitProcessKeeps ==
  ASSUME PInv, WInv, NEW t \in Threads, CommitProcess(t)
  PROVE  WInv'
<1> DEFINE k == thread[t]
           new == WithPayslips(k)
<1>1. /\ k.r \in Runs /\ Return(t) /\ UNCHANGED <<arrears, structure, payable>>
      /\ AreItems(items[k.r]) /\ run[k.r].status # "NONE"
  BY DEF CommitProcess, PInv, Grounded, OnARun, DataOK
<1>2. CASE UNCHANGED <<run, items>>
  BY <1>1, <1>2, NothingWritten
<1>3. CASE items' = [items EXCEPT ![k.r] = new] /\ MarkProcessed(k.r)
  <2>1. SameRuns
    BY <1>1, <1>3 DEF SameRuns, MarkProcessed, PInv, DataOK, RunRows
  <2>2. ASSUME NEW e \in Employees
        PROVE  /\ new[e].on = items[k.r][e].on
               /\ Figures(new[e]) /\ Theirs(new[e], e) /\ AllFolded(new[e])
    <3> DEFINE x == items[k.r][e]
               l == k.lines[e]
    <3>1. IsItem(x) /\ Figures(x) /\ Theirs(x, e) /\ AllFolded(x) /\ Figures(l)
      BY <1>1 DEF AreItems, WInv, TablesOK, LinesOK, Sound
    <3>2. new[e] = x \/ new[e] = [x EXCEPT !.slip = TRUE, !.printed = PayslipNet(l)]
      BY DEF WithPayslips
    <3> HIDE DEF x, l, new
    <3>3. CASE new[e] = [x EXCEPT !.slip = TRUE, !.printed = PayslipNet(l)]
      <4>1. /\ new[e].on = x.on /\ new[e].base = x.base /\ new[e].extra = x.extra
            /\ new[e].folded = x.folded /\ new[e].net = x.net /\ new[e].printed = l.net
        BY <3>1, <3>3 DEF IsItem, ItemFields, PayslipNet
      <4> QED BY <3>1, <4>1 DEF Figures, Theirs, AllFolded, x
    <3> QED BY <3>1, <3>2, <3>3 DEF x
  <2> HIDE DEF new
  <2> QED BY <1>1, <1>3, <2>1, <2>2, ItemsWritten
<1> QED BY <1>2, <1>3 DEF CommitProcess

(* createDraft() folds the arrears it read into the run it inserts.         *)
LEMMA CommitCreateKeeps ==
  ASSUME PInv, WInv, NEW t \in Threads, CommitCreate(t)
  PROVE  WInv'
<1> DEFINE k == thread[t]
           folds == UNION {k.lines[e].folded : e \in Employees}
<1>1. Return(t) /\ UNCHANGED <<structure, payable>> /\ k.op = "CREATE"
  BY DEF CommitCreate
<1>2. CASE UNCHANGED <<run, items, arrears>>
  BY <1>1, <1>2, NothingWritten
<1>3. CASE /\ ~PeriodTaken(k)
           /\ \E r \in Runs :
                /\ NextRun(r)
                /\ run' = [run EXCEPT ![r] = [status |-> "DRAFT", period |-> k.period,
                                              again |-> k.again, processed |-> FALSE]]
                /\ items' = [items EXCEPT ![r] = k.lines]
                /\ arrears' = [a \in ArrearsIds |->
                     IF a \in folds THEN Fold(arrears[a], r) ELSE arrears[a]]
  <2>1. PICK r \in Runs :
             /\ NextRun(r)
             /\ run' = [run EXCEPT ![r] = [status |-> "DRAFT", period |-> k.period,
                                           again |-> k.again, processed |-> FALSE]]
             /\ items' = [items EXCEPT ![r] = k.lines]
             /\ arrears' = [a \in ArrearsIds |->
                  IF a \in folds THEN Fold(arrears[a], r) ELSE arrears[a]]
    BY <1>3
  <2>2. /\ run[r].status = "NONE"
        /\ run'[r].status = "DRAFT" /\ run'[r].period = k.period /\ run'[r].again = k.again
        /\ items'[r] = k.lines
        /\ \A q \in Runs \ {r} : run'[q] = run[q] /\ items'[q] = items[q]
    BY <2>1 DEF NextRun, PInv, DataOK
  <2>3. Sound(k)
    BY DEF WInv
  <2>4. \A a \in folds : a \in ArrearsIds /\ k.lines[a[1]].on
                         /\ a \in k.lines[a[1]].folded
    BY <1>1, <2>3 DEF Sound, Theirs
  <2>5. \A e \in Employees : \A a \in k.lines[e].folded : a \in folds
    OBVIOUS
  <2> HIDE DEF folds
  <2>6. \A a \in ArrearsIds : RowOK(a)
    BY DEF WInv, TablesOK
  <2>7. \A a \in ArrearsIds : arrears'[a] = IF a \in folds THEN Fold(arrears[a], r) ELSE arrears[a]
    BY <2>1
  <2>8. ASSUME NEW a \in ArrearsIds, a \in folds
        PROVE  /\ arrears'[a] = [f \in {"status", "amount", "into"} |-> arrears'[a][f]]
               /\ arrears'[a].status = "FOLDED" /\ arrears'[a].into = r
               /\ arrears'[a].amount = arrears[a].amount
    <3>1. arrears'[a] = [arrears[a] EXCEPT !.status = "FOLDED", !.into = r]
      BY <2>7, <2>8 DEF Fold
    <3>2. arrears[a] = [f \in {"status", "amount", "into"} |-> arrears[a][f]]
      BY <2>6 DEF RowOK
    <3> QED BY <3>1, <3>2
  <2>9. Onward
    BY <2>7, <2>8 DEF Onward
  <2>10. \A a \in ArrearsIds : RowOK(a)'
    <3> TAKE a \in ArrearsIds
    <3>1. a[1] \in Employees /\ RowOK(a)
      BY <2>6 DEF ArrearsIds
    <3>2. CASE a \in folds
      <4>1. arrears[a].status # "NONE"
        BY <2>3, <2>4, <3>1, <3>2 DEF Sound
      <4> QED BY <1>1, <2>2, <2>4, <2>8, <3>1, <3>2, <4>1 DEF RowOK
    <3>3. CASE a \notin folds
      BY <1>1, <2>2, <2>7, <3>1, <3>3 DEF RowOK
    <3> QED BY <3>2, <3>3
  <2>11. \A q \in Runs : LinesOK(q)'
    <3> TAKE q \in Runs
    <3>1. ASSUME NEW e \in Employees
          PROVE  /\ Figures(items'[q][e]) /\ Theirs(items'[q][e], e)
                 /\ \A a \in items'[q][e].folded : arrears'[a].status = "FOLDED"
      <4>1. CASE q = r
        <5>1. items'[q][e] = k.lines[e]
          BY <2>2, <4>1
        <5>2. Figures(k.lines[e]) /\ Theirs(k.lines[e], e)
          BY <2>3 DEF Sound
        <5>3. \A a \in k.lines[e].folded : arrears'[a].status = "FOLDED"
          BY <2>4, <2>5, <2>8
        <5> HIDE DEF k
        <5> QED BY <5>1, <5>2, <5>3
      <4>2. CASE q # r
        <5>1. items'[q][e] = items[q][e]
          BY <2>2, <4>2
        <5>2. Figures(items[q][e]) /\ Theirs(items[q][e], e) /\ AllFolded(items[q][e])
          BY DEF WInv, TablesOK, LinesOK
        <5>3. \A a \in items[q][e].folded : a \in ArrearsIds
          BY <5>2 DEF Theirs
        <5> QED BY <2>9, <5>1, <5>2, <5>3 DEF Onward, AllFolded
      <4> QED BY <4>1, <4>2
    <3> QED BY <3>1 DEF LinesOK, AllFolded, Figures, Theirs
  <2>12. \A q \in Runs, s \in Runs :
           IsRegular(q)' /\ IsRegular(s)' /\ run'[q].period = run'[s].period => q = s
    <3>1. IsRegular(r)' => \A q \in Runs : IsRegular(q) => run[q].period # k.period
      BY <1>3, <2>2 DEF PeriodTaken, RegularRuns, IsRegular
    <3>2. \A q \in Runs \ {r} : IsRegular(q)' => IsRegular(q) /\ run'[q].period = run[q].period
      BY <2>2 DEF IsRegular
    <3>3. \A q, s \in Runs :
            IsRegular(q) /\ IsRegular(s) /\ run[q].period = run[s].period => q = s
      BY DEF WInv, TablesOK
    <3> QED BY <2>2, <3>1, <3>2, <3>3
  <2>13. TablesOK'
    BY <1>1, <2>10, <2>11, <2>12 DEF WInv, TablesOK
  <2> QED BY <1>1, <2>9, <2>13, WriteKeeps
<1> QED BY <1>2, <1>3 DEF CommitCreate

(* Salary structures: inserted, edited, revised. *)
LEMMA StructureWritten ==
  ASSUME PInv, WInv, UNCHANGED <<run, items, payable>>, Onward,
         \A a \in ArrearsIds : RowOK(a)',
         structure' \in [Employees -> [ver: 0..MaxVersion, pay: Nat]],
         NEW t \in Threads, Return(t)
  PROVE  WInv'
<1>1. \A r \in Runs : LinesOK(r)'
  <2> TAKE r \in Runs
  <2>1. ASSUME NEW e \in Employees
        PROVE  /\ Figures(items[r][e]) /\ Theirs(items[r][e], e)
               /\ \A a \in items[r][e].folded : arrears'[a].status = "FOLDED"
    <3>1. Figures(items[r][e]) /\ Theirs(items[r][e], e) /\ AllFolded(items[r][e])
      BY DEF WInv, TablesOK, LinesOK
    <3> QED BY <3>1 DEF Theirs, AllFolded, Onward
  <2> QED BY <2>1 DEF LinesOK, AllFolded, Figures, Theirs
<1>2. TablesOK'
  BY <1>1 DEF WInv, TablesOK, IsRegular
<1> QED BY <1>2, WriteKeeps

LEMMA StructuresKeep ==
  ASSUME PInv, WInv, NEW t \in Threads, InsertStructure(t) \/ EditStructure(t)
  PROVE  WInv'
<1> DEFINE k == thread[t]
<1>1. /\ Return(t) /\ UNCHANGED <<run, items, arrears, payable>>
      /\ k.emp \in Employees /\ k.pay \in Nat /\ k.ver \in Nat /\ k.ver < MaxVersion
  BY DEF InsertStructure, EditStructure, WInv, Sound
<1>2. structure \in [Employees -> [ver: 0..MaxVersion, pay: Nat]] /\ MaxVersion \in Nat
  BY PayrollConstants DEF WInv, TablesOK, PayrollConstants
<1>4. /\ structure' \in [Employees -> [ver: 0..MaxVersion, pay: Nat]]
      /\ \A e \in Employees : structure[e].ver <= structure'[e].ver
  <2>1. CASE InsertStructure(t)
    <3>1. \/ structure' = structure
          \/ /\ structure' = [structure EXCEPT ![k.emp] = [ver |-> 1, pay |-> k.pay]]
             /\ ~(structure[k.emp].ver > 0)
      BY <2>1 DEF InsertStructure
    <3>2. [ver |-> 1, pay |-> k.pay] \in [ver: 0..MaxVersion, pay: Nat]
      BY <1>1, <1>2
    <3> QED BY <1>1, <1>2, <3>1, <3>2
  <2>2. CASE EditStructure(t)
    <3>1. structure' = structure \/ structure' = [structure EXCEPT ![k.emp].pay = k.pay]
      BY <2>2 DEF EditStructure
    <3> QED BY <1>1, <1>2, <3>1
  <2> QED BY <2>1, <2>2
<1>5. \A a \in ArrearsIds : RowOK(a)'
  <2> TAKE a \in ArrearsIds
  <2>1. RowOK(a) /\ a[1] \in Employees /\ a[3] \in Int
    BY DEF WInv, TablesOK, ArrearsIds
  <2>2. structure[a[1]].ver \in Int /\ structure'[a[1]].ver \in Int
        /\ structure[a[1]].ver <= structure'[a[1]].ver
    BY <1>2, <1>4, <2>1
  <2> QED BY <1>1, <2>1, <2>2 DEF RowOK
<1>6. Onward
  BY <1>1 DEF Onward
<1> QED BY <1>1, <1>4, <1>5, <1>6, StructureWritten

(* A revision raises rows that were not there, of the version it creates.   *)
LEMMA RevisionKeeps ==
  ASSUME PInv, WInv, NEW t \in Threads, applyRevision(t)
  PROVE  WInv'
<1> DEFINE k == thread[t]
           new(a) == a[1] = k.emp /\ a[2] \in k.hits /\ a[3] = k.ver + 1
           row == [status |-> "PENDING", amount |-> k.pay - k.old, into |-> NoRun]
<1>1. /\ Return(t) /\ UNCHANGED <<run, items, payable>>
      /\ k.emp \in Employees /\ k.pay \in Nat /\ k.old \in Nat /\ k.ver \in Nat
      /\ k.ver < MaxVersion
  BY DEF applyRevision, WInv, Sound
<1>2. structure \in [Employees -> [ver: 0..MaxVersion, pay: Nat]] /\ MaxVersion \in Nat
  BY PayrollConstants DEF WInv, TablesOK, PayrollConstants
<1>3. CASE UNCHANGED <<structure, arrears>>
  <2>1. \A a \in ArrearsIds : RowOK(a)'
    BY <1>1, <1>3 DEF WInv, TablesOK, RowOK
  <2>2. Onward
    BY <1>3 DEF Onward
  <2> QED BY <1>1, <1>2, <1>3, <2>1, <2>2, StructureWritten
<1>4. CASE /\ structure[k.emp].ver = k.ver
           /\ structure' = [structure EXCEPT ![k.emp] = [ver |-> k.ver + 1, pay |-> k.pay]]
           /\ arrears' = [a \in ArrearsIds |-> IF new(a) THEN row ELSE arrears[a]]
  <2>1. [ver |-> k.ver + 1, pay |-> k.pay] \in [ver: 0..MaxVersion, pay: Nat]
    BY <1>1, <1>2
  <2>2. /\ structure' \in [Employees -> [ver: 0..MaxVersion, pay: Nat]]
        /\ structure'[k.emp].ver = k.ver + 1
        /\ \A e \in Employees : structure[e].ver <= structure'[e].ver
    BY <1>1, <1>2, <1>4, <2>1
  <2>3. ASSUME NEW a \in ArrearsIds, new(a)
        PROVE  arrears[a].status = "NONE" /\ arrears'[a] = row /\ a[1] = k.emp /\ a[3] = k.ver + 1
    <3>1. arrears[a].status # "NONE" => a[3] <= structure[a[1]].ver
      BY DEF WInv, TablesOK, RowOK
    <3> QED BY <1>1, <1>4, <2>3, <3>1
  <2>4. \A a \in ArrearsIds : ~new(a) => arrears'[a] = arrears[a]
    BY <1>4
  <2> HIDE DEF new
  <2>5. Onward
    BY <2>3, <2>4 DEF Onward
  <2>6. \A a \in ArrearsIds : RowOK(a)'
    <3> TAKE a \in ArrearsIds
    <3>1. RowOK(a) /\ a[1] \in Employees /\ a[3] \in Int
      BY DEF WInv, TablesOK, ArrearsIds
    <3>2. structure[a[1]].ver \in Int /\ structure'[a[1]].ver \in Int
          /\ structure[a[1]].ver <= structure'[a[1]].ver
      BY <1>2, <2>2, <3>1
    <3>3. CASE new(a)
      <4>1. /\ arrears'[a] = [f \in {"status", "amount", "into"} |-> arrears'[a][f]]
            /\ arrears'[a].status = "PENDING" /\ arrears'[a].into = NoRun
            /\ arrears'[a].amount = k.pay - k.old
        BY <2>3, <3>3
      <4>2. a[3] <= structure'[a[1]].ver
        BY <1>1, <2>2, <2>3, <3>3
      <4>3. k.pay - k.old \in Int
        BY <1>1
      <4> QED BY <4>1, <4>2, <4>3 DEF RowOK
    <3>4. CASE ~new(a)
      BY <1>1, <2>4, <3>1, <3>2, <3>4 DEF RowOK
    <3> QED BY <3>3, <3>4
  <2> QED BY <1>1, <2>2, <2>5, <2>6, StructureWritten
<1> QED BY <1>3, <1>4 DEF applyRevision
----------------------------------------------------------------------------
LEMMA StepKeeps ==
  ASSUME PInv, WInv, NEW t \in Threads, Step(t)
  PROVE  WInv'
<1>1. CASE CheckExisting(t) \/ ReadStatus(t) \/ CountApprovals(t)
  BY <1>1, GotoKeeps, ReturnKeeps DEF CheckExisting, ReadStatus, CountApprovals, Pcs
<1>2. CASE ReadStructures(t) \/ ReadArrears(t) \/ ReadItems(t) \/ Compute(t) \/ ReadAffected(t)
  BY <1>2, ReadStructuresKeeps, ReadArrearsKeeps, ReadItemsKeeps, ComputeKeeps,
     ReadAffectedKeeps
<1>3. CASE \E e \in Employees, extra \in Extras : ReadItem(t, e, extra)
  BY <1>3, ReadItemKeeps
<1>4. CASE CommitCreate(t) \/ CommitRecalc(t) \/ WriteItem(t) \/ CommitProcess(t)
  BY <1>4, CommitCreateKeeps, CommitRecalcKeeps, WriteItemKeeps, CommitProcessKeeps
<1>5. CASE WriteStatus(t) \/ WriteApproved(t) \/ UpsertApproval(t)
  BY <1>5, WriteStatusKeeps, UpsertKeeps
<1>6. CASE InsertStructure(t) \/ EditStructure(t) \/ applyRevision(t)
  BY <1>6, StructuresKeep, RevisionKeeps
<1> QED BY <1>1, <1>2, <1>3, <1>4, <1>5, <1>6 DEF Step

LEMMA NextWInv ==
  ASSUME PInv, WInv, [Next]_vars
  PROVE  WInv'
<1>1. ASSUME NEW t \in Threads, Lost(t) PROVE WInv'
  BY <1>1, ReturnKeeps DEF Lost
<1>2. ASSUME UNCHANGED <<run, approvals, items, arrears, structure, thread>>,
             payable' \subseteq Employees
      PROVE  WInv'
  <2>1. Onward
    BY <1>2 DEF Onward
  <2>2. TablesOK'
    BY <1>2 DEF WInv, TablesOK, LinesOK, RowOK, IsRegular, Figures, Theirs, AllFolded
  <2> QED BY <1>2, <2>1, <2>2, StaysSound DEF WInv
<1>3. ASSUME NEW active \in AdminChoices, ChangeAdmins(active) PROVE WInv'
  BY <1>2, <1>3 DEF ChangeAdmins, WInv, TablesOK
<1>4. ASSUME NEW e \in Employees, ChangePayable(e) PROVE WInv'
  BY <1>2, <1>4 DEF ChangePayable, WInv, TablesOK
<1>5. CASE UNCHANGED vars
  BY <1>2, <1>5 DEF vars, WInv, TablesOK
<1> QED BY <1>1, <1>3, <1>4, <1>5, StartKeeps, StepKeeps DEF Next

LEMMA ItemIsTyped ==
  ASSUME NEW x, IsItem(x), Figures(x), x.folded \subseteq ArrearsIds
  PROVE  x \in Items
<1>1. x = [on |-> x.on, base |-> x.base, extra |-> x.extra, folded |-> x.folded, net |-> x.net,
           slip |-> x.slip, printed |-> x.printed]
  BY DEF IsItem, ItemFields
<1> QED BY <1>1 DEF IsItem, Figures, Items

LEMMA WInvSuffices == ASSUME PInv, WInv PROVE RunsAreWhole
<1>1. ASSUME NEW s, AreItems(s), \A e \in Employees : Figures(s[e]) /\ Theirs(s[e], e)
      PROVE  s \in [Employees -> Items]
  BY <1>1, ItemIsTyped DEF AreItems, Theirs
<1>2. items \in [Runs -> [Employees -> Items]]
  BY <1>1 DEF PInv, DataOK, WInv, TablesOK, LinesOK
<1>3. \A t \in Threads : thread[t].lines \in [Employees -> Items]
  BY <1>1 DEF PInv, Grounded, WInv, Sound
<1>4. PayrollTypeOK
  BY <1>2, <1>3 DEF PayrollTypeOK, PInv, DataOK, WInv, TablesOK, RowOK, Sound
<1>5. OneRegularRun
  <2> SUFFICES ASSUME NEW p \in Periods PROVE Cardinality(RegularRuns(p)) <= 1
    BY DEF OneRegularRun
  <2>1. \A q, r \in RegularRuns(p) : q = r
    BY DEF WInv, TablesOK, RegularRuns, IsRegular
  <2>2. CASE RegularRuns(p) = {}
    BY <2>2, FS_EmptySet
  <2>3. CASE RegularRuns(p) # {}
    <3>1. PICK r : r \in RegularRuns(p)
      BY <2>3
    <3>2. RegularRuns(p) = {r}
      BY <2>1, <3>1
    <3> QED BY <3>2, FS_Singleton
  <2> QED BY <2>2, <2>3
<1>6. ArrearsAccounted
  <2> SUFFICES ASSUME NEW a \in ArrearsIds
               PROVE  /\ arrears[a].status = "FOLDED" => items[arrears[a].into][a[1]].on
                      /\ \A r \in Runs : a \in items[r][a[1]].folded
                           => arrears[a].status = "FOLDED"
    BY DEF ArrearsAccounted
  <2>1. a[1] \in Employees
    BY DEF ArrearsIds
  <2> QED BY <2>1 DEF WInv, TablesOK, RowOK, LinesOK, AllFolded
<1> QED BY <1>4, <1>5, <1>6 DEF RunsAreWhole

(* Whatever overlaps or dies: the tables are well typed, a period has one   *)
(* regular run although createDraft() checks and inserts in two statements, *)
(* arrears are folded into a run that has a line item for them, and what a  *)
(* line item carries is never pending.                                      *)
THEOREM RunsStayWhole == Spec => []RunsAreWhole
<1>1. Init => PInv /\ WInv
  BY InitPInv, InitWInv
<1>2. PInv /\ WInv /\ [Next]_vars => PInv' /\ WInv'
  BY NextPInv, NextWInv
<1>3. PInv /\ WInv => RunsAreWhole
  BY WInvSuffices
<1> QED BY <1>1, <1>2, <1>3, PTL DEF Spec
----------------------------------------------------------------------------
(* The third argument: handlers that do not overlap.  There is one thread,  *)
(* and what its handler read is what the tables still hold.                 *)

Amounts == [a \in ArrearsIds |-> arrears[a].amount]
Total(f, folded, extra) == extra + SumFunctionOnSet(f, folded)
AddsUp(x, f) == x.net = x.base + Total(f, x.folded, x.extra)

Fresh(x) == x.folded = {} /\ x.extra = 0

(* What a handler that runs alone has read is still so.                     *)
Alone(k) ==
    /\ k.op \in {"RECALC", "ADJUST"} => run[k.r].status \in Editable
    /\ k.op = "SUBMIT" => run[k.r].status = "DRAFT"
    /\ k.op = "PROCESS" => run[k.r].status = "APPROVED"
    /\ k.op = "DISBURSE" => run[k.r].status = "PROCESSED"
    /\ k.pc \in {"approve", "count", "approved"} => run[k.r].status = "REVIEW"
    /\ \/ k.op = "RECALC" /\ k.pc = "compute"
       \/ k.op = "PROCESS" /\ k.pc = "commit"
       => k.lines = items[k.r]
    /\ k.op = "RECALC" /\ k.pc = "commit" => \A e \in Employees : k.lines[e].on =>
         k.lines[e].net = k.lines[e].base
           + Total(Amounts, items[k.r][e].folded, items[k.r][e].extra)
    /\ k.op = "ADJUST" /\ k.pc = "write" =>
         LET x == items[k.r][k.emp]
             l == k.lines[k.emp]
         IN  l.folded \subseteq x.folded /\ l.net = x.base + Total(Amounts, l.folded, l.extra)
    /\ k.pc = "arrears" => \A e \in Employees :
         /\ ~k.lines[e].slip
         /\ Fresh(k.lines[e]) /\ (k.lines[e].on => k.lines[e].net = k.lines[e].base)
    /\ k.op = "CREATE" /\ k.pc = "commit" => \A e \in Employees :
         /\ ~k.lines[e].slip
         /\ k.lines[e].on => AddsUp(k.lines[e], Amounts)
         /\ \A a \in k.lines[e].folded : arrears[a].status = "PENDING"

(* A run was processed once and for good; every line item adds up, shows on *)
(* its payslip what it pays, and shares no arrears with another run's.      *)
PaidOut ==
    /\ \A r \in Runs : run[r].processed => Immutable(r)
    /\ \A r \in Runs, e \in Employees :
         LET x == items[r][e] IN
         /\ x.slip => Immutable(r) /\ x.printed = x.net
         /\ x.on => AddsUp(x, Amounts)
    /\ \A q, r \in Runs, e \in Employees :
         items[q][e].folded \cap items[r][e].folded # {} => q = r

SInv == PaidOut /\ \A t \in Threads : Alone(thread[t])

LEMMA TotalIs == \A S, extra : AdjustmentTotal(S, extra) = Total(Amounts, S, extra)
BY DEF AdjustmentTotal, Total, Amounts

LEMMA IdleAlone == Alone(Idle) /\ Alone(Idle)'
BY DEF Alone, Idle

LEMMA InitSInv == ASSUME Init PROVE SInv
<1>1. \A t \in Threads : Alone(thread[t])
  BY IdleAlone DEF Init
<1>2. PaidOut
  BY DEF Init, PaidOut, NoItems, NoItem
<1> QED BY <1>1, <1>2 DEF SInv

(* A total stays what it is while the amounts it adds do. *)
LEMMA TotalStays ==
  ASSUME NEW S, S \subseteq ArrearsIds, NEW f, NEW g, \A a \in S : f[a] = g[a], NEW extra
  PROVE  Total(f, S, extra) = Total(g, S, extra)
BY FiniteArrears, SumSame DEF Total

LEMMA ReadAlone ==
  ASSUME PInv, SInv, NEW t \in Threads, Threads = {t}, UNCHANGED tables, NEW k,
         thread' = [thread EXCEPT ![t] = k], Alone(k)
  PROVE  SInv'
<1>1. thread'[t] = k
  BY DEF PInv, ThreadsOK
<1>2. Alone(k)'
  BY DEF Alone, tables, Amounts, AddsUp, Total
<1>3. PaidOut'
  BY DEF SInv, PaidOut, tables, Amounts, AddsUp, Total, Immutable
<1> QED BY <1>1, <1>2, <1>3 DEF SInv

LEMMA WriteAlone ==
  ASSUME PInv, NEW t \in Threads, Threads = {t}, Return(t), PaidOut'
  PROVE  SInv'
<1>1. thread'[t] = Idle
  BY DEF PInv, ThreadsOK, Return
<1> QED BY <1>1, IdleAlone DEF SInv

LEMMA ReturnAlone ==
  ASSUME PInv, SInv, NEW t \in Threads, Threads = {t}, UNCHANGED tables, Return(t)
  PROVE  SInv'
BY ReadAlone, IdleAlone DEF Return

LEMMA StartAlone ==
  ASSUME PInv, SInv, NEW t \in Threads, Threads = {t}, Start(t)
  PROVE  SInv'
<1>1. ASSUME NEW u \in Managers, NEW p \in Periods, NEW again \in BOOLEAN,
             StartCreate(t, u, p, again)
      PROVE  SInv'
  <2> DEFINE k == [Idle EXCEPT !.pc = IF again THEN "structures" ELSE "existing",
                               !.op = "CREATE", !.period = p, !.again = again]
  <2>1. Alone(k)
    BY DEF Alone, Idle
  <2> QED BY <1>1, <2>1, ReadAlone DEF StartCreate
<1>2. ASSUME NEW u \in Managers, NEW r \in Runs, NEW op \in OnARun \ {"APPROVE"},
             NEW pc \in {"items", "write"},
             NEW statuses, StartOn(t, u, r, op, pc, statuses),
             op \in {"RECALC", "ADJUST"} => pc = "items" /\ statuses = Editable,
             op = "SUBMIT" => statuses = {"DRAFT"},
             op = "PROCESS" => statuses = {"APPROVED"},
             op = "DISBURSE" => statuses = {"PROCESSED"}
      PROVE  SInv'
  <2> DEFINE k == [Idle EXCEPT !.pc = pc, !.op = op, !.r = r]
  <2>1. k.pc = pc /\ k.op = op /\ k.r = r
    BY DEF Idle
  <2>2. thread' = [thread EXCEPT ![t] = k] /\ UNCHANGED tables /\ run[r].status \in statuses
    BY <1>2 DEF StartOn
  <2> HIDE DEF k
  <2>3. Alone(k)
    BY <1>2, <2>1, <2>2 DEF Alone, OnARun
  <2> QED BY <2>2, <2>3, ReadAlone
<1>3. ASSUME NEW u \in Managers, NEW r \in Runs, StartApprove(t, u, r)
      PROVE  SInv'
  <2> DEFINE k == [Idle EXCEPT !.pc = "status", !.op = "APPROVE", !.by = u, !.r = r]
  <2>1. Alone(k)
    BY DEF Alone, Idle
  <2> QED BY <1>3, <2>1, ReadAlone DEF StartApprove
<1>4. ASSUME NEW u \in Managers, NEW r \in Runs, OnRun(t, u, r) PROVE SInv'
  BY <1>2, <1>3, <1>4 DEF OnRun, recalculate, setLineItemAdjustments, submitForReview, process,
                         disburse, OnARun
<1>5. ASSUME NEW u \in Managers, NEW e \in Employees, NEW pay \in Pays, NEW p \in Periods,
             NEW op \in {"CREATE_STRUCTURE", "UPDATE", "REVISE"},
             StartStructure(t, u, e, pay, p, op)
      PROVE  SInv'
  <2> DEFINE k == [Idle EXCEPT !.pc = IF op = "CREATE_STRUCTURE" THEN "insert" ELSE "affected",
                      !.op = op, !.emp = e, !.period = p, !.pay = pay,
                      !.ver = structure[e].ver, !.old = structure[e].pay]
  <2>1. Alone(k)
    BY DEF Alone, Idle
  <2> QED BY <1>5, <2>1, ReadAlone DEF StartStructure
<1> QED BY <1>1, <1>4, <1>5 DEF Start

(* Moving on without lines. *)
LEMMA GotoAlone ==
  ASSUME PInv, SInv, NEW t \in Threads, Threads = {t}, UNCHANGED tables, NEW p, Goto(t, p),
         \/ p = "structures" /\ thread[t].op = "CREATE"
         \/ p \in {"approve", "count", "approved"} /\ thread[t].op = "APPROVE"
            /\ run[thread[t].r].status = "REVIEW"
  PROVE  SInv'
<1> DEFINE k == [thread[t] EXCEPT !.pc = p]
<1>1. thread' = [thread EXCEPT ![t] = k]
  BY DEF Goto, PInv, ThreadsOK
<1>2. k.pc = p /\ k.op = thread[t].op /\ k.r = thread[t].r
  BY MovedThread
<1> HIDE DEF k
<1>3. Alone(k)
  BY <1>2 DEF Alone
<1> QED BY <1>1, <1>3, ReadAlone

(* A handler takes lines into its record. *)
LEMMA LinesAlone ==
  ASSUME PInv, SInv, NEW t \in Threads, Threads = {t}, UNCHANGED tables, NEW p, NEW lines,
         thread' = [thread EXCEPT ![t].pc = p, ![t].lines = lines],
         \A k : k.op = thread[t].op /\ k.r = thread[t].r /\ k.pc = p /\ k.lines = lines
                  => Alone(k)
  PROVE  SInv'
<1> DEFINE k == [thread[t] EXCEPT !.pc = p, !.lines = lines]
<1>1. /\ thread' = [thread EXCEPT ![t] = k] /\ k.op = thread[t].op
      /\ k.r = thread[t].r /\ k.pc = p /\ k.lines = lines
  BY DEF PInv, ThreadsOK, IsThread, Fields
<1> HIDE DEF k
<1> QED BY <1>1, ReadAlone

LEMMA ReadStructuresAlone ==
  ASSUME PInv, SInv, NEW t \in Threads, Threads = {t}, ReadStructures(t)
  PROVE  SInv'
<1> DEFINE row(e) == IF CanCompute(e)
                     THEN [NoItem EXCEPT !.on = TRUE, !.base = structure[e].pay,
                                         !.net = structure[e].pay]
                     ELSE NoItem
           lines == [e \in Employees |-> row(e)]
<1>1. UNCHANGED tables /\ thread' = [thread EXCEPT ![t].pc = "arrears", ![t].lines = lines]
      /\ thread[t].op = "CREATE"
  BY DEF ReadStructures, PInv, Grounded
<1>2. \A e \in Employees : /\ ~lines[e].slip /\ Fresh(lines[e])
                           /\ (lines[e].on => lines[e].net = lines[e].base)
  BY DEF NoItem, Fresh
<1> HIDE DEF lines
<1>3. \A k : k.op = thread[t].op /\ k.r = thread[t].r /\ k.pc = "arrears" /\ k.lines = lines
               => Alone(k)
  BY <1>1, <1>2 DEF Alone
<1> QED BY <1>1, <1>3, LinesAlone

LEMMA ReadArrearsAlone ==
  ASSUME PInv, SInv, NEW t \in Threads, Threads = {t}, ReadArrears(t)
  PROVE  SInv'
<1> DEFINE pending(e) == {a \in ArrearsIds : a[1] = e /\ arrears[a].status = "PENDING"}
           lines == [e \in Employees |-> FoldedLine(thread[t].lines[e], pending(e))]
<1>1. /\ UNCHANGED tables /\ thread' = [thread EXCEPT ![t].pc = "commit", ![t].lines = lines]
      /\ thread[t].op = "CREATE" /\ AreItems(thread[t].lines) /\ thread[t].pc = "arrears"
  BY DEF ReadArrears, PInv, Grounded
<1>2. ASSUME NEW e \in Employees
      PROVE  /\ ~lines[e].slip /\ (lines[e].on => AddsUp(lines[e], Amounts))
             /\ \A a \in lines[e].folded : arrears[a].status = "PENDING"
  <2> DEFINE x == thread[t].lines[e]
             P == pending(e)
             n == x.base + AdjustmentTotal(P, 0)
  <2>1. IsItem(x) /\ ~x.slip /\ Fresh(x)
    BY <1>1 DEF SInv, Alone, AreItems
  <2>2. \A a \in P : arrears[a].status = "PENDING"
    OBVIOUS
  <2>3. lines[e] = FoldedLine(x, P)
    OBVIOUS
  <2> HIDE DEF P, lines, x
  <2>4. CASE x.on
    <3>1. lines[e] = [x EXCEPT !.folded = P, !.net = n]
      BY <2>3, <2>4 DEF FoldedLine
    <3>2. n = x.base + Total(Amounts, P, 0)
      BY TotalIs
    <3> HIDE DEF n
    <3>3. /\ lines[e].base = x.base /\ lines[e].extra = x.extra /\ lines[e].folded = P
          /\ lines[e].net = n /\ lines[e].slip = x.slip
      BY <2>1, <3>1 DEF IsItem, ItemFields
    <3> QED BY <2>1, <2>2, <3>2, <3>3 DEF AddsUp, Fresh
  <2>5. CASE ~x.on
    <3>1. lines[e] = x
      BY <2>3, <2>5 DEF FoldedLine
    <3> QED BY <2>1, <2>5, <3>1 DEF Fresh
  <2> QED BY <2>4, <2>5
<1> HIDE DEF lines
<1>3. \A k : k.op = thread[t].op /\ k.r = thread[t].r /\ k.pc = "commit" /\ k.lines = lines
               => Alone(k)
  BY <1>1, <1>2 DEF Alone
<1> QED BY <1>1, <1>3, LinesAlone

LEMMA ReadItemsAlone ==
  ASSUME PInv, SInv, NEW t \in Threads, Threads = {t}, ReadItems(t)
  PROVE  SInv'
<1> DEFINE p == IF thread[t].op = "RECALC" THEN "compute" ELSE "commit"
           lines == items[thread[t].r]
<1>1. /\ thread[t].op \in {"RECALC", "PROCESS"} /\ UNCHANGED tables
      /\ thread' = [thread EXCEPT ![t].pc = p, ![t].lines = lines]
  BY DEF ReadItems
<1>2. \A k : k.op = thread[t].op /\ k.r = thread[t].r /\ k.pc = p /\ k.lines = lines
               => Alone(k)
  BY <1>1 DEF Alone, SInv
<1> HIDE DEF lines, p
<1> QED BY <1>1, <1>2, LinesAlone

LEMMA ComputeAlone ==
  ASSUME PInv, SInv, NEW t \in Threads, Threads = {t}, Compute(t)
  PROVE  SInv'
<1> DEFINE k == thread[t]
           lines == [e \in Employees |-> Recomputed(k.lines[e], structure[e].pay)]
<1>1. UNCHANGED tables /\ k.op = "RECALC" /\ k.lines = items[k.r]
  <2>1. UNCHANGED tables /\ k.pc = "compute"
    BY DEF Compute
  <2>2. k.op = "RECALC"
    BY <2>1 DEF PInv, Grounded
  <2>3. Alone(k)
    BY DEF SInv
  <2> QED BY <2>1, <2>2, <2>3 DEF Alone
<1>2. CASE Return(t)
  BY <1>1, <1>2, ReturnAlone
<1>3. CASE thread' = [thread EXCEPT ![t].pc = "commit", ![t].lines = lines]
  <2>1. ASSUME NEW e \in Employees, lines[e].on
        PROVE  lines[e].net = lines[e].base
                 + Total(Amounts, items[k.r][e].folded, items[k.r][e].extra)
    <3> DEFINE x == k.lines[e]
               pay == structure[e].pay
    <3>1. x.on /\ x = items[k.r][e] /\ lines[e] = Recomputed(x, pay)
      BY <1>1, <2>1 DEF Recomputed, NoItem
    <3>2. AdjustmentTotal(x.folded, x.extra) = Total(Amounts, x.folded, x.extra)
      BY TotalIs
    <3>3. PICK total : total = AdjustmentTotal(x.folded, x.extra)
      OBVIOUS
    <3> HIDE DEF lines, x, pay
    <3>4. lines[e] = [NoItem EXCEPT !.on = TRUE, !.base = pay, !.net = pay + total]
      BY <3>1, <3>3 DEF Recomputed
    <3>5. lines[e].net = pay + total /\ lines[e].base = pay
      BY <3>4 DEF NoItem
    <3> QED BY <3>1, <3>2, <3>3, <3>5
  <2> HIDE DEF lines
  <2>2. \A j : j.op = k.op /\ j.r = k.r /\ j.pc = "commit" /\ j.lines = lines => Alone(j)
    <3>1. k.op = "RECALC" /\ run[k.r].status \in Editable
      BY <1>1 DEF Alone, SInv
    <3> SUFFICES ASSUME NEW j, j.op = k.op, j.r = k.r, j.pc = "commit", j.lines = lines PROVE Alone(j)
      OBVIOUS
    <3> HIDE DEF k
    <3> QED BY <2>1, <3>1 DEF Alone
  <2> QED BY <1>1, <1>3, <2>2, LinesAlone
<1> QED BY <1>2, <1>3 DEF Compute

LEMMA ReadItemAlone ==
  ASSUME PInv, SInv, NEW t \in Threads, Threads = {t}, NEW e \in Employees,
         NEW extra \in Extras, ReadItem(t, e, extra)
  PROVE  SInv'
<1> DEFINE k == thread[t]
           line == items[k.r][e]
           row(folded) == [NoItem EXCEPT !.folded = folded, !.extra = extra,
                              !.net = line.base + AdjustmentTotal(folded, extra)]
<1>1. PICK folded \in SUBSET line.folded :
        thread' = [thread EXCEPT ![t].pc = "write", ![t].emp = e, ![t].lines[e] = row(folded)]
  BY DEF ReadItem
<1>2. /\ UNCHANGED tables /\ k.op = "ADJUST" /\ AreItems(k.lines)
  BY DEF ReadItem, PInv, Grounded
<1> DEFINE x == row(folded)
           j == [k EXCEPT !.pc = "write", !.emp = e, !.lines[e] = x]
<1>3. x.folded = folded /\ x.extra = extra /\ x.net = line.base + Total(Amounts, folded, extra)
  BY TotalIs DEF NoItem
<1> HIDE DEF x
<1>4. /\ thread' = [thread EXCEPT ![t] = j] /\ j.op = k.op /\ j.r = k.r /\ j.emp = e
      /\ j.pc = "write" /\ j.lines = [k.lines EXCEPT ![e] = x]
  <2>1. PICK old : old = k
    OBVIOUS
  <2>2. IsThread(old) /\ thread = [u \in Threads |-> thread[u]]
    BY <2>1 DEF PInv, ThreadsOK
  <2>3. j = [old EXCEPT !.pc = "write", !.emp = e, !.lines[e] = x]
    BY <2>1
  <2>4. thread' = [thread EXCEPT ![t] = j]
    BY <1>1, <2>2 DEF x
  <2> HIDE DEF j
  <2>5. /\ j.op = old.op /\ j.by = old.by /\ j.r = old.r /\ j.emp = e
        /\ j.pc = "write" /\ j.lines = [old.lines EXCEPT ![e] = x]
    BY <2>2, <2>3 DEF IsThread, Fields
  <2> QED BY <2>1, <2>4, <2>5
<1> HIDE DEF j
<1>5. j.lines[e] = x
  BY <1>2, <1>4 DEF AreItems
<1>6. Alone(j)
  BY <1>2, <1>3, <1>4, <1>5 DEF Alone, SInv
<1> QED BY <1>2, <1>4, <1>6, ReadAlone

LEMMA ReadAffectedAlone ==
  ASSUME PInv, SInv, NEW t \in Threads, Threads = {t}, ReadAffected(t)
  PROVE  SInv'
<1> DEFINE hits == findAffectedLineItems(thread[t].emp, thread[t].period)
           p == IF thread[t].op = "UPDATE" /\ hits = {} THEN "edit" ELSE "revise"
           k == [thread[t] EXCEPT !.hits = hits, !.pc = p]
<1>1. thread[t].pc = "affected" /\ UNCHANGED tables /\ p \in {"edit", "revise"}
      /\ thread[t].op \notin OnARun
  BY DEF ReadAffected, PInv, Grounded
<1>2. thread' = [thread EXCEPT ![t].hits = hits, ![t].pc = p]
  BY DEF ReadAffected
<1> HIDE DEF hits, p
<1>3. thread' = [thread EXCEPT ![t] = k] /\ k.op = thread[t].op /\ k.pc = p
  BY <1>2 DEF PInv, ThreadsOK, IsThread, Fields
<1> HIDE DEF k
<1>4. Alone(k)
  BY <1>1, <1>3 DEF Alone, OnARun
<1> QED BY <1>1, <1>3, <1>4, ReadAlone
----------------------------------------------------------------------------
(* The statements that write.                                               *)

(* Amounts of rows that are there stay. *)
AmountsStay == \A a \in ArrearsIds :
    arrears[a].status # "NONE" => arrears'[a].amount = arrears[a].amount

(* A line item that adds up still does when the amounts folded in stay.     *)
LEMMA AddsUpStays ==
  ASSUME AmountsStay, NEW x, AddsUp(x, Amounts), x.folded \subseteq ArrearsIds,
         \A a \in x.folded : arrears[a].status # "NONE"
  PROVE  AddsUp(x, Amounts')
<1>1. \A a \in x.folded : Amounts[a] = Amounts'[a]
  BY DEF AmountsStay, Amounts
<1>2. Total(Amounts, x.folded, x.extra) = Total(Amounts', x.folded, x.extra)
  <2> DEFINE f == Amounts
             g == Amounts'
  <2> HIDE DEF f, g
  <2>1. Total(f, x.folded, x.extra) = Total(g, x.folded, x.extra)
    BY <1>1, TotalStays DEF f, g
  <2> QED BY <2>1 DEF f, g
<1> QED BY <1>2 DEF AddsUp

RowOf(x, r) == (x.slip => Immutable(r) /\ x.printed = x.net) /\ (x.on => AddsUp(x, Amounts))

(* Runs keep their line items and, if immutable, stay so. *)
LEMMA ItemsStay ==
  ASSUME PInv, WInv, SInv, NEW t \in Threads, Threads = {t}, Return(t), UNCHANGED items,
         AmountsStay,
         \A r \in Runs : /\ Immutable(r) => Immutable(r)'
                         /\ run'[r].processed = run[r].processed
  PROVE  SInv'
<1>1. ASSUME NEW r \in Runs, NEW e \in Employees
      PROVE  LET x == items[r][e] IN
             (x.slip => Immutable(r)' /\ x.printed = x.net) /\ (x.on => AddsUp(x, Amounts'))
  <2>1. Theirs(items[r][e], e) /\ AllFolded(items[r][e])
    BY DEF WInv, TablesOK, LinesOK
  <2>2. \A a \in items[r][e].folded : arrears[a].status # "NONE" /\ a \in ArrearsIds
    BY <2>1 DEF Theirs, AllFolded
  <2>3. items[r][e].on => AddsUp(items[r][e], Amounts)
    BY DEF SInv, PaidOut
  <2>4. items[r][e].on => AddsUp(items[r][e], Amounts')
    BY <2>2, <2>3, AddsUpStays
  <2> QED BY <2>4 DEF SInv, PaidOut
<1>2. \A r \in Runs : (run[r].processed => Immutable(r))'
  BY DEF SInv, PaidOut
<1>3. PaidOut'
  BY <1>1, <1>2 DEF SInv, PaidOut, AddsUp
<1> QED BY <1>3, WriteAlone

LEMMA StatusAlone ==
  ASSUME PInv, WInv, SInv, NEW t \in Threads, Threads = {t}, WriteStatus(t) \/ WriteApproved(t)
  PROVE  /\ SInv'
         /\ \A r \in Runs : Rank[run'[r].status] - Rank[run[r].status] \in {0, 1}
<1> DEFINE k == thread[t]
<1>1. /\ k.r \in Runs /\ Alone(k) /\ Return(t) /\ UNCHANGED <<items, arrears>>
  BY DEF WriteStatus, WriteApproved, PInv, Grounded, OnARun, SInv
<1>2. PICK status :
        /\ run' = [run EXCEPT ![k.r].status = status]
        /\ \/ run[k.r].status = "DRAFT" /\ status = "REVIEW"
           \/ run[k.r].status = "REVIEW" /\ status = "APPROVED"
           \/ run[k.r].status = "PROCESSED" /\ status = "DISBURSED"
  BY <1>1 DEF WriteStatus, WriteApproved, Alone
<1>3. /\ run'[k.r].status = status /\ run'[k.r].processed = run[k.r].processed
      /\ \A q \in Runs \ {k.r} : run'[q] = run[q]
  BY <1>1, <1>2 DEF PInv, DataOK, RunRows
<1>4. \A r \in Runs : /\ Immutable(r) => Immutable(r)'
                      /\ run'[r].processed = run[r].processed
  BY <1>1, <1>2, <1>3 DEF Immutable
<1>5. AmountsStay
  BY <1>1 DEF AmountsStay
<1>6. \A r \in Runs : run[r].status \in RunStatuses
  BY DEF PInv, DataOK, RunRows
<1>7. \A r \in Runs : Rank[run'[r].status] - Rank[run[r].status] \in {0, 1}
  BY <1>1, <1>2, <1>3, <1>6 DEF Rank, RunStatuses
<1> QED BY <1>1, <1>4, <1>5, <1>7, ItemsStay

LEMMA UpsertAlone ==
  ASSUME PInv, WInv, SInv, NEW t \in Threads, Threads = {t}, UpsertApproval(t)
  PROVE  SInv'
<1>0. PICK k : k = [thread[t] EXCEPT !.pc = "count"]
  OBVIOUS
<1>1. /\ k.op = thread[t].op /\ k.pc = "count" /\ k.r = thread[t].r
      /\ thread' = [thread EXCEPT ![t] = k]
  BY <1>0, MovedThread DEF UpsertApproval, Goto, PInv, ThreadsOK
<1>2. UNCHANGED <<run, items, arrears>> /\ thread[t].pc = "approve" /\ thread[t].op = "APPROVE"
  BY DEF UpsertApproval, PInv, Grounded
<1>3. Alone(k)'
  BY <1>1, <1>2 DEF SInv, Alone
<1>4. thread'[t] = k
  BY <1>1 DEF PInv, ThreadsOK
<1>5. PaidOut'
  BY <1>2 DEF SInv, PaidOut, Amounts, AddsUp, Total, Immutable
<1> QED BY <1>3, <1>4, <1>5 DEF SInv

(* Structures and arrears are written: what is folded keeps its amount.     *)
LEMMA StructuresAlone ==
  ASSUME PInv, WInv, SInv, NEW t \in Threads, Threads = {t},
         InsertStructure(t) \/ EditStructure(t) \/ applyRevision(t)
  PROVE  SInv'
<1> DEFINE k == thread[t]
<1>1. Return(t) /\ UNCHANGED <<run, items>>
  BY DEF InsertStructure, EditStructure, applyRevision
<1>2. ASSUME NEW a \in ArrearsIds, arrears[a].status # "NONE"
      PROVE  arrears'[a].amount = arrears[a].amount
  <2>1. CASE UNCHANGED arrears
    BY <2>1
  <2>2. CASE /\ structure[k.emp].ver = k.ver /\ k.ver \in Nat
             /\ arrears' = [b \in ArrearsIds |->
                  IF b[1] = k.emp /\ b[2] \in k.hits /\ b[3] = k.ver + 1
                  THEN [status |-> "PENDING", amount |-> k.pay - k.old, into |-> NoRun]
                  ELSE arrears[b]]
    <3>1. a[3] <= structure[a[1]].ver
      BY <1>2 DEF WInv, TablesOK, RowOK
    <3>2. ~(a[1] = k.emp /\ a[3] = k.ver + 1)
      BY <2>2, <3>1
    <3> QED BY <2>2, <3>2
  <2> QED BY <2>1, <2>2 DEF InsertStructure, EditStructure, applyRevision, WInv, Sound
<1>3. AmountsStay
  BY <1>2 DEF AmountsStay
<1>4. \A r \in Runs : /\ Immutable(r) => Immutable(r)'
                      /\ run'[r].processed = run[r].processed
  BY <1>1 DEF Immutable
<1> QED BY <1>1, <1>3, <1>4, ItemsStay

(* The line items of one run are written, of the run a handler works on.    *)
LEMMA ItemsAlone ==
  ASSUME PInv, WInv, SInv, NEW t \in Threads, Threads = {t}, Return(t), UNCHANGED arrears,
         NEW r \in Runs, NEW new, items' = [items EXCEPT ![r] = new],
         \A q \in Runs : /\ Immutable(q) => Immutable(q)'
                         /\ run'[q].processed => run[q].processed \/ (q = r /\ Immutable(r)'),
         \A e \in Employees :
           /\ new[e].slip => Immutable(r)' /\ new[e].printed = new[e].net
           /\ new[e].on => AddsUp(new[e], Amounts)
           /\ new[e].folded \subseteq items[r][e].folded
  PROVE  SInv'
<1>1. \A q \in Runs : items'[q] = IF q = r THEN new ELSE items[q]
  BY DEF PInv, DataOK
<1>2. Amounts' = Amounts
  BY DEF Amounts
<1>3. \A q \in Runs : (run[q].processed => Immutable(q))'
  BY DEF SInv, PaidOut
<1>4. \A q \in Runs, e \in Employees :
        LET x == items'[q][e] IN
        (x.slip => Immutable(q)' /\ x.printed = x.net) /\ (x.on => AddsUp(x, Amounts))
  BY <1>1 DEF SInv, PaidOut
<1>5. \A q, s \in Runs, e \in Employees :
        items'[q][e].folded \cap items'[s][e].folded # {} => q = s
  <2>1. \A q \in Runs, e \in Employees : items'[q][e].folded \subseteq items[q][e].folded
    BY <1>1
  <2>2. \A q, s \in Runs, e \in Employees :
          items[q][e].folded \cap items[s][e].folded # {} => q = s
    BY DEF SInv, PaidOut
  <2> QED BY <2>1, <2>2
<1>6. PaidOut'
  BY <1>2, <1>3, <1>4, <1>5 DEF PaidOut, AddsUp
<1> QED BY <1>6, WriteAlone

LEMMA CommitRecalcAlone ==
  ASSUME PInv, WInv, SInv, NEW t \in Threads, Threads = {t}, CommitRecalc(t)
  PROVE  SInv' /\ \A r \in Runs : run[r].processed => items'[r] = items[r]
<1> DEFINE k == thread[t]
           row(e) == IF ~k.lines[e].on THEN items[k.r][e]
                     ELSE [items[k.r][e] EXCEPT !.base = k.lines[e].base,
                                                !.net = k.lines[e].net]
           new == [e \in Employees |-> row(e)]
<1>1. /\ k.r \in Runs /\ Return(t) /\ UNCHANGED <<run, arrears>> /\ k.pc = "commit"
      /\ AreItems(items[k.r]) /\ Alone(k) /\ k.op = "RECALC"
  BY DEF CommitRecalc, PInv, Grounded, OnARun, DataOK, SInv
<1>2. ~Immutable(k.r) /\ ~run[k.r].processed
  BY <1>1 DEF Alone, Immutable, Editable, SInv, PaidOut
<1>3. items' = [items EXCEPT ![k.r] = new]
  BY <1>2 DEF CommitRecalc, Blocked
<1>4. ASSUME NEW e \in Employees
      PROVE  /\ ~new[e].slip
             /\ new[e].on => AddsUp(new[e], Amounts)
             /\ new[e].folded \subseteq items[k.r][e].folded
  <2> DEFINE x == items[k.r][e]
             l == k.lines[e]
  <2>1. IsItem(x) /\ ~x.slip /\ (x.on => AddsUp(x, Amounts))
    BY <1>1, <1>2 DEF AreItems, SInv, PaidOut
  <2>2. l.on => l.net = l.base + Total(Amounts, x.folded, x.extra)
    BY <1>1 DEF Alone
  <2>3. IF l.on THEN new[e] = [x EXCEPT !.base = l.base, !.net = l.net] ELSE new[e] = x
    OBVIOUS
  <2> HIDE DEF x, l, new
  <2>4. CASE l.on
    <3>1. /\ new[e].slip = x.slip /\ new[e].base = l.base /\ new[e].extra = x.extra
          /\ new[e].folded = x.folded /\ new[e].net = l.net
      <4>1. PICK y : y = x /\ y = [f \in ItemFields |-> y[f]]
        BY <2>1 DEF IsItem
      <4>2. new[e] = [y EXCEPT !.base = l.base, !.net = l.net]
        BY <2>3, <2>4, <4>1
      <4> QED BY ONLY <4>1, <4>2 DEF ItemFields
    <3>2. new[e].net = new[e].base + Total(Amounts, new[e].folded, new[e].extra)
      BY <2>2, <2>4, <3>1
    <3> QED BY <2>1, <3>1, <3>2 DEF AddsUp, x
  <2> QED BY <2>1, <2>3, <2>4 DEF x
<1>5. \A q \in Runs : Immutable(q)' = Immutable(q) /\ run'[q].processed = run[q].processed
  BY <1>1 DEF Immutable
<1> HIDE DEF new
<1>6. SInv'
  <2>1. PICK r \in Runs : r = k.r
    BY <1>1
  <2>2. items' = [items EXCEPT ![r] = new] /\ Return(t) /\ UNCHANGED arrears
    BY <1>1, <1>3, <2>1
  <2>3. \A q \in Runs : /\ Immutable(q) => Immutable(q)'
                        /\ run'[q].processed => run[q].processed \/ (q = r /\ Immutable(r)')
    BY <1>5
  <2>4. \A e \in Employees : /\ new[e].slip => Immutable(r)' /\ new[e].printed = new[e].net
                             /\ new[e].on => AddsUp(new[e], Amounts)
                             /\ new[e].folded \subseteq items[r][e].folded
    BY <1>4, <2>1
  <2> HIDE DEF k
  <2> QED BY <2>2, <2>3, <2>4, ItemsAlone
<1>7. \A r \in Runs : run[r].processed => items'[r] = items[r]
  BY <1>2, <1>3 DEF PInv, DataOK
<1> QED BY <1>6, <1>7

LEMMA WriteItemAlone ==
  ASSUME PInv, WInv, SInv, NEW t \in Threads, Threads = {t}, WriteItem(t)
  PROVE  SInv' /\ \A r \in Runs : run[r].processed => items'[r] = items[r]
<1> DEFINE k == thread[t]
           l == k.lines[k.emp]
           x == items[k.r][k.emp]
           y == [x EXCEPT !.folded = l.folded, !.extra = l.extra, !.net = l.net]
           new == [items[k.r] EXCEPT ![k.emp] = y]
<1>1. /\ k.r \in Runs /\ k.emp \in Employees /\ Return(t) /\ UNCHANGED <<run, arrears>>
      /\ AreItems(items[k.r]) /\ Alone(k) /\ k.op = "ADJUST" /\ k.pc = "write"
  BY DEF WriteItem, PInv, Grounded, OnARun, DataOK, SInv
<1>2. ~Immutable(k.r) /\ ~run[k.r].processed
  BY <1>1 DEF Alone, Immutable, Editable, SInv, PaidOut
<1>3. items' = [items EXCEPT ![k.r] = new]
  <2>1. items' = [items EXCEPT ![k.r][k.emp] = y]
    BY <1>2 DEF WriteItem, Blocked
  <2> HIDE DEF y
  <2> QED BY <2>1
<1>4. IsItem(x) /\ \A e \in Employees :
        ~items[k.r][e].slip /\ (items[k.r][e].on => AddsUp(items[k.r][e], Amounts))
  BY <1>1, <1>2 DEF AreItems, SInv, PaidOut
<1>5. l.folded \subseteq x.folded /\ l.net = x.base + Total(Amounts, l.folded, l.extra)
  BY <1>1 DEF Alone
<1>6. /\ y.slip = x.slip /\ y.base = x.base /\ y.extra = l.extra
      /\ y.folded = l.folded /\ y.net = l.net
  BY <1>4 DEF IsItem, ItemFields
<1> HIDE DEF y
<1>7. \A e \in Employees : new[e] = IF e = k.emp THEN y ELSE items[k.r][e]
  BY <1>1 DEF AreItems
<1> HIDE DEF new
<1>8. \A e \in Employees : /\ ~new[e].slip
                           /\ new[e].on => AddsUp(new[e], Amounts)
                           /\ new[e].folded \subseteq items[k.r][e].folded
  <2>1. y.net = y.base + Total(Amounts, y.folded, y.extra)
    BY <1>5, <1>6
  <2>2. AddsUp(y, Amounts)
    BY <2>1 DEF AddsUp
  <2> TAKE e \in Employees
  <2>3. CASE e = k.emp
    BY <1>1, <1>4, <1>5, <1>6, <1>7, <2>2, <2>3
  <2>4. CASE e # k.emp
    BY <1>4, <1>7, <2>4
  <2> QED BY <2>3, <2>4
<1>9. \A q \in Runs : Immutable(q)' = Immutable(q) /\ run'[q].processed = run[q].processed
  BY <1>1 DEF Immutable
<1>10. SInv'
  BY <1>1, <1>3, <1>8, <1>9, ItemsAlone
<1>11. \A r \in Runs : run[r].processed => items'[r] = items[r]
  BY <1>2, <1>3 DEF PInv, DataOK
<1> QED BY <1>10, <1>11

LEMMA CommitProcessAlone ==
  ASSUME PInv, WInv, SInv, NEW t \in Threads, Threads = {t}, CommitProcess(t)
  PROVE  /\ SInv' /\ \A r \in Runs : run[r].processed => items'[r] = items[r]
         /\ \A r \in Runs : Rank[run'[r].status] - Rank[run[r].status] \in {0, 1}
<1> DEFINE k == thread[t]
           new == WithPayslips(k)
<1>0. PICK r : r = k.r
  OBVIOUS
<1>1. /\ k.r \in Runs /\ Return(t) /\ UNCHANGED arrears /\ k.pc = "commit"
      /\ AreItems(items[k.r]) /\ Alone(k) /\ k.op = "PROCESS"
  BY DEF CommitProcess, PInv, Grounded, OnARun, DataOK, SInv
<1>2. ~Immutable(k.r) /\ ~run[k.r].processed /\ run[k.r].status = "APPROVED"
  BY <1>1 DEF Alone, Immutable, SInv, PaidOut
<1>3. items' = [items EXCEPT ![k.r] = new] /\ MarkProcessed(k.r)
  BY <1>2 DEF CommitProcess, Blocked
<1>4. /\ run'[k.r].status = "PROCESSED"
      /\ \A q \in Runs \ {k.r} : run'[q] = run[q]
  BY <1>1, <1>3 DEF MarkProcessed, PInv, DataOK, RunRows
<1>5. ASSUME NEW e \in Employees
      PROVE  /\ new[e].slip => new[e].printed = new[e].net
             /\ new[e].on => AddsUp(new[e], Amounts)
             /\ new[e].folded \subseteq items[k.r][e].folded
  <2> DEFINE x == items[k.r][e]
  <2>1. IsItem(x) /\ ~x.slip /\ (x.on => AddsUp(x, Amounts)) /\ k.lines[e] = x
    BY <1>1, <1>2 DEF AreItems, SInv, PaidOut, Alone
  <2>2. new[e] = x \/ new[e] = [x EXCEPT !.slip = TRUE, !.printed = x.net]
    BY <2>1 DEF WithPayslips, PayslipNet
  <2> HIDE DEF x, new
  <2>3. CASE new[e] = [x EXCEPT !.slip = TRUE, !.printed = x.net]
    <3>1. /\ new[e].on = x.on /\ new[e].base = x.base /\ new[e].extra = x.extra
          /\ new[e].folded = x.folded /\ new[e].net = x.net /\ new[e].printed = x.net
      BY <2>1, <2>3 DEF IsItem, ItemFields
    <3> QED BY <2>1, <3>1 DEF AddsUp, x
  <2> QED BY <2>1, <2>2, <2>3 DEF x
<1>6. \A q \in Runs : /\ Immutable(q) => Immutable(q)'
                      /\ run'[q].processed => run[q].processed \/ (q = r /\ Immutable(r)')
  BY <1>0, <1>4 DEF Immutable
<1>7. Immutable(r)'
  BY <1>0, <1>4 DEF Immutable
<1> HIDE DEF new
<1>8. items' = [items EXCEPT ![r] = new] /\ r \in Runs
  BY <1>0, <1>1, <1>3
<1>9. \A e \in Employees :
         /\ new[e].slip => Immutable(r)' /\ new[e].printed = new[e].net
         /\ new[e].on => AddsUp(new[e], Amounts)
         /\ new[e].folded \subseteq items[r][e].folded
  BY <1>0, <1>5, <1>7
<1>10. SInv'
  BY <1>1, <1>6, <1>8, <1>9, ItemsAlone
<1>11. \A q \in Runs : run[q].processed => items'[q] = items[q]
  BY <1>2, <1>3 DEF PInv, DataOK
<1>12. \A q \in Runs : run[q].status \in RunStatuses
  BY DEF PInv, DataOK, RunRows
<1>13. \A q \in Runs : Rank[run'[q].status] - Rank[run[q].status] \in {0, 1}
  BY <1>2, <1>4, <1>12 DEF Rank, RunStatuses
<1> QED BY <1>10, <1>11, <1>13

(* createDraft(): what the run folds in was pending, so in no other run.    *)
LEMMA CommitCreateAlone ==
  ASSUME PInv, WInv, SInv, NEW t \in Threads, Threads = {t}, CommitCreate(t)
  PROVE  /\ SInv' /\ \A r \in Runs : run[r].processed => items'[r] = items[r]
         /\ \A r \in Runs : Rank[run'[r].status] - Rank[run[r].status] \in {0, 1}
<1> DEFINE k == thread[t]
           folds == UNION {k.lines[e].folded : e \in Employees}
<1>0. \A r \in Runs : run[r].status \in RunStatuses
  BY DEF PInv, DataOK, RunRows
<1>1. Return(t) /\ Sound(k) /\ Alone(k) /\ k.op = "CREATE" /\ k.pc = "commit"
  BY DEF CommitCreate, WInv, SInv
<1>2. CASE UNCHANGED <<run, items, arrears>>
  <2>1. PaidOut'
    BY <1>2 DEF SInv, PaidOut, Amounts, AddsUp, Total, Immutable
  <2>2. \A r \in Runs : Rank[run'[r].status] - Rank[run[r].status] \in {0, 1}
    BY <1>0, <1>2 DEF Rank, RunStatuses
  <2> QED BY <1>1, <1>2, <2>1, <2>2, WriteAlone
<1>3. CASE \E r \in Runs :
             /\ NextRun(r)
             /\ run' = [run EXCEPT ![r] = [status |-> "DRAFT", period |-> k.period,
                                           again |-> k.again, processed |-> FALSE]]
             /\ items' = [items EXCEPT ![r] = k.lines]
             /\ arrears' = [a \in ArrearsIds |->
                  IF a \in folds THEN Fold(arrears[a], r) ELSE arrears[a]]
  <2>1. PICK r \in Runs :
             /\ NextRun(r)
             /\ run' = [run EXCEPT ![r] = [status |-> "DRAFT", period |-> k.period,
                                           again |-> k.again, processed |-> FALSE]]
             /\ items' = [items EXCEPT ![r] = k.lines]
             /\ arrears' = [a \in ArrearsIds |->
                  IF a \in folds THEN Fold(arrears[a], r) ELSE arrears[a]]
    BY <1>3
  <2>2. /\ run[r].status = "NONE" /\ run'[r].status = "DRAFT" /\ run'[r].processed = FALSE
        /\ items'[r] = k.lines
        /\ \A q \in Runs \ {r} : run'[q] = run[q] /\ items'[q] = items[q]
    BY <2>1 DEF NextRun, PInv, DataOK
  <2>3. PICK lines : lines = k.lines
    OBVIOUS
  <2>4. \A e \in Employees : /\ ~lines[e].slip /\ (lines[e].on => AddsUp(lines[e], Amounts))
                             /\ Theirs(lines[e], e)
                             /\ \A a \in lines[e].folded : arrears[a].status = "PENDING"
    BY <1>1, <2>3 DEF Alone, Sound
  <2>5. \A a \in ArrearsIds : arrears'[a].amount = arrears[a].amount
    <3> TAKE a \in ArrearsIds
    <3>1. arrears[a] = [f \in {"status", "amount", "into"} |-> arrears[a][f]]
      BY DEF WInv, TablesOK, RowOK
    <3>2. arrears'[a] = IF a \in folds THEN Fold(arrears[a], r) ELSE arrears[a]
      BY <2>1
    <3> HIDE DEF folds
    <3> QED BY <3>1, <3>2 DEF Fold
  <2>6. Amounts' = Amounts
    BY <2>5 DEF Amounts
  <2>7. \A q \in Runs, e \in Employees :
          LET x == items'[q][e] IN
          (x.slip => Immutable(q)' /\ x.printed = x.net) /\ (x.on => AddsUp(x, Amounts))
    BY <2>2, <2>3, <2>4 DEF SInv, PaidOut, Immutable
  <2>8. \A q \in Runs : (run[q].processed => Immutable(q))'
    BY <2>2 DEF SInv, PaidOut, Immutable
  <2>9. \A q, s \in Runs, e \in Employees :
          items'[q][e].folded \cap items'[s][e].folded # {} => q = s
    <3>1. \A q \in Runs, e \in Employees : AllFolded(items[q][e])
      BY DEF WInv, TablesOK, LinesOK
    <3>2. \A q \in Runs \ {r}, e \in Employees : lines[e].folded \cap items'[q][e].folded = {}
      BY <2>2, <2>4, <3>1 DEF AllFolded
    <3>3. \A q, s \in Runs, e \in Employees :
            items[q][e].folded \cap items[s][e].folded # {} => q = s
      BY DEF SInv, PaidOut
    <3> QED BY <2>2, <2>3, <3>2, <3>3
  <2>10. PaidOut'
    BY <2>6, <2>7, <2>8, <2>9 DEF PaidOut, AddsUp
  <2>11. \A q \in Runs : run[q].processed => items'[q] = items[q]
    BY <2>2 DEF SInv, PaidOut, Immutable
  <2>12. \A q \in Runs : Rank[run'[q].status] - Rank[run[q].status] \in {0, 1}
    BY <1>0, <2>2 DEF Rank, RunStatuses
  <2> QED BY <1>1, <2>10, <2>11, <2>12, WriteAlone
<1> QED BY <1>2, <1>3 DEF CommitCreate
----------------------------------------------------------------------------
(* A step of the action properties. *)
Forward ==
    /\ \A r \in Runs : run[r].processed => items'[r] = items[r]
    /\ \A r \in Runs : Rank[run'[r].status] - Rank[run[r].status] \in {0, 1}

LEMMA RanksStay ==
  ASSUME PInv, UNCHANGED run
  PROVE  \A r \in Runs : Rank[run'[r].status] - Rank[run[r].status] \in {0, 1}
<1>1. \A r \in Runs : run[r].status \in RunStatuses
  BY DEF PInv, DataOK, RunRows
<1> QED BY <1>1 DEF Rank, RunStatuses

LEMMA StepAlone ==
  ASSUME PInv, WInv, SInv, NEW t \in Threads, Threads = {t}, Step(t)
  PROVE  SInv' /\ Forward
<1>1. ASSUME UNCHANGED <<run, items>> PROVE Forward
  BY <1>1, RanksStay DEF Forward
<1>2. CASE CheckExisting(t) \/ ReadStatus(t) \/ CountApprovals(t)
  <2>1. thread[t].pc = "existing" => thread[t].op = "CREATE"
    BY DEF PInv, Grounded
  <2>2. /\ thread[t].pc \in {"status", "count"} => thread[t].op = "APPROVE"
        /\ thread[t].pc = "count" => run[thread[t].r].status = "REVIEW"
    BY DEF PInv, Grounded, SInv, Alone
  <2>3. SInv'
    BY <1>2, <2>1, <2>2, GotoAlone, ReturnAlone DEF CheckExisting, ReadStatus, CountApprovals
  <2> QED BY <1>1, <1>2, <2>3 DEF CheckExisting, ReadStatus, CountApprovals, tables
<1>3. CASE ReadStructures(t) \/ ReadArrears(t) \/ ReadItems(t) \/ Compute(t) \/ ReadAffected(t)
  <2>1. UNCHANGED tables
    BY <1>3 DEF ReadStructures, ReadArrears, ReadItems, Compute, ReadAffected
  <2> QED BY <1>1, <1>3, <2>1, ReadStructuresAlone, ReadArrearsAlone, ReadItemsAlone,
             ComputeAlone, ReadAffectedAlone DEF tables
<1>4. CASE \E e \in Employees, extra \in Extras : ReadItem(t, e, extra)
  <2>1. UNCHANGED tables
    BY <1>4 DEF ReadItem
  <2> QED BY <1>1, <1>4, <2>1, ReadItemAlone DEF tables
<1>5. CASE CommitCreate(t) \/ CommitProcess(t)
  BY <1>5, CommitCreateAlone, CommitProcessAlone DEF Forward
<1>6. CASE CommitRecalc(t) \/ WriteItem(t)
  <2>1. UNCHANGED run
    BY <1>6 DEF CommitRecalc, WriteItem
  <2> QED BY <1>6, <2>1, RanksStay, CommitRecalcAlone, WriteItemAlone DEF Forward
<1>7. CASE WriteStatus(t) \/ WriteApproved(t)
  <2>1. UNCHANGED items
    BY <1>7 DEF WriteStatus, WriteApproved
  <2> QED BY <1>7, <2>1, StatusAlone DEF Forward
<1>8. CASE UpsertApproval(t) \/ InsertStructure(t) \/ EditStructure(t) \/ applyRevision(t)
  <2>1. UNCHANGED <<run, items>>
    BY <1>8 DEF UpsertApproval, InsertStructure, EditStructure, applyRevision
  <2> QED BY <1>1, <1>8, <2>1, UpsertAlone, StructuresAlone
<1> QED BY <1>2, <1>3, <1>4, <1>5, <1>6, <1>7, <1>8 DEF Step

LEMMA NextAlone ==
  ASSUME PInv, WInv, SInv, NEW t \in Threads, Threads = {t}, [Next]_vars
  PROVE  SInv' /\ Forward
<1>1. ASSUME UNCHANGED <<run, items, arrears, thread>> PROVE SInv' /\ Forward
  <2>1. SInv'
    <3>1. PaidOut'
      BY <1>1 DEF SInv, PaidOut, Amounts, AddsUp, Total, Immutable
    <3>2. \A u \in Threads : Alone(thread[u])'
      <4> TAKE u \in Threads
      <4>1. PICK k : k = thread[u]
        OBVIOUS
      <4>2. Alone(k) /\ Amounts' = Amounts
        BY <1>1, <4>1 DEF SInv, Amounts
      <4>3. \A x : Total(Amounts', x.folded, x.extra) = Total(Amounts, x.folded, x.extra)
        BY <4>2
      <4>4. Alone(k)'
        BY <1>1, <4>1, <4>2 DEF Alone
      <4> QED BY <1>1, <4>1, <4>4
    <3> QED BY <3>1, <3>2 DEF SInv
  <2> QED BY <1>1, <2>1, RanksStay DEF Forward
<1>2. ASSUME UNCHANGED tables PROVE Forward
  BY <1>2, RanksStay DEF Forward, tables
<1>3. CASE Start(t)
  <2>1. UNCHANGED tables
    BY <1>3 DEF Start, OnRun, StartCreate, StartOn, StartApprove, StartStructure, recalculate,
                setLineItemAdjustments, submitForReview, process, disburse
  <2> QED BY <1>2, <1>3, <2>1, StartAlone
<1>4. CASE Lost(t)
  BY <1>2, <1>4, ReturnAlone DEF Lost
<1>5. CASE \E active \in AdminChoices : ChangeAdmins(active)
  BY <1>1, <1>5 DEF ChangeAdmins
<1>6. CASE \E e \in Employees : ChangePayable(e)
  BY <1>1, <1>6 DEF ChangePayable
<1>7. CASE UNCHANGED vars
  BY <1>1, <1>7 DEF vars
<1> QED BY <1>3, <1>4, <1>5, <1>6, <1>7, StepAlone DEF Next

LEMMA SInvSuffices == ASSUME WInv, SInv PROVE PayAddsUp
<1>1. NetAddsUp
  <2>1. \A r \in Runs, e \in Employees : items[r][e].on => AddsUp(items[r][e], Amounts)
    BY DEF SInv, PaidOut
  <2> QED BY <2>1, TotalIs DEF NetAddsUp, AddsUp
<1>2. PayslipIsTheItem
  BY DEF SInv, PaidOut, PayslipIsTheItem
<1>3. ArrearsPaidOnce
  <2> SUFFICES ASSUME NEW a \in ArrearsIds
               PROVE  Cardinality({r \in Runs : a \in items[r][a[1]].folded}) <= 1
    BY DEF ArrearsPaidOnce
  <2> DEFINE S == {r \in Runs : a \in items[r][a[1]].folded}
  <2>1. a[1] \in Employees
    BY DEF ArrearsIds
  <2>2. \A q, r \in S : q = r
    BY <2>1 DEF SInv, PaidOut
  <2>3. S = {} \/ \E r : S = {r}
    BY <2>2
  <2> HIDE DEF S
  <2>4. Cardinality(S) <= 1
    <3>1. CASE S = {}
      <4>1. Cardinality(S) = 0
        BY <3>1, FS_EmptySet
      <4> QED BY <4>1
    <3>2. CASE \E r : S = {r}
      <4>1. PICK r : S = {r}
        BY <3>2
      <4>2. Cardinality(S) = 1
        BY <4>1, FS_Singleton
      <4> QED BY <4>2
    <3> QED BY <2>3, <3>1, <3>2
  <2> QED BY <2>4 DEF S
<1> QED BY <1>1, <1>2, <1>3 DEF PayAddsUp

(* With handlers one at a time (any of them may be lost half way): net pay  *)
(* is computed pay plus adjustments, payslips print it, and no row of       *)
(* arrears is folded into two runs.                                         *)
THEOREM PayIsRight ==
  ASSUME NEW t \in Threads, Threads = {t}
  PROVE  Spec => []PayAddsUp
<1>1. Init => PInv /\ WInv /\ SInv
  BY InitPInv, InitWInv, InitSInv
<1>2. PInv /\ WInv /\ SInv /\ [Next]_vars => PInv' /\ WInv' /\ SInv'
  BY NextPInv, NextWInv, NextAlone
<1>3. PInv /\ WInv /\ SInv => PayAddsUp
  BY SInvSuffices
<1> QED BY <1>1, <1>2, <1>3, PTL DEF Spec

(* With handlers one at a time a run's status goes forward one step at a    *)
(* time, and a run that was processed keeps its line items (INV-2).         *)
THEOREM RunsGoForward ==
  ASSUME NEW t \in Threads, Threads = {t}
  PROVE  Spec => RunsAreFrozen
<1>1. Init => PInv /\ WInv /\ SInv
  BY InitPInv, InitWInv, InitSInv
<1>2. PInv /\ WInv /\ SInv /\ [Next]_vars => PInv' /\ WInv' /\ SInv'
  BY NextPInv, NextWInv, NextAlone
<1>3. PInv /\ WInv /\ SInv /\ [Next]_vars =>
        /\ [\A r \in Runs : run[r].processed => items'[r] = items[r]]_vars
        /\ [\A r \in Runs : Rank[run'[r].status] - Rank[run[r].status] \in {0, 1}]_vars
  BY NextAlone DEF Forward
<1> QED BY <1>1, <1>2, <1>3, PTL DEF Spec, RunsAreFrozen, ProcessedIsFrozen, LinearStatus
=============================================================================
