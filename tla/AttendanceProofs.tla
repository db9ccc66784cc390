-------------------------- MODULE AttendanceProofs --------------------------
(***************************************************************************)
(* Attendance, overtime claims, comp-off credits and shifts on one tenant, *)
(* for every number of employees, days, requests, shifts and handlers.     *)
(*                                                                         *)
(* Shape: the tables are well typed, and a call under way holds what its   *)
(* next statement needs.  The other invariants stand on it.  Most speak of *)
(* a calm tenant, whose calls are made one after the other: there, at most *)
(* one call is under way (Alone), so that what it has read still holds     *)
(* when it writes.  ShiftsInv, CompInv, ClaimInv and DaysInv say what that *)
(* is, for the shifts, for the comp-off credits, for the overtime claims   *)
(* and for the days; CompInv also bounds the comp-off ledger under every   *)
(* interleaving.                                                           *)
(***************************************************************************)
EXTENDS AttendanceProperties, SumProofs

Bases == {"HOLIDAY", "WEEKLY_OFF", "ABSENT"}
Ins == {"none", "ontime", "late"}
Punches == [in: Ins, out: BOOLEAN]
RequestRows == [status: {"PENDING", "APPROVED", "REJECTED", "CANCELLED"}, k: Slots,
                ask: [in: Ins, out: BOOLEAN], linked: BOOLEAN]
Modes == {"NONE", "CASH", "COMP_OFF"}
Claims == [status: {"NONE", "PENDING_MANAGER", "PENDING_HR", "APPROVED", "REJECTED"},
           mode: Modes]

ClockPcs == {"clockIn", "punchIn", "clockOut", "punchOut", "startBreak", "endBreak"}
CompPcs == {"compOff", "compLook", "compBalance", "compRow"}
DisputePcs == {"request", "dispute", "decide", "approveRecord", "rejectRecord"}
JobPcs == {"finalize", "cutoff", "cutoffRecord"}
ClaimPcs == {"claim", "claimHours", "claimEmpty", "claimBalance", "claimRow"}

(* The records of each kind of call, with the requests rq.                  *)
ClockCall(c) ==
    /\ c.pc \in {"clockIn", "punchIn"} =>
         c \in [pc: {"clockIn", "punchIn"}, k: Slots, base: Bases, in: {"ontime", "late"}]
    /\ c.pc \in {"clockOut", "punchOut", "startBreak", "endBreak"} =>
         c \in [pc: {"clockOut", "punchOut", "startBreak", "endBreak"}, k: Slots]
CompCall(c) ==
    /\ c.pc \in {"compOff", "compLook"} => c \in [pc: {"compOff", "compLook"}, k: Slots]
    /\ c.pc \in {"compBalance", "compRow"} =>
         c \in [pc: {"compBalance", "compRow"}, e: Staff, source: {"holiday"}]
DisputeCall(c, rq) ==
    /\ c.pc \in {"request", "dispute"} =>
         c \in [pc: {"request", "dispute"}, k: Slots, ask: [in: Ins, out: BOOLEAN],
                linked: BOOLEAN]
    /\ c.pc = "decide" =>
         /\ c \in [pc: {"decide"}, i: Requests, status: {"APPROVED", "REJECTED", "CANCELLED"}]
         /\ Exists(rq[c.i])
    /\ c.pc = "approveRecord" =>
         /\ c \in [pc: {"approveRecord"}, i: Requests, k: Slots, in: Ins, out: BOOLEAN]
         /\ Exists(rq[c.i]) /\ rq[c.i].k = c.k
    /\ c.pc = "rejectRecord" =>
         /\ c \in [pc: {"rejectRecord"}, i: Requests, k: Slots, base: Bases]
         /\ Exists(rq[c.i]) /\ rq[c.i].k = c.k
JobCall(c, rq) ==
    /\ c.pc = "finalize" =>
         c \in [pc: {"finalize"}, d: Days, base: Bases, todo: SUBSET Staff]
    /\ c.pc = "cutoff" =>
         /\ c \in [pc: {"cutoff"}, todo: SUBSET Requests, links: SUBSET Requests,
                   approve: BOOLEAN]
         /\ \A i \in c.todo : Exists(rq[i])
    /\ c.pc = "cutoffRecord" =>
         /\ c \in [pc: {"cutoffRecord"}, todo: SUBSET Requests, links: SUBSET Requests,
                   approve: BOOLEAN, i: Requests]
         /\ Exists(rq[c.i]) /\ \A i \in c.todo : Exists(rq[i])
ClaimCall(c) ==
    /\ c.pc = "claim" =>
         /\ c \in [pc: {"claim"}, e: Staff, mode: Modes,
                   status: {"PENDING_HR", "APPROVED", "REJECTED"}]
         /\ c.e \in Overtimers
    /\ c.pc = "claimHours" => c \in [pc: {"claimHours"}, e: Staff] /\ c.e \in Overtimers
    /\ c.pc \in {"claimEmpty", "claimBalance", "claimRow"} =>
         c \in [pc: {"claimEmpty", "claimBalance", "claimRow"}, e: Staff]
ShiftCall(c) ==
    /\ c.pc \in {"insertShift", "clearShift", "writeShift"} =>
         c \in [pc: {"insertShift", "clearShift", "writeShift"}, s: ShiftIds,
                to: {"plain", "default"}]
    /\ c.pc = "deleteShift" => c \in [pc: {"deleteShift"}, s: ShiftIds]

CallOK(c, rq) ==
    /\ c.pc \in ClockPcs \cup CompPcs \cup DisputePcs \cup JobPcs \cup ClaimPcs \cup ShiftPcs
                \cup {"idle"}
    /\ ClockCall(c) /\ CompCall(c) /\ DisputeCall(c, rq) /\ JobCall(c, rq)
    /\ ClaimCall(c) /\ ShiftCall(c)
    /\ c.pc = "idle" => c = Idle

CallsOK ==
    /\ calls = [h \in Handlers |-> calls[h]] /\ calm \in BOOLEAN
    /\ \A h \in Handlers : CallOK(calls[h], req)
    /\ IsFiniteSet(Running)

DaysOK ==
    /\ today \in Days /\ calendar \in Calendars /\ behavior \in Behaviors
    /\ limits \in Limits /\ widest \in Nat /\ limits.cap <= widest
    /\ rec \in [Slots -> Records] /\ \A k \in Slots : Exists(rec[k]) \/ rec[k] = NoRecord
    /\ punch \in [Slots -> Punches]
    /\ breaks \in [Slots -> Nat]
    /\ leave \in [Slots -> {"none", "late", "marked"}]

RequestsOK ==
    /\ req \in [Requests -> {NoRequest} \cup RequestRows]
    /\ \A i \in Requests : Exists(req[i]) /\ req[i].linked => Exists(rec[req[i].k])
    /\ IsFiniteSet({i \in Requests : Exists(req[i])})

CompOK ==
    /\ compAccrued \in [Staff -> Nat]
    /\ compRows \in [Staff -> [Days -> [CompSources -> Nat]]]
    /\ claim \in [Staff -> Claims]
    /\ compType \in BOOLEAN /\ lapsed \in BOOLEAN
    /\ ~lapsed => compType /\ \A e \in Overtimers : shiftHours[e] = "SET"
    /\ shiftHours \in [Overtimers -> {"NONE", "ZERO", "SET"}]

ShiftsOK == shift \in [ShiftIds -> {"none", "plain", "default"}] /\ cleared \in BOOLEAN

Shape == CallsOK /\ DaysOK /\ RequestsOK /\ CompOK /\ ShiftsOK
----------------------------------------------------------------------------
(* A call of kind P begins, goes on or ends.                                *)
Moves(h, P) ==
    /\ calls[h].pc \in P \cup {"idle"} /\ calls'[h].pc \in P \cup {"idle"}
    /\ calls' = [calls EXCEPT ![h] = calls'[h]]
    /\ calm' \in BOOLEAN
    /\ calm' => calm /\ (calls[h] = Idle => Quiet)

(* Requests are never deleted and keep their day.                           *)
RequestsStay ==
    \A i \in Requests : Exists(req[i]) => Exists(req'[i]) /\ req'[i].k = req[i].k

LEMMA CallOKStays ==
  ASSUME NEW c, CallOK(c, req), RequestsStay
  PROVE  CallOK(c, req')
<1>1. DisputeCall(c, req')
  BY DEF CallOK, DisputeCall, RequestsStay
<1>2. JobCall(c, req')
  BY DEF CallOK, JobCall, RequestsStay
<1> QED
  BY <1>1, <1>2 DEF CallOK

(* A call of one kind only has to be right for that kind.                   *)
LEMMA KindOK ==
  ASSUME NEW c, NEW rq,
         \/ c.pc \in ClockPcs /\ ClockCall(c)
         \/ c.pc \in CompPcs /\ CompCall(c)
         \/ c.pc \in DisputePcs /\ DisputeCall(c, rq)
         \/ c.pc \in JobPcs /\ JobCall(c, rq)
         \/ c.pc \in ClaimPcs /\ ClaimCall(c)
         \/ c.pc \in ShiftPcs /\ ShiftCall(c)
  PROVE  CallOK(c, rq)
BY DEF CallOK, ClockCall, CompCall, DisputeCall, JobCall, ClaimCall, ShiftCall,
   ClockPcs, CompPcs, DisputePcs, JobPcs, ClaimPcs, ShiftPcs

LEMMA IdleOK == \A rq : CallOK(Idle, rq)
BY DEF CallOK, ClockCall, CompCall, DisputeCall, JobCall, ClaimCall, ShiftCall, Idle

(* The calls stay as they should be when one of them moves on.              *)
LEMMA CallsStay ==
  ASSUME CallsOK, NEW h \in Handlers, NEW P, Moves(h, P), CallOK(calls'[h], req'),
         RequestsStay
  PROVE  CallsOK'
<1>1. calls' = [g \in Handlers |-> calls'[g]] /\ calls'[h] = calls'[h]
      /\ \A g \in Handlers \ {h} : calls'[g] = calls[g]
  BY DEF CallsOK, Moves
<1>2. \A g \in Handlers : CallOK(calls'[g], req')
  BY <1>1, CallOKStays DEF CallsOK
<1>3. Running' \subseteq Running \cup {h}
  BY <1>1 DEF Running
<1>4. IsFiniteSet(Running')
  BY <1>3, FS_AddElement, FS_Subset DEF CallsOK
<1> QED
  BY <1>1, <1>2, <1>4 DEF CallsOK, Moves

(* ... and when none does.                                                  *)
LEMMA CallsRest ==
  ASSUME CallsOK, UNCHANGED calls, calm' \in BOOLEAN, RequestsStay
  PROVE  CallsOK'
BY CallOKStays DEF CallsOK, Running, Quiet

LEMMA BeginMoves ==
  ASSUME CallsOK, NEW h \in Handlers, NEW c, Begin(h, c), NEW P, c.pc \in P
  PROVE  Moves(h, P) /\ calls'[h] = c
<1>1. calm' \in BOOLEAN /\ (calm' => calm /\ Quiet)
  BY Zenon DEF Begin, Counted
<1>2. calls'[h] = c /\ calls' = [calls EXCEPT ![h] = c] /\ calls[h] = Idle
  BY DEF Begin, CallsOK
<1> QED
  BY <1>1, <1>2 DEF Moves, Idle

LEMMA ContinueMoves ==
  ASSUME CallsOK, NEW h \in Handlers, NEW c, Continue(h, c), NEW P, calls[h].pc \in P,
         c.pc \in P \cup {"idle"}, calls[h].pc # "idle"
  PROVE  Moves(h, P) /\ calls'[h] = c /\ calm' = calm
BY DEF Continue, Moves, CallsOK, Idle

LEMMA FinishMoves ==
  ASSUME CallsOK, NEW h \in Handlers, Finish(h), NEW P, calls[h].pc \in P,
         calls[h].pc # "idle"
  PROVE  Moves(h, P) /\ calls'[h] = Idle /\ calm' = calm
BY DEF Finish, Continue, Moves, CallsOK, Idle

dayTables == <<today, attVars>>
sideTables == <<compVars, otVars, shVars>>

LEMMA DaysStay == DaysOK /\ RequestsOK /\ UNCHANGED dayTables => DaysOK' /\ RequestsOK' /\ RequestsStay
BY DEF DaysOK, RequestsOK, dayTables, attVars, RequestsStay

LEMMA SideStays == CompOK /\ ShiftsOK /\ UNCHANGED sideTables => CompOK' /\ ShiftsOK'
BY DEF CompOK, ShiftsOK, sideTables, compVars, otVars, shVars

(* A call that only reads, or writes outside the days and the requests.     *)
LEMMA ReadStep ==
  ASSUME Shape, NEW h \in Handlers, NEW P, Moves(h, P), CallOK(calls'[h], req),
         UNCHANGED dayTables, CompOK', ShiftsOK'
  PROVE  Shape'
<1>1. DaysOK' /\ RequestsOK' /\ RequestsStay /\ req' = req
  BY DaysStay DEF Shape, dayTables, attVars
<1>2. CallsOK'
  BY <1>1, CallsStay DEF Shape
<1> QED
  BY <1>1, <1>2 DEF Shape

(* A call that writes a day's record, its punch or its breaks.              *)
LEMMA DayStep ==
  ASSUME Shape, NEW h \in Handlers, NEW P, Moves(h, P), CallOK(calls'[h], req),
         UNCHANGED <<today, calendar, behavior, limits, widest, leave, req>>, UNCHANGED sideTables,
         rec' \in [Slots -> Records], punch' \in [Slots -> Punches],
         breaks' \in [Slots -> Nat],
         \A k \in Slots : (Exists(rec[k]) => Exists(rec'[k]))
                          /\ (Exists(rec'[k]) \/ rec'[k] = NoRecord)
  PROVE  Shape'
<1>1. RequestsStay /\ DaysOK'
  BY DEF RequestsStay, Shape, DaysOK
<1>2. RequestsOK'
  BY DEF Shape, RequestsOK, RequestRows, NoRequest, Exists
<1>3. CallsOK'
  BY <1>1, CallsStay DEF Shape
<1>4. CompOK' /\ ShiftsOK'
  BY SideStays DEF Shape
<1> QED
  BY <1>1, <1>2, <1>3, <1>4 DEF Shape
----------------------------------------------------------------------------
(* Clocking: the calls that begin. *)
LEMMA ClockBegins ==
  ASSUME Shape, NEW h \in Handlers, NEW e \in Staff, NEW in \in {"ontime", "late"},
         clockIn(h, e, in) \/ clockOut(h, e) \/ startBreak(h, e) \/ endBreak(h, e),
         UNCHANGED <<otVars, shVars>>
  PROVE  Shape' /\ Moves(h, ClockPcs)
<1> DEFINE k == <<e, today>>
<1>0. k \in Slots /\ calendar[today] \in Bases
  BY AttendanceAssumption DEF Shape, DaysOK, Slots, Bases
<1>1. CASE clockIn(h, e, in)
  <2>1. Moves(h, ClockPcs)
        /\ calls'[h] = [pc |-> "clockIn", k |-> k, base |-> calendar[today], in |-> in]
    BY <1>1, BeginMoves DEF clockIn, ClockPcs, Shape
  <2>2. CallOK(calls'[h], req)
    BY <1>0, <2>1, KindOK DEF ClockCall, ClockPcs
  <2> QED
    BY <1>1, <2>1, <2>2, ReadStep, SideStays
    DEF clockIn, Shape, dayTables, sideTables, attVars, compVars, otVars, shVars
<1>2. CASE clockOut(h, e) \/ startBreak(h, e) \/ endBreak(h, e)
  <2>1. Moves(h, ClockPcs)
        /\ \E pc \in {"clockOut", "startBreak", "endBreak"} : calls'[h] = [pc |-> pc, k |-> k]
    BY <1>2, BeginMoves DEF clockOut, startBreak, endBreak, ClockPcs, Shape
  <2>2. CallOK(calls'[h], req)
    BY <1>0, <2>1, KindOK DEF ClockCall, ClockPcs
  <2> QED
    BY <1>2, <2>1, <2>2, ReadStep, SideStays
    DEF clockOut, startBreak, endBreak, Shape, dayTables, sideTables, attVars, compVars, otVars, shVars
<1> QED
  BY <1>1, <1>2

(* ... the records it writes ... *)
LEMMA ClockWrites ==
  ASSUME Shape, NEW h \in Handlers,
         ClockInRecord(h) \/ PunchIn(h) \/ ClockOutRecord(h) \/ PunchOut(h),
         UNCHANGED <<otVars, shVars>>
  PROVE  Shape' /\ Moves(h, ClockPcs \cup CompPcs)
<1> DEFINE c == calls[h]
           P == ClockPcs \cup CompPcs
<1>0. CallOK(c, req) /\ CallsOK /\ UNCHANGED sideTables
      /\ UNCHANGED <<today, calendar, behavior, limits, widest, leave, req, breaks>>
  BY DEF Shape, CallsOK, ClockInRecord, PunchIn, ClockOutRecord, PunchOut, attUntouched,
     sideTables, compVars, otVars, shVars
<1>5. /\ rec \in [Slots -> Records] /\ \A k \in Slots : Exists(rec[k]) \/ rec[k] = NoRecord
      /\ punch \in [Slots -> Punches] /\ breaks \in [Slots -> Nat]
  BY DEF Shape, DaysOK
<1>1. ASSUME ClockInRecord(h) PROVE Shape' /\ Moves(h, P)
  <2>1. c \in [pc: {"clockIn", "punchIn"}, k: Slots, base: Bases, in: {"ontime", "late"}]
        /\ c.pc = "clockIn"
    BY <1>0, <1>1 DEF CallOK, ClockCall, ClockInRecord
  <2>2. Moves(h, P) /\ calls'[h] = [c EXCEPT !.pc = "punchIn"]
    <3> HIDE DEF P
    <3>1. Continue(h, [c EXCEPT !.pc = "punchIn"])
      BY <1>1 DEF ClockInRecord
    <3>2. c.pc \in P /\ [c EXCEPT !.pc = "punchIn"].pc \in P /\ c.pc # "idle"
      BY <2>1 DEF P, ClockPcs
    <3> QED
      BY <1>0, <3>1, <3>2, ContinueMoves
  <2>3. CallOK(calls'[h], req)
    BY <2>1, <2>2, KindOK DEF ClockCall, ClockPcs
  <2>4. ClockInStatus(c.base, c.in) \in Statuses \ {"NONE"}
    BY <2>1 DEF ClockInStatus, Late, Bases, Statuses
  <2>5. /\ rec' \in [Slots -> Records]
        /\ \A k \in Slots : (Exists(rec[k]) => Exists(rec'[k]))
                            /\ (Exists(rec'[k]) \/ rec'[k] = NoRecord)
    BY <1>1, <2>1, <2>4 DEF ClockInRecord, Shape, DaysOK, Records, Exists
  <2> QED
    <3>1. UNCHANGED punch
      BY <1>1 DEF ClockInRecord
    <3> HIDE DEF P
    <3> QED
      BY <1>0, <1>5, <2>2, <2>3, <2>5, <3>1, DayStep
<1>2. ASSUME PunchIn(h) PROVE Shape' /\ Moves(h, P)
  <2>1. c \in [pc: {"clockIn", "punchIn"}, k: Slots, base: Bases, in: {"ontime", "late"}]
        /\ c.pc = "punchIn"
    BY <1>0, <1>2 DEF CallOK, ClockCall, PunchIn
  <2>2. Moves(h, P) /\ calls'[h] \in {Idle, [pc |-> "compOff", k |-> c.k]}
    <3>1. Finish(h) \/ Continue(h, [pc |-> "compOff", k |-> c.k])
      BY <1>2 DEF PunchIn
    <3>2. c.pc \in P /\ "compOff" \in P /\ c.pc # "idle"
      BY <2>1 DEF ClockPcs, CompPcs
    <3> HIDE DEF P
    <3> QED
      BY <1>0, <3>1, <3>2, ContinueMoves, FinishMoves
  <2>3. CallOK(calls'[h], req)
    BY <2>1, <2>2, KindOK, IdleOK DEF CompCall, CompPcs
  <2>4. punch' \in [Slots -> Punches]
    BY <1>2, <2>1 DEF PunchIn, Shape, DaysOK, Punches, Ins
  <2> QED
    <3>1. UNCHANGED rec
      BY <1>2 DEF PunchIn
    <3> HIDE DEF P
    <3> QED
      BY <1>0, <1>5, <2>2, <2>3, <2>4, <3>1, DayStep
<1>3. ASSUME ClockOutRecord(h) PROVE Shape' /\ Moves(h, P)
  <2>1. c \in [pc: {"clockOut", "punchOut", "startBreak", "endBreak"}, k: Slots]
        /\ c.pc = "clockOut"
    BY <1>0, <1>3 DEF CallOK, ClockCall, ClockOutRecord
  <2>2. Moves(h, P) /\ calls'[h] = [c EXCEPT !.pc = "punchOut"]
    <3> HIDE DEF P
    <3>1. Continue(h, [c EXCEPT !.pc = "punchOut"])
      BY <1>3 DEF ClockOutRecord
    <3>2. c.pc \in P /\ [c EXCEPT !.pc = "punchOut"].pc \in P /\ c.pc # "idle"
      BY <2>1 DEF P, ClockPcs
    <3> QED
      BY <1>0, <3>1, <3>2, ContinueMoves
  <2>3. CallOK(calls'[h], req)
    BY <2>1, <2>2, KindOK DEF ClockCall, ClockPcs
  <2>4. /\ rec' \in [Slots -> Records]
        /\ \A k \in Slots : (Exists(rec[k]) => Exists(rec'[k]))
                            /\ (Exists(rec'[k]) \/ rec'[k] = NoRecord)
    <3>1. /\ rec' = [rec EXCEPT ![c.k] = [rec[c.k] EXCEPT !.out = TRUE]]
          /\ rec[c.k] \in Records /\ Exists(rec[c.k]) /\ rec \in [Slots -> Records]
          /\ \A k \in Slots : Exists(rec[k]) \/ rec[k] = NoRecord
      BY <1>3, <2>1 DEF ClockOutRecord, Shape, DaysOK
    <3>2. [rec[c.k] EXCEPT !.out = TRUE] \in Records
          /\ Exists([rec[c.k] EXCEPT !.out = TRUE])
      BY <3>1 DEF Records, Exists
    <3> QED
      BY <2>1, <3>1, <3>2
  <2> QED
    <3>1. UNCHANGED punch
      BY <1>3 DEF ClockOutRecord
    <3> HIDE DEF P
    <3> QED
      BY <1>0, <1>5, <2>2, <2>3, <2>4, <3>1, DayStep
<1>4. ASSUME PunchOut(h) PROVE Shape' /\ Moves(h, P)
  <2>1. c.k \in Slots /\ c.pc = "punchOut"
    BY <1>0, <1>4 DEF CallOK, ClockCall, PunchOut
  <2>2. Moves(h, P) /\ calls'[h] = Idle
    BY <1>0, <1>4, <2>1, FinishMoves DEF PunchOut, ClockPcs
  <2>3. punch' \in [Slots -> Punches]
    <3>1. punch \in [Slots -> Punches] /\ punch[c.k] \in Punches
      BY <2>1 DEF Shape, DaysOK
    <3>2. punch' = [punch EXCEPT ![c.k].out = TRUE] \/ UNCHANGED punch
      BY <1>4 DEF PunchOut
    <3>3. PICK p : p = [punch[c.k] EXCEPT !.out = TRUE]
      OBVIOUS
    <3>4. p \in Punches
      BY <3>1, <3>3 DEF Punches
    <3>5. punch' = [punch EXCEPT ![c.k] = p] \/ UNCHANGED punch
      BY <3>2, <3>3
    <3> QED BY <2>1, <3>1, <3>4, <3>5
  <2> QED
    <3>1. UNCHANGED rec
      BY <1>4 DEF PunchOut
    <3> HIDE DEF P
    <3> QED
      BY <1>0, <1>5, <2>2, <2>3, <3>1, IdleOK, DayStep
<1> QED
  BY <1>1, <1>2, <1>3, <1>4

(* ... and the breaks.                                                      *)
LEMMA BreakWrites ==
  ASSUME Shape, NEW h \in Handlers, CreateBreak(h) \/ CloseBreak(h),
         UNCHANGED <<otVars, shVars>>
  PROVE  Shape' /\ Moves(h, ClockPcs)
<1> DEFINE c == calls[h]
<1>0. CallOK(c, req) /\ CallsOK /\ UNCHANGED sideTables
      /\ UNCHANGED <<today, calendar, behavior, limits, widest, leave, req, rec, punch>>
  BY DEF Shape, CallsOK, CreateBreak, CloseBreak, attUntouched,
     sideTables, compVars, otVars, shVars
<1>1. c.k \in Slots /\ c.pc \in {"startBreak", "endBreak"} /\ Finish(h)
  BY <1>0 DEF CallOK, ClockCall, CreateBreak, CloseBreak
<1>2. Moves(h, ClockPcs) /\ calls'[h] = Idle
  BY <1>0, <1>1, FinishMoves DEF ClockPcs
<1>3. breaks' \in [Slots -> Nat]
  <2>1. CASE CreateBreak(h)
    BY <1>1, <2>1 DEF CreateBreak, Shape, DaysOK
  <2>2. CASE CloseBreak(h)
    BY <1>1, <2>2 DEF CloseBreak, Shape, DaysOK
  <2> QED
    BY <2>1, <2>2
<1> QED
  BY <1>0, <1>2, <1>3, IdleOK, DayStep DEF Shape, DaysOK
----------------------------------------------------------------------------
(* Comp-off: a call's own step, with the balance or a ledger row.           *)
LEMMA CompMoves ==
  ASSUME Shape, NEW h \in Handlers, creditCompOff(h) \/ CompLook(h) \/ CompBalance(h) \/ CompRow(h),
         UNCHANGED <<otVars, shVars>>
  PROVE  Shape' /\ Moves(h, CompPcs)
<1> DEFINE c == calls[h]
<1>0. CallOK(c, req) /\ CallsOK
  BY DEF Shape, CallsOK
<1>1. ASSUME creditCompOff(h) PROVE Shape' /\ Moves(h, CompPcs)
  <2>1. c \in [pc: {"compOff", "compLook"}, k: Slots] /\ c.pc = "compOff"
    BY <1>0, <1>1 DEF CallOK, CompCall, creditCompOff
  <2>2. Finish(h) \/ Continue(h, [c EXCEPT !.pc = "compLook"])
    BY <1>1 DEF creditCompOff
  <2>3. [c EXCEPT !.pc = "compLook"] \in [pc: {"compOff", "compLook"}, k: Slots]
        /\ [c EXCEPT !.pc = "compLook"].pc = "compLook"
    BY <2>1
  <2>4. PICK l : l = [c EXCEPT !.pc = "compLook"]
    OBVIOUS
  <2>5. Moves(h, CompPcs) /\ calls'[h] \in {Idle, l}
    BY <1>0, <2>1, <2>2, <2>3, <2>4, ContinueMoves, FinishMoves DEF CompPcs
  <2>6. CallOK(calls'[h], req)
    BY <2>3, <2>4, <2>5, KindOK, IdleOK DEF CompCall, CompPcs
  <2> QED
    BY <1>1, <2>5, <2>6, ReadStep, SideStays
    DEF creditCompOff, Shape, dayTables, sideTables, attVars, compVars, otVars, shVars
<1>4. ASSUME CompLook(h) PROVE Shape' /\ Moves(h, CompPcs)
  <2>1. c \in [pc: {"compOff", "compLook"}, k: Slots] /\ c.k[1] \in Staff /\ c.pc = "compLook"
    BY <1>0, <1>4 DEF CallOK, CompCall, CompLook, Slots
  <2>2. Finish(h) \/ Continue(h, [pc |-> "compBalance", e |-> c.k[1], source |-> "holiday"])
    BY <1>4 DEF CompLook
  <2>3. Moves(h, CompPcs)
        /\ calls'[h] \in {Idle, [pc |-> "compBalance", e |-> c.k[1], source |-> "holiday"]}
    BY <1>0, <2>1, <2>2, ContinueMoves, FinishMoves DEF CompPcs
  <2>4. CallOK(calls'[h], req)
    BY <2>1, <2>3, KindOK, IdleOK DEF CompCall, CompPcs
  <2> QED
    BY <1>4, <2>3, <2>4, ReadStep, SideStays
    DEF CompLook, Shape, dayTables, sideTables, attVars, compVars, otVars, shVars
<1>2. ASSUME CompBalance(h) PROVE Shape' /\ Moves(h, CompPcs)
  <2>1. c \in [pc: {"compBalance", "compRow"}, e: Staff, source: {"holiday"}]
        /\ c.pc = "compBalance"
    BY <1>0, <1>2 DEF CallOK, CompCall, CompBalance
  <2>2. Moves(h, CompPcs) /\ calls'[h] = [c EXCEPT !.pc = "compRow"]
    <3>1. Continue(h, [c EXCEPT !.pc = "compRow"])
      BY <1>2 DEF CompBalance
    <3>2. [c EXCEPT !.pc = "compRow"].pc \in CompPcs /\ c.pc # "idle" /\ c.pc \in CompPcs
      BY <2>1 DEF CompPcs
    <3> QED
      BY <1>0, <3>1, <3>2, ContinueMoves
  <2>3. CallOK(calls'[h], req)
    BY <2>1, <2>2, KindOK DEF CompCall, CompPcs
  <2>4. CompOK' /\ ShiftsOK'
    BY <1>2, <2>1 DEF CompBalance, CreditBalance, Shape, CompOK, ShiftsOK, otVars, shVars
  <2> QED
    BY <1>2, <2>2, <2>3, <2>4, ReadStep DEF CompBalance, dayTables
<1>3. ASSUME CompRow(h) PROVE Shape' /\ Moves(h, CompPcs)
  <2>1. c \in [pc: {"compBalance", "compRow"}, e: Staff, source: {"holiday"}]
        /\ c.pc = "compRow" /\ Finish(h)
    BY <1>0, <1>3 DEF CallOK, CompCall, CompRow
  <2>2. Moves(h, CompPcs) /\ calls'[h] = Idle
    BY <1>0, <2>1, FinishMoves DEF CompPcs
  <2>3. CompOK' /\ ShiftsOK'
    BY <1>3, <2>1 DEF CompRow, CreditRow, Shape, CompOK, DaysOK, CompSources, ShiftsOK,
       otVars, shVars
  <2> QED
    BY <1>3, <2>2, <2>3, ReadStep, IdleOK DEF CompRow, dayTables
<1> QED
  BY <1>1, <1>2, <1>3, <1>4

(* Overtime claims.                                                         *)
LEMMA OtherRest ==
  ASSUME Shape, UNCHANGED <<calls, dayTables>>, calm' \in BOOLEAN, CompOK', ShiftsOK'
  PROVE  Shape'
<1>1. DaysOK' /\ RequestsOK' /\ RequestsStay
  BY DaysStay DEF Shape, dayTables
<1> QED
  BY <1>1, CallsRest DEF Shape

LEMMA AtOnceCalm == AtOnce => UNCHANGED calls /\ calm' \in BOOLEAN /\ (calm' => calm /\ Quiet)
BY Zenon DEF AtOnce, Counted

LEMMA ClaimOutcome ==
  ASSUME NEW status \in PendingClaim, NEW decision \in {"APPROVE", "REJECT"}
  PROVE  Outcome(status, decision) =
           IF decision = "REJECT" THEN "REJECTED"
           ELSE IF status = "PENDING_MANAGER" THEN "PENDING_HR" ELSE "APPROVED"
BY DEF Outcome, PendingClaim

LEMMA ClaimsMove ==
  ASSUME Shape, NEW h \in Handlers, UNCHANGED <<attVars, shVars>>,
         \/ WriteClaim(h) \/ ClaimHours(h) \/ ClaimEmpty(h) \/ ClaimBalance(h) \/ ClaimRow(h)
         \/ \E u \in Callers, e \in Overtimers, decision \in {"APPROVE", "REJECT"} :
              decideOvertimeClaim(h, u, e, decision)
  PROVE  Shape' /\ Moves(h, ClaimPcs)
<1> DEFINE c == calls[h]
<1>0. CallOK(c, req) /\ CallsOK
  BY DEF Shape, CallsOK
<1>1. ASSUME WriteClaim(h) PROVE Shape' /\ Moves(h, ClaimPcs)
  <2>1. c \in [pc: {"claim"}, e: Staff, mode: Modes,
               status: {"PENDING_HR", "APPROVED", "REJECTED"}]
        /\ c.e \in Overtimers
    BY <1>0, <1>1 DEF CallOK, ClaimCall, WriteClaim
  <2>2. Finish(h) \/ Continue(h, [pc |-> "claimHours", e |-> c.e])
    BY <1>1 DEF WriteClaim
  <2>3. Moves(h, ClaimPcs) /\ calls'[h] \in {Idle, [pc |-> "claimHours", e |-> c.e]}
    BY <1>0, <2>1, <2>2, ContinueMoves, FinishMoves DEF ClaimPcs
  <2>4. CallOK(calls'[h], req)
    BY <2>1, <2>3, KindOK, IdleOK DEF ClaimCall, ClaimPcs
  <2>5. claim' = [claim EXCEPT ![c.e] = [claim[c.e] EXCEPT !.status = c.status]]
    BY <1>1 DEF WriteClaim
  <2>6. CompOK' /\ ShiftsOK'
    <3>1. claim \in [Staff -> Claims] /\ claim[c.e] \in Claims /\ c.e \in Staff
      BY <2>1 DEF Shape, CompOK
    <3>2. [claim[c.e] EXCEPT !.status = c.status] \in Claims
      BY <2>1, <3>1 DEF Claims
    <3>3. claim' \in [Staff -> Claims]
      BY <2>5, <3>1, <3>2
    <3> QED
      BY <1>1, <3>3 DEF WriteClaim, Shape, CompOK, ShiftsOK, compVars, shVars
  <2> QED
    BY <1>1, <2>3, <2>4, <2>6, ReadStep DEF WriteClaim, dayTables
<1>2. ASSUME ClaimBalance(h) PROVE Shape' /\ Moves(h, ClaimPcs)
  <2>1. c \in [pc: {"claimEmpty", "claimBalance", "claimRow"}, e: Staff] /\ c.pc = "claimBalance"
    BY <1>0, <1>2 DEF CallOK, ClaimCall, ClaimBalance
  <2>2. Moves(h, ClaimPcs) /\ calls'[h] = [c EXCEPT !.pc = "claimRow"]
    <3>1. Continue(h, [c EXCEPT !.pc = "claimRow"])
      BY <1>2 DEF ClaimBalance
    <3>2. [c EXCEPT !.pc = "claimRow"].pc \in ClaimPcs /\ c.pc # "idle" /\ c.pc \in ClaimPcs
      BY <2>1 DEF ClaimPcs
    <3> QED
      BY <1>0, <3>1, <3>2, ContinueMoves
  <2>3. CallOK(calls'[h], req)
    BY <2>1, <2>2, KindOK DEF ClaimCall, ClaimPcs
  <2>4. CompOK' /\ ShiftsOK'
    BY <1>2, <2>1 DEF ClaimBalance, CreditBalance, Shape, CompOK, ShiftsOK, otVars, shVars
  <2> QED
    BY <1>2, <2>2, <2>3, <2>4, ReadStep DEF ClaimBalance, dayTables
<1>3. ASSUME ClaimRow(h) PROVE Shape' /\ Moves(h, ClaimPcs)
  <2>1. c \in [pc: {"claimEmpty", "claimBalance", "claimRow"}, e: Staff] /\ c.pc = "claimRow" /\ Finish(h)
    BY <1>0, <1>3 DEF CallOK, ClaimCall, ClaimRow
  <2>2. Moves(h, ClaimPcs) /\ calls'[h] = Idle
    BY <1>0, <2>1, FinishMoves DEF ClaimPcs
  <2>3. CompOK' /\ ShiftsOK'
    BY <1>3, <2>1 DEF ClaimRow, CreditRow, Shape, CompOK, DaysOK, CompSources, ShiftsOK,
       otVars, shVars
  <2> QED
    BY <1>3, <2>2, <2>3, ReadStep, IdleOK DEF ClaimRow, dayTables
<1>5. ASSUME ClaimHours(h) PROVE Shape' /\ Moves(h, ClaimPcs)
  <2>1. c \in [pc: {"claimHours"}, e: Staff] /\ c.pc = "claimHours"
    BY <1>0, <1>5 DEF CallOK, ClaimCall, ClaimHours
  <2>2. Finish(h) \/ \E pc \in {"claimEmpty", "claimBalance"} : Continue(h, [pc |-> pc, e |-> c.e])
    BY <1>5 DEF ClaimHours
  <2>3. /\ Moves(h, ClaimPcs)
        /\ \/ calls'[h] = Idle
           \/ \E pc \in {"claimEmpty", "claimBalance"} : calls'[h] = [pc |-> pc, e |-> c.e]
    BY <1>0, <2>1, <2>2, ContinueMoves, FinishMoves DEF ClaimPcs
  <2>4. CallOK(calls'[h], req)
    BY <2>1, <2>3, KindOK, IdleOK DEF ClaimCall, ClaimPcs
  <2>5. UNCHANGED dayTables /\ UNCHANGED sideTables
    BY <1>5 DEF ClaimHours, dayTables, sideTables
  <2>6. CompOK' /\ ShiftsOK'
    BY <2>5, SideStays DEF Shape
  <2> QED
    BY <2>3, <2>4, <2>5, <2>6, ReadStep
<1>6. ASSUME ClaimEmpty(h) PROVE Shape' /\ Moves(h, ClaimPcs)
  <2>1. c \in [pc: {"claimEmpty", "claimBalance", "claimRow"}, e: Staff] /\ c.pc = "claimEmpty" /\ Finish(h)
    BY <1>0, <1>6 DEF CallOK, ClaimCall, ClaimEmpty
  <2>2. Moves(h, ClaimPcs) /\ calls'[h] = Idle
    BY <1>0, <2>1, FinishMoves DEF ClaimPcs
  <2>3. CompOK' /\ ShiftsOK'
    BY <1>6, <2>1 DEF ClaimEmpty, CreditRow, Shape, CompOK, DaysOK, CompSources, ShiftsOK,
       otVars, shVars
  <2> QED
    BY <1>6, <2>2, <2>3, ReadStep, IdleOK DEF ClaimEmpty, dayTables
<1>4. ASSUME NEW u \in Callers, NEW e \in Overtimers, NEW decision \in {"APPROVE", "REJECT"},
             decideOvertimeClaim(h, u, e, decision)
      PROVE  Shape' /\ Moves(h, ClaimPcs)
  <2> DEFINE new == [pc |-> "claim", e |-> e, mode |-> claim[e].mode,
                     status |-> Outcome(claim[e].status, decision)]
  <2>1. e \in Staff /\ claim[e] \in Claims /\ claim[e].status \in PendingClaim
    BY <1>4, CompOffAssumption DEF Shape, CompOK, decideOvertimeClaim
  <2>2. new.status \in {"PENDING_HR", "APPROVED", "REJECTED"} /\ new.mode \in Modes
    BY <2>1, ClaimOutcome DEF Claims
  <2>3. Begin(h, new)
    BY <1>4 DEF decideOvertimeClaim
  <2>4. new.pc \in ClaimPcs /\ CallOK(new, req)
    BY <2>1, <2>2, KindOK DEF ClaimCall, ClaimPcs
  <2>5. Moves(h, ClaimPcs) /\ calls'[h] = new
    <3> HIDE DEF new
    <3> QED
      BY <1>0, <2>3, <2>4, BeginMoves
  <2> QED
    BY <1>4, <2>4, <2>5, ReadStep, SideStays
    DEF decideOvertimeClaim, Shape, dayTables, sideTables, attVars, compVars, otVars, shVars
<1> QED
  BY <1>1, <1>2, <1>3, <1>4, <1>5, <1>6

SetupEdit ==
  /\ \/ \E found \in BOOLEAN : designate(found)
     \/ \E e \in Overtimers, hours \in {"NONE", "ZERO", "SET"} : setShiftHours(e, hours)
  /\ UNCHANGED otVars

LEMMA ClaimsAtOnce ==
  ASSUME Shape, UNCHANGED <<attVars, shVars>>,
         \/ \E e \in Overtimers, mode \in {"CASH", "COMP_OFF"} : createOvertimeClaim(e, mode)
         \/ \E e \in Overtimers, m \in {NoOne} \cup Managers : moveReport(e, m)
         \/ SetupEdit
  PROVE  Shape' /\ AtOnce /\ UNCHANGED today
<1>1. AtOnce /\ UNCHANGED <<today, compAccrued, compRows>>
  BY DEF createOvertimeClaim, moveReport, SetupEdit, designate, setShiftHours, compVars
<1>2. claim' \in [Staff -> Claims]
  <2>1. ASSUME NEW e \in Overtimers, NEW mode \in {"CASH", "COMP_OFF"}, createOvertimeClaim(e, mode)
        PROVE  claim' \in [Staff -> Claims]
    <3> DEFINE row == [mode |-> mode,
          status |-> IF managerOf[e] = NoOne THEN "PENDING_HR" ELSE "PENDING_MANAGER"]
    <3>1. claim' = [claim EXCEPT ![e] = row]
      BY <2>1 DEF createOvertimeClaim
    <3>2. row \in Claims
      BY DEF Claims, Modes
    <3> QED
      BY <3>1, <3>2 DEF Shape, CompOK
  <2>2. CASE UNCHANGED claim
    BY <2>2 DEF Shape, CompOK
  <2> QED
    BY <2>1, <2>2 DEF moveReport, SetupEdit, otVars
<1>3. CompOK'
  <2>1. CASE UNCHANGED compVars
    BY <1>2, <2>1 DEF compVars, Shape, CompOK
  <2>2. ASSUME NEW found \in BOOLEAN, designate(found) PROVE CompOK'
    BY <1>1, <1>2, <2>2 DEF designate, Shape, CompOK
  <2>3. ASSUME NEW e \in Overtimers, NEW hours \in {"NONE", "ZERO", "SET"}, setShiftHours(e, hours)
        PROVE  CompOK'
    <3>1. /\ shiftHours' = [shiftHours EXCEPT ![e] = hours] /\ compType' = compType
          /\ lapsed' = (lapsed \/ hours # "SET")
      BY <2>3 DEF setShiftHours
    <3>2. /\ shiftHours \in [Overtimers -> {"NONE", "ZERO", "SET"}] /\ lapsed \in BOOLEAN
          /\ ~lapsed => \A x \in Overtimers : shiftHours[x] = "SET"
      BY DEF Shape, CompOK
    <3>3. /\ shiftHours' \in [Overtimers -> {"NONE", "ZERO", "SET"}] /\ lapsed' \in BOOLEAN
          /\ ~lapsed' => \A x \in Overtimers : shiftHours'[x] = "SET"
      BY <3>1, <3>2
    <3> QED
      BY <1>1, <1>2, <3>1, <3>3 DEF Shape, CompOK
  <2> QED
    BY <2>1, <2>2, <2>3 DEF createOvertimeClaim, moveReport, SetupEdit
<1> QED
  BY <1>1, <1>3, AtOnceCalm, OtherRest
  DEF Shape, ShiftsOK, dayTables, shVars
----------------------------------------------------------------------------
(* Shifts.                                                                  *)
LEMMA ShiftsMove ==
  ASSUME Shape, NEW h \in Handlers, UNCHANGED <<today, compVars, attVars, otVars>>,
         \/ \E s \in ShiftIds : \/ deleteShift(h, s)
                                \/ \E default \in BOOLEAN : createShift(h, s, default)
                                \/ \E to \in {"plain", "default"} : updateShift(h, s, to)
         \/ ClearShift(h) \/ WriteShift(h) \/ RefuseShift(h) \/ RemoveShift(h)
  PROVE  Shape' /\ Moves(h, ShiftPcs)
<1> DEFINE c == calls[h]
<1>0. CallOK(c, req) /\ CallsOK
  BY DEF Shape, CallsOK
<1>1. SUFFICES ASSUME TRUE PROVE Moves(h, ShiftPcs) /\ CallOK(calls'[h], req) /\ ShiftsOK'
  BY ReadStep DEF Shape, CompOK, dayTables, compVars, otVars
<1>2. ASSUME NEW s \in ShiftIds, deleteShift(h, s)
      PROVE  Moves(h, ShiftPcs) /\ CallOK(calls'[h], req) /\ ShiftsOK'
  <2>1. Moves(h, ShiftPcs) /\ calls'[h] = [pc |-> "deleteShift", s |-> s]
    BY <1>0, <1>2, BeginMoves DEF deleteShift, ShiftPcs
  <2>2. CallOK(calls'[h], req)
    BY <2>1, KindOK DEF ShiftCall, ShiftPcs
  <2> QED
    BY <1>2, <2>1, <2>2 DEF deleteShift, shVars, Shape, ShiftsOK
<1>3. ASSUME NEW s \in ShiftIds, NEW default \in BOOLEAN, createShift(h, s, default)
      PROVE  Moves(h, ShiftPcs) /\ CallOK(calls'[h], req) /\ ShiftsOK'
  <2> DEFINE new == [pc |-> "insertShift", s |-> s,
                     to |-> IF default THEN "default" ELSE "plain"]
  <2>1. Begin(h, new)
    BY <1>3 DEF createShift
  <2>2. new.pc \in ShiftPcs /\ CallOK(new, req)
    BY KindOK DEF ShiftCall, ShiftPcs
  <2>3. Moves(h, ShiftPcs) /\ calls'[h] = new
    <3> HIDE DEF new
    <3> QED
      BY <1>0, <2>1, <2>2, BeginMoves
  <2> QED
    BY <1>3, <2>2, <2>3 DEF createShift, Cleared, Shape, ShiftsOK
<1>4. ASSUME NEW s \in ShiftIds, NEW to \in {"plain", "default"}, updateShift(h, s, to)
      PROVE  Moves(h, ShiftPcs) /\ CallOK(calls'[h], req) /\ ShiftsOK'
  <2> DEFINE new == [pc |-> IF to = "default" THEN "clearShift" ELSE "writeShift", s |-> s,
                     to |-> to]
  <2>1. Begin(h, new)
    BY <1>4 DEF updateShift
  <2>2. new.pc \in ShiftPcs /\ CallOK(new, req)
    BY KindOK DEF ShiftCall, ShiftPcs
  <2>3. Moves(h, ShiftPcs) /\ calls'[h] = new
    <3> HIDE DEF new
    <3> QED
      BY <1>0, <2>1, <2>2, BeginMoves
  <2> QED
    BY <1>4, <2>2, <2>3 DEF updateShift, Shape, ShiftsOK
<1>5. ASSUME ClearShift(h)
      PROVE  Moves(h, ShiftPcs) /\ CallOK(calls'[h], req) /\ ShiftsOK'
  <2>1. c \in [pc: {"insertShift", "clearShift", "writeShift"}, s: ShiftIds,
               to: {"plain", "default"}] /\ c.pc = "clearShift"
    BY <1>0, <1>5 DEF CallOK, ShiftCall, ClearShift
  <2>2. Continue(h, [c EXCEPT !.pc = "writeShift"])
    BY <1>5 DEF ClearShift
  <2>3. [c EXCEPT !.pc = "writeShift"].pc \in ShiftPcs /\ c.pc \in ShiftPcs /\ c.pc # "idle"
    BY <2>1 DEF ShiftPcs
  <2>4. Moves(h, ShiftPcs) /\ calls'[h] = [c EXCEPT !.pc = "writeShift"]
    BY <1>0, <2>2, <2>3, ContinueMoves
  <2>5. CallOK(calls'[h], req)
    BY <2>1, <2>4, KindOK DEF ShiftCall, ShiftPcs
  <2> QED
    BY <1>5, <2>4, <2>5 DEF ClearShift, Cleared, Shape, ShiftsOK
<1>6. ASSUME WriteShift(h) \/ RefuseShift(h) \/ RemoveShift(h)
      PROVE  Moves(h, ShiftPcs) /\ CallOK(calls'[h], req) /\ ShiftsOK'
  <2>1. c.pc \in ShiftPcs /\ c.s \in ShiftIds /\ c.pc # "idle"
        /\ (WriteShift(h) => c.to \in {"plain", "default"})
    BY <1>0, <1>6 DEF CallOK, ShiftCall, WriteShift, RefuseShift, RemoveShift, ShiftPcs
  <2>2. Moves(h, ShiftPcs) /\ calls'[h] = Idle
    BY <1>0, <1>6, <2>1, FinishMoves DEF WriteShift, RefuseShift, RemoveShift
  <2>3. ShiftsOK'
    BY <1>6, <2>1 DEF WriteShift, RefuseShift, RemoveShift, Shape, ShiftsOK
  <2> QED
    BY <2>2, <2>3, IdleOK
<1> QED
  BY <1>2, <1>3, <1>4, <1>5, <1>6

(* A call is lost; a day passes.                                            *)
LEMMA LoseShape ==
  ASSUME Shape, NEW h \in Handlers, Lose(h), UNCHANGED dayTables, UNCHANGED sideTables
  PROVE  Shape' /\ calm' = FALSE /\ calls' = [calls EXCEPT ![h] = Idle]
<1>1. CallsOK /\ calm' = FALSE /\ calls' = [calls EXCEPT ![h] = Idle] /\ calls'[h] = Idle
  BY DEF Lose, Shape, CallsOK
<1>2. Moves(h, {calls[h].pc})
  BY <1>1 DEF Moves, Idle, CallsOK
<1> QED
  BY <1>1, <1>2, IdleOK, ReadStep, SideStays DEF Shape

LEMMA DayPasses ==
  ASSUME Shape, NextDay, UNCHANGED <<otVars, shVars>>
  PROVE  Shape'
BY CompOffAssumption DEF NextDay, Shape, CallsOK, Running, DaysOK, RequestsOK, CompOK, ShiftsOK, Days,
   attVars, compVars, otVars, shVars, callVars
----------------------------------------------------------------------------
(* Regularization: the calls that begin. *)
LEMMA DisputeBegins ==
  ASSUME Shape, NEW h \in Handlers, UNCHANGED sideTables,
         \/ \E e \in Staff, d \in Days, ask \in Asks : requestRegularization(h, e, d, ask)
         \/ \E i \in Requests : \/ cancelRegularization(h, i)
                                \/ \E u \in Admins \cup LineManagers :
                                     approveRegularization(h, u, i) \/ rejectRegularization(h, u, i)
  PROVE  Shape' /\ Moves(h, DisputePcs)
<1>0. CallsOK /\ \A i \in Requests : req[i].status = "PENDING" =>
        req[i] \in RequestRows /\ req[i].k \in Slots /\ rec[req[i].k] \in Records /\ Exists(req[i])
  BY DEF Shape, RequestsOK, RequestRows, NoRequest, DaysOK, Exists
<1>1. SUFFICES ASSUME TRUE PROVE Moves(h, DisputePcs) /\ CallOK(calls'[h], req) /\ UNCHANGED dayTables
  BY ReadStep, SideStays DEF Shape
<1>2. ASSUME NEW e \in Staff, NEW d \in Days, NEW ask \in Asks, requestRegularization(h, e, d, ask)
      PROVE  Moves(h, DisputePcs) /\ CallOK(calls'[h], req) /\ UNCHANGED dayTables
  <2> DEFINE new == [pc |-> "request", k |-> <<e, d>>, ask |-> ask,
                     linked |-> Exists(rec[<<e, d>>])]
  <2>1. Begin(h, new) /\ UNCHANGED dayTables
    BY <1>2 DEF requestRegularization, dayTables
  <2>2. ask \in [in: Ins, out: BOOLEAN] /\ Exists(rec[<<e, d>>]) \in BOOLEAN
    BY AttendanceAssumption DEF Ins, Exists
  <2>3. new.pc \in DisputePcs /\ CallOK(new, req)
    BY <2>2, KindOK DEF DisputeCall, DisputePcs, Slots
  <2> HIDE DEF new
  <2> QED
    BY <1>0, <2>1, <2>3, BeginMoves
<1>3. ASSUME NEW i \in Requests, cancelRegularization(h, i)
      PROVE  Moves(h, DisputePcs) /\ CallOK(calls'[h], req) /\ UNCHANGED dayTables
  <2> DEFINE new == [pc |-> "decide", i |-> i, status |-> "CANCELLED"]
  <2>1. Begin(h, new) /\ UNCHANGED dayTables /\ Exists(req[i])
    BY <1>3 DEF cancelRegularization, dayTables, Exists
  <2>2. new.pc \in DisputePcs /\ CallOK(new, req)
    BY <2>1, KindOK DEF DisputeCall, DisputePcs
  <2> HIDE DEF new
  <2> QED
    BY <1>0, <2>1, <2>2, BeginMoves
<1>4. ASSUME NEW i \in Requests, NEW u \in Admins \cup LineManagers, approveRegularization(h, u, i)
      PROVE  Moves(h, DisputePcs) /\ CallOK(calls'[h], req) /\ UNCHANGED dayTables
  <2> DEFINE in == Given(req[i].ask.in, rec[req[i].k].in)
             out == req[i].ask.out \/ rec[req[i].k].out
             new == [pc |-> "approveRecord", i |-> i, k |-> req[i].k, in |-> in, out |-> out]
  <2>1. Begin(h, new) /\ UNCHANGED dayTables /\ req[i].status = "PENDING"
    BY <1>4 DEF approveRegularization, dayTables
  <2>2. in \in Ins /\ out \in BOOLEAN /\ req[i].k \in Slots
    BY <1>0, <2>1 DEF Given, RequestRows, Records, Ins
  <2> HIDE DEF in, out
  <2>3. new.pc \in DisputePcs /\ CallOK(new, req)
    BY <1>0, <2>1, <2>2, KindOK DEF DisputeCall, DisputePcs
  <2> HIDE DEF new
  <2> QED
    BY <1>0, <2>1, <2>3, BeginMoves
<1>5. ASSUME NEW i \in Requests, NEW u \in Admins \cup LineManagers, rejectRegularization(h, u, i)
      PROVE  Moves(h, DisputePcs) /\ CallOK(calls'[h], req) /\ UNCHANGED dayTables
  <2> DEFINE new == IF req[i].linked
                    THEN [pc |-> "rejectRecord", i |-> i, k |-> req[i].k,
                          base |-> calendar[req[i].k[2]]]
                    ELSE [pc |-> "decide", i |-> i, status |-> "REJECTED"]
  <2>1. Begin(h, new) /\ UNCHANGED dayTables /\ req[i].status = "PENDING"
    BY <1>5 DEF rejectRegularization, dayTables
  <2>2. req[i].k \in Slots /\ calendar[req[i].k[2]] \in Bases
    BY <1>0, <2>1, AttendanceAssumption DEF Shape, DaysOK, Slots, Bases
  <2>3. new.pc \in DisputePcs /\ CallOK(new, req)
    BY <1>0, <2>1, <2>2, KindOK DEF DisputeCall, DisputePcs
  <2> HIDE DEF new
  <2> QED
    BY <1>0, <2>1, <2>3, BeginMoves
<1> QED
  BY <1>2, <1>3, <1>4, <1>5

(* A call that writes a request: a new one, or the status of one.           *)
LEMMA RequestStep ==
  ASSUME Shape, NEW h \in Handlers, NEW P, Moves(h, P), NEW i \in Requests, NEW row \in RequestRows,
         req' = [req EXCEPT ![i] = row], Exists(req[i]) => row.k = req[i].k,
         row.linked => Exists(rec[row.k]),
         CallOK(calls'[h], req'), attUntouched, UNCHANGED <<rec, punch, breaks>>, UNCHANGED sideTables
  PROVE  Shape' /\ RequestsStay
<1>1. DaysOK'
  BY DEF Shape, DaysOK, attUntouched
<1>2. req' \in [Requests -> {NoRequest} \cup RequestRows] /\ Exists(row)
      /\ \A j \in Requests : req'[j] = IF j = i THEN row ELSE req[j]
  BY DEF Shape, RequestsOK, Exists, RequestRows
<1>3. RequestsStay
  BY <1>2 DEF RequestsStay
<1>4. {j \in Requests : Exists(req'[j])} = {j \in Requests : Exists(req[j])} \cup {i}
  BY <1>2
<1>5. RequestsOK'
  BY <1>2, <1>4, FS_AddElement DEF Shape, RequestsOK
<1> QED
  BY <1>1, <1>3, <1>5, CallsStay, SideStays DEF Shape

LEMMA DisputeWrites ==
  ASSUME Shape, NEW h \in Handlers, UNCHANGED <<otVars, shVars>>,
         CreateRequest(h) \/ FlagDispute(h) \/ ApproveRecord(h) \/ RejectRecord(h) \/ Decide(h)
  PROVE  Shape' /\ Moves(h, DisputePcs) /\ UNCHANGED sideTables
<1> DEFINE c == calls[h]
<1>0. CallOK(c, req) /\ CallsOK /\ UNCHANGED sideTables /\ attUntouched /\ UNCHANGED <<punch, breaks>>
  BY DEF Shape, CallsOK, CreateRequest, FlagDispute, ApproveRecord, RejectRecord, Decide, sideTables,
     compVars, otVars, shVars
<1>1. ASSUME CreateRequest(h) PROVE Shape' /\ Moves(h, DisputePcs)
  <2>1. c \in [pc: {"request", "dispute"}, k: Slots, ask: [in: Ins, out: BOOLEAN], linked: BOOLEAN]
        /\ c.pc = "request"
    BY <1>0, <1>1 DEF CallOK, DisputeCall, CreateRequest
  <2>2. PICK i \in Requests : NextRequest(i) /\ req' = [req EXCEPT ![i] =
              [status |-> "PENDING", k |-> c.k, ask |-> c.ask, linked |-> c.linked /\ Exists(rec[c.k])]]
    BY <1>1 DEF CreateRequest
  <2> DEFINE row == [status |-> "PENDING", k |-> c.k, ask |-> c.ask,
                     linked |-> c.linked /\ Exists(rec[c.k])]
             new == IF c.linked THEN [c EXCEPT !.pc = "dispute"] ELSE Idle
  <2>3. row \in RequestRows
    <3>1. (c.linked /\ Exists(rec[c.k])) \in BOOLEAN
      BY Zenon
    <3> QED
      BY <2>1, <3>1 DEF RequestRows
  <2>4. ~Exists(req[i]) /\ (row.linked => Exists(rec[row.k]))
    <3>1. ~Exists(req[i])
      BY <2>2 DEF NextRequest, NoRequest, Exists
    <3>2. row.linked = (c.linked /\ Exists(rec[c.k])) /\ row.k = c.k
      OBVIOUS
    <3> HIDE DEF row
    <3> QED
      BY <3>1, <3>2, Zenon
  <2>5. Continue(h, new)
    BY <1>1 DEF CreateRequest, Finish
  <2>6. new.pc \in DisputePcs \cup {"idle"} /\ CallOK(new, req') /\ c.pc \in DisputePcs /\ c.pc # "idle"
    BY <2>1, KindOK, IdleOK DEF DisputeCall, DisputePcs, Idle
  <2>7. Moves(h, DisputePcs) /\ calls'[h] = new
    <3> HIDE DEF new
    <3> QED
      BY <1>0, <2>5, <2>6, ContinueMoves
  <2> HIDE DEF row, new
  <2>8. req' = [req EXCEPT ![i] = row]
    BY <2>2 DEF row
  <2> QED
    BY <1>0, <1>1, <2>3, <2>4, <2>6, <2>7, <2>8, RequestStep DEF CreateRequest
<1>2. ASSUME Decide(h) PROVE Shape' /\ Moves(h, DisputePcs)
  <2>1. c \in [pc: {"decide"}, i: Requests, status: {"APPROVED", "REJECTED", "CANCELLED"}]
        /\ Exists(req[c.i])
    BY <1>0, <1>2 DEF CallOK, DisputeCall, Decide
  <2> DEFINE row == [req[c.i] EXCEPT !.status = c.status]
  <2>2. req[c.i] \in RequestRows
    BY <2>1 DEF Shape, RequestsOK, NoRequest, Exists
  <2>3. row \in RequestRows /\ row.k = req[c.i].k /\ row.linked = req[c.i].linked
    BY <2>1, <2>2 DEF RequestRows
  <2>4. Moves(h, DisputePcs) /\ calls'[h] = Idle
    BY <1>0, <1>2, <2>1, FinishMoves DEF Decide, DisputePcs
  <2>5. row.linked => Exists(rec[row.k])
    BY <2>1, <2>3 DEF Shape, RequestsOK
  <2>6. req' = [req EXCEPT ![c.i] = row]
    BY <1>2 DEF Decide
  <2> HIDE DEF row
  <2> QED
    <3>1. attUntouched /\ UNCHANGED <<rec, punch, breaks>> /\ UNCHANGED sideTables
      BY <1>0, <1>2 DEF Decide, sideTables
    <3>2. CallOK(calls'[h], req')
      BY <2>4, IdleOK
    <3>3. row.linked => Exists(rec[row.k])
      BY <2>5
    <3>4. PICK i \in Requests : i = c.i
      BY <2>1
    <3>5. req' = [req EXCEPT ![i] = row] /\ row.k = req[i].k /\ row \in RequestRows
      BY <2>3, <2>6, <3>4
    <3> QED
      BY <2>4, <3>1, <3>2, <3>3, <3>5, RequestStep
<1>3. ASSUME FlagDispute(h) PROVE Shape' /\ Moves(h, DisputePcs)
  <2>1. c.k \in Slots /\ c.pc = "dispute"
    BY <1>0, <1>3 DEF CallOK, DisputeCall, FlagDispute
  <2>2. Moves(h, DisputePcs) /\ calls'[h] = Idle
    BY <1>0, <1>3, <2>1, FinishMoves DEF FlagDispute, DisputePcs
  <2>3. /\ rec' \in [Slots -> Records]
        /\ \A k \in Slots : (Exists(rec[k]) => Exists(rec'[k]))
                            /\ (Exists(rec'[k]) \/ rec'[k] = NoRecord)
    <3>1. CASE UNCHANGED rec
      BY <3>1 DEF Shape, DaysOK
    <3>2. CASE rec' = [rec EXCEPT ![c.k] = [rec[c.k] EXCEPT !.status = "PENDING_REGULARIZATION"]]
      <4>1. [rec[c.k] EXCEPT !.status = "PENDING_REGULARIZATION"] \in Records
            /\ Exists([rec[c.k] EXCEPT !.status = "PENDING_REGULARIZATION"])
        BY <2>1 DEF Shape, DaysOK, Records, Exists, Statuses
      <4> QED
        BY <2>1, <3>2, <4>1 DEF Shape, DaysOK
    <3> QED
      BY <1>3, <3>1, <3>2 DEF FlagDispute
  <2> QED
    BY <1>0, <1>3, <2>2, <2>3, IdleOK, DayStep DEF FlagDispute, Shape, DaysOK, attUntouched
<1>4. ASSUME ApproveRecord(h) PROVE Shape' /\ Moves(h, DisputePcs)
  <2>1. c \in [pc: {"approveRecord"}, i: Requests, k: Slots, in: Ins, out: BOOLEAN]
        /\ Exists(req[c.i])
    BY <1>0, <1>4 DEF CallOK, DisputeCall, ApproveRecord
  <2>2. Moves(h, DisputePcs) /\ calls'[h] = [pc |-> "decide", i |-> c.i, status |-> "APPROVED"]
    BY <1>0, <1>4, <2>1, ContinueMoves DEF ApproveRecord, DisputePcs
  <2>3. CallOK(calls'[h], req)
    BY <2>1, <2>2, KindOK DEF DisputeCall, DisputePcs
  <2> DEFINE row == [status |-> Late(c.in), in |-> Given(c.in, rec[c.k].in),
                     out |-> c.out \/ rec[c.k].out, source |-> "MANUAL"]
  <2>4. rec' = [rec EXCEPT ![c.k] = row]
    BY <1>4 DEF ApproveRecord
  <2>5. row \in Records /\ Exists(row)
    BY <2>1 DEF Records, Exists, Late, Given, Statuses, Ins, Shape, DaysOK
  <2> HIDE DEF row
  <2>6. /\ rec' \in [Slots -> Records]
        /\ \A k \in Slots : (Exists(rec[k]) => Exists(rec'[k]))
                            /\ (Exists(rec'[k]) \/ rec'[k] = NoRecord)
    BY <2>1, <2>4, <2>5 DEF Shape, DaysOK
  <2> QED
    <3>1. UNCHANGED <<today, calendar, behavior, limits, widest, leave, req, punch, breaks>>
      BY <1>4 DEF ApproveRecord, attUntouched
    <3>2. punch \in [Slots -> Punches] /\ breaks \in [Slots -> Nat]
      BY DEF Shape, DaysOK
    <3> QED
      BY <1>0, <2>2, <2>3, <2>6, <3>1, <3>2, DayStep
<1>5. ASSUME RejectRecord(h) PROVE Shape' /\ Moves(h, DisputePcs)
  <2>1. c \in [pc: {"rejectRecord"}, i: Requests, k: Slots, base: Bases]
        /\ Exists(req[c.i]) /\ req[c.i].k = c.k
    BY <1>0, <1>5 DEF CallOK, DisputeCall, RejectRecord
  <2>2. Moves(h, DisputePcs)
        /\ calls'[h] \in {Idle, [pc |-> "decide", i |-> c.i, status |-> "REJECTED"]}
    BY <1>0, <1>5, <2>1, ContinueMoves, FinishMoves DEF RejectRecord, DisputePcs
  <2>3. CallOK(calls'[h], req)
    BY <2>1, <2>2, KindOK, IdleOK DEF DisputeCall, DisputePcs
  <2>4. /\ rec' \in [Slots -> Records]
        /\ \A k \in Slots : (Exists(rec[k]) => Exists(rec'[k]))
                            /\ (Exists(rec'[k]) \/ rec'[k] = NoRecord)
    <3>1. CASE ~req[c.i].linked
      BY <1>5, <3>1 DEF RejectRecord, Shape, DaysOK
    <3>2. CASE req[c.i].linked
      <4>1. rec' = [rec EXCEPT ![c.k] = [rec[c.k] EXCEPT !.status = c.base]]
        BY <1>5, <3>2 DEF RejectRecord
      <4>2. [rec[c.k] EXCEPT !.status = c.base] \in Records
            /\ Exists([rec[c.k] EXCEPT !.status = c.base])
        BY <2>1 DEF Shape, DaysOK, Records, Exists, Statuses, Bases
      <4> QED
        BY <2>1, <4>1, <4>2 DEF Shape, DaysOK
    <3> QED
      BY <3>1, <3>2
  <2> QED
    BY <1>0, <1>5, <2>2, <2>3, <2>4, DayStep DEF RejectRecord, Shape, DaysOK, attUntouched
<1> QED
  BY <1>0, <1>1, <1>2, <1>3, <1>4, <1>5
----------------------------------------------------------------------------
(* The nightly jobs: what they read, and their ends.                        *)
LEMMA JobReads ==
  ASSUME Shape, NEW h \in Handlers, UNCHANGED sideTables,
         finalize(h) \/ FinalizeDone(h) \/ resolveCutoff(h) \/ CutoffDone(h)
  PROVE  Shape' /\ Moves(h, JobPcs)
<1>0. CallsOK
  BY DEF Shape
<1>1. SUFFICES ASSUME TRUE PROVE Moves(h, JobPcs) /\ CallOK(calls'[h], req) /\ UNCHANGED dayTables
  BY ReadStep, SideStays DEF Shape
<1>2. ASSUME finalize(h)
      PROVE  Moves(h, JobPcs) /\ CallOK(calls'[h], req) /\ UNCHANGED dayTables
  <2> DEFINE d == today - 1
             todo == {e \in Staff : ~HasOutcome(rec[<<e, d>>])}
             new == [pc |-> "finalize", d |-> d, base |-> calendar[d], todo |-> todo]
  <2>1. Begin(h, new) /\ UNCHANGED dayTables /\ d \in Days
    BY <1>2 DEF finalize, dayTables
  <2>2. calendar[d] \in Bases /\ todo \in SUBSET Staff
    BY <2>1, AttendanceAssumption DEF Shape, DaysOK, Bases
  <2> HIDE DEF d, todo
  <2>3. new.pc \in JobPcs /\ CallOK(new, req)
    BY <2>1, <2>2, KindOK DEF JobCall, JobPcs
  <2> HIDE DEF new
  <2> QED
    BY <1>0, <2>1, <2>3, BeginMoves
<1>3. ASSUME resolveCutoff(h)
      PROVE  Moves(h, JobPcs) /\ CallOK(calls'[h], req) /\ UNCHANGED dayTables
  <2> DEFINE todo == {i \in PendingRequests : req[i].k[2] < today}
             links == {i \in PendingRequests : req[i].linked}
             approve == behavior = "AUTO_APPROVE"
             new == [pc |-> "cutoff", todo |-> todo, links |-> links, approve |-> approve]
  <2>1. Begin(h, new) /\ UNCHANGED dayTables
    BY <1>3 DEF resolveCutoff, dayTables
  <2>2. todo \in SUBSET Requests /\ links \in SUBSET Requests /\ approve \in BOOLEAN
        /\ \A i \in todo : Exists(req[i])
    BY DEF PendingRequests, Exists
  <2> HIDE DEF todo, links, approve
  <2>3. new.pc \in JobPcs /\ CallOK(new, req)
    BY <2>2, KindOK DEF JobCall, JobPcs
  <2> HIDE DEF new
  <2> QED
    BY <1>0, <2>1, <2>3, BeginMoves
<1>4. ASSUME FinalizeDone(h) \/ CutoffDone(h)
      PROVE  Moves(h, JobPcs) /\ CallOK(calls'[h], req) /\ UNCHANGED dayTables
  <2>1. Finish(h) /\ calls[h].pc \in JobPcs /\ calls[h].pc # "idle" /\ UNCHANGED dayTables
    BY <1>4 DEF FinalizeDone, CutoffDone, JobPcs, dayTables
  <2> QED
    BY <1>0, <2>1, FinishMoves, IdleOK
<1> QED
  BY <1>2, <1>3, <1>4

(* What the finalization writes.                                            *)
FinalRow(c, p, r) ==
  IF c.base = "ABSENT" /\ Punched(p)
  THEN [status |-> Late(p.in), in |-> Given(p.in, r.in), out |-> p.out \/ r.out,
        source |-> "IMPORT"]
  ELSE [OrNew(r) EXCEPT !.status = c.base]

LEMMA FinalRowIs ==
  ASSUME NEW c, c.base \in Bases, NEW p \in Punches, NEW r \in Records,
         Exists(r) \/ r = NoRecord
  PROVE  /\ FinalRow(c, p, r) \in Records /\ Exists(FinalRow(c, p, r))
         /\ c.base = "ABSENT" /\ Punched(p) => FinalRow(c, p, r).status \in {"LATE", "PRESENT"}
         /\ ~(c.base = "ABSENT" /\ Punched(p)) => FinalRow(c, p, r).status = c.base
         /\ ~(c.base = "ABSENT" /\ Punched(p)) =>
              /\ FinalRow(c, p, r).in = r.in
              /\ r.source = "MANUAL" => FinalRow(c, p, r).source = "MANUAL"
         /\ FinalRow(c, p, r).out /\ FinalRow(c, p, r).source = "WEB" => r.out /\ r.source = "WEB"
<1>1. CASE c.base = "ABSENT" /\ Punched(p)
  <2>1. FinalRow(c, p, r) = [status |-> Late(p.in), in |-> Given(p.in, r.in), out |-> p.out \/ r.out,
                             source |-> "IMPORT"]
    BY <1>1 DEF FinalRow
  <2> QED
    BY <1>1, <2>1 DEF Records, Exists, Statuses, Late, Given, Punches, Ins
<1>2. CASE ~(c.base = "ABSENT" /\ Punched(p))
  <2>1. OrNew(r) \in Records /\ OrNew(r).out = r.out /\ OrNew(r).in = r.in
        /\ (r.source = "MANUAL" => OrNew(r).source = "MANUAL")
        /\ (r.out => OrNew(r).source = r.source)
    <3>1. CASE Exists(r)
      BY <3>1 DEF OrNew
    <3>2. CASE ~Exists(r)
      <4>1. OrNew(r) = [NoRecord EXCEPT !.source = "WEB"] /\ r = NoRecord
        BY <3>2 DEF OrNew
      <4> QED
        BY <4>1 DEF Records, NoRecord, Statuses
    <3> QED
      BY <3>1, <3>2
  <2>2. FinalRow(c, p, r) = [OrNew(r) EXCEPT !.status = c.base]
    BY <1>2 DEF FinalRow
  <2> QED
    BY <1>2, <2>1, <2>2 DEF Records, Exists, Statuses, Bases
<1> QED
  BY <1>1, <1>2

LEMMA FinalizeWrites ==
  ASSUME Shape, NEW h \in Handlers, UNCHANGED sideTables, NEW e \in Staff, FinalizeOne(h, e)
  PROVE  Shape' /\ Moves(h, JobPcs)
<1> DEFINE c == calls[h]
           k == <<e, c.d>>
           row == FinalRow(c, punch[k], rec[k])
<1>1. /\ CallsOK /\ c \in [pc: {"finalize"}, d: Days, base: Bases, todo: SUBSET Staff]
      /\ k \in Slots
  BY DEF Shape, CallsOK, CallOK, JobCall, FinalizeOne, Slots
<1>2. [c EXCEPT !.todo = c.todo \ {e}] \in [pc: {"finalize"}, d: Days, base: Bases, todo: SUBSET Staff]
  BY <1>1
<1>3. Continue(h, [c EXCEPT !.todo = c.todo \ {e}])
  BY DEF FinalizeOne
<1>4. Moves(h, JobPcs) /\ calls'[h] = [c EXCEPT !.todo = c.todo \ {e}]
  BY <1>1, <1>2, <1>3, ContinueMoves DEF JobPcs
<1>5. CallOK(calls'[h], req)
  BY <1>2, <1>4, KindOK DEF JobCall, JobPcs
<1>6. row \in Records /\ Exists(row)
  BY <1>1, FinalRowIs DEF Shape, DaysOK
<1>7. rec' = [rec EXCEPT ![k] = row]
  BY DEF FinalizeOne, FinalRow
<1> HIDE DEF row
<1>8. /\ rec' \in [Slots -> Records]
      /\ \A j \in Slots : (Exists(rec[j]) => Exists(rec'[j]))
                          /\ (Exists(rec'[j]) \/ rec'[j] = NoRecord)
  BY <1>1, <1>6, <1>7 DEF Shape, DaysOK
<1>9. UNCHANGED <<today, calendar, behavior, limits, widest, leave, req, punch, breaks>>
  BY DEF FinalizeOne, attUntouched
<1>10. punch \in [Slots -> Punches] /\ breaks \in [Slots -> Nat]
  BY DEF Shape, DaysOK
<1> QED
  BY <1>4, <1>5, <1>8, <1>9, <1>10, DayStep

LEMMA CutoffWrites ==
  ASSUME Shape, NEW h \in Handlers, UNCHANGED <<otVars, shVars>>,
         CutoffRecord(h) \/ \E i \in Requests : CutoffRequest(h, i)
  PROVE  Shape' /\ Moves(h, JobPcs)
<1> DEFINE c == calls[h]
<1>0. CallOK(c, req) /\ CallsOK /\ UNCHANGED sideTables /\ attUntouched /\ UNCHANGED <<punch, breaks>>
  BY DEF Shape, CallsOK, CutoffRecord, CutoffRequest, sideTables, compVars, otVars, shVars
<1>1. ASSUME NEW i \in Requests, CutoffRequest(h, i) PROVE Shape' /\ Moves(h, JobPcs)
  <2>1. /\ c \in [pc: {"cutoff"}, todo: SUBSET Requests, links: SUBSET Requests, approve: BOOLEAN]
        /\ i \in c.todo /\ \A j \in c.todo : Exists(req[j])
    BY <1>0, <1>1 DEF CallOK, JobCall, CutoffRequest
  <2> DEFINE new == [pc |-> "cutoffRecord", todo |-> c.todo \ {i}, links |-> c.links,
                     approve |-> c.approve, i |-> i]
             row == [req[i] EXCEPT !.status = IF c.approve THEN "APPROVED" ELSE "REJECTED"]
  <2>2. req[i] \in RequestRows
    BY <2>1 DEF Shape, RequestsOK, NoRequest, Exists
  <2>3. row \in RequestRows /\ row.k = req[i].k /\ row.linked = req[i].linked /\ Exists(row)
    BY <2>2 DEF RequestRows, Exists
  <2>4. Continue(h, new) /\ new.pc \in JobPcs /\ c.pc \in JobPcs /\ c.pc # "idle"
    BY <1>1, <2>1 DEF CutoffRequest, JobPcs
  <2>5. req' = [req EXCEPT ![i] = row]
    BY <1>1 DEF CutoffRequest
  <2>6. row.linked => Exists(rec[row.k])
    BY <2>1, <2>3 DEF Shape, RequestsOK
  <2> HIDE DEF row
  <2>7. \A j \in Requests : Exists(req[j]) => Exists(req'[j])
    BY <2>3, <2>5 DEF Shape, RequestsOK
  <2>8. CallOK(new, req')
    BY <2>1, <2>7, KindOK DEF JobCall, JobPcs
  <2> HIDE DEF new
  <2>9. Moves(h, JobPcs) /\ calls'[h] = new
    BY <1>0, <2>4, ContinueMoves
  <2> QED
    <3>1. CallOK(calls'[h], req') /\ UNCHANGED <<rec, punch, breaks>>
      BY <1>1, <2>8, <2>9 DEF CutoffRequest
    <3>2. (Exists(req[i]) => row.k = req[i].k) /\ row \in RequestRows
      BY <2>3
    <3> QED
      BY <1>0, <2>5, <2>6, <2>9, <3>1, <3>2, RequestStep
<1>2. ASSUME CutoffRecord(h) PROVE Shape' /\ Moves(h, JobPcs)
  <2>1. /\ c \in [pc: {"cutoffRecord"}, todo: SUBSET Requests, links: SUBSET Requests,
                  approve: BOOLEAN, i: Requests]
        /\ Exists(req[c.i]) /\ \A i \in c.todo : Exists(req[i])
    BY <1>0, <1>2 DEF CallOK, JobCall, CutoffRecord
  <2> DEFINE k == req[c.i].k
             new == [pc |-> "cutoff", todo |-> c.todo, links |-> c.links, approve |-> c.approve]
  <2>2. req[c.i] \in RequestRows /\ k \in Slots
    BY <2>1 DEF Shape, RequestsOK, NoRequest, Exists, RequestRows
  <2>3. Finish(h) \/ Continue(h, new)
    BY <1>2 DEF CutoffRecord
  <2>4. new.pc \in JobPcs /\ c.pc \in JobPcs /\ c.pc # "idle" /\ CallOK(new, req)
    BY <2>1, KindOK DEF JobCall, JobPcs
  <2>5. Moves(h, JobPcs) /\ CallOK(calls'[h], req)
    <3> HIDE DEF new
    <3> QED
      BY <1>0, <2>3, <2>4, ContinueMoves, FinishMoves, IdleOK
  <2>6. /\ rec' \in [Slots -> Records]
        /\ \A j \in Slots : (Exists(rec[j]) => Exists(rec'[j]))
                            /\ (Exists(rec'[j]) \/ rec'[j] = NoRecord)
    <3>1. CASE UNCHANGED rec
      BY <3>1 DEF Shape, DaysOK
    <3>2. CASE req[c.i].linked /\ rec' = [rec EXCEPT ![k] = Resolved(rec[k], req[c.i].ask, c.approve)]
      <4> DEFINE row == Resolved(rec[k], req[c.i].ask, c.approve)
      <4>1. rec[k] \in Records /\ req[c.i].ask \in [in: Ins, out: BOOLEAN]
        BY <2>2 DEF Shape, DaysOK, RequestRows
      <4>2. row \in Records /\ Exists(row)
        <5>1. CASE c.approve
          BY <4>1, <5>1 DEF Resolved, Records, Statuses, Given, Ins, Exists
        <5>2. CASE ~c.approve
          BY <4>1, <5>2 DEF Resolved, Records, Statuses, Exists
        <5> QED
          BY <5>1, <5>2
      <4> HIDE DEF row
      <4>3. rec' = [rec EXCEPT ![k] = row]
        BY <3>2 DEF row
      <4> QED
        BY <2>2, <4>2, <4>3 DEF Shape, DaysOK
    <3> QED
      BY <1>2, <3>1, <3>2 DEF CutoffRecord
  <2> QED
    BY <1>0, <1>2, <2>5, <2>6, DayStep DEF CutoffRecord, Shape, DaysOK, attUntouched
<1> QED
  BY <1>1, <1>2
----------------------------------------------------------------------------
(* The office: leave, HR's marks and the settings, each in one statement.   *)
LEMMA OfficeShape ==
  ASSUME Shape, UNCHANGED <<otVars, shVars>>, OfficeNext
  PROVE  Shape' /\ AtOnce /\ UNCHANGED <<today, compVars>>
<1>0. SUFFICES ASSUME AtOnce, UNCHANGED <<today, compVars>> PROVE Shape'
  BY DEF OfficeNext, leaveApproved, leaveCancelled, markAttendance, updateAttendanceConfig, attUntouched
<1>1. CallsOK /\ DaysOK /\ RequestsOK /\ UNCHANGED calls /\ calm' \in BOOLEAN /\ CompOK' /\ ShiftsOK'
  <2>1. UNCHANGED sideTables
    BY <1>0 DEF sideTables
  <2>2. UNCHANGED calls /\ calm' \in BOOLEAN
    BY <1>0, AtOnceCalm
  <2> QED
    BY <2>1, <2>2, SideStays DEF Shape
<1>2. ASSUME RequestsStay, DaysOK', RequestsOK' PROVE Shape'
  BY <1>1, <1>2, CallsRest DEF Shape
<1>3. ASSUME NEW k \in Slots, leaveApproved(k) PROVE Shape'
  <2> DEFINE row == IF Exists(rec[k]) THEN rec[k] ELSE [OrNew(rec[k]) EXCEPT !.status = "ON_LEAVE"]
             mark == IF Exists(rec[k]) THEN "late" ELSE "marked"
  <2>1. row \in Records /\ Exists(row)
    <3>1. CASE Exists(rec[k])
      BY <1>1, <3>1 DEF DaysOK
    <3>2. CASE ~Exists(rec[k])
      <4>1. row = [[NoRecord EXCEPT !.source = "WEB"] EXCEPT !.status = "ON_LEAVE"]
        BY <3>2 DEF OrNew
      <4> QED
        BY <4>1 DEF Records, NoRecord, Exists, Statuses
    <3> QED
      BY <3>1, <3>2
  <2>2. rec' = [rec EXCEPT ![k] = row] /\ leave' = [leave EXCEPT ![k] = mark]
        /\ UNCHANGED <<today, calendar, behavior, limits, widest, punch, breaks, req>>
    BY <1>3 DEF leaveApproved
  <2>3. mark \in {"late", "marked"}
    OBVIOUS
  <2> HIDE DEF row, mark
  <2>4. DaysOK'
    BY <1>1, <2>1, <2>2, <2>3 DEF DaysOK
  <2>5. RequestsOK' /\ RequestsStay
    BY <1>1, <2>1, <2>2 DEF DaysOK, RequestsOK, RequestsStay, RequestRows, NoRequest, Exists
  <2> QED
    BY <1>2, <2>4, <2>5
<1>4. ASSUME NEW k \in Slots, leaveCancelled(k) PROVE Shape'
  <2> DEFINE gone == rec[k].status = "ON_LEAVE"
             cut(i) == gone /\ Exists(req[i]) /\ req[i].k = k
             row(i) == IF cut(i) THEN [req[i] EXCEPT !.linked = FALSE] ELSE req[i]
  <2>1. /\ leave' = [leave EXCEPT ![k] = "none"]
        /\ rec' = [rec EXCEPT ![k] = IF gone THEN NoRecord ELSE rec[k]]
        /\ breaks' = [breaks EXCEPT ![k] = IF gone THEN 0 ELSE breaks[k]]
        /\ req' = [i \in Requests |-> row(i)]
        /\ UNCHANGED <<today, calendar, behavior, limits, widest, punch>>
    BY <1>4 DEF leaveCancelled
  <2>2. NoRecord \in Records
    BY DEF NoRecord, Records, Statuses
  <2>3. DaysOK'
    BY <1>1, <2>1, <2>2 DEF DaysOK
  <2>4. \A i \in Requests : /\ row(i) \in {NoRequest} \cup RequestRows
                            /\ Exists(row(i)) <=> Exists(req[i])
                            /\ Exists(req[i]) => row(i).k = req[i].k
                            /\ Exists(req[i]) /\ row(i).linked => req[i].linked /\ ~cut(i)
    <3> SUFFICES ASSUME NEW i \in Requests
                 PROVE  /\ row(i) \in {NoRequest} \cup RequestRows
                        /\ Exists(row(i)) <=> Exists(req[i])
                        /\ Exists(req[i]) => row(i).k = req[i].k
                        /\ Exists(req[i]) /\ row(i).linked => req[i].linked /\ ~cut(i)
      OBVIOUS
    <3>1. CASE ~cut(i)
      <4>1. row(i) = req[i]
        BY <3>1
      <4> QED
        BY <1>1, <3>1, <4>1 DEF RequestsOK
    <3>2. CASE cut(i)
      <4>1. row(i) = [req[i] EXCEPT !.linked = FALSE] /\ Exists(req[i])
        BY <3>2
      <4>2. req[i] \in RequestRows
        BY <1>1, <4>1 DEF RequestsOK, NoRequest, Exists
      <4> QED
        BY <4>1, <4>2 DEF RequestRows, Exists
    <3> QED
      BY <3>1, <3>2
  <2> HIDE DEF row
  <2>5. RequestsStay
    BY <2>1, <2>4 DEF RequestsStay
  <2>6. \A i \in Requests : Exists(req'[i]) /\ req'[i].linked => Exists(rec'[req'[i].k])
    <3> SUFFICES ASSUME NEW i \in Requests, Exists(req'[i]), req'[i].linked
                 PROVE  Exists(rec'[req'[i].k])
      OBVIOUS
    <3>1. req'[i] = row(i)
      BY <2>1
    <3>2. Exists(req[i]) /\ req'[i].k = req[i].k /\ req[i].linked /\ ~cut(i)
      BY <2>4, <3>1
    <3>3. Exists(rec[req[i].k]) /\ req[i].k \in Slots
      BY <1>1, <3>2 DEF RequestsOK, RequestRows, NoRequest, Exists
    <3> QED
      BY <1>1, <2>1, <3>2, <3>3 DEF DaysOK
  <2>7. {i \in Requests : Exists(req'[i])} = {i \in Requests : Exists(req[i])}
    BY <2>1, <2>4
  <2>8. RequestsOK'
    BY <1>1, <2>1, <2>4, <2>6, <2>7 DEF RequestsOK
  <2> QED
    BY <1>2, <2>3, <2>5, <2>8
<1>5. ASSUME NEW k \in Slots, NEW mark \in Marks, markAttendance(k, mark) PROVE Shape'
  <2> DEFINE row == [status |-> mark.status, in |-> Given(mark.in, rec[k].in),
                     out |-> mark.out \/ rec[k].out, source |-> "MANUAL"]
  <2>1. row \in Records /\ Exists(row)
    BY <1>1, AttendanceAssumption DEF DaysOK, Records, Statuses, Given, Exists
  <2>2. rec' = [rec EXCEPT ![k] = row]
        /\ UNCHANGED <<today, calendar, behavior, limits, widest, leave, punch, breaks, req>>
    BY <1>5 DEF markAttendance, attUntouched
  <2> HIDE DEF row
  <2>4. DaysOK'
    BY <1>1, <2>1, <2>2 DEF DaysOK
  <2>5. RequestsOK' /\ RequestsStay
    BY <1>1, <2>1, <2>2 DEF DaysOK, RequestsOK, RequestsStay, RequestRows, NoRequest, Exists
  <2> QED
    BY <1>2, <2>4, <2>5
<1>6. ASSUME NEW cal \in Calendars, NEW b \in Behaviors, NEW l \in Limits,
             updateAttendanceConfig(cal, b, l)
      PROVE  Shape'
  <2>1. /\ calendar' = cal /\ behavior' = b /\ limits' = l
        /\ widest' = (IF l.cap > widest THEN l.cap ELSE widest)
        /\ UNCHANGED <<today, rec, punch, breaks, req, leave>>
    BY <1>6 DEF updateAttendanceConfig
  <2>2. widest' \in Nat /\ l.cap <= widest'
    BY <1>1, <2>1, AttendanceAssumption DEF DaysOK
  <2>3. DaysOK'
    BY <1>1, <2>1, <2>2 DEF DaysOK
  <2>4. RequestsOK' /\ RequestsStay
    BY <1>1, <2>1 DEF RequestsOK, RequestsStay
  <2> QED
    BY <1>2, <2>3, <2>4
<1> QED
  BY <1>3, <1>4, <1>5, <1>6 DEF OfficeNext
----------------------------------------------------------------------------
(* Every step of the tenant is of one of these kinds.                       *)
ClockStep(h) ==
  /\ \/ ClockInRecord(h) \/ PunchIn(h) \/ ClockOutRecord(h) \/ PunchOut(h)
     \/ CreateBreak(h) \/ CloseBreak(h)
     \/ \E e \in Staff : \/ \E in \in {"ontime", "late"} : clockIn(h, e, in)
                         \/ clockOut(h, e) \/ startBreak(h, e) \/ endBreak(h, e)
  /\ Moves(h, ClockPcs \cup CompPcs) /\ UNCHANGED sideTables
CompStep(h) ==
  /\ creditCompOff(h) \/ CompLook(h) \/ CompBalance(h) \/ CompRow(h)
  /\ Moves(h, CompPcs) /\ UNCHANGED <<attVars, today, otVars, shVars>>
DisputeStep(h) == DisputeNext(h) /\ Moves(h, DisputePcs) /\ UNCHANGED sideTables
JobStep(h) == JobNext(h) /\ Moves(h, JobPcs) /\ UNCHANGED sideTables
ClaimStep(h) ==
  /\ \/ WriteClaim(h) \/ ClaimHours(h) \/ ClaimEmpty(h) \/ ClaimBalance(h) \/ ClaimRow(h)
     \/ \E u \in Callers, e \in Overtimers, decision \in {"APPROVE", "REJECT"} :
          decideOvertimeClaim(h, u, e, decision)
  /\ Moves(h, ClaimPcs) /\ UNCHANGED <<attVars, today, shVars>>
ShiftStep(h) ==
  /\ \/ \E s \in ShiftIds : \/ deleteShift(h, s)
                            \/ \E default \in BOOLEAN : createShift(h, s, default)
                            \/ \E to \in {"plain", "default"} : updateShift(h, s, to)
     \/ ClearShift(h) \/ WriteShift(h) \/ RefuseShift(h) \/ RemoveShift(h)
  /\ Moves(h, ShiftPcs) /\ UNCHANGED <<today, compVars, attVars, otVars>>
LostStep(h) ==
  /\ Lose(h) /\ calm' = FALSE /\ calls' = [calls EXCEPT ![h] = Idle]
  /\ UNCHANGED <<dayTables, sideTables>>
OfficeStep == OfficeNext /\ AtOnce /\ UNCHANGED <<today, sideTables>>
ClaimAtOnce ==
  /\ \/ \E e \in Overtimers, mode \in {"CASH", "COMP_OFF"} : createOvertimeClaim(e, mode)
     \/ \E e \in Overtimers, m \in {NoOne} \cup Managers : moveReport(e, m)
     \/ SetupEdit
  /\ AtOnce /\ UNCHANGED <<today, attVars, shVars>>
DayStepOn == NextDay /\ UNCHANGED <<callVars, attVars, sideTables>>

CallStep(h) ==
  ClockStep(h) \/ CompStep(h) \/ DisputeStep(h) \/ JobStep(h) \/ ClaimStep(h) \/ ShiftStep(h) \/ LostStep(h)

LEMMA MovesWider ==
  ASSUME NEW h, NEW P, NEW Q, P \subseteq Q, Moves(h, P)
  PROVE  Moves(h, Q)
BY DEF Moves

LEMMA ClockKind ==
  ASSUME Shape, NEW h \in Handlers, ClockNext(h), UNCHANGED <<otVars, shVars>>
  PROVE  Shape' /\ (ClockStep(h) \/ CompStep(h))
<1>1. ASSUME NEW e \in Staff, NEW in \in {"ontime", "late"},
             clockIn(h, e, in) \/ clockOut(h, e) \/ startBreak(h, e) \/ endBreak(h, e)
      PROVE  Shape' /\ ClockStep(h)
  <2>1. Shape' /\ Moves(h, ClockPcs)
    BY <1>1, ClockBegins
  <2>2. Moves(h, ClockPcs \cup CompPcs)
    BY <2>1, MovesWider
  <2>3. UNCHANGED sideTables
    BY <1>1 DEF clockIn, clockOut, startBreak, endBreak, sideTables
  <2> QED
    BY <1>1, <2>1, <2>2, <2>3 DEF ClockStep
<1>2. ASSUME ClockInRecord(h) \/ PunchIn(h) \/ ClockOutRecord(h) \/ PunchOut(h)
      PROVE  Shape' /\ ClockStep(h)
  <2>1. UNCHANGED sideTables
    BY <1>2 DEF ClockInRecord, PunchIn, ClockOutRecord, PunchOut, sideTables
  <2> QED
    BY <1>2, <2>1, ClockWrites DEF ClockStep
<1>3. ASSUME CreateBreak(h) \/ CloseBreak(h)
      PROVE  Shape' /\ ClockStep(h)
  <2>1. UNCHANGED sideTables
    BY <1>3 DEF CreateBreak, CloseBreak, sideTables
  <2> QED
    BY <1>3, <2>1, BreakWrites, MovesWider DEF ClockStep
<1>4. ASSUME creditCompOff(h) \/ CompLook(h) \/ CompBalance(h) \/ CompRow(h)
      PROVE  Shape' /\ CompStep(h)
  <2>1. UNCHANGED <<attVars, today>>
    BY <1>4 DEF creditCompOff, CompLook, CompBalance, CompRow
  <2> QED
    BY <1>4, <2>1, CompMoves DEF CompStep
<1>5. {"ontime", "late"} # {}
  OBVIOUS
<1> QED
  BY <1>1, <1>2, <1>3, <1>4, <1>5 DEF ClockNext

LEMMA DisputeKind ==
  ASSUME Shape, NEW h \in Handlers, DisputeNext(h), UNCHANGED <<otVars, shVars>>
  PROVE  Shape' /\ DisputeStep(h)
<1>1. CASE CreateRequest(h) \/ FlagDispute(h) \/ ApproveRecord(h) \/ RejectRecord(h) \/ Decide(h)
  BY <1>1, DisputeWrites DEF DisputeStep
<1>2. CASE ~(CreateRequest(h) \/ FlagDispute(h) \/ ApproveRecord(h) \/ RejectRecord(h) \/ Decide(h))
  <2>1. \/ \E e \in Staff, d \in Days, ask \in Asks : requestRegularization(h, e, d, ask)
        \/ \E i \in Requests : \/ cancelRegularization(h, i)
                               \/ \E u \in Admins \cup LineManagers :
                                    approveRegularization(h, u, i) \/ rejectRegularization(h, u, i)
    BY <1>2, Zenon DEF DisputeNext
  <2>2. UNCHANGED sideTables
    BY <2>1 DEF requestRegularization, cancelRegularization, approveRegularization,
       rejectRegularization, sideTables
  <2> QED
    BY <2>1, <2>2, DisputeBegins DEF DisputeStep
<1> QED
  BY <1>1, <1>2

LEMMA JobKind ==
  ASSUME Shape, NEW h \in Handlers, JobNext(h), UNCHANGED <<otVars, shVars>>
  PROVE  Shape' /\ JobStep(h)
<1>1. UNCHANGED sideTables
  <2>1. CASE finalize(h) \/ FinalizeDone(h) \/ resolveCutoff(h) \/ CutoffDone(h)
    BY <2>1 DEF finalize, FinalizeDone, resolveCutoff, CutoffDone, sideTables
  <2>2. CASE CutoffRecord(h)
    BY <2>2 DEF CutoffRecord, sideTables
  <2>3. ASSUME NEW e \in Staff, FinalizeOne(h, e) PROVE UNCHANGED sideTables
    BY <2>3 DEF FinalizeOne, sideTables
  <2>4. ASSUME NEW i \in Requests, CutoffRequest(h, i) PROVE UNCHANGED sideTables
    BY <2>4 DEF CutoffRequest, sideTables
  <2> QED
    BY <2>1, <2>2, <2>3, <2>4 DEF JobNext
<1> QED
  BY <1>1, JobReads, FinalizeWrites, CutoffWrites DEF JobNext, JobStep

LEMMA EveryStep ==
  ASSUME Shape, AttendanceNext
  PROVE  /\ Shape'
         /\ (\E h \in Handlers : CallStep(h)) \/ OfficeStep \/ ClaimAtOnce \/ DayStepOn
<1>1. ASSUME AttNext, UNCHANGED <<otVars, shVars>>
      PROVE  /\ Shape'
             /\ (\E h \in Handlers : CallStep(h)) \/ OfficeStep \/ ClaimAtOnce \/ DayStepOn
  <2>1. ASSUME NEW h \in Handlers, ClockNext(h) \/ DisputeNext(h) \/ JobNext(h)
        PROVE  Shape' /\ CallStep(h)
    BY <1>1, <2>1, ClockKind, DisputeKind, JobKind DEF CallStep
  <2>2. ASSUME NEW h \in Handlers, AttLose(h)
        PROVE  Shape' /\ CallStep(h)
    <3>1. Lose(h) /\ UNCHANGED dayTables /\ UNCHANGED sideTables
      BY <1>1, <2>2 DEF AttLose, dayTables, sideTables
    <3> QED
      BY <3>1, LoseShape DEF CallStep, LostStep
  <2>3. ASSUME OfficeNext PROVE Shape' /\ OfficeStep
    BY <1>1, <2>3, OfficeShape DEF OfficeStep, sideTables
  <2>4. ASSUME NextDay PROVE Shape' /\ DayStepOn
    <3>1. UNCHANGED <<callVars, attVars, sideTables>>
      BY <1>1, <2>4 DEF NextDay, sideTables
    <3> QED
      BY <1>1, <2>4, <3>1, DayPasses DEF DayStepOn
  <2> QED
    BY <1>1, <2>1, <2>2, <2>3, <2>4 DEF AttNext
<1>2. ASSUME OtNext, UNCHANGED <<attVars, shVars>>
      PROVE  /\ Shape'
             /\ (\E h \in Handlers : CallStep(h)) \/ OfficeStep \/ ClaimAtOnce \/ DayStepOn
  <2>1. ASSUME NEW h \in Handlers,
               \/ WriteClaim(h) \/ ClaimHours(h) \/ ClaimEmpty(h) \/ ClaimBalance(h) \/ ClaimRow(h)
               \/ \E u \in Callers, e \in Overtimers, decision \in {"APPROVE", "REJECT"} :
                    decideOvertimeClaim(h, u, e, decision)
        PROVE  Shape' /\ CallStep(h)
    <3>1. UNCHANGED today
      BY <2>1 DEF WriteClaim, ClaimHours, ClaimEmpty, ClaimBalance, ClaimRow, decideOvertimeClaim
    <3> QED
      BY <1>2, <2>1, <3>1, ClaimsMove DEF CallStep, ClaimStep
  <2>2. ASSUME NEW h \in Handlers, OtLose(h)
        PROVE  Shape' /\ CallStep(h)
    <3>1. Lose(h) /\ UNCHANGED dayTables /\ UNCHANGED sideTables
      BY <1>2, <2>2 DEF OtLose, dayTables, sideTables
    <3> QED
      BY <3>1, LoseShape DEF CallStep, LostStep
  <2>3. ASSUME \/ \E e \in Overtimers, mode \in {"CASH", "COMP_OFF"} : createOvertimeClaim(e, mode)
               \/ \E e \in Overtimers, m \in {NoOne} \cup Managers : moveReport(e, m)
               \/ SetupEdit
        PROVE  Shape' /\ ClaimAtOnce
    BY <1>2, <2>3, ClaimsAtOnce DEF ClaimAtOnce
  <2> QED
    BY <1>2, <2>1, <2>2, <2>3 DEF OtNext, SetupEdit
<1>3. ASSUME ShNext, UNCHANGED <<today, compVars, attVars, otVars>>
      PROVE  Shape' /\ \E h \in Handlers : CallStep(h)
  <2>1. ASSUME NEW h \in Handlers, ShLose(h)
        PROVE  Shape' /\ CallStep(h)
    <3>1. Lose(h) /\ UNCHANGED dayTables /\ UNCHANGED sideTables
      BY <1>3, <2>1 DEF ShLose, dayTables, sideTables
    <3> QED
      BY <3>1, LoseShape DEF CallStep, LostStep
  <2>2. ASSUME NEW h \in Handlers,
               \/ \E s \in ShiftIds : \/ deleteShift(h, s)
                                      \/ \E default \in BOOLEAN : createShift(h, s, default)
                                      \/ \E to \in {"plain", "default"} : updateShift(h, s, to)
               \/ ClearShift(h) \/ WriteShift(h) \/ RefuseShift(h) \/ RemoveShift(h)
        PROVE  Shape' /\ CallStep(h)
    BY <1>3, <2>2, ShiftsMove DEF CallStep, ShiftStep
  <2> QED
    BY <1>3, <2>1, <2>2 DEF ShNext
<1> QED
  BY <1>1, <1>2, <1>3 DEF AttendanceNext

LEMMA ShapeInit == AttendanceInit => Shape
<1> SUFFICES ASSUME AttendanceInit PROVE Shape
  OBVIOUS
<1>1. CallsOK
  <2>1. calls = [h \in Handlers |-> Idle] /\ calm = TRUE
    BY DEF AttendanceInit, CallsInit
  <2>2. Running = {}
    BY <2>1 DEF Running
  <2> QED
    BY <2>1, <2>2, IdleOK, FS_EmptySet DEF CallsOK
<1>2. DaysOK
  <2>1. limits \in Limits /\ widest \in Nat /\ limits.cap <= widest
    BY AttendanceAssumption DEF AttendanceInit, AttInit
  <2> QED
    BY <2>1, CompOffAssumption
    DEF AttendanceInit, CompInit, AttInit, DaysOK, Days, Records, NoRecord, Exists, Statuses, Punches, Ins
<1>3. RequestsOK
  <2>1. req = [i \in Requests |-> NoRequest] /\ ~Exists(NoRequest)
    BY DEF AttendanceInit, AttInit, NoRequest, Exists
  <2>2. {i \in Requests : Exists(req[i])} = {}
    BY <2>1
  <2> QED
    BY <2>1, <2>2, FS_EmptySet DEF RequestsOK
<1>4. CompOK /\ ShiftsOK
  BY DEF AttendanceInit, CompInit, OtInit, ShInit, CompOK, ShiftsOK, Claims, Modes, NoClaim
<1> QED
  BY <1>1, <1>2, <1>3, <1>4 DEF Shape

LEMMA ShapeRests == Shape /\ UNCHANGED attendanceVars => Shape'
BY DEF attendanceVars, attVars, compVars, otVars, shVars, callVars, Shape, CallsOK, Running, DaysOK,
   RequestsOK, CompOK, ShiftsOK

LEMMA ShapeHolds == AttendanceSpec => []Shape
<1>1. Shape /\ [AttendanceNext]_attendanceVars => Shape'
  BY EveryStep, ShapeRests
<1> QED
  BY <1>1, ShapeInit, PTL DEF AttendanceSpec
----------------------------------------------------------------------------
(* On a calm tenant one call at most is under way.                          *)
Alone == calm => \A g, h \in Running : g = h

LEMMA SoleCall ==
  ASSUME CallsOK, Alone, NEW h \in Handlers, NEW P, Moves(h, P), calm'
  PROVE  calm /\ \A g \in Handlers \ {h} : calls[g] = Idle /\ calls'[g] = Idle
<1>1. calm /\ \A g \in Handlers \ {h} : calls'[g] = calls[g]
  BY DEF Moves, CallsOK
<1>2. CASE calls[h] = Idle
  BY <1>1, <1>2 DEF Moves, Quiet, Running
<1>3. CASE calls[h] # Idle
  BY <1>1, <1>3 DEF Alone, Running
<1> QED
  BY <1>1, <1>2, <1>3

LEMMA NoCall ==
  ASSUME AtOnce, calm'
  PROVE  calm /\ UNCHANGED calls /\ \A g \in Handlers : calls[g] = Idle
BY AtOnceCalm DEF Quiet, Running

LEMMA CallStepMoves ==
  ASSUME NEW h \in Handlers, CallStep(h)
  PROVE  LostStep(h) \/ \E P : Moves(h, P)
BY DEF CallStep, ClockStep, CompStep, DisputeStep, JobStep, ClaimStep, ShiftStep

LEMMA AloneStays ==
  ASSUME Shape, Alone, [AttendanceNext]_attendanceVars
  PROVE  Alone'
<1>1. SUFFICES ASSUME calm' PROVE \A g, h \in Running' : g = h
  BY DEF Alone
<1>2. CASE UNCHANGED callVars
  BY <1>1, <1>2 DEF Alone, Running, callVars
<1>3. ASSUME NEW h \in Handlers, CallStep(h) PROVE \A g, k \in Running' : g = k
  <2>1. PICK P : Moves(h, P)
    BY <1>1, <1>3, CallStepMoves DEF LostStep
  <2>2. \A g \in Handlers \ {h} : calls'[g] = Idle
    BY <1>1, <2>1, SoleCall DEF Shape
  <2> QED
    BY <2>2 DEF Running
<1>4. CASE AtOnce
  BY <1>1, <1>4, NoCall DEF Running
<1> QED
  BY <1>2, <1>3, <1>4, EveryStep DEF OfficeStep, ClaimAtOnce, DayStepOn, attendanceVars

LEMMA AloneHolds == AttendanceSpec => []Alone
<1>1. AttendanceInit => Alone
  BY DEF AttendanceInit, CallsInit, Alone, Running
<1> QED
  BY <1>1, AloneStays, ShapeHolds, PTL DEF AttendanceSpec
----------------------------------------------------------------------------
(* Shifts: what the call under way makes of the default.                    *)
Default(sh) == {s \in ShiftIds : sh[s] = "default"}
AtMostOne(D) == \A s, t \in D : s = t
OneOf(D, none) == AtMostOne(D) /\ (none \/ D # {})

ShiftRead(c, sh, none) ==
  /\ c.pc = "insertShift" =>
       /\ sh[c.s] = "none"
       /\ c.to = "default" => Default(sh) = {}
       /\ c.to = "plain" => OneOf(Default(sh), none)
  /\ c.pc \in {"clearShift", "deleteShift"} => OneOf(Default(sh), none)
  /\ c.pc = "deleteShift" => sh[c.s] = "plain"
  /\ c.pc = "clearShift" => c.to = "default"
  /\ c.pc = "writeShift" =>
       /\ c.to = "default" => Default(sh) \subseteq {c.s}
       /\ c.to = "plain" => AtMostOne(Default(sh)) /\ (none \/ Default(sh) \ {c.s} # {})

ShiftsInv == calm =>
  /\ \A h \in Handlers : ShiftRead(calls[h], shift, cleared)
  /\ (\A h \in Handlers : calls[h].pc \notin ShiftPcs) => OneOf(Default(shift), cleared)

LEMMA IdleReads == \A sh, none : ShiftRead(Idle, sh, none) /\ Idle.pc \notin ShiftPcs
BY DEF ShiftRead, Idle, ShiftPcs

LEMMA ShiftsElsewhere ==
  ASSUME Shape, ShiftsInv, UNCHANGED shVars,
         \/ UNCHANGED callVars \/ AtOnce
         \/ \E h \in Handlers : Moves(h, ClockPcs \cup CompPcs \cup DisputePcs \cup JobPcs \cup ClaimPcs)
  PROVE  ShiftsInv'
<1>1. SUFFICES ASSUME calm'
      PROVE /\ \A h \in Handlers : ShiftRead(calls'[h], shift, cleared)
            /\ (\A h \in Handlers : calls'[h].pc \notin ShiftPcs) => OneOf(Default(shift), cleared)
  BY DEF ShiftsInv, shVars, Default
<1>2. CASE UNCHANGED callVars \/ AtOnce
  <2>1. calm /\ UNCHANGED calls
    BY <1>1, <1>2, NoCall DEF callVars
  <2> QED
    BY <2>1 DEF ShiftsInv
<1>3. ASSUME NEW h \in Handlers, Moves(h, ClockPcs \cup CompPcs \cup DisputePcs \cup JobPcs \cup ClaimPcs)
      PROVE /\ \A g \in Handlers : ShiftRead(calls'[g], shift, cleared)
            /\ (\A g \in Handlers : calls'[g].pc \notin ShiftPcs) => OneOf(Default(shift), cleared)
  <2>1. calls'[h].pc \notin ShiftPcs /\ calls[h].pc \notin ShiftPcs /\ calm
        /\ \A g \in Handlers \ {h} : calls'[g] = calls[g]
    BY <1>1, <1>3 DEF Moves, Shape, CallsOK, ShiftPcs, ClockPcs, CompPcs, DisputePcs, JobPcs, ClaimPcs
  <2>2. ShiftRead(calls'[h], shift, cleared)
    BY <2>1 DEF ShiftRead, ShiftPcs
  <2> QED
    BY <2>1, <2>2 DEF ShiftsInv
<1> QED
  BY <1>2, <1>3

LEMMA ShiftsStep ==
  ASSUME Shape, Alone, ShiftsInv, NEW h \in Handlers, ShiftStep(h)
  PROVE  ShiftsInv'
<1> DEFINE c == calls[h]
<1>1. SUFFICES ASSUME calm'
      PROVE /\ ShiftRead(calls'[h], shift', cleared')
            /\ calls'[h].pc \notin ShiftPcs => OneOf(Default(shift'), cleared')
  <2>1. calm' => \A g \in Handlers \ {h} : calls'[g] = Idle
    BY SoleCall DEF ShiftStep, Shape
  <2> QED
    BY <1>1, <2>1, IdleReads DEF ShiftsInv, Default
<1>2. /\ calm /\ \A g \in Handlers \ {h} : calls[g] = Idle
      /\ CallsOK /\ CallOK(c, req) /\ ShiftsOK /\ ShiftRead(c, shift, cleared)
      /\ c = Idle => OneOf(Default(shift), cleared)
  <2>1. calm /\ \A g \in Handlers \ {h} : calls[g] = Idle
    BY <1>1, SoleCall DEF ShiftStep, Shape
  <2>2. c = Idle => \A g \in Handlers : calls[g].pc \notin ShiftPcs
    BY <2>1, IdleReads
  <2> QED
    BY <2>1, <2>2 DEF ShiftsInv, Shape, CallsOK
<1>3. ASSUME NEW s \in ShiftIds, deleteShift(h, s)
      PROVE /\ ShiftRead(calls'[h], shift', cleared')
            /\ calls'[h].pc \notin ShiftPcs => OneOf(Default(shift'), cleared')
  <2>1. calls'[h] = [pc |-> "deleteShift", s |-> s] /\ c = Idle /\ shift[s] = "plain" /\ UNCHANGED shVars
    BY <1>2, <1>3 DEF deleteShift, Deletable, Begin, CallsOK
  <2> QED
    BY <1>2, <2>1 DEF ShiftRead, ShiftPcs, shVars
<1>4. ASSUME NEW s \in ShiftIds, NEW default \in BOOLEAN, createShift(h, s, default)
      PROVE /\ ShiftRead(calls'[h], shift', cleared')
            /\ calls'[h].pc \notin ShiftPcs => OneOf(Default(shift'), cleared')
  <2>1. /\ calls'[h] = [pc |-> "insertShift", s |-> s, to |-> IF default THEN "default" ELSE "plain"]
        /\ c = Idle /\ shift[s] = "none" /\ UNCHANGED cleared
        /\ shift' = IF default THEN Cleared(ShiftIds) ELSE shift
    BY <1>2, <1>4 DEF createShift, Begin, CallsOK
  <2>2. CASE default
    <3>1. shift'[s] = "none" /\ Default(shift') = {}
      BY <1>2, <2>1, <2>2 DEF Cleared, Default, ShiftsOK
    <3> QED
      BY <2>1, <2>2, <3>1 DEF ShiftRead, ShiftPcs
  <2>3. CASE ~default
    BY <1>2, <2>1, <2>3 DEF ShiftRead, ShiftPcs
  <2> QED
    BY <2>2, <2>3
<1>5. ASSUME NEW s \in ShiftIds, NEW to \in {"plain", "default"}, updateShift(h, s, to)
      PROVE /\ ShiftRead(calls'[h], shift', cleared')
            /\ calls'[h].pc \notin ShiftPcs => OneOf(Default(shift'), cleared')
  <2>1. /\ calls'[h] = [pc |-> IF to = "default" THEN "clearShift" ELSE "writeShift", s |-> s, to |-> to]
        /\ c = Idle /\ UNCHANGED shift
        /\ cleared' = (cleared \/ (to = "plain" /\ shift[s] = "default"))
    BY <1>2, <1>5 DEF updateShift, Begin, CallsOK
  <2>2. OneOf(Default(shift), cleared)
    BY <1>2, <2>1
  <2>3. CASE to = "default"
    <3>1. cleared' = cleared
      BY <1>2, <2>1, <2>3 DEF ShiftsOK
    <3> QED
      BY <2>1, <2>2, <2>3, <3>1 DEF ShiftRead, ShiftPcs
  <2>4. CASE to = "plain"
    <3>1. cleared' \/ Default(shift) \ {s} # {}
      <4>1. CASE cleared \/ shift[s] = "default"
        BY <2>1, <2>4, <4>1
      <4>2. CASE ~cleared /\ shift[s] # "default"
        BY <2>2, <4>2 DEF OneOf, Default
      <4> QED
        BY <4>1, <4>2
    <3> QED
      BY <2>1, <2>2, <2>4, <3>1 DEF ShiftRead, ShiftPcs, OneOf
  <2> QED
    BY <2>3, <2>4
<1>6. ASSUME ClearShift(h)
      PROVE /\ ShiftRead(calls'[h], shift', cleared')
            /\ calls'[h].pc \notin ShiftPcs => OneOf(Default(shift'), cleared')
  <2>1. /\ c \in [pc: {"insertShift", "clearShift", "writeShift"}, s: ShiftIds, to: {"plain", "default"}]
        /\ c.pc = "clearShift"
    BY <1>2, <1>6 DEF ClearShift, CallOK, ShiftCall
  <2>2. calls'[h] = [c EXCEPT !.pc = "writeShift"] /\ UNCHANGED cleared
        /\ shift' = Cleared(ShiftIds \ {c.s})
    BY <1>2, <1>6 DEF ClearShift, Continue, CallsOK
  <2>3. Default(shift') \subseteq {c.s} /\ c.to = "default"
    <3>1. Default(shift') \subseteq {c.s}
      BY <2>2 DEF Default, Cleared
    <3> QED
      BY <1>2, <2>1, <3>1 DEF ShiftRead
  <2> QED
    BY <2>1, <2>2, <2>3 DEF ShiftRead, ShiftPcs
<1>8. ASSUME RefuseShift(h)
      PROVE /\ ShiftRead(calls'[h], shift', cleared')
            /\ calls'[h].pc \notin ShiftPcs => OneOf(Default(shift'), cleared')
  <2>1. /\ calls'[h] = Idle /\ UNCHANGED shift
        /\ cleared' = (cleared \/ (c.to = "default" /\ shift[c.s] # "default"))
        /\ c.pc \in {"insertShift", "writeShift"} /\ c.to \in {"plain", "default"} /\ c.s \in ShiftIds
    BY <1>2, <1>8 DEF RefuseShift, Finish, Continue, CallsOK, CallOK, ShiftCall
  <2>2. CASE c.to = "default"
    <3>1. Default(shift) \subseteq {c.s} /\ (cleared' \/ c.s \in Default(shift))
      BY <1>2, <2>1, <2>2 DEF ShiftRead, Default
    <3> QED
      BY <2>1, <3>1, IdleReads DEF OneOf, AtMostOne
  <2>3. CASE c.to = "plain"
    <3>1. OneOf(Default(shift), cleared) /\ cleared' = cleared
      BY <1>2, <2>1, <2>3 DEF ShiftRead, OneOf, ShiftsOK
    <3> QED
      BY <2>1, <3>1, IdleReads
  <2> QED
    BY <2>1, <2>2, <2>3
<1>7. ASSUME WriteShift(h) \/ RemoveShift(h)
      PROVE /\ ShiftRead(calls'[h], shift', cleared')
            /\ calls'[h].pc \notin ShiftPcs => OneOf(Default(shift'), cleared')
  <2>1. calls'[h] = Idle /\ UNCHANGED cleared
    BY <1>2, <1>7 DEF WriteShift, RemoveShift, Finish, Continue, CallsOK
  <2>2. CASE RemoveShift(h)
    <3>1. c.pc = "deleteShift" /\ shift' = [shift EXCEPT ![c.s] = "none"]
      BY <2>2 DEF RemoveShift
    <3>2. Default(shift') = Default(shift)
      BY <1>2, <3>1 DEF ShiftRead, Default, ShiftsOK
    <3> QED
      BY <1>2, <2>1, <3>1, <3>2, IdleReads DEF ShiftRead
  <2>3. CASE WriteShift(h)
    <3>1. /\ c.pc \in {"insertShift", "writeShift"} /\ shift' = [shift EXCEPT ![c.s] = c.to]
          /\ c.to \in {"plain", "default"} /\ c.s \in ShiftIds
      BY <1>2, <2>3 DEF WriteShift, CallOK, ShiftCall
    <3>2. CASE c.to = "default"
      <4>1. Default(shift') = {c.s}
        BY <1>2, <3>1, <3>2 DEF ShiftRead, Default, ShiftsOK
      <4> QED
        BY <2>1, <4>1, IdleReads DEF OneOf, AtMostOne
    <3>3. CASE c.to = "plain"
      <4>1. Default(shift') = Default(shift) \ {c.s}
        BY <1>2, <3>1, <3>3 DEF Default, ShiftsOK
      <4>2. OneOf(Default(shift'), cleared)
        <5>1. CASE c.pc = "insertShift"
          BY <1>2, <3>3, <4>1, <5>1 DEF ShiftRead, OneOf, AtMostOne, Default
        <5>2. CASE c.pc = "writeShift"
          BY <1>2, <3>3, <4>1, <5>2 DEF ShiftRead, OneOf, AtMostOne
        <5> QED
          BY <3>1, <5>1, <5>2
      <4> QED
        BY <2>1, <4>2, IdleReads
    <3> QED
      BY <3>1, <3>2, <3>3
  <2> QED
    BY <1>7, <2>2, <2>3
<1> QED
  BY <1>3, <1>4, <1>5, <1>6, <1>7, <1>8 DEF ShiftStep

LEMMA ShiftsHold == AttendanceSpec => []ShiftsInv
<1>1. AttendanceInit => ShiftsInv
  <2> SUFFICES ASSUME AttendanceInit PROVE ShiftsInv
    OBVIOUS
  <2>1. calls = [h \in Handlers |-> Idle]
        /\ \E first \in ShiftIds : shift = [s \in ShiftIds |-> IF s = first THEN "default" ELSE "none"]
    BY DEF AttendanceInit, CallsInit, ShInit
  <2>2. OneOf(Default(shift), cleared)
    BY <2>1 DEF OneOf, AtMostOne, Default
  <2> QED
    BY <2>1, <2>2, IdleReads DEF ShiftsInv
<1>2. ASSUME Shape, Alone, ShiftsInv, [AttendanceNext]_attendanceVars PROVE ShiftsInv'
  <2>1. ASSUME NEW h \in Handlers, CallStep(h) PROVE ShiftsInv'
    <3> DEFINE Q == ClockPcs \cup CompPcs \cup DisputePcs \cup JobPcs \cup ClaimPcs
    <3>1. CASE ShiftStep(h)
      BY <1>2, <3>1, ShiftsStep
    <3>2. CASE LostStep(h)
      BY <3>2 DEF LostStep, ShiftsInv
    <3>3. CASE ClockStep(h) \/ CompStep(h) \/ DisputeStep(h) \/ JobStep(h) \/ ClaimStep(h)
      <4>1. Moves(h, Q)
        BY <3>3, MovesWider DEF ClockStep, CompStep, DisputeStep, JobStep, ClaimStep
      <4>2. UNCHANGED shVars
        BY <3>3 DEF ClockStep, CompStep, DisputeStep, JobStep, ClaimStep, sideTables
      <4> QED
        BY <1>2, <4>1, <4>2, ShiftsElsewhere
    <3> QED
      BY <2>1, <3>1, <3>2, <3>3 DEF CallStep
  <2>2. ASSUME OfficeStep \/ ClaimAtOnce \/ DayStepOn \/ UNCHANGED attendanceVars PROVE ShiftsInv'
    <3>1. UNCHANGED shVars /\ (AtOnce \/ UNCHANGED callVars)
      BY <2>2 DEF OfficeStep, ClaimAtOnce, DayStepOn, sideTables, attendanceVars
    <3> QED
      BY <1>2, <3>1, ShiftsElsewhere
  <2> QED
    BY <1>2, <2>1, <2>2, EveryStep
<1> QED
  BY <1>1, <1>2, ShapeHolds, AloneHolds, PTL DEF AttendanceSpec
----------------------------------------------------------------------------
(* Comp-off: what has been added to a balance is in the ledger, or owed to  *)
(* it by a call between the two statements.                                 *)
OwePcs == {"compRow", "claimRow"}
ClaimOwePcs == {"claimHours", "claimEmpty", "claimBalance", "claimRow"}
Holders(P, e) == {h \in Handlers : calls[h].pc \in P /\ calls[h].e = e}
Credited(e) == RowsOf(e, "holiday") + RowsOf(e, "overtime") + Cardinality(Holders(OwePcs, e))
Due(e) == IF claim[e].status = "APPROVED" /\ claim[e].mode = "COMP_OFF" THEN 1 ELSE 0

CompRead(c) ==
  /\ c.pc \in {"clockIn", "punchIn", "compOff", "compLook"} =>
       c.k[2] <= today /\ \A d \in Days : d > c.k[2] => compRows[c.k[1]][d]["holiday"] = 0
  /\ c.pc \in {"compBalance", "compRow"} => compRows[c.e][today]["holiday"] = 0
  /\ c.pc = "claim" =>
       /\ claim[c.e].mode = c.mode
       /\ \/ claim[c.e].status = "PENDING_MANAGER" /\ c.status \in {"PENDING_HR", "REJECTED"}
          \/ claim[c.e].status = "PENDING_HR" /\ c.status \in {"APPROVED", "REJECTED"}

FutureBlank == \A e \in Staff, d \in Days, s \in CompSources : d > today => compRows[e][d][s] = 0

CompInv ==
  /\ FutureBlank
  /\ \A e \in Staff : Credited(e) <= compAccrued[e]
  /\ calm =>
       /\ \A h \in Handlers : CompRead(calls[h])
       /\ \A e \in Staff, d \in Days : compRows[e][d]["holiday"] <= 1
       /\ \A e \in Staff : compAccrued[e] = Credited(e)

LEMMA HoldersMove ==
  ASSUME CallsOK, NEW h \in Handlers, calls' = [calls EXCEPT ![h] = calls'[h]], NEW e,
         NEW P, "idle" \notin P
  PROVE  /\ Cardinality(Holders(P, e)) \in Nat /\ Cardinality(Holders(P, e)') \in Nat
         /\ Cardinality(Holders(P, e)') =
              Cardinality(Holders(P, e))
              + (IF calls'[h].pc \in P /\ calls'[h].e = e THEN 1 ELSE 0)
              - (IF calls[h].pc \in P /\ calls[h].e = e THEN 1 ELSE 0)
<1> DEFINE S == Holders(P, e)
           T == Holders(P, e)'
           old == calls[h].pc \in P /\ calls[h].e = e
           new == calls'[h].pc \in P /\ calls'[h].e = e
<1>1. IsFiniteSet(S)
  <2>1. S \subseteq Running
    BY DEF Holders, Running, Idle
  <2> QED
    BY <2>1, FS_Subset DEF CallsOK
<1>2. /\ h \in S <=> old
      /\ h \in T <=> new
      /\ \A g \in Handlers \ {h} : g \in T <=> g \in S
  BY DEF Holders, CallsOK
<1>3. S \subseteq Handlers /\ T \subseteq Handlers
  BY DEF Holders
<1>4. /\ h \in T => T = S \cup {h}
      /\ h \notin T => T = S \ {h}
  BY <1>2, <1>3
<1> HIDE DEF S, T
<1>5. Cardinality(S) \in Nat /\ Cardinality(S \cup {h}) \in Nat /\ Cardinality(S \ {h}) \in Nat
  BY <1>1, FS_AddElement, FS_RemoveElement, FS_CardinalityType
<1>6. /\ Cardinality(S \cup {h}) = IF h \in S THEN Cardinality(S) ELSE Cardinality(S) + 1
      /\ Cardinality(S \ {h}) = IF h \in S THEN Cardinality(S) - 1 ELSE Cardinality(S)
  BY <1>1, FS_AddElement, FS_RemoveElement
<1>7. Cardinality(T) = Cardinality(S) + (IF h \in T THEN 1 ELSE 0) - (IF h \in S THEN 1 ELSE 0)
  <2>1. /\ h \in T => Cardinality(T) = Cardinality(S \cup {h})
        /\ h \notin T => Cardinality(T) = Cardinality(S \ {h})
    BY <1>4, Zenon
  <2> QED
    BY <1>5, <1>6, <2>1
<1>8. Cardinality(T) \in Nat
  BY <1>4, <1>5, Zenon
<1>9. /\ (IF h \in T THEN 1 ELSE 0) = (IF new THEN 1 ELSE 0)
      /\ (IF h \in S THEN 1 ELSE 0) = (IF old THEN 1 ELSE 0)
  BY <1>2
<1>10. Cardinality(T) = Cardinality(S) + (IF new THEN 1 ELSE 0) - (IF old THEN 1 ELSE 0)
  BY <1>7, <1>9
<1> QED
  BY <1>5, <1>8, <1>10 DEF S, T

LEMMA HoldersStay ==
  ASSUME UNCHANGED calls, NEW e, NEW P
  PROVE  Cardinality(Holders(P, e)') = Cardinality(Holders(P, e))
BY DEF Holders

LEMMA RowsType ==
  ASSUME CompOK, NEW e \in Staff, NEW s \in CompSources
  PROVE  RowsOf(e, s) \in Int
BY CompOffAssumption, FS_Interval, SumIsInt DEF RowsOf, CompOK, Days

LEMMA RowsGrow ==
  ASSUME CompOK, today \in Days, NEW e \in Staff, NEW s \in CompSources, CreditRow(e, s)
  PROVE  \A x \in Staff, t \in CompSources :
           RowsOf(x, t)' = RowsOf(x, t) + (IF x = e /\ t = s THEN 1 ELSE 0)
<1> SUFFICES ASSUME NEW x \in Staff, NEW t \in CompSources
             PROVE  RowsOf(x, t)' = RowsOf(x, t) + (IF x = e /\ t = s THEN 1 ELSE 0)
  OBVIOUS
<1> DEFINE f == [d \in Days |-> compRows[x][d][t]]
           g == [d \in Days |-> compRows'[x][d][t]]
<1>0. IsFiniteSet(Days)
  BY CompOffAssumption, FS_Interval DEF Days
<1>1. IsFiniteSet(Days) /\ \A d \in Days : f[d] \in Int
  BY <1>0 DEF CompOK
<1>2. RowsOf(x, t) = SumFunctionOnSet(f, Days) /\ RowsOf(x, t)' = SumFunctionOnSet(g, Days)
  BY DEF RowsOf, Days
<1>3. \A d \in Days : g[d] = f[d] + (IF d = today /\ x = e /\ t = s THEN 1 ELSE 0)
  BY DEF CreditRow, CompOK
<1> HIDE DEF f, g
<1>4. CASE x = e /\ t = s
  BY <1>1, <1>2, <1>3, <1>4, SumChanges
<1>5. CASE ~(x = e /\ t = s)
  <2>1. \A d \in Days : g[d] = f[d]
    BY <1>1, <1>3, <1>5
  <2>2. SumFunctionOnSet(f, Days) \in Int
    BY <1>1, SumIsInt
  <2> QED
    BY <1>1, <1>2, <1>5, <2>1, <2>2, SumSame
<1> QED
  BY <1>4, <1>5

LEMMA RowsStay ==
  ASSUME UNCHANGED compRows, NEW e, NEW s
  PROVE  RowsOf(e, s)' = RowsOf(e, s)
BY DEF RowsOf, Days

(* The balances, the ledger and what is owed to it stay.                    *)
LEMMA CreditsStay ==
  ASSUME FutureBlank, UNCHANGED <<today, compRows>>,
         \A e \in Staff : Cardinality(Holders(OwePcs, e)') = Cardinality(Holders(OwePcs, e))
  PROVE  FutureBlank' /\ \A e \in Staff : Credited(e)' = Credited(e)
<1>1. FutureBlank'
  BY DEF FutureBlank
<1>2. ASSUME NEW e \in Staff PROVE Credited(e)' = Credited(e)
  BY RowsStay DEF Credited
<1> QED
  BY <1>1, <1>2

(* ... when a call of another kind moves.                                   *)
LEMMA OwedElsewhere ==
  ASSUME CallsOK, NEW h \in Handlers, NEW P, Moves(h, P), NEW Q, P \cap Q = {}, "idle" \notin Q
  PROVE  \A e : Cardinality(Holders(Q, e)') = Cardinality(Holders(Q, e))
<1>1. calls'[h].pc \notin Q /\ calls[h].pc \notin Q
  BY DEF Moves
<1>2. calls' = [calls EXCEPT ![h] = calls'[h]]
  BY DEF Moves
<1> QED
  BY <1>1, <1>2, HoldersMove

LEMMA IdleCompRead == CompRead(Idle) /\ CompRead(Idle)'
BY DEF CompRead, Idle

LEMMA CompElsewhere ==
  ASSUME Shape, CompInv, UNCHANGED <<today, compRows, compAccrued, claim>>,
         \/ UNCHANGED callVars \/ AtOnce
         \/ \E h \in Handlers : Moves(h, DisputePcs \cup JobPcs \cup ShiftPcs)
  PROVE  CompInv'
<1>1. \A e \in Staff : Cardinality(Holders(OwePcs, e)') = Cardinality(Holders(OwePcs, e))
  <2>1. CASE UNCHANGED calls
    BY <2>1, HoldersStay
  <2>2. ASSUME NEW h \in Handlers, Moves(h, DisputePcs \cup JobPcs \cup ShiftPcs)
        PROVE  \A e \in Staff : Cardinality(Holders(OwePcs, e)') = Cardinality(Holders(OwePcs, e))
    <3>1. (DisputePcs \cup JobPcs \cup ShiftPcs) \cap OwePcs = {} /\ "idle" \notin OwePcs
      BY DEF DisputePcs, JobPcs, ShiftPcs, OwePcs
    <3>2. CallsOK
      BY DEF Shape
    <3> QED
      BY <2>2, <3>1, <3>2, OwedElsewhere
  <2> QED
    BY <2>1, <2>2 DEF AtOnce, callVars
<1>2. FutureBlank' /\ \A e \in Staff : Credited(e)' = Credited(e)
  BY <1>1, CreditsStay DEF CompInv
<1>4. ASSUME calm' PROVE calm /\ \A h \in Handlers : CompRead(calls'[h])
  <2>1. CASE UNCHANGED callVars
    BY <1>4, <2>1 DEF CompInv, callVars
  <2>2. CASE AtOnce
    BY <1>4, <2>2, NoCall, IdleCompRead
  <2>3. ASSUME NEW h \in Handlers, Moves(h, DisputePcs \cup JobPcs \cup ShiftPcs)
        PROVE calm /\ \A g \in Handlers : CompRead(calls'[g])
    <3>1. calls'[h].pc \notin ClockPcs \cup CompPcs \cup ClaimPcs
      BY <2>3 DEF Moves, DisputePcs, JobPcs, ShiftPcs, ClockPcs, CompPcs, ClaimPcs
    <3>2. CompRead(calls'[h])
      BY <3>1 DEF CompRead, ClockPcs, CompPcs, ClaimPcs
    <3>3. calm /\ \A g \in Handlers \ {h} : calls'[g] = calls[g]
      BY <1>4, <2>3 DEF Moves, Shape, CallsOK
    <3> QED
      BY <3>2, <3>3 DEF CompInv
  <2> QED
    BY <2>1, <2>2, <2>3
<1>5. ASSUME NEW c, CompRead(c) PROVE CompRead(c)'
  BY <1>5 DEF CompRead
<1>6. ASSUME calm' PROVE \A h \in Handlers : CompRead(calls[h])'
  <2> SUFFICES ASSUME NEW h \in Handlers PROVE CompRead(calls[h])'
    OBVIOUS
  <2>1. PICK c : c = calls'[h]
    OBVIOUS
  <2>2. CompRead(c)'
    BY <1>4, <1>5, <1>6, <2>1
  <2> QED
    BY <2>1, <2>2 DEF CompRead
<1>7. ASSUME calm'
      PROVE  /\ \A e \in Staff, d \in Days : compRows'[e][d]["holiday"] <= 1
             /\ \A e \in Staff : compAccrued'[e] = Credited(e)'
  BY <1>2, <1>4, <1>7 DEF CompInv
<1>8. \A e \in Staff : Credited(e)' <= compAccrued'[e]
  BY <1>2 DEF CompInv
<1> QED
  BY <1>2, <1>6, <1>7, <1>8 DEF CompInv

LEMMA CompLost ==
  ASSUME Shape, CompInv, NEW h \in Handlers, LostStep(h)
  PROVE  CompInv'
<1>1. calm' = FALSE /\ calls' = [calls EXCEPT ![h] = Idle] /\ UNCHANGED <<today, compVars>>
  BY DEF LostStep, dayTables, sideTables
<1>2. CallsOK /\ calls' = [calls EXCEPT ![h] = calls'[h]] /\ calls'[h] = Idle
      /\ Idle.pc \notin OwePcs /\ "idle" \notin OwePcs
  BY <1>1 DEF Shape, CallsOK, Idle, OwePcs
<1>3. \A e \in Staff : /\ Cardinality(Holders(OwePcs, e)) \in Nat /\ Cardinality(Holders(OwePcs, e)') \in Nat
                       /\ Cardinality(Holders(OwePcs, e)') <= Cardinality(Holders(OwePcs, e))
  BY <1>2, HoldersMove
<1>4. UNCHANGED compRows /\ UNCHANGED compAccrued /\ UNCHANGED today /\ CompOK
  BY <1>1 DEF compVars, Shape
<1>5. ASSUME NEW e \in Staff PROVE Credited(e)' <= compAccrued'[e]
  <2>1. RowsOf(e, "holiday") \in Int /\ RowsOf(e, "overtime") \in Int
    BY <1>4, RowsType DEF CompSources
  <2>2. RowsOf(e, "holiday")' = RowsOf(e, "holiday") /\ RowsOf(e, "overtime")' = RowsOf(e, "overtime")
    BY <1>4, RowsStay
  <2>3. compAccrued[e] \in Int /\ Credited(e) <= compAccrued[e]
    BY <1>4 DEF CompOK, CompInv
  <2> QED
    BY <1>3, <1>4, <2>1, <2>2, <2>3 DEF Credited
<1>6. FutureBlank'
  BY <1>4 DEF CompInv, FutureBlank
<1> QED
  BY <1>1, <1>5, <1>6 DEF CompInv

LEMMA CompDay ==
  ASSUME Shape, CompInv, DayStepOn
  PROVE  CompInv'
<1>1. today' = today + 1 /\ UNCHANGED calls /\ UNCHANGED calm /\ UNCHANGED <<compRows, compAccrued, claim>>
      /\ today \in Days /\ today' \in Days
  BY CompOffAssumption DEF DayStepOn, NextDay, callVars, sideTables, compVars, otVars, Shape, DaysOK, Days
<1>2. FutureBlank'
  BY <1>1 DEF CompInv, FutureBlank, Days
<1>3. \A e \in Staff : /\ RowsOf(e, "holiday")' = RowsOf(e, "holiday")
                       /\ RowsOf(e, "overtime")' = RowsOf(e, "overtime")
                       /\ Cardinality(Holders(OwePcs, e)') = Cardinality(Holders(OwePcs, e))
  BY <1>1, RowsStay, HoldersStay
<1>4. ASSUME calm, NEW h \in Handlers PROVE CompRead(calls[h])'
  <2> DEFINE c == calls[h]
  <2>1. CompRead(c) /\ CompCall(c) /\ ClockCall(c)
    BY <1>4 DEF CompInv, Shape, CallsOK, CallOK
  <2>2. ASSUME c.pc \in {"clockIn", "punchIn", "compOff", "compLook"} PROVE c.k[2] <= today' /\ c.k[2] \in Days
    BY <1>1, <2>1, <2>2 DEF CompRead, CompCall, ClockCall, Slots, Days
  <2>3. ASSUME c.pc \in {"compBalance", "compRow"} PROVE compRows[c.e][today']["holiday"] = 0
    <3>1. c.e \in Staff /\ today' \in Days /\ today' > today
      BY <1>1, <2>1, <2>3 DEF CompCall, Days
    <3> QED
      BY <3>1 DEF CompInv, FutureBlank, CompSources
  <2> QED
    BY <1>1, <2>1, <2>2, <2>3 DEF CompRead
<1> QED
  BY <1>1, <1>2, <1>3, <1>4 DEF CompInv, Credited

(* A call of these kinds moves: what is left to show of it.                 *)
LEMMA CompMoved ==
  ASSUME Shape, Alone, NEW h \in Handlers, NEW P, Moves(h, P),
         FutureBlank', \A e \in Staff : Credited(e)' <= compAccrued'[e],
         calm' /\ calm =>
           /\ CompRead(calls[h])'
           /\ \A e \in Staff, d \in Days : compRows'[e][d]["holiday"] <= 1
           /\ \A e \in Staff : compAccrued'[e] = Credited(e)'
  PROVE  CompInv'
<1>1. ASSUME calm' PROVE calm /\ \A g \in Handlers \ {h} : calls'[g] = Idle
  BY <1>1, SoleCall DEF Shape
<1>2. ASSUME calm', NEW g \in Handlers PROVE CompRead(calls[g])'
  <2>1. CASE g = h
    BY <1>1, <1>2, <2>1
  <2>2. CASE g # h
    BY <1>1, <1>2, <2>2 DEF CompRead, Idle
  <2> QED
    BY <2>1, <2>2
<1> QED
  BY <1>1, <1>2 DEF CompInv

LEMMA CompClock ==
  ASSUME Shape, Alone, CompInv, NEW h \in Handlers, ClockStep(h)
  PROVE  CompInv'
<1> DEFINE c == calls[h]
           P == ClockPcs \cup CompPcs
<1>1. UNCHANGED <<compVars, claim>> /\ UNCHANGED today /\ Moves(h, P)
  BY DEF ClockStep, sideTables, otVars, clockIn, ClockInRecord, PunchIn, clockOut, startBreak, endBreak, ClockOutRecord,
     PunchOut, CreateBreak, CloseBreak, attUntouched
<1>2. CallsOK /\ CallOK(c, req) /\ ClockCall(c)
  BY DEF Shape, CallsOK, CallOK
<1>3. c.pc \notin OwePcs /\ calls'[h].pc \notin OwePcs
      /\ (\/ calls'[h].pc \notin {"clockIn", "punchIn", "compOff", "compLook", "compBalance", "compRow", "claim"}
          \/ calls'[h].pc \in {"clockIn", "punchIn", "compOff"} /\
               \/ c.pc \in {"clockIn", "punchIn"} /\ calls'[h].k = c.k
               \/ \E e \in Staff : calls'[h].k = <<e, today>>)
  <2>1. ASSUME NEW e \in Staff, NEW in \in {"ontime", "late"}, clockIn(h, e, in)
        PROVE  c = Idle /\ calls'[h].pc = "clockIn" /\ calls'[h].k = <<e, today>>
    BY <1>2, <2>1 DEF clockIn, Begin, CallsOK
  <2>2. ASSUME ClockInRecord(h)
        PROVE  c.pc = "clockIn" /\ calls'[h].pc = "punchIn" /\ calls'[h].k = c.k
    BY <1>2, <2>2 DEF ClockInRecord, Continue, CallsOK, ClockCall
  <2>3. ASSUME PunchIn(h)
        PROVE  /\ c.pc = "punchIn"
               /\ calls'[h] = Idle \/ (calls'[h].pc = "compOff" /\ calls'[h].k = c.k)
    BY <1>2, <2>3 DEF PunchIn, Finish, Continue, CallsOK
  <2>4. ASSUME NEW e \in Staff, clockOut(h, e) \/ startBreak(h, e) \/ endBreak(h, e)
        PROVE  c = Idle /\ calls'[h].pc \in {"clockOut", "startBreak", "endBreak"}
    BY <1>2, <2>4 DEF clockOut, startBreak, endBreak, Begin, CallsOK
  <2>5. ASSUME ClockOutRecord(h)
        PROVE  c.pc = "clockOut" /\ calls'[h].pc = "punchOut"
    BY <1>2, <2>5 DEF ClockOutRecord, Continue, CallsOK, ClockCall
  <2>6. ASSUME PunchOut(h) \/ CreateBreak(h) \/ CloseBreak(h)
        PROVE  c.pc \in {"punchOut", "startBreak", "endBreak"} /\ calls'[h] = Idle
    BY <1>2, <2>6 DEF PunchOut, CreateBreak, CloseBreak, Finish, Continue, CallsOK
  <2> QED
    BY <2>1, <2>2, <2>3, <2>4, <2>5, <2>6 DEF ClockStep, OwePcs, Idle
<1>4. \A e \in Staff : Cardinality(Holders(OwePcs, e)') = Cardinality(Holders(OwePcs, e))
  <2>1. calls' = [calls EXCEPT ![h] = calls'[h]] /\ "idle" \notin OwePcs
    BY <1>1 DEF Moves, OwePcs
  <2> QED
    BY <1>2, <1>3, <2>1, HoldersMove
<1>5. FutureBlank' /\ \A e \in Staff : Credited(e)' = Credited(e)
  BY <1>1, <1>4, CreditsStay DEF CompInv, compVars
<1>7. ASSUME calm PROVE CompRead(calls[h])'
  <2>1. CASE calls'[h].pc \notin {"clockIn", "punchIn", "compOff", "compLook", "compBalance", "compRow", "claim"}
    BY <2>1 DEF CompRead
  <2>2. CASE c.pc \in {"clockIn", "punchIn"} /\ calls'[h].k = c.k /\ calls'[h].pc \in {"clockIn", "punchIn", "compOff"}
    BY <1>1, <1>7, <2>2 DEF CompRead, CompInv, compVars
  <2>3. ASSUME NEW e \in Staff, calls'[h].k = <<e, today>>, calls'[h].pc \in {"clockIn", "punchIn", "compOff"}
        PROVE  CompRead(calls[h])'
    <3>1. today \in Days /\ \A d \in Days : d > today => compRows[e][d]["holiday"] = 0
      BY DEF CompInv, FutureBlank, CompSources, Shape, DaysOK
    <3> QED
      BY <1>1, <2>3, <3>1 DEF CompRead, compVars, Days
  <2> QED
    BY <1>3, <2>1, <2>2, <2>3
<1>8. UNCHANGED compRows /\ UNCHANGED compAccrued
  BY <1>1 DEF compVars
<1>9. \A e \in Staff : Credited(e)' <= compAccrued'[e]
  BY <1>5, <1>8 DEF CompInv
<1>10. calm => /\ \A e \in Staff, d \in Days : compRows'[e][d]["holiday"] <= 1
               /\ \A e \in Staff : compAccrued'[e] = Credited(e)'
  BY <1>5, <1>8 DEF CompInv
<1> HIDE DEF P
<1> QED
  BY <1>1, <1>5, <1>7, <1>9, <1>10, CompMoved

LEMMA CompCredit ==
  ASSUME Shape, Alone, CompInv, NEW h \in Handlers, CompStep(h)
  PROVE  CompInv'
<1> DEFINE c == calls[h]
<1>1. UNCHANGED <<claim, today>> /\ Moves(h, CompPcs) /\ calls' = [calls EXCEPT ![h] = calls'[h]]
  BY DEF CompStep, otVars, Moves
<1>2. CallsOK /\ CallOK(c, req) /\ CompCall(c) /\ CompOK /\ today \in Days
      /\ "idle" \notin OwePcs
  BY DEF Shape, CallsOK, CallOK, DaysOK, OwePcs
<1>3. \A e \in Staff : RowsOf(e, "holiday") \in Int /\ RowsOf(e, "overtime") \in Int
                       /\ compAccrued[e] \in Nat
                       /\ Cardinality(Holders(OwePcs, e)) \in Nat
  BY <1>1, <1>2, RowsType, HoldersMove DEF CompSources, CompOK
<1>5. CASE creditCompOff(h)
  <2>1. /\ c \in [pc: {"compOff", "compLook"}, k: Slots] /\ c.pc = "compOff"
        /\ calls'[h] = Idle \/ (calls'[h].pc = "compLook" /\ calls'[h].k = c.k)
        /\ UNCHANGED compVars
    BY <1>2, <1>5 DEF creditCompOff, CompCall, Finish, Continue, CallsOK
  <2>2. \A e \in Staff : Cardinality(Holders(OwePcs, e)') = Cardinality(Holders(OwePcs, e))
    <3>1. c.pc \notin OwePcs /\ calls'[h].pc \notin OwePcs
      BY <2>1 DEF OwePcs, Idle
    <3> QED
      BY <1>1, <1>2, <3>1, HoldersMove
  <2>3. UNCHANGED compRows /\ UNCHANGED compAccrued
    BY <2>1 DEF compVars
  <2>4. FutureBlank' /\ \A e \in Staff : Credited(e)' = Credited(e)
    BY <1>1, <2>2, <2>3, CreditsStay DEF CompInv
  <2>5. ASSUME calm PROVE CompRead(calls[h])'
    <3>1. CASE calls'[h] = Idle
      BY <3>1 DEF CompRead, Idle
    <3>2. CASE calls'[h].pc = "compLook" /\ calls'[h].k = c.k
      <4>1. /\ c.k[2] <= today
            /\ \A d \in Days : d > c.k[2] => compRows[c.k[1]][d]["holiday"] = 0
        BY <2>1, <2>5 DEF CompInv, CompRead
      <4> QED
        BY <1>1, <2>3, <3>2, <4>1 DEF CompRead
    <3> QED
      BY <2>1, <3>1, <3>2
  <2>6. \A e \in Staff : Credited(e)' <= compAccrued'[e]
    BY <2>3, <2>4 DEF CompInv
  <2>7. calm => /\ \A e \in Staff, d \in Days : compRows'[e][d]["holiday"] <= 1
                /\ \A e \in Staff : compAccrued'[e] = Credited(e)'
    BY <2>3, <2>4 DEF CompInv
  <2> QED
    BY <1>1, <2>4, <2>5, <2>6, <2>7, CompMoved
<1>6. CASE CompLook(h)
  <2>1. /\ c \in [pc: {"compOff", "compLook"}, k: Slots] /\ c.pc = "compLook"
        /\ \/ calls'[h] = Idle
           \/ ~AlreadyCredited(c.k[1], c.k[2])
              /\ calls'[h] = [pc |-> "compBalance", e |-> c.k[1], source |-> "holiday"]
        /\ UNCHANGED compVars
    BY <1>2, <1>6 DEF CompLook, CompCall, Finish, Continue, CallsOK
  <2>2. \A e \in Staff : Cardinality(Holders(OwePcs, e)') = Cardinality(Holders(OwePcs, e))
    <3>1. c.pc \notin OwePcs /\ calls'[h].pc \notin OwePcs
      BY <2>1 DEF OwePcs, Idle
    <3> QED
      BY <1>1, <1>2, <3>1, HoldersMove
  <2>3. FutureBlank' /\ \A e \in Staff : Credited(e)' = Credited(e)
    BY <1>1, <2>1, <2>2, CreditsStay DEF CompInv, compVars
  <2>4. UNCHANGED compRows /\ UNCHANGED compAccrued
    BY <2>1 DEF compVars
  <2>5. ASSUME calm PROVE CompRead(calls[h])'
    <3>1. CASE calls'[h] = Idle
      BY <3>1 DEF CompRead, Idle
    <3>2. CASE /\ ~AlreadyCredited(c.k[1], c.k[2])
               /\ calls'[h] = [pc |-> "compBalance", e |-> c.k[1], source |-> "holiday"]
      <4>1. c.k[1] \in Staff /\ c.k[2] \in Days /\ c.k[2] <= today
            /\ \A d \in Days : d > c.k[2] => compRows[c.k[1]][d]["holiday"] = 0
        BY <2>1, <2>5 DEF CompInv, CompRead, Slots
      <4>2. compRows[c.k[1]][c.k[2]]["holiday"] = 0
        <5>1. compRows[c.k[1]][c.k[2]]["holiday"] \in Nat
          <6>1. compRows \in [Staff -> [Days -> [CompSources -> Nat]]] /\ "holiday" \in CompSources
            BY <1>2 DEF CompOK, CompSources
          <6>2. PICK e, d : e = c.k[1] /\ d = c.k[2]
            OBVIOUS
          <6>3. compRows[e] \in [Days -> [CompSources -> Nat]] /\ d \in Days
            BY <4>1, <6>1, <6>2
          <6> QED BY <6>1, <6>2, <6>3
        <5>2. ~(compRows[c.k[1]][c.k[2]]["holiday"] > 0)
          <6>0. ~AlreadyCredited(c.k[1], c.k[2])
            BY <3>2
          <6>1. ~\E s \in CompSources : compRows[c.k[1]][c.k[2]][s] > 0
            BY <6>0, Zenon DEF AlreadyCredited
          <6> QED BY <6>1 DEF CompSources
        <5> QED BY <5>1, <5>2
      <4>3. compRows[c.k[1]][today]["holiday"] = 0
        BY <1>2, <4>1, <4>2 DEF Days
      <4> QED
        BY <1>1, <2>4, <3>2, <4>3 DEF CompRead
    <3> QED
      BY <2>1, <3>1, <3>2
  <2>6. \A e \in Staff : Credited(e)' <= compAccrued'[e]
    BY <2>3, <2>4 DEF CompInv
  <2>7. calm => /\ \A e \in Staff, d \in Days : compRows'[e][d]["holiday"] <= 1
                /\ \A e \in Staff : compAccrued'[e] = Credited(e)'
    BY <2>3, <2>4 DEF CompInv
  <2> QED
    BY <1>1, <2>3, <2>5, <2>6, <2>7, CompMoved
<1>7. CASE CompBalance(h)
  <2>1. /\ c.pc = "compBalance" /\ c.e \in Staff /\ calls'[h] = [c EXCEPT !.pc = "compRow"]
        /\ calls'[h].pc = "compRow" /\ calls'[h].e = c.e
        /\ compAccrued' = [compAccrued EXCEPT ![c.e] = compAccrued[c.e] + 1] /\ UNCHANGED compRows
    BY <1>2, <1>7 DEF CompBalance, CreditBalance, CompCall, Continue, CallsOK
  <2>2. \A e \in Staff : Cardinality(Holders(OwePcs, e)') =
                           Cardinality(Holders(OwePcs, e)) + (IF e = c.e THEN 1 ELSE 0)
    <3>1. \A e : (calls'[h].pc \in OwePcs /\ calls'[h].e = e <=> e = c.e)
                 /\ ~(c.pc \in OwePcs /\ c.e = e)
      BY <2>1 DEF OwePcs
    <3>2. \A e \in Staff : Cardinality(Holders(OwePcs, e)') =
              Cardinality(Holders(OwePcs, e))
              + (IF calls'[h].pc \in OwePcs /\ calls'[h].e = e THEN 1 ELSE 0)
              - (IF c.pc \in OwePcs /\ c.e = e THEN 1 ELSE 0)
      BY <1>1, <1>2, HoldersMove
    <3> QED
      BY <1>3, <3>1, <3>2
  <2>3. \A e \in Staff : RowsOf(e, "holiday")' = RowsOf(e, "holiday") /\ RowsOf(e, "overtime")' = RowsOf(e, "overtime")
    BY <2>1, RowsStay
  <2>4. \A e \in Staff : /\ Credited(e)' = Credited(e) + (IF e = c.e THEN 1 ELSE 0)
                         /\ compAccrued'[e] = compAccrued[e] + (IF e = c.e THEN 1 ELSE 0)
                         /\ Credited(e) \in Int
    <3> SUFFICES ASSUME NEW e \in Staff
                 PROVE  /\ Credited(e)' = Credited(e) + (IF e = c.e THEN 1 ELSE 0)
                        /\ compAccrued'[e] = compAccrued[e] + (IF e = c.e THEN 1 ELSE 0)
                        /\ Credited(e) \in Int
      OBVIOUS
    <3>1. Credited(e)' = Credited(e) + (IF e = c.e THEN 1 ELSE 0) /\ Credited(e) \in Int
      BY <1>3, <2>2, <2>3 DEF Credited
    <3>2. compAccrued'[e] = compAccrued[e] + (IF e = c.e THEN 1 ELSE 0)
      BY <1>2, <1>3, <2>1 DEF CompOK
    <3> QED
      BY <3>1, <3>2
  <2>5. \A e \in Staff : Credited(e)' <= compAccrued'[e]
    BY <1>3, <2>4 DEF CompInv
  <2>6. FutureBlank'
    BY <1>1, <2>1 DEF CompInv, FutureBlank
  <2>7. calm => CompRead(calls[h])'
    BY <1>1, <2>1 DEF CompInv, CompRead
  <2>8. calm => /\ \A e \in Staff, d \in Days : compRows'[e][d]["holiday"] <= 1
                /\ \A e \in Staff : compAccrued'[e] = Credited(e)'
    BY <1>3, <2>1, <2>4 DEF CompInv
  <2> QED
    BY <1>1, <2>5, <2>6, <2>7, <2>8, CompMoved
<1>8. CASE CompRow(h)
  <2>1. /\ c.pc = "compRow" /\ c.e \in Staff /\ c.source = "holiday" /\ calls'[h] = Idle
        /\ CreditRow(c.e, "holiday") /\ UNCHANGED compAccrued
        /\ compRows' = [compRows EXCEPT ![c.e][today]["holiday"] = compRows[c.e][today]["holiday"] + 1]
    BY <1>2, <1>8 DEF CompRow, CreditRow, CompCall, Finish, Continue, CallsOK
  <2>2. \A e \in Staff : Cardinality(Holders(OwePcs, e)') =
                           Cardinality(Holders(OwePcs, e)) - (IF e = c.e THEN 1 ELSE 0)
    <3>1. \A e : (c.pc \in OwePcs /\ c.e = e <=> e = c.e)
                 /\ ~(calls'[h].pc \in OwePcs /\ calls'[h].e = e)
      BY <2>1 DEF OwePcs, Idle
    <3>2. \A e \in Staff : Cardinality(Holders(OwePcs, e)') =
              Cardinality(Holders(OwePcs, e))
              + (IF calls'[h].pc \in OwePcs /\ calls'[h].e = e THEN 1 ELSE 0)
              - (IF c.pc \in OwePcs /\ c.e = e THEN 1 ELSE 0)
      BY <1>1, <1>2, HoldersMove
    <3> QED
      BY <1>3, <3>1, <3>2
  <2>3. \A e \in Staff : /\ RowsOf(e, "holiday")' = RowsOf(e, "holiday") + (IF e = c.e THEN 1 ELSE 0)
                         /\ RowsOf(e, "overtime")' = RowsOf(e, "overtime")
    BY <1>2, <1>3, <2>1, RowsGrow DEF CompSources
  <2>4. \A e \in Staff : Credited(e)' = Credited(e)
    BY <1>3, <2>2, <2>3 DEF Credited
  <2>5. \A e \in Staff : Credited(e)' <= compAccrued'[e]
    BY <2>1, <2>4 DEF CompInv
  <2>6. FutureBlank'
    BY <1>1, <1>2, <2>1 DEF CompInv, FutureBlank, CompOK, Days
  <2>7. calm => CompRead(calls[h])'
    BY <2>1 DEF CompRead, Idle
  <2>8. ASSUME calm PROVE \A e \in Staff, d \in Days : compRows'[e][d]["holiday"] <= 1
    <3>1. compRows[c.e][today]["holiday"] = 0
      BY <2>1, <2>8 DEF CompInv, CompRead
    <3> QED
      BY <1>2, <2>1, <2>8, <3>1 DEF CompInv, CompOK, CompSources
  <2>9. calm => \A e \in Staff : compAccrued'[e] = Credited(e)'
    BY <1>3, <2>1, <2>4 DEF CompInv
  <2> QED
    BY <1>1, <2>5, <2>6, <2>7, <2>8, <2>9, CompMoved
<1> QED
  BY <1>5, <1>6, <1>7, <1>8 DEF CompStep

LEMMA CompClaim ==
  ASSUME Shape, Alone, CompInv, NEW h \in Handlers, ClaimStep(h)
  PROVE  CompInv'
<1> DEFINE c == calls[h]
           Owed(e) == Cardinality(Holders(OwePcs, e))
           Counts == \A e \in Staff :
             /\ RowsOf(e, "holiday") \in Int /\ RowsOf(e, "overtime") \in Int
             /\ compAccrued[e] \in Nat /\ Owed(e) \in Nat
             /\ Credited(e) = RowsOf(e, "holiday") + RowsOf(e, "overtime") + Owed(e)
<1>1. UNCHANGED today /\ Moves(h, ClaimPcs) /\ calls' = [calls EXCEPT ![h] = calls'[h]]
  BY DEF ClaimStep, otVars, Moves
<1>2. CallsOK /\ CallOK(c, req) /\ ClaimCall(c) /\ CompOK /\ today \in Days
      /\ "idle" \notin OwePcs
  BY DEF Shape, CallsOK, CallOK, DaysOK, OwePcs
<1>3. Counts
  BY <1>1, <1>2, RowsType, HoldersMove DEF CompSources, CompOK, Credited
<1>4. \A e \in Staff :
        Owed(e)' = Owed(e) + (IF calls'[h].pc \in OwePcs /\ calls'[h].e = e THEN 1 ELSE 0)
                           - (IF c.pc \in OwePcs /\ c.e = e THEN 1 ELSE 0)
  BY <1>1, <1>2, HoldersMove
<1> HIDE DEF Owed, Counts
<1>c. \A e \in Staff : Credited(e)' = RowsOf(e, "holiday")' + RowsOf(e, "overtime")' + Owed(e)'
  BY DEF Credited, Owed
(* The claim's own row is all that changes, or nothing. *)
<1>5. ASSUME UNCHANGED compVars, calls'[h].pc \notin OwePcs, c.pc \notin OwePcs,
             calm => CompRead(calls[h])'
      PROVE  CompInv'
  <2>1. \A e \in Staff : Owed(e)' = Owed(e)
    BY <1>3, <1>4, <1>5 DEF Counts
  <2>2. UNCHANGED compRows /\ UNCHANGED compAccrued
    BY <1>5 DEF compVars
  <2>3. FutureBlank' /\ \A e \in Staff : Credited(e)' = Credited(e)
    BY <1>1, <2>1, <2>2, CreditsStay DEF CompInv, Owed
  <2>4. \A e \in Staff : Credited(e)' <= compAccrued'[e]
    BY <2>2, <2>3 DEF CompInv
  <2>5. calm => /\ \A e \in Staff, d \in Days : compRows'[e][d]["holiday"] <= 1
                /\ \A e \in Staff : compAccrued'[e] = Credited(e)'
    BY <2>2, <2>3 DEF CompInv
  <2> QED
    BY <1>1, <1>5, <2>3, <2>4, <2>5, CompMoved
<1>6. ASSUME NEW u \in Callers, NEW e \in Overtimers, NEW decision \in {"APPROVE", "REJECT"},
             decideOvertimeClaim(h, u, e, decision)
      PROVE  CompInv'
  <2>1. /\ c = Idle /\ UNCHANGED compVars /\ UNCHANGED claim /\ claim[e].status \in PendingClaim
        /\ calls'[h] = [pc |-> "claim", e |-> e, mode |-> claim[e].mode,
                        status |-> Outcome(claim[e].status, decision)]
    BY <1>2, <1>6 DEF decideOvertimeClaim, Begin, CallsOK, otVars
  <2>2. CompRead(calls[h])'
    <3>1. claim[e].status = "PENDING_MANAGER"
            => Outcome(claim[e].status, decision) \in {"PENDING_HR", "REJECTED"}
      BY <2>1, ClaimOutcome
    <3>2. claim[e].status = "PENDING_HR"
            => Outcome(claim[e].status, decision) \in {"APPROVED", "REJECTED"}
      BY <2>1, ClaimOutcome
    <3>3. claim[e].status \in {"PENDING_MANAGER", "PENDING_HR"}
      BY <2>1 DEF PendingClaim
    <3> QED
      BY <2>1, <3>1, <3>2, <3>3 DEF CompRead
  <2>3. calls'[h].pc \notin OwePcs /\ c.pc \notin OwePcs
    BY <2>1 DEF OwePcs, Idle
  <2> QED
    BY <1>5, <2>1, <2>2, <2>3
<1>7. ASSUME WriteClaim(h) \/ ClaimHours(h) PROVE CompInv'
  <2>1. c.pc \in {"claim", "claimHours"} /\ UNCHANGED compVars
        /\ calls'[h].pc \in {"idle", "claimHours", "claimEmpty", "claimBalance"}
    BY <1>2, <1>7 DEF WriteClaim, ClaimHours, Finish, Continue, CallsOK, Idle
  <2>2. calls'[h].pc \notin OwePcs /\ c.pc \notin OwePcs /\ CompRead(calls[h])'
    BY <2>1 DEF OwePcs, CompRead
  <2> QED
    BY <1>5, <2>1, <2>2
<1>8. ASSUME ClaimBalance(h) PROVE CompInv'
  <2>1. /\ c.pc = "claimBalance" /\ c.e \in Staff
        /\ calls'[h].pc = "claimRow" /\ calls'[h].e = c.e
        /\ compAccrued' = [compAccrued EXCEPT ![c.e] = compAccrued[c.e] + 1] /\ UNCHANGED compRows
    BY <1>2, <1>8 DEF ClaimBalance, CreditBalance, ClaimCall, Continue, CallsOK
  <2>2. \A e \in Staff : Owed(e)' = Owed(e) + (IF e = c.e THEN 1 ELSE 0)
    <3>1. "claimBalance" \notin OwePcs /\ "claimRow" \in OwePcs
      BY DEF OwePcs
    <3> QED
      BY <1>3, <1>4, <2>1, <3>1 DEF Counts
  <2>3. \A e \in Staff : RowsOf(e, "holiday")' = RowsOf(e, "holiday") /\ RowsOf(e, "overtime")' = RowsOf(e, "overtime")
    BY <2>1, RowsStay
  <2>4. \A e \in Staff : /\ Credited(e)' = Credited(e) + (IF e = c.e THEN 1 ELSE 0)
                         /\ compAccrued'[e] = compAccrued[e] + (IF e = c.e THEN 1 ELSE 0)
                         /\ Credited(e) \in Int
    BY <1>2, <1>3, <1>c, <2>1, <2>2, <2>3 DEF CompOK, Counts
  <2>5. \A e \in Staff : Credited(e)' <= compAccrued'[e]
    BY <1>3, <2>4 DEF CompInv, Counts
  <2>6. FutureBlank'
    BY <1>1, <2>1 DEF CompInv, FutureBlank
  <2>7. CompRead(calls[h])'
    BY <2>1 DEF CompRead
  <2>8. calm => /\ \A e \in Staff, d \in Days : compRows'[e][d]["holiday"] <= 1
                /\ \A e \in Staff : compAccrued'[e] = Credited(e)'
    BY <1>3, <2>1, <2>4 DEF CompInv, Counts
  <2> QED
    BY <1>1, <2>5, <2>6, <2>7, <2>8, CompMoved
<1>9. ASSUME ClaimRow(h) \/ ClaimEmpty(h) PROVE CompInv'
  <2> DEFINE s == IF c.pc = "claimRow" THEN "overtime" ELSE "empty"
  <2>1. /\ c.pc \in {"claimRow", "claimEmpty"} /\ c.e \in Staff /\ calls'[h] = Idle
        /\ CreditRow(c.e, s) /\ UNCHANGED compAccrued
        /\ compRows' = [compRows EXCEPT ![c.e][today][s] = compRows[c.e][today][s] + 1]
    BY <1>2, <1>9 DEF ClaimRow, ClaimEmpty, CreditRow, ClaimCall, Finish, Continue, CallsOK
  <2>0. s \in CompSources /\ s # "holiday" /\ (s = "overtime" <=> c.pc = "claimRow")
    BY DEF CompSources
  <2> HIDE DEF s
  <2>2. \A e \in Staff : Owed(e)' = Owed(e) - (IF e = c.e /\ s = "overtime" THEN 1 ELSE 0)
    <3>1. (c.pc \in OwePcs <=> s = "overtime") /\ calls'[h].pc \notin OwePcs
      BY <2>0, <2>1 DEF OwePcs, Idle
    <3> QED
      BY <1>3, <1>4, <3>1 DEF Counts
  <2>3. \A e \in Staff :
          /\ RowsOf(e, "holiday")' = RowsOf(e, "holiday")
          /\ RowsOf(e, "overtime")' = RowsOf(e, "overtime") + (IF e = c.e /\ s = "overtime" THEN 1 ELSE 0)
    <3>1. "holiday" \in CompSources /\ "overtime" \in CompSources
      BY DEF CompSources
    <3>2. \A x \in Staff, t \in CompSources :
            RowsOf(x, t)' = RowsOf(x, t) + (IF x = c.e /\ t = s THEN 1 ELSE 0)
      BY <1>2, <2>0, <2>1, RowsGrow
    <3> QED
      BY <1>3, <2>0, <3>1, <3>2 DEF Counts
  <2>4. \A e \in Staff : Credited(e)' = Credited(e)
    BY <1>3, <1>c, <2>2, <2>3 DEF Counts
  <2>5. \A e \in Staff : Credited(e)' <= compAccrued'[e]
    BY <2>1, <2>4 DEF CompInv
  <2>6. FutureBlank'
    <3> SUFFICES ASSUME NEW e \in Staff, NEW d \in Days, NEW t \in CompSources, d > today
                 PROVE  compRows'[e][d][t] = 0
      BY <1>1 DEF FutureBlank
    <3>1. d # today /\ compRows[e][d][t] = 0
      BY <1>2 DEF CompInv, FutureBlank, Days
    <3>2. compRows \in [Staff -> [Days -> [CompSources -> Nat]]]
      BY <1>2 DEF CompOK
    <3>3. compRows'[e][d] = compRows[e][d]
      BY <1>2, <2>1, <3>1, <3>2
    <3> QED
      BY <3>1, <3>3
  <2>7. CompRead(calls[h])'
    BY <2>1 DEF CompRead, Idle
  <2>8. \A e \in Staff, d \in Days : compRows'[e][d]["holiday"] = compRows[e][d]["holiday"]
    <3>1. compRows \in [Staff -> [Days -> [CompSources -> Nat]]] /\ "holiday" \in CompSources
      BY <1>2 DEF CompOK, CompSources
    <3> QED
      BY <1>2, <2>0, <2>1, <3>1
  <2>9. calm => /\ \A e \in Staff, d \in Days : compRows'[e][d]["holiday"] <= 1
                /\ \A e \in Staff : compAccrued'[e] = Credited(e)'
    BY <2>1, <2>4, <2>8 DEF CompInv
  <2> QED
    BY <1>1, <2>5, <2>6, <2>7, <2>9, CompMoved
<1> QED
  BY <1>6, <1>7, <1>8, <1>9 DEF ClaimStep

LEMMA CompNewClaim ==
  ASSUME Shape, CompInv, ClaimAtOnce
  PROVE  CompInv'
<1>1. CASE UNCHANGED claim
  <2>1. UNCHANGED <<compRows, compAccrued>>
    BY DEF ClaimAtOnce, createOvertimeClaim, moveReport, SetupEdit, designate, setShiftHours, compVars
  <2> QED
    BY <1>1, <2>1, CompElsewhere DEF ClaimAtOnce
<1>2. ASSUME NEW e \in Overtimers, NEW mode \in {"CASH", "COMP_OFF"}, createOvertimeClaim(e, mode)
      PROVE  CompInv'
  <2>1. UNCHANGED calls /\ UNCHANGED today /\ UNCHANGED compRows /\ UNCHANGED compAccrued
    BY <1>2 DEF createOvertimeClaim, AtOnce, ClaimAtOnce, compVars
  <2>2. \A x : Cardinality(Holders(OwePcs, x)') = Cardinality(Holders(OwePcs, x))
    BY <2>1, HoldersStay
  <2>3. FutureBlank' /\ \A x \in Staff : Credited(x)' = Credited(x)
    BY <2>1, <2>2, CreditsStay DEF CompInv
  <2>4. calm' => calm /\ \A h \in Handlers : calls[h] = Idle
    BY NoCall DEF ClaimAtOnce
  <2>5. calm' => \A h \in Handlers : CompRead(calls[h])'
    BY <2>1, <2>4 DEF CompRead, Idle
  <2> QED
    BY <2>1, <2>3, <2>4, <2>5 DEF CompInv
<1>3. CASE UNCHANGED otVars
  BY <1>1, <1>3 DEF otVars
<1> QED
  BY <1>1, <1>2, <1>3 DEF ClaimAtOnce, moveReport, SetupEdit

LEMMA CompStays ==
  ASSUME Shape, Alone, CompInv, [AttendanceNext]_attendanceVars
  PROVE  CompInv'
<1>1. ASSUME NEW h \in Handlers, CallStep(h) PROVE CompInv'
  <2>1. CASE ClockStep(h)
    BY <2>1, CompClock
  <2>2. CASE CompStep(h)
    BY <2>2, CompCredit
  <2>3. CASE ClaimStep(h)
    BY <2>3, CompClaim
  <2>4. CASE LostStep(h)
    BY <2>4, CompLost
  <2>5. CASE DisputeStep(h) \/ JobStep(h) \/ ShiftStep(h)
    <3>1. Moves(h, DisputePcs \cup JobPcs \cup ShiftPcs)
      BY <2>5, MovesWider DEF DisputeStep, JobStep, ShiftStep
    <3>2. UNCHANGED <<compRows, compAccrued, claim>>
      BY <2>5 DEF DisputeStep, JobStep, ShiftStep, sideTables, otVars, compVars
    <3>3. UNCHANGED today
      <4>1. ASSUME DisputeNext(h) PROVE UNCHANGED today
        <5>1. CASE CreateRequest(h) \/ FlagDispute(h) \/ ApproveRecord(h) \/ RejectRecord(h) \/ Decide(h)
          BY <5>1 DEF CreateRequest, FlagDispute, ApproveRecord, RejectRecord, Decide, attUntouched
        <5>2. ASSUME NEW e \in Staff, NEW d \in Days, NEW ask \in Asks, requestRegularization(h, e, d, ask)
              PROVE  UNCHANGED today
          BY <5>2 DEF requestRegularization
        <5>3. ASSUME NEW i \in Requests, cancelRegularization(h, i) PROVE UNCHANGED today
          BY <5>3 DEF cancelRegularization
        <5>4. ASSUME NEW i \in Requests, NEW u \in Admins \cup LineManagers,
                     approveRegularization(h, u, i) \/ rejectRegularization(h, u, i)
              PROVE  UNCHANGED today
          BY <5>4 DEF approveRegularization, rejectRegularization
        <5> QED
          BY <4>1, <5>1, <5>2, <5>3, <5>4 DEF DisputeNext
      <4>2. ASSUME JobNext(h) PROVE UNCHANGED today
        <5>1. CASE finalize(h) \/ FinalizeDone(h) \/ resolveCutoff(h) \/ CutoffDone(h) \/ CutoffRecord(h)
          BY <5>1 DEF finalize, FinalizeDone, resolveCutoff, CutoffDone, CutoffRecord, attUntouched
        <5>2. ASSUME NEW e \in Staff, FinalizeOne(h, e) PROVE UNCHANGED today
          BY <5>2 DEF FinalizeOne, attUntouched
        <5>3. ASSUME NEW i \in Requests, CutoffRequest(h, i) PROVE UNCHANGED today
          BY <5>3 DEF CutoffRequest, attUntouched
        <5> QED
          BY <4>2, <5>1, <5>2, <5>3 DEF JobNext
      <4> QED
        BY <2>5, <4>1, <4>2 DEF DisputeStep, JobStep, ShiftStep
    <3> QED
      BY <3>1, <3>2, <3>3, CompElsewhere
  <2> QED
    BY <1>1, <2>1, <2>2, <2>3, <2>4, <2>5 DEF CallStep
<1>2. ASSUME OfficeStep \/ UNCHANGED attendanceVars PROVE CompInv'
  <2>1. UNCHANGED <<today, compRows, compAccrued, claim>> /\ (AtOnce \/ UNCHANGED callVars)
    BY <1>2 DEF OfficeStep, sideTables, otVars, compVars, attendanceVars
  <2> QED
    BY <2>1, CompElsewhere
<1> QED
  BY <1>1, <1>2, EveryStep, CompNewClaim, CompDay

LEMMA CompInvInit == AttendanceInit => CompInv
<1> SUFFICES ASSUME AttendanceInit PROVE CompInv
  OBVIOUS
<1>1. /\ calls = [h \in Handlers |-> Idle] /\ compAccrued = [e \in Staff |-> 0]
      /\ compRows = [e \in Staff |-> [d \in Days |-> [s \in CompSources |-> 0]]]
      /\ claim = [e \in Staff |-> NoClaim]
  BY DEF AttendanceInit, CallsInit, CompInit, OtInit
<1>2. IsFiniteSet(Days)
  BY CompOffAssumption, FS_Interval DEF Days
<1>3. \A e \in Staff, s \in CompSources : RowsOf(e, s) = 0
  BY <1>1, <1>2, SumZero DEF RowsOf
<1>4. \A e : Holders(OwePcs, e) = {}
  BY <1>1 DEF Holders, OwePcs, Idle
<1>5. Cardinality({}) = 0
  BY FS_EmptySet
<1>6. \A e \in Staff : Credited(e) = 0
  BY <1>3, <1>4, <1>5 DEF Credited, CompSources
<1>8. \A e \in Staff, d \in Days, s \in CompSources : compRows[e][d][s] = 0
  BY <1>1
<1>9. FutureBlank /\ \A e \in Staff, d \in Days : compRows[e][d]["holiday"] <= 1
  BY <1>8 DEF FutureBlank, CompSources
<1>10. \A h \in Handlers : CompRead(calls[h])
  BY <1>1, IdleCompRead
<1>11. \A e \in Staff : compAccrued[e] = 0
  BY <1>1
<1> QED
  BY <1>6, <1>9, <1>10, <1>11 DEF CompInv

LEMMA CompHolds == AttendanceSpec => []CompInv
BY CompInvInit, CompStays, ShapeHolds, AloneHolds, PTL DEF AttendanceSpec

----------------------------------------------------------------------------
(* Claims: what an approved claim is owed is in the ledger, or in the hands *)
(* of the call that approved it; where a setting had lapsed it may be lost. *)
Held(e) == Cardinality(Holders(ClaimOwePcs, e))
GivenOf(e) == RowsOf(e, "overtime") + RowsOf(e, "empty") + Held(e)

ClaimInv ==
  /\ \A h \in Handlers : calls[h].pc = "claimEmpty" => lapsed
  /\ ~lapsed => \A e \in Staff : RowsOf(e, "empty") = 0
  /\ calm => \A e \in Staff : GivenOf(e) <= Due(e) /\ (~lapsed => GivenOf(e) = Due(e))

LEMMA GivenType ==
  ASSUME Shape, NEW e \in Staff
  PROVE  /\ GivenOf(e) \in Int /\ Due(e) \in Int
         /\ RowsOf(e, "overtime") \in Int /\ RowsOf(e, "empty") \in Int
         /\ Held(e) \in Nat
<1>1. Holders(ClaimOwePcs, e) \subseteq Running
  BY DEF Holders, Running, Idle, ClaimOwePcs
<1>2. Held(e) \in Nat
  BY <1>1, FS_Subset, FS_CardinalityType DEF Shape, CallsOK, Held
<1>3. RowsOf(e, "overtime") \in Int /\ RowsOf(e, "empty") \in Int
  BY RowsType DEF Shape, CompSources
<1> QED
  BY <1>2, <1>3 DEF GivenOf, Due

(* What is left to show when the claims and the settings stay as they are.  *)
LEMMA ClaimsSame ==
  ASSUME Shape, ClaimInv, UNCHANGED <<claim, lapsed>>, calm' => calm,
         \A h \in Handlers : calls'[h].pc = "claimEmpty" => calls[h].pc = "claimEmpty" \/ lapsed,
         \A e \in Staff : RowsOf(e, "empty")' = RowsOf(e, "empty") \/ lapsed,
         \A e \in Staff : GivenOf(e)' = GivenOf(e) \/ (lapsed /\ GivenOf(e)' = GivenOf(e) - 1)
  PROVE  ClaimInv'
<1>1. \A e \in Staff : Due(e)' = Due(e)
  BY DEF Due
<1>2. ASSUME calm', NEW e \in Staff
      PROVE  GivenOf(e)' <= Due(e)' /\ (~lapsed => GivenOf(e)' = Due(e)')
  <2>1. GivenOf(e) \in Int /\ Due(e) \in Int
    BY GivenType
  <2>2. GivenOf(e) <= Due(e) /\ (~lapsed => GivenOf(e) = Due(e))
    BY <1>2 DEF ClaimInv
  <2> QED
    BY <1>1, <2>1, <2>2
<1>3. \A h \in Handlers : calls'[h].pc = "claimEmpty" => lapsed'
  BY DEF ClaimInv
<1>4. ~lapsed' => \A e \in Staff : RowsOf(e, "empty")' = 0
  BY DEF ClaimInv
<1> QED
  BY <1>2, <1>3, <1>4 DEF ClaimInv

(* ... as they do when a call of another kind moves, or none does.          *)
LEMMA ClaimsElsewhere ==
  ASSUME Shape, ClaimInv, UNCHANGED <<claim, lapsed>>,
         \A e \in Staff : RowsOf(e, "overtime")' = RowsOf(e, "overtime")
                          /\ RowsOf(e, "empty")' = RowsOf(e, "empty"),
         \/ UNCHANGED callVars \/ AtOnce
         \/ \E h \in Handlers : Moves(h, ClockPcs \cup CompPcs \cup DisputePcs \cup JobPcs \cup ShiftPcs)
  PROVE  ClaimInv'
<1> DEFINE P == ClockPcs \cup CompPcs \cup DisputePcs \cup JobPcs \cup ShiftPcs
<1>1. /\ calm' => calm
      /\ \A h \in Handlers : calls'[h].pc = "claimEmpty" => calls[h].pc = "claimEmpty"
      /\ \A e \in Staff : Held(e)' = Held(e)
  <2>1. CASE UNCHANGED callVars \/ AtOnce
    <3>1. UNCHANGED calls /\ (calm' => calm)
      BY <2>1, AtOnceCalm DEF callVars, AtOnce
    <3> QED
      BY <3>1, HoldersStay DEF Held
  <2>2. ASSUME NEW h \in Handlers, Moves(h, P)
        PROVE  /\ calm' => calm
               /\ \A g \in Handlers : calls'[g].pc = "claimEmpty" => calls[g].pc = "claimEmpty"
               /\ \A e \in Staff : Held(e)' = Held(e)
    <3>1. P \cap ClaimOwePcs = {} /\ "idle" \notin ClaimOwePcs
          /\ "claimEmpty" \notin P \cup {"idle"}
      BY DEF ClockPcs, CompPcs, DisputePcs, JobPcs, ShiftPcs, ClaimOwePcs
    <3>2. CallsOK
      BY DEF Shape
    <3> HIDE DEF P
    <3>3. \A e : Held(e)' = Held(e)
      BY <2>2, <3>1, <3>2, OwedElsewhere DEF Held
    <3>4. /\ calm' => calm
          /\ \A g \in Handlers : calls'[g].pc = "claimEmpty" => calls[g].pc = "claimEmpty"
      BY <2>2, <3>1, <3>2 DEF Moves, CallsOK
    <3> QED
      BY <3>3, <3>4
  <2> QED
    BY <2>1, <2>2
<1>2. \A e \in Staff : GivenOf(e)' = GivenOf(e)
  BY <1>1 DEF GivenOf
<1> QED
  BY <1>1, <1>2, ClaimsSame

(* The claim's own call: its approval makes it a holder, and it stops being *)
(* one with the ledger row.                                                 *)
LEMMA ClaimMoves ==
  ASSUME Shape, CompInv, ClaimInv, NEW h \in Handlers, ClaimStep(h)
  PROVE  ClaimInv'
<1> DEFINE c == calls[h]
           old(e) == c.pc \in ClaimOwePcs /\ c.e = e
           new(e) == calls'[h].pc \in ClaimOwePcs /\ calls'[h].e = e
<1>1. Moves(h, ClaimPcs) /\ calls' = [calls EXCEPT ![h] = calls'[h]] /\ (calm' => calm)
      /\ UNCHANGED today
  BY DEF ClaimStep, Moves
<1>2. CallsOK /\ CallOK(c, req) /\ ClaimCall(c) /\ CompOK /\ today \in Days
      /\ "idle" \notin ClaimOwePcs
  BY DEF Shape, CallsOK, CallOK, DaysOK, ClaimOwePcs
<1>3. \A e \in Staff : Held(e)' = Held(e) + (IF new(e) THEN 1 ELSE 0) - (IF old(e) THEN 1 ELSE 0)
  BY <1>1, <1>2, HoldersMove DEF Held
<1>4. \A g \in Handlers \ {h} : calls'[g] = calls[g]
  BY <1>1, <1>2 DEF CallsOK
<1>5. \A e \in Staff : /\ GivenOf(e) \in Int /\ Due(e) \in Int /\ Held(e) \in Nat
                       /\ RowsOf(e, "overtime") \in Int /\ RowsOf(e, "empty") \in Int
  BY GivenType
<1>6. \A e \in Staff : /\ GivenOf(e) = RowsOf(e, "overtime") + RowsOf(e, "empty") + Held(e)
                       /\ GivenOf(e)' = RowsOf(e, "overtime")' + RowsOf(e, "empty")' + Held(e)'
  BY DEF GivenOf
<1>7. \A g \in Handlers \ {h} : calls'[g].pc = "claimEmpty" => calls[g].pc = "claimEmpty"
  BY <1>4
<1>d. \A e \in Overtimers, u \in Callers, decision \in {"APPROVE", "REJECT"} :
        decideOvertimeClaim(h, u, e, decision) => ClaimInv'
  <2> SUFFICES ASSUME NEW e \in Overtimers, NEW u \in Callers, NEW decision \in {"APPROVE", "REJECT"},
                      decideOvertimeClaim(h, u, e, decision)
               PROVE  ClaimInv'
    OBVIOUS
  <2>1. c = Idle /\ calls'[h].pc = "claim" /\ UNCHANGED <<claim, lapsed, compRows>>
    BY <1>2 DEF decideOvertimeClaim, Begin, CallsOK, otVars, compVars
  <2>2. \A x \in Staff : ~old(x) /\ ~new(x)
    BY <1>2, <2>1 DEF Idle, ClaimOwePcs
  <2>3. \A x \in Staff : Held(x)' = Held(x)
    BY <1>3, <1>5, <2>2
  <2>4. \A x \in Staff : GivenOf(x)' = GivenOf(x) /\ RowsOf(x, "empty")' = RowsOf(x, "empty")
    BY <1>6, <2>1, <2>3, RowsStay
  <2> QED
    BY <1>1, <1>7, <2>1, <2>4, ClaimsSame
<1>w. ASSUME WriteClaim(h) PROVE ClaimInv'
  <2> DEFINE due == c.status = "APPROVED" /\ c.mode = "COMP_OFF"
  <2>1. /\ c \in [pc: {"claim"}, e: Staff, mode: Modes,
                  status: {"PENDING_HR", "APPROVED", "REJECTED"}]
        /\ claim' = [claim EXCEPT ![c.e] = [claim[c.e] EXCEPT !.status = c.status]]
        /\ UNCHANGED <<lapsed, compRows>>
    BY <1>2, <1>w DEF WriteClaim, ClaimCall, compVars
  <2>2. calls'[h] = IF due THEN [pc |-> "claimHours", e |-> c.e] ELSE Idle
    BY <1>2, <1>w DEF WriteClaim, Finish, Continue, CallsOK
  <2>3. \A e \in Staff : ~old(e) /\ (new(e) <=> due /\ e = c.e)
    BY <2>1, <2>2 DEF ClaimOwePcs, Idle
  <2>4. \A e \in Staff : Held(e)' = Held(e) + (IF due /\ e = c.e THEN 1 ELSE 0)
    <3> HIDE DEF old, new, due
    <3> QED
      BY <1>3, <1>5, <2>3
  <2>5. \A e \in Staff : RowsOf(e, "overtime")' = RowsOf(e, "overtime")
                         /\ RowsOf(e, "empty")' = RowsOf(e, "empty")
    BY <2>1, RowsStay
  <2>6. \A e \in Staff : GivenOf(e)' = GivenOf(e) + (IF due /\ e = c.e THEN 1 ELSE 0)
    <3> HIDE DEF due
    <3> QED
      BY <1>5, <1>6, <2>4, <2>5
  <2>7. ASSUME calm PROVE \A e \in Staff : Due(e)' = Due(e) + (IF due /\ e = c.e THEN 1 ELSE 0)
    <3>1. claim[c.e].mode = c.mode /\ claim[c.e].status # "APPROVED"
      BY <2>1, <2>7 DEF CompInv, CompRead
    <3>2. claim \in [Staff -> Claims]
      BY <1>2 DEF CompOK
    <3>3. \A e \in Staff : claim'[e] = IF e = c.e THEN [claim[c.e] EXCEPT !.status = c.status] ELSE claim[e]
      BY <2>1, <3>2
    <3>4. claim'[c.e].status = c.status /\ claim'[c.e].mode = c.mode
      BY <2>1, <3>1, <3>2, <3>3 DEF Claims
    <3> SUFFICES ASSUME NEW e \in Staff
                 PROVE  Due(e)' = Due(e) + (IF due /\ e = c.e THEN 1 ELSE 0)
      OBVIOUS
    <3>5. CASE e = c.e
      <4>1. Due(e) = 0 /\ (Due(e)' = IF due THEN 1 ELSE 0)
        BY <3>1, <3>4, <3>5 DEF Due
      <4> HIDE DEF due
      <4> QED
        BY <3>5, <4>1
    <3>6. CASE e # c.e
      <4>1. Due(e)' = Due(e)
        BY <3>3, <3>6 DEF Due
      <4> HIDE DEF due
      <4> QED
        BY <1>5, <3>6, <4>1
    <3> QED
      BY <3>5, <3>6
  <2>8. ASSUME calm', NEW e \in Staff
        PROVE  GivenOf(e)' <= Due(e)' /\ (~lapsed' => GivenOf(e)' = Due(e)')
    <3>1. GivenOf(e) <= Due(e) /\ (~lapsed => GivenOf(e) = Due(e)) /\ GivenOf(e) \in Int /\ Due(e) \in Int
      BY <1>1, <1>5, <2>8 DEF ClaimInv
    <3> HIDE DEF due
    <3>2. PICK n \in {0, 1} : GivenOf(e)' = GivenOf(e) + n /\ Due(e)' = Due(e) + n
      BY <1>1, <2>6, <2>7, <2>8
    <3> QED
      BY <2>1, <3>1, <3>2
  <2>9. calls'[h].pc # "claimEmpty"
    BY <2>2 DEF Idle
  <2>10. \A g \in Handlers : calls'[g].pc = "claimEmpty" => lapsed'
    BY <1>7, <2>1, <2>9 DEF ClaimInv
  <2>11. ~lapsed' => \A e \in Staff : RowsOf(e, "empty")' = 0
    BY <2>1, <2>5 DEF ClaimInv
  <2> QED
    BY <2>8, <2>10, <2>11 DEF ClaimInv
<1>r. ASSUME ClaimHours(h) PROVE ClaimInv'
  <2>1. c.pc = "claimHours" /\ c.e \in Overtimers /\ c.e \in Staff /\ UNCHANGED <<claim, lapsed, compRows>>
    BY <1>2, <1>r DEF ClaimHours, ClaimCall, otVars, compVars
  <2>2. \/ lapsed /\ calls'[h] = Idle
        \/ lapsed /\ calls'[h] = [pc |-> "claimEmpty", e |-> c.e]
        \/ calls'[h] = [pc |-> "claimBalance", e |-> c.e]
    <3>1. ~lapsed => compType /\ shiftHours[c.e] = "SET"
      BY <1>2, <2>1 DEF CompOK
    <3>2. calls'[h] = IF shiftHours[c.e] = "NONE" \/ ~compType THEN Idle
                      ELSE [pc |-> IF shiftHours[c.e] = "ZERO" THEN "claimEmpty" ELSE "claimBalance",
                            e |-> c.e]
      BY <1>2, <1>r DEF ClaimHours, Finish, Continue, CallsOK
    <3>3. lapsed \in BOOLEAN
      BY <1>2 DEF CompOK
    <3> QED
      BY <3>1, <3>2, <3>3
  <2>3. \A e \in Staff : Held(e)' = Held(e) \/ (lapsed /\ Held(e)' = Held(e) - 1)
    <3>1. \A e \in Staff : old(e) <=> e = c.e
      BY <2>1 DEF ClaimOwePcs
    <3>2. \/ \A e \in Staff : new(e) <=> e = c.e
          \/ lapsed /\ \A e \in Staff : ~new(e)
      BY <2>2 DEF ClaimOwePcs, Idle
    <3> HIDE DEF old, new
    <3> QED
      BY <1>3, <1>5, <3>1, <3>2
  <2>4. \A e \in Staff : RowsOf(e, "overtime")' = RowsOf(e, "overtime")
                         /\ RowsOf(e, "empty")' = RowsOf(e, "empty")
    BY <2>1, RowsStay
  <2>5. \A e \in Staff : GivenOf(e)' = GivenOf(e) \/ (lapsed /\ GivenOf(e)' = GivenOf(e) - 1)
    BY <1>5, <1>6, <2>3, <2>4
  <2>6. calls'[h].pc = "claimEmpty" => lapsed
    BY <2>2 DEF Idle
  <2>7. \A g \in Handlers : calls'[g].pc = "claimEmpty" => calls[g].pc = "claimEmpty" \/ lapsed
    BY <1>7, <2>6
  <2> QED
    BY <1>1, <2>1, <2>4, <2>5, <2>7, ClaimsSame
<1>b. ASSUME ClaimBalance(h) PROVE ClaimInv'
  <2>1. /\ c.pc = "claimBalance" /\ calls'[h].pc = "claimRow" /\ calls'[h].e = c.e
        /\ UNCHANGED <<claim, lapsed, compRows>>
    BY <1>2, <1>b DEF ClaimBalance, CreditBalance, ClaimCall, Continue, CallsOK, otVars
  <2>2. \A e \in Staff : old(e) <=> new(e)
    BY <2>1 DEF ClaimOwePcs
  <2>3. \A e \in Staff : Held(e)' = Held(e)
    <3> HIDE DEF old, new
    <3> QED
      BY <1>3, <1>5, <2>2
  <2>4. \A x \in Staff : GivenOf(x)' = GivenOf(x) /\ RowsOf(x, "empty")' = RowsOf(x, "empty")
    BY <1>6, <2>1, <2>3, RowsStay
  <2>5. \A g \in Handlers : calls'[g].pc = "claimEmpty" => calls[g].pc = "claimEmpty"
    BY <1>7, <2>1
  <2> QED
    BY <1>1, <2>1, <2>4, <2>5, ClaimsSame
<1>e. ASSUME ClaimRow(h) \/ ClaimEmpty(h) PROVE ClaimInv'
  <2>1. PICK s \in {"overtime", "empty"} : CreditRow(c.e, s) /\ (s = "empty" => c.pc = "claimEmpty")
    BY <1>e DEF ClaimRow, ClaimEmpty
  <2>2. c.pc \in {"claimRow", "claimEmpty"} /\ c.e \in Staff /\ calls'[h] = Idle
    BY <1>2, <1>e DEF ClaimRow, ClaimEmpty, ClaimCall, Finish, Continue, CallsOK
  <2>3. UNCHANGED <<claim, lapsed>>
    BY <1>e, <2>1 DEF ClaimRow, ClaimEmpty, otVars, CreditRow
  <2>4. \A e \in Staff : ~new(e) /\ (old(e) <=> e = c.e)
    BY <2>2 DEF ClaimOwePcs, Idle
  <2>5. \A e \in Staff : Held(e)' = Held(e) - (IF e = c.e THEN 1 ELSE 0)
    <3> HIDE DEF old, new
    <3> QED
      BY <1>3, <1>5, <2>4
  <2>6. \A e \in Staff, t \in {"overtime", "empty"} :
          RowsOf(e, t)' = RowsOf(e, t) + (IF e = c.e /\ t = s THEN 1 ELSE 0)
    BY <1>2, <2>1, <2>2, RowsGrow DEF CompSources
  <2>7. \A e \in Staff : GivenOf(e)' = GivenOf(e)
    <3> SUFFICES ASSUME NEW e \in Staff PROVE GivenOf(e)' = GivenOf(e)
      OBVIOUS
    <3>1. CASE s = "overtime"
      BY <1>5, <1>6, <2>5, <2>6, <3>1
    <3>2. CASE s = "empty"
      BY <1>5, <1>6, <2>5, <2>6, <3>2
    <3> QED
      BY <2>1, <3>1, <3>2
  <2>8. \A e \in Staff : RowsOf(e, "empty")' = RowsOf(e, "empty") \/ lapsed
    <3>1. CASE s = "overtime"
      BY <1>5, <2>6, <3>1
    <3>2. CASE s = "empty"
      BY <2>1, <3>2 DEF ClaimInv
    <3> QED
      BY <2>1, <3>1, <3>2
  <2>9. \A g \in Handlers : calls'[g].pc = "claimEmpty" => calls[g].pc = "claimEmpty"
    BY <1>7, <2>2 DEF Idle
  <2> QED
    BY <1>1, <2>3, <2>7, <2>8, <2>9, ClaimsSame
<1> QED
  BY <1>d, <1>w, <1>r, <1>b, <1>e DEF ClaimStep

LEMMA ClaimNew ==
  ASSUME Shape, ClaimInv, ClaimAtOnce
  PROVE  ClaimInv'
<1>0. AtOnce /\ UNCHANGED calls /\ (calm' => calm) /\ UNCHANGED compRows
  BY AtOnceCalm
  DEF ClaimAtOnce, AtOnce, createOvertimeClaim, moveReport, SetupEdit, designate, setShiftHours, compVars
<1>1. \A e \in Staff : /\ RowsOf(e, "overtime")' = RowsOf(e, "overtime")
                       /\ RowsOf(e, "empty")' = RowsOf(e, "empty")
                       /\ Held(e)' = Held(e)
  BY <1>0, RowsStay, HoldersStay DEF Held
<1>2. \A e \in Staff : GivenOf(e)' = GivenOf(e)
  BY <1>1 DEF GivenOf
<1>3. ASSUME NEW e \in Overtimers, NEW mode \in {"CASH", "COMP_OFF"}, createOvertimeClaim(e, mode)
      PROVE  ClaimInv'
  <2>1. /\ claim[e] = NoClaim /\ UNCHANGED lapsed
        /\ claim' = [claim EXCEPT ![e] = [mode |-> mode,
             status |-> IF managerOf[e] = NoOne THEN "PENDING_HR" ELSE "PENDING_MANAGER"]]
    BY <1>3 DEF createOvertimeClaim, compVars
  <2>2. claim \in [Staff -> Claims]
    BY DEF Shape, CompOK
  <2>3. \A x \in Staff : Due(x)' = Due(x)
    BY <2>1, <2>2 DEF Due, NoClaim
  <2> QED
    BY <1>0, <1>1, <1>2, <2>1, <2>3 DEF ClaimInv
<1>4. ASSUME UNCHANGED claim, lapsed => lapsed' PROVE ClaimInv'
  <2>1. \A x \in Staff : Due(x)' = Due(x)
    BY <1>4 DEF Due
  <2> QED
    BY <1>0, <1>1, <1>2, <1>4, <2>1 DEF ClaimInv
<1>5. CASE SetupEdit \/ \E e \in Overtimers, m \in {NoOne} \cup Managers : moveReport(e, m)
  <2>1. ASSUME SetupEdit PROVE UNCHANGED claim /\ (lapsed => lapsed')
    BY <2>1 DEF SetupEdit, designate, setShiftHours, otVars
  <2>2. ASSUME NEW e \in Overtimers, NEW m \in {NoOne} \cup Managers, moveReport(e, m)
        PROVE  UNCHANGED claim /\ (lapsed => lapsed')
    BY <2>2 DEF moveReport, compVars
  <2> QED
    BY <1>4, <1>5, <2>1, <2>2
<1> QED
  BY <1>3, <1>5 DEF ClaimAtOnce

LEMMA ClaimStays ==
  ASSUME Shape, CompInv, ClaimInv, [AttendanceNext]_attendanceVars
  PROVE  ClaimInv'
<1>1. ASSUME NEW h \in Handlers, CallStep(h) PROVE ClaimInv'
  <2>1. ASSUME NEW P, P \in {ClockPcs \cup CompPcs, CompPcs, DisputePcs, JobPcs, ShiftPcs}, Moves(h, P),
               UNCHANGED <<claim, lapsed>>,
               \A e \in Staff : RowsOf(e, "overtime")' = RowsOf(e, "overtime")
                                /\ RowsOf(e, "empty")' = RowsOf(e, "empty")
        PROVE  ClaimInv'
    <3>1. P \subseteq ClockPcs \cup CompPcs \cup DisputePcs \cup JobPcs \cup ShiftPcs
      BY <2>1
    <3>2. Moves(h, ClockPcs \cup CompPcs \cup DisputePcs \cup JobPcs \cup ShiftPcs)
      BY <2>1, <3>1, MovesWider
    <3> QED
      BY <2>1, <3>2, ClaimsElsewhere
  <2>2. CASE ClockStep(h) \/ DisputeStep(h) \/ JobStep(h) \/ ShiftStep(h)
    <3>1. UNCHANGED <<compRows, claim, lapsed>>
      BY <2>2 DEF ClockStep, DisputeStep, JobStep, ShiftStep, sideTables, otVars, compVars
    <3>2. \E P \in {ClockPcs \cup CompPcs, CompPcs, DisputePcs, JobPcs, ShiftPcs} : Moves(h, P)
      BY <2>2 DEF ClockStep, DisputeStep, JobStep, ShiftStep
    <3> QED
      BY <2>1, <3>1, <3>2, RowsStay
  <2>3. CASE CompStep(h)
    <3>1. Moves(h, CompPcs) /\ UNCHANGED claim
      BY <2>3 DEF CompStep, otVars
    <3>2. UNCHANGED compRows \/ CompRow(h)
      BY <2>3 DEF CompStep, creditCompOff, CompLook, CompBalance, CreditBalance, compVars
    <3>3. UNCHANGED lapsed
      BY <2>3 DEF CompStep, creditCompOff, CompLook, CompBalance, CreditBalance, CompRow, CreditRow, compVars
    <3>4. ASSUME CompRow(h)
          PROVE  \A e \in Staff : RowsOf(e, "overtime")' = RowsOf(e, "overtime")
                                  /\ RowsOf(e, "empty")' = RowsOf(e, "empty")
      <4>1. calls[h].e \in Staff /\ CreditRow(calls[h].e, "holiday")
        BY <3>4 DEF CompRow, Shape, CallsOK, CallOK, CompCall
      <4>2. /\ CompOK /\ today \in Days
            /\ "holiday" \in CompSources /\ "overtime" \in CompSources /\ "empty" \in CompSources
        BY DEF Shape, DaysOK, CompSources
      <4>3. PICK x \in Staff : x = calls[h].e
        BY <4>1
      <4>4. \A e \in Staff, t \in CompSources :
              RowsOf(e, t)' = RowsOf(e, t) + (IF e = x /\ t = "holiday" THEN 1 ELSE 0)
        BY <4>1, <4>2, <4>3, RowsGrow
      <4>5. \A e \in Staff : RowsOf(e, "overtime") \in Int /\ RowsOf(e, "empty") \in Int
        BY GivenType
      <4> QED
        BY <4>2, <4>4, <4>5
    <3> QED
      BY <2>1, <3>1, <3>2, <3>3, <3>4, RowsStay
  <2>4. CASE ClaimStep(h)
    BY <2>4, ClaimMoves
  <2>5. CASE LostStep(h)
    <3>1. /\ calm' = FALSE /\ UNCHANGED <<compRows, lapsed>>
          /\ \A g \in Handlers : calls'[g].pc = "claimEmpty" => calls[g].pc = "claimEmpty"
      BY <2>5 DEF LostStep, sideTables, compVars, Idle, Shape, CallsOK
    <3> QED
      BY <3>1, RowsStay DEF ClaimInv
  <2> QED
    BY <1>1, <2>2, <2>3, <2>4, <2>5 DEF CallStep
<1>2. CASE OfficeStep \/ DayStepOn \/ UNCHANGED attendanceVars
  <2>1. UNCHANGED <<compRows, claim, lapsed>> /\ (AtOnce \/ UNCHANGED callVars)
    BY <1>2 DEF OfficeStep, DayStepOn, sideTables, otVars, compVars, attendanceVars
  <2>2. \A e \in Staff : RowsOf(e, "overtime")' = RowsOf(e, "overtime")
                         /\ RowsOf(e, "empty")' = RowsOf(e, "empty")
    BY <2>1, RowsStay
  <2> QED
    BY <2>1, <2>2, ClaimsElsewhere
<1> QED
  BY <1>1, <1>2, EveryStep, ClaimNew

LEMMA ClaimInvInit == AttendanceInit => ClaimInv
<1> SUFFICES ASSUME AttendanceInit PROVE ClaimInv
  OBVIOUS
<1>1. /\ calls = [h \in Handlers |-> Idle]
      /\ compRows = [e \in Staff |-> [d \in Days |-> [s \in CompSources |-> 0]]]
      /\ claim = [e \in Staff |-> NoClaim]
  BY DEF AttendanceInit, CallsInit, CompInit, OtInit
<1>2. IsFiniteSet(Days)
  BY CompOffAssumption, FS_Interval DEF Days
<1>3. \A e \in Staff : RowsOf(e, "overtime") = 0 /\ RowsOf(e, "empty") = 0
  BY <1>1, <1>2, SumZero DEF RowsOf, CompSources
<1>4. \A e : Held(e) = 0
  BY <1>1, FS_EmptySet DEF Held, Holders, ClaimOwePcs, Idle
<1>5. \A e \in Staff : GivenOf(e) = 0 /\ Due(e) = 0
  BY <1>1, <1>3, <1>4 DEF GivenOf, Due, NoClaim
<1>6. \A h \in Handlers : calls[h].pc # "claimEmpty"
  BY <1>1 DEF Idle
<1> QED
  BY <1>3, <1>5, <1>6 DEF ClaimInv

LEMMA ClaimsHold == AttendanceSpec => []ClaimInv
BY ClaimInvInit, ClaimStays, ShapeHolds, CompHolds, PTL DEF AttendanceSpec

(* Comp-off days are credited once for each cause and never in the ledger   *)
(* alone: creditCompOff() looks for a row of the day before it credits, and *)
(* every credit writes the balance first (leave.service.ts).  Where nothing *)
(* is credited, for want of a comp-off type or of shift hours, a claim has  *)
(* no row of its days either.                                               *)
THEOREM CompOffIsCredited == AttendanceSpec => []CompOffAddsUp
<1>1. Shape /\ CompInv /\ ClaimInv => CompOffAddsUp
  <2> SUFFICES ASSUME Shape, CompInv, ClaimInv PROVE CompOffAddsUp
    OBVIOUS
  <2>1. \A e \in Staff : /\ RowsOf(e, "holiday") \in Int /\ RowsOf(e, "overtime") \in Int
                         /\ RowsOf(e, "empty") \in Int /\ compAccrued[e] \in Int
    BY RowsType DEF Shape, CompOK, CompSources
  <2>2. \A e \in Staff : Cardinality(Holders(OwePcs, e)) \in Nat
    <3> SUFFICES ASSUME NEW e \in Staff PROVE Cardinality(Holders(OwePcs, e)) \in Nat
      OBVIOUS
    <3>1. Holders(OwePcs, e) \subseteq Running
      BY DEF Holders, Running, Idle, OwePcs
    <3> QED
      BY <3>1, FS_Subset, FS_CardinalityType DEF Shape, CallsOK
  <2>3. CompOffLedgerNeverAhead
    BY <2>1, <2>2 DEF CompInv, Credited, CompOffLedgerNeverAhead
  <2>4. Quiet => \A e \in Staff : Cardinality(Holders(OwePcs, e)) = 0 /\ Held(e) = 0
    <3> SUFFICES ASSUME Quiet, NEW e \in Staff
                 PROVE  Holders(OwePcs, e) = {} /\ Holders(ClaimOwePcs, e) = {}
      BY FS_EmptySet DEF Held
    <3> QED
      BY DEF Quiet, Running, Holders, Idle, OwePcs, ClaimOwePcs
  <2>5. CompOffOnce
    BY <2>1, <2>4 DEF CompInv, Credited, CompOffOnce
  <2>6. ASSUME calm, Quiet, NEW e \in Staff
        PROVE  /\ RowsOf(e, "overtime") + RowsOf(e, "empty") <= Due(e)
               /\ lapsed \/ RowsOf(e, "overtime") = Due(e)
    <3>1. GivenOf(e) = RowsOf(e, "overtime") + RowsOf(e, "empty")
      BY <2>1, <2>4, <2>6 DEF GivenOf
    <3> QED
      BY <2>1, <2>6, <3>1 DEF ClaimInv
  <2>7. ClaimCreditedOnce
    BY <2>6 DEF ClaimCreditedOnce, Due
  <2> QED
    BY <2>3, <2>5, <2>7 DEF CompOffAddsUp
<1> QED
  BY <1>1, ShapeHolds, CompHolds, ClaimsHold, PTL
----------------------------------------------------------------------------
(* Days and requests: why a record says what it says.                       *)
Undecided(i) == req[i].status = "PENDING"
SoonRejected(k) ==
  \/ RejectedFor(k)
  \/ \E h \in Handlers : /\ calls[h].pc = "decide" /\ calls[h].status = "REJECTED"
                         /\ req[calls[h].i].k = k
AbsenceOK(k) ==
  rec[k].status = "ABSENT" /\ (rec[k].in # "none" \/ leave[k] = "marked") =>
    SoonRejected(k) \/ rec[k].source = "MANUAL"
LeaveOK(k) ==
  leave[k] = "marked" =>
    \/ rec[k].status \in {"ON_LEAVE", "PENDING_REGULARIZATION"} \/ rec[k].in # "none"
    \/ rec[k].source = "MANUAL" \/ SoonRejected(k) \/ Punched(punch[k])
Asked(k) ==
  \E i \in Requests : req[i].status \in {"PENDING", "CANCELLED"} /\ req[i].k = k /\ req[i].linked
Resolving(h, k) ==
  calls[h].pc = "cutoffRecord" /\ req[calls[h].i].k = k /\ req[calls[h].i].linked
DisputeOK(k) ==
  rec[k].status = "PENDING_REGULARIZATION" => Asked(k) \/ \E h \in Handlers : Resolving(h, k)
SlotOK(k) == AbsenceOK(k) /\ LeaveOK(k) /\ DisputeOK(k)
BreakOK(k) == breaks[k] <= 1 /\ (breaks[k] = 1 /\ rec[k].out => rec[k].source # "WEB")

(* What a call on a calm tenant has read and still holds.                   *)
DayRead(c) ==
  /\ c.pc \in {"clockOut", "startBreak"} => breaks[c.k] = 0
  /\ c.pc = "startBreak" => ~rec[c.k].out
  /\ c.pc = "request" => BelowCap(c.k[1]) /\ (c.linked => Exists(rec[c.k]))
  /\ c.pc = "dispute" => \E i \in Requests : Undecided(i) /\ req[i].k = c.k /\ req[i].linked
  /\ c.pc \in {"decide", "approveRecord", "rejectRecord"} => Undecided(c.i)
  /\ c.pc = "rejectRecord" => req[c.i].linked
  /\ c.pc = "decide" /\ c.status # "CANCELLED" /\ req[c.i].linked =>
       rec[req[c.i].k].status # "PENDING_REGULARIZATION"
  /\ c.pc = "finalize" => \A e \in c.todo : ~HasOutcome(rec[<<e, c.d>>])
  /\ c.pc \in {"cutoff", "cutoffRecord"} =>
       \A i \in c.todo : Undecided(i) /\ (req[i].linked => i \in c.links)
  /\ c.pc = "cutoffRecord" =>
       /\ req[c.i].linked => c.i \in c.links
       /\ req[c.i].status = IF c.approve THEN "APPROVED" ELSE "REJECTED"

WithinCap == \A e \in Staff : CountThisMonth(e) <= widest

DaysInv == calm =>
  /\ \A h \in Handlers : DayRead(calls[h])
  /\ \A k \in Slots : SlotOK(k) /\ BreakOK(k)
  /\ WithinCap

LEMMA IdleDayRead == DayRead(Idle)
BY DEF DayRead, Idle

(* All of a record but its check-out time stays.                            *)
SameDay(k) ==
  rec'[k].status = rec[k].status /\ rec'[k].in = rec[k].in /\ rec'[k].source = rec[k].source

(* A call moves on while the requests and the leave stay.                   *)
LEMMA DaysMoved ==
  ASSUME Shape, Alone, DaysInv, NEW h \in Handlers, NEW P, Moves(h, P), UNCHANGED req, UNCHANGED leave,
         UNCHANGED widest,
         calls[h].pc # "decide",
         \A k \in Slots : Punched(punch[k]) => Punched(punch'[k]),
         calm /\ calm' =>
           /\ DayRead(calls[h])'
           /\ \A k \in Slots : \/ SameDay(k) /\ ~Resolving(h, k)
                               \/ SlotOK(k)'
           /\ \A k \in Slots : BreakOK(k)'
  PROVE  DaysInv'
<1> SUFFICES ASSUME calm' PROVE /\ \A g \in Handlers : DayRead(calls[g])'
                                /\ \A k \in Slots : SlotOK(k)' /\ BreakOK(k)'
                                /\ WithinCap'
  BY DEF DaysInv
<1>1. calm /\ \A g \in Handlers \ {h} : calls[g] = Idle /\ calls'[g] = Idle
  BY SoleCall DEF Shape
<1>2. ASSUME NEW g \in Handlers PROVE DayRead(calls[g])'
  <2>1. CASE g = h
    BY <1>1, <2>1
  <2>2. CASE g # h
    <3>1. calls'[g] = Idle
      BY <1>1, <2>2
    <3>2. DayRead(Idle)'
      BY DEF DayRead, Idle
    <3> QED
      BY <3>1, <3>2
  <2> QED
    BY <2>1, <2>2
<1>3. WithinCap'
  BY <1>1 DEF DaysInv, WithinCap, CountThisMonth
<1>4. ASSUME NEW k \in Slots, SameDay(k), ~Resolving(h, k) PROVE SlotOK(k)'
  <2>1. SlotOK(k)
    BY <1>1 DEF DaysInv
  <2>2. SoonRejected(k) => SoonRejected(k)'
    <3>1. \A g \in Handlers : calls[g].pc # "decide"
      BY <1>1 DEF Idle
    <3> QED
      BY <3>1 DEF SoonRejected, RejectedFor
  <2>3. AbsenceOK(k)' /\ LeaveOK(k)'
    BY <1>4, <2>1, <2>2 DEF SlotOK, AbsenceOK, LeaveOK, SameDay
  <2>4. ~\E g \in Handlers : Resolving(g, k)
    BY <1>1, <1>4 DEF Resolving, Idle
  <2>5. DisputeOK(k)'
    BY <1>4, <2>1, <2>4 DEF SlotOK, DisputeOK, Asked, SameDay
  <2> QED
    BY <2>3, <2>5 DEF SlotOK
<1> QED
  BY <1>1, <1>2, <1>3, <1>4

(* A call that leaves the days and the requests alone.                      *)
LEMMA DaysSame ==
  ASSUME Shape, Alone, DaysInv, NEW h \in Handlers, NEW P, Moves(h, P),
         UNCHANGED rec, UNCHANGED breaks, UNCHANGED req, UNCHANGED leave, UNCHANGED widest,
         \A k \in Slots : Punched(punch[k]) => Punched(punch'[k]),
         calls[h].pc \notin {"decide", "cutoffRecord"},
         calm => DayRead(calls[h])'
  PROVE  DaysInv'
<1>1. \A k \in Slots : SameDay(k) /\ ~Resolving(h, k)
  BY DEF Resolving, SameDay
<1>2. calm => \A k \in Slots : BreakOK(k)'
  BY DEF DaysInv, BreakOK
<1> QED
  BY <1>1, <1>2, DaysMoved

LEMMA DaysElsewhere ==
  ASSUME Shape, Alone, DaysInv, UNCHANGED attVars,
         \/ UNCHANGED callVars \/ AtOnce
         \/ \E h \in Handlers : Moves(h, CompPcs \cup ClaimPcs \cup ShiftPcs)
  PROVE  DaysInv'
<1>1. UNCHANGED rec /\ UNCHANGED breaks /\ UNCHANGED req /\ UNCHANGED leave /\ UNCHANGED punch
      /\ UNCHANGED limits /\ UNCHANGED widest
  BY DEF attVars
<1>2. CASE UNCHANGED callVars \/ AtOnce
  <2>1. UNCHANGED calls /\ (calm' => calm)
    BY <1>2, AtOnceCalm DEF callVars
  <2>2. calm' => \A h \in Handlers : DayRead(calls[h])'
    <3>1. /\ \A e : BelowCap(e) => BelowCap(e)'
          /\ \A i : Undecided(i) => Undecided(i)'
      BY <1>1 DEF BelowCap, CountThisMonth, Undecided
    <3> SUFFICES ASSUME calm', NEW h \in Handlers PROVE DayRead(calls[h])'
      OBVIOUS
    <3>2. PICK c : c = calls[h]
      OBVIOUS
    <3>3. DayRead(c) /\ calls'[h] = c
      BY <2>1, <3>2 DEF DaysInv
    <3>4. DayRead(c)'
      BY <1>1, <3>1, <3>3 DEF DayRead
    <3> QED
      BY <3>3, <3>4
  <2>3. calm' => \A k \in Slots : SlotOK(k)' /\ BreakOK(k)'
    BY <1>1, <2>1 DEF DaysInv, SlotOK, AbsenceOK, LeaveOK, DisputeOK, SoonRejected, RejectedFor, Asked, Resolving, BreakOK
  <2>4. calm' => WithinCap'
    BY <1>1, <2>1 DEF DaysInv, WithinCap, CountThisMonth
  <2> QED
    BY <2>2, <2>3, <2>4 DEF DaysInv
<1>3. ASSUME NEW h \in Handlers, Moves(h, CompPcs \cup ClaimPcs \cup ShiftPcs) PROVE DaysInv'
  <2>1. calls[h].pc \notin {"decide", "cutoffRecord"}
        /\ calls'[h].pc \notin ClockPcs \cup DisputePcs \cup JobPcs
    BY <1>3 DEF Moves, CompPcs, ClaimPcs, ShiftPcs, ClockPcs, DisputePcs, JobPcs
  <2>2. DayRead(calls[h])'
    BY <2>1 DEF DayRead, ClockPcs, DisputePcs, JobPcs
  <2> QED
    BY <1>1, <1>3, <2>1, <2>2, DaysSame
<1> QED
  BY <1>2, <1>3

LEMMA DaysClock ==
  ASSUME Shape, Alone, DaysInv, NEW h \in Handlers, ClockStep(h)
  PROVE  DaysInv'
<1> DEFINE c == calls[h]
           P == ClockPcs \cup CompPcs
<1>1. Moves(h, P) /\ UNCHANGED req /\ UNCHANGED leave /\ UNCHANGED widest
  BY DEF ClockStep, clockIn, ClockInRecord, PunchIn, clockOut, startBreak, endBreak, ClockOutRecord,
     PunchOut, CreateBreak, CloseBreak, attUntouched, attVars
<1>2. CallsOK /\ CallOK(c, req) /\ ClockCall(c) /\ DaysOK
      /\ c.pc \notin {"decide", "cutoffRecord"} /\ \A k : ~Resolving(h, k)
  <2>1. c.pc \in P \cup {"idle"}
    BY <1>1 DEF Moves
  <2> QED
    BY <2>1 DEF Shape, CallsOK, CallOK, ClockPcs, CompPcs, Resolving
<1> HIDE DEF P
<1>3. ASSUME NEW e \in Staff,
             clockOut(h, e) \/ startBreak(h, e) \/ endBreak(h, e)
                \/ \E in \in {"ontime", "late"} : clockIn(h, e, in)
      PROVE  DaysInv'
  <2>1. /\ UNCHANGED attVars /\ calls'[h].pc \in {"clockIn", "clockOut", "startBreak", "endBreak"}
        /\ calls'[h].pc \in {"clockOut", "startBreak"} =>
             calls'[h].k = <<e, today>> /\ breaks[<<e, today>>] = 0 /\ ~rec[<<e, today>>].out
    BY <1>2, <1>3 DEF clockOut, startBreak, endBreak, clockIn, ClockedIn, Begin, CallsOK
  <2>2. UNCHANGED rec /\ UNCHANGED breaks /\ UNCHANGED punch
    BY <2>1 DEF attVars
  <2>3. DayRead(calls[h])'
    BY <2>1, <2>2 DEF DayRead
  <2> QED
    BY <1>1, <1>2, <2>2, <2>3, DaysSame
<1>4. ASSUME PunchIn(h) \/ PunchOut(h) PROVE DaysInv'
  <2>1. UNCHANGED rec /\ UNCHANGED breaks /\ c.k \in Slots /\ calls'[h].pc \in {"idle", "compOff"}
        /\ (PunchIn(h) => c.in # "none")
    BY <1>2, <1>4 DEF PunchIn, PunchOut, ClockCall, Finish, Continue, CallsOK, Idle
  <2>2. \A k \in Slots : Punched(punch[k]) => Punched(punch'[k])
    <3>1. CASE UNCHANGED punch
      BY <3>1
    <3>2. CASE punch' = [punch EXCEPT ![c.k].in = IF punch[c.k].in = "none" THEN c.in ELSE punch[c.k].in]
      BY <1>2, <2>1, <3>2 DEF Punched, DaysOK, Punches
    <3>3. CASE punch' = [punch EXCEPT ![c.k].out = TRUE]
      BY <1>2, <2>1, <3>3 DEF Punched, DaysOK, Punches
    <3> QED
      BY <1>4, <3>1, <3>2, <3>3 DEF PunchIn, PunchOut
  <2>3. DayRead(calls[h])'
    BY <2>1 DEF DayRead
  <2> QED
    BY <1>1, <1>2, <2>1, <2>2, <2>3, DaysSame
<1>5. ASSUME ClockInRecord(h) PROVE DaysInv'
  <2>1. /\ c \in [pc: {"clockIn", "punchIn"}, k: Slots, base: Bases, in: {"ontime", "late"}]
        /\ rec' = [rec EXCEPT ![c.k] = [status |-> ClockInStatus(c.base, c.in), in |-> c.in,
                                        out |-> FALSE, source |-> "WEB"]]
        /\ calls'[h].pc = "punchIn" /\ UNCHANGED breaks /\ UNCHANGED punch
    BY <1>2, <1>5 DEF ClockInRecord, ClockCall, Continue, CallsOK, attUntouched
  <2>2. ClockInStatus(c.base, c.in) \notin {"ABSENT", "PENDING_REGULARIZATION"} /\ c.in # "none"
    BY <2>1 DEF ClockInStatus, Late, Bases
  <2>3. \A k \in Slots : rec'[k] = IF k = c.k THEN [status |-> ClockInStatus(c.base, c.in), in |-> c.in,
                                                    out |-> FALSE, source |-> "WEB"] ELSE rec[k]
    BY <1>2, <2>1 DEF DaysOK
  <2>4. \A k \in Slots : k = c.k => SlotOK(k)'
    BY <2>2, <2>3 DEF SlotOK, AbsenceOK, LeaveOK, DisputeOK
  <2>5. \A k \in Slots : SameDay(k) \/ SlotOK(k)'
    BY <2>3, <2>4 DEF SameDay
  <2>6. calm => \A k \in Slots : BreakOK(k)'
    BY <2>1, <2>3 DEF DaysInv, BreakOK
  <2>7. DayRead(calls[h])'
    BY <2>1 DEF DayRead
  <2> QED
    BY <1>1, <1>2, <2>1, <2>5, <2>6, <2>7, DaysMoved
<1>6. ASSUME ClockOutRecord(h) PROVE DaysInv'
  <2>1. /\ c.k \in Slots /\ c.pc = "clockOut" /\ rec' = [rec EXCEPT ![c.k] = [rec[c.k] EXCEPT !.out = TRUE]]
        /\ calls'[h].pc = "punchOut" /\ UNCHANGED breaks /\ UNCHANGED punch /\ rec[c.k] \in Records
    BY <1>2, <1>6 DEF ClockOutRecord, ClockCall, Continue, CallsOK, attUntouched, DaysOK
  <2>2. /\ [rec[c.k] EXCEPT !.out = TRUE].status = rec[c.k].status
        /\ [rec[c.k] EXCEPT !.out = TRUE].in = rec[c.k].in
        /\ [rec[c.k] EXCEPT !.out = TRUE].source = rec[c.k].source
    BY <2>1 DEF Records
  <2>3. \A k \in Slots : SameDay(k) /\ (k # c.k => rec'[k] = rec[k])
    BY <1>2, <2>1, <2>2 DEF SameDay, DaysOK
  <2>4. calm => \A k \in Slots : BreakOK(k)'
    <3>1. calm => breaks[c.k] = 0
      BY <2>1 DEF DaysInv, DayRead
    <3>2. calm => \A k \in Slots : BreakOK(k)
      BY DEF DaysInv
    <3> QED
      BY <1>2, <2>1, <2>3, <3>1, <3>2 DEF BreakOK, DaysOK
  <2>5. DayRead(calls[h])'
    BY <2>1 DEF DayRead
  <2>6. \A k \in Slots : Punched(punch[k]) => Punched(punch'[k])
    BY <2>1
  <2> QED
    BY <1>1, <1>2, <2>3, <2>4, <2>5, <2>6, DaysMoved
<1>7. ASSUME CreateBreak(h) \/ CloseBreak(h) PROVE DaysInv'
  <2>1. UNCHANGED rec /\ UNCHANGED punch /\ c.k \in Slots /\ calls'[h] = Idle
    BY <1>2, <1>7 DEF CreateBreak, CloseBreak, ClockCall, Finish, Continue, CallsOK, attUntouched
  <2>2. \A k \in Slots : SameDay(k)
    BY <2>1 DEF SameDay
  <2>3. ASSUME calm PROVE \A k \in Slots : BreakOK(k)'
    <3>1. CASE CreateBreak(h)
      <4>1. breaks[c.k] = 0 /\ ~rec[c.k].out /\ breaks' = [breaks EXCEPT ![c.k] = breaks[c.k] + 1]
        BY <2>3, <3>1 DEF CreateBreak, DaysInv, DayRead
      <4> QED
        BY <1>2, <2>1, <2>3, <4>1 DEF DaysInv, BreakOK, DaysOK
    <3>2. CASE CloseBreak(h)
      <4>1. \A k \in Slots : breaks'[k] \in Nat /\ breaks'[k] <= breaks[k] /\ breaks[k] \in Nat
        BY <1>2, <2>1, <3>2 DEF CloseBreak, DaysOK
      <4> QED
        BY <2>1, <2>3, <4>1 DEF DaysInv, BreakOK
    <3> QED
      BY <1>7, <3>1, <3>2
  <2>4. DayRead(calls[h])'
    BY <2>1 DEF DayRead, Idle
  <2> QED
    BY <1>1, <1>2, <2>1, <2>2, <2>3, <2>4, DaysMoved
<1> QED
  BY <1>3, <1>4, <1>5, <1>6, <1>7 DEF ClockStep

(* Regularizations: what the calls read ...                                 *)
LEMMA DaysAsked ==
  ASSUME Shape, Alone, DaysInv, NEW h \in Handlers, Moves(h, DisputePcs),
         \/ \E e \in Staff, d \in Days, ask \in Asks : requestRegularization(h, e, d, ask)
         \/ \E i \in Requests : \/ cancelRegularization(h, i)
                                \/ \E u \in Admins \cup LineManagers :
                                     approveRegularization(h, u, i) \/ rejectRegularization(h, u, i)
  PROVE  DaysInv'
<1>1. CallsOK /\ calls[h] = Idle /\ UNCHANGED attVars
  BY DEF Shape, requestRegularization, cancelRegularization, approveRegularization, rejectRegularization, Begin
<1>2. UNCHANGED rec /\ UNCHANGED breaks /\ UNCHANGED req /\ UNCHANGED leave /\ UNCHANGED punch
      /\ UNCHANGED limits /\ UNCHANGED widest
  BY <1>1 DEF attVars
<1>3. ASSUME NEW e \in Staff, NEW d \in Days, NEW ask \in Asks, requestRegularization(h, e, d, ask)
      PROVE  DayRead(calls[h])'
  <2>1. /\ calls'[h].pc = "request" /\ calls'[h].k = <<e, d>> /\ BelowCap(e)
        /\ calls'[h].linked = Exists(rec[<<e, d>>])
    BY <1>1, <1>3 DEF requestRegularization, Begin, CallsOK
  <2>2. BelowCap(e)'
    BY <1>2, <2>1 DEF BelowCap, CountThisMonth
  <2> QED
    BY <1>2, <2>1, <2>2 DEF DayRead, BelowCap, CountThisMonth
<1>4. ASSUME NEW i \in Requests, cancelRegularization(h, i) PROVE DayRead(calls[h])'
  <2>1. /\ calls'[h].pc = "decide" /\ calls'[h].i = i /\ calls'[h].status = "CANCELLED"
        /\ Undecided(i)
    BY <1>1, <1>4 DEF cancelRegularization, Begin, CallsOK, Undecided
  <2> QED
    BY <1>2, <2>1 DEF DayRead, Undecided
<1>5. ASSUME NEW i \in Requests, NEW u \in Admins \cup LineManagers, approveRegularization(h, u, i)
      PROVE  DayRead(calls[h])'
  <2>1. calls'[h].pc = "approveRecord" /\ calls'[h].i = i /\ Undecided(i)
    <3>1. PICK r : Begin(h, r) /\ r.pc = "approveRecord" /\ r.i = i
      BY <1>5 DEF approveRegularization
    <3>2. calls'[h] = r
      BY <1>1, <3>1 DEF Begin, CallsOK
    <3> QED
      BY <1>5, <3>1, <3>2 DEF approveRegularization, Undecided
  <2> QED
    BY <1>2, <2>1 DEF DayRead, Undecided
<1>6. ASSUME NEW i \in Requests, NEW u \in Admins \cup LineManagers, rejectRegularization(h, u, i)
      PROVE  DayRead(calls[h])'
  <2>1. /\ calls'[h].pc \in {"rejectRecord", "decide"} /\ calls'[h].i = i /\ Undecided(i)
        /\ calls'[h].pc = "rejectRecord" <=> req[i].linked
    BY <1>1, <1>6 DEF rejectRegularization, Begin, CallsOK, Undecided
  <2> QED
    BY <1>2, <2>1 DEF DayRead, Undecided
<1>7. DayRead(calls[h])'
  BY <1>3, <1>4, <1>5, <1>6
<1> QED
  BY <1>1, <1>2, <1>7, DaysSame DEF Idle

(* ... and the records they write.                                          *)
LEMMA DaysDisputed ==
  ASSUME Shape, Alone, DaysInv, NEW h \in Handlers, Moves(h, DisputePcs),
         FlagDispute(h) \/ ApproveRecord(h) \/ RejectRecord(h)
  PROVE  DaysInv'
<1> DEFINE c == calls[h]
<1>1. /\ CallsOK /\ DisputeCall(c, req) /\ DaysOK
      /\ UNCHANGED req /\ UNCHANGED leave /\ UNCHANGED punch /\ UNCHANGED breaks /\ UNCHANGED widest
      /\ c.pc \in {"dispute", "approveRecord", "rejectRecord"} /\ c.k \in Slots /\ rec[c.k] \in Records
      /\ \A k \in Slots : ~Resolving(h, k)
  <2>1. CallOK(c, req) /\ c.pc \in {"dispute", "approveRecord", "rejectRecord"}
    BY DEF Shape, CallsOK, FlagDispute, ApproveRecord, RejectRecord
  <2>2. c.k \in Slots
    BY <2>1 DEF CallOK, DisputeCall
  <2> QED
    BY <2>1, <2>2 DEF Shape, CallOK, DaysOK, FlagDispute, ApproveRecord, RejectRecord, attUntouched, Resolving
<1>2. calm' => calm
  BY DEF Moves
<1>3. ASSUME FlagDispute(h), calm
      PROVE  /\ DayRead(calls[h])' /\ \A k \in Slots : BreakOK(k)'
             /\ \A k \in Slots : SameDay(k) \/ SlotOK(k)'
  <2>1. calls'[h] = Idle
    BY <1>1, <1>3 DEF FlagDispute, Finish, Continue, CallsOK
  <2>2. CASE UNCHANGED rec
    BY <1>1, <1>3, <2>1, <2>2 DEF DayRead, Idle, SameDay, DaysInv, BreakOK
  <2>3. CASE rec' = [rec EXCEPT ![c.k] = [rec[c.k] EXCEPT !.status = "PENDING_REGULARIZATION"]]
    <3> DEFINE row == [rec[c.k] EXCEPT !.status = "PENDING_REGULARIZATION"]
    <3>1. row.status = "PENDING_REGULARIZATION" /\ row.out = rec[c.k].out /\ row.source = rec[c.k].source
      BY <1>1 DEF Records
    <3> HIDE DEF row
    <3>2. \A k \in Slots : rec'[k] = IF k = c.k THEN row ELSE rec[k]
      BY <1>1, <2>3 DEF DaysOK, row
    <3>3. PICK i \in Requests : Undecided(i) /\ req[i].k = c.k /\ req[i].linked
      BY <1>3 DEF DaysInv, DayRead, FlagDispute
    <3>4. \A k \in Slots : k = c.k => SlotOK(k)'
      BY <1>1, <3>1, <3>2, <3>3 DEF SlotOK, AbsenceOK, LeaveOK, DisputeOK, Asked, Undecided
    <3>5. \A k \in Slots : SameDay(k) \/ SlotOK(k)'
      BY <3>2, <3>4 DEF SameDay
    <3>6. \A k \in Slots : BreakOK(k)'
      BY <1>1, <1>3, <3>1, <3>2 DEF DaysInv, BreakOK
    <3> QED
      BY <2>1, <3>5, <3>6 DEF DayRead, Idle
  <2> QED
    BY <1>3, <2>2, <2>3 DEF FlagDispute
<1>4. ASSUME ApproveRecord(h), calm
      PROVE  /\ DayRead(calls[h])' /\ \A k \in Slots : BreakOK(k)'
             /\ \A k \in Slots : SameDay(k) \/ SlotOK(k)'
  <2> DEFINE row == [status |-> Late(c.in), in |-> Given(c.in, rec[c.k].in),
                     out |-> c.out \/ rec[c.k].out, source |-> "MANUAL"]
  <2>1. /\ calls'[h] = [pc |-> "decide", i |-> c.i, status |-> "APPROVED"]
        /\ rec' = [rec EXCEPT ![c.k] = row] /\ c.i \in Requests /\ req[c.i].k = c.k /\ Undecided(c.i)
    BY <1>1, <1>4 DEF ApproveRecord, Continue, CallsOK, DisputeCall, DaysInv, DayRead
  <2>2. row.status \in {"LATE", "PRESENT"} /\ row.source = "MANUAL"
    BY DEF Late
  <2> HIDE DEF row
  <2>3. \A k \in Slots : rec'[k] = IF k = c.k THEN row ELSE rec[k]
    BY <1>1, <2>1 DEF DaysOK
  <2>4. \A k \in Slots : SameDay(k) \/ SlotOK(k)'
    BY <2>2, <2>3 DEF SameDay, SlotOK, AbsenceOK, LeaveOK, DisputeOK
  <2>5. \A k \in Slots : BreakOK(k)'
    BY <1>1, <1>4, <2>2, <2>3 DEF DaysInv, BreakOK
  <2>6. DayRead(calls[h])'
    <3>1. rec'[req'[calls'[h].i].k].status # "PENDING_REGULARIZATION" /\ calls'[h].pc = "decide"
      BY <1>1, <2>1, <2>2, <2>3
    <3>2. req'[calls'[h].i].status = "PENDING"
      BY <1>1, <2>1 DEF Undecided
    <3> QED
      BY <3>1, <3>2 DEF DayRead, Undecided
  <2> QED
    BY <2>4, <2>5, <2>6
<1>5. ASSUME RejectRecord(h), calm
      PROVE  /\ DayRead(calls[h])' /\ \A k \in Slots : BreakOK(k)'
             /\ \A k \in Slots : SameDay(k) \/ SlotOK(k)'
  <2> DEFINE row == [rec[c.k] EXCEPT !.status = c.base]
  <2>1. req[c.i].linked /\ c.i \in Requests /\ req[c.i].k = c.k /\ Undecided(c.i) /\ c.base \in Bases
    BY <1>1, <1>5 DEF RejectRecord, DisputeCall, DaysInv, DayRead
  <2>2. /\ calls'[h] = [pc |-> "decide", i |-> c.i, status |-> "REJECTED"]
        /\ rec' = [rec EXCEPT ![c.k] = row]
    BY <1>1, <1>5, <2>1 DEF RejectRecord, Continue, CallsOK
  <2>3. row.status = c.base /\ row.out = rec[c.k].out /\ row.source = rec[c.k].source
    BY <1>1 DEF Records
  <2> HIDE DEF row
  <2>4. \A k \in Slots : rec'[k] = IF k = c.k THEN row ELSE rec[k]
    BY <1>1, <2>2 DEF DaysOK
  <2>5. \A k \in Slots : k = c.k => SoonRejected(k)'
    BY <1>1, <2>1, <2>2 DEF SoonRejected
  <2>6. \A k \in Slots : SameDay(k) \/ SlotOK(k)'
    BY <2>1, <2>3, <2>4, <2>5 DEF SameDay, SlotOK, AbsenceOK, LeaveOK, DisputeOK, Bases
  <2>7. \A k \in Slots : BreakOK(k)'
    BY <1>1, <1>5, <2>3, <2>4 DEF DaysInv, BreakOK
  <2>8. DayRead(calls[h])'
    <3>1. rec'[req'[calls'[h].i].k].status # "PENDING_REGULARIZATION" /\ calls'[h].pc = "decide"
      BY <1>1, <2>1, <2>2, <2>3, <2>4 DEF Bases
    <3>2. req'[calls'[h].i].status = "PENDING"
      BY <1>1, <2>1, <2>2 DEF Undecided
    <3> QED
      BY <3>1, <3>2 DEF DayRead, Undecided
  <2> QED
    BY <2>6, <2>7, <2>8
<1>6. calm => /\ DayRead(calls[h])' /\ \A k \in Slots : BreakOK(k)'
              /\ \A k \in Slots : SameDay(k) \/ SlotOK(k)'
  BY <1>3, <1>4, <1>5
<1>7. c.pc # "decide" /\ \A k \in Slots : Punched(punch[k]) => Punched(punch'[k])
  BY <1>1
<1> QED
  BY <1>1, <1>2, <1>6, <1>7, DaysMoved

(* A request is written: the days' own rows stay.                           *)
LEMMA DaysRequested ==
  ASSUME Shape, Alone, DaysInv, NEW h \in Handlers, NEW P, Moves(h, P),
         UNCHANGED rec, UNCHANGED breaks, UNCHANGED leave, UNCHANGED punch,
         calm /\ calm' =>
           /\ DayRead(calls[h])' /\ WithinCap'
           /\ \A k \in Slots : /\ SoonRejected(k) => SoonRejected(k)'
                               /\ DisputeOK(k)'
  PROVE  DaysInv'
<1> SUFFICES ASSUME calm' PROVE /\ \A g \in Handlers : DayRead(calls[g])'
                                /\ \A k \in Slots : SlotOK(k)' /\ BreakOK(k)'
                                /\ WithinCap'
  BY DEF DaysInv
<1>1. calm /\ \A g \in Handlers \ {h} : calls[g] = Idle /\ calls'[g] = Idle
  BY SoleCall DEF Shape
<1>2. ASSUME NEW g \in Handlers PROVE DayRead(calls[g])'
  <2>1. CASE g = h
    BY <1>1, <2>1
  <2>2. CASE g # h
    <3>1. calls'[g] = Idle
      BY <1>1, <2>2
    <3>2. DayRead(Idle)'
      BY DEF DayRead, Idle
    <3> QED
      BY <3>1, <3>2
  <2> QED
    BY <2>1, <2>2
<1>3. ASSUME NEW k \in Slots PROVE AbsenceOK(k)' /\ LeaveOK(k)'
  <2>1. AbsenceOK(k) /\ LeaveOK(k) /\ (SoonRejected(k) => SoonRejected(k)')
    BY <1>1 DEF DaysInv, SlotOK
  <2> QED
    BY <2>1 DEF AbsenceOK, LeaveOK
<1>4. \A k \in Slots : BreakOK(k)'
  BY <1>1 DEF DaysInv, BreakOK
<1> QED
  BY <1>1, <1>2, <1>3, <1>4 DEF SlotOK

(* Deciding requests adds nothing to the month's count.                     *)
LEMMA CapKept ==
  ASSUME RequestsOK, WithinCap, widest \in Nat, UNCHANGED widest,
         \A i \in Requests : req'[i].status \in {"PENDING", "APPROVED"} =>
           req[i].status \in {"PENDING", "APPROVED"} /\ req'[i].k = req[i].k
  PROVE  WithinCap'
<1> DEFINE Counted0(e) == {i \in Requests : req[i].status \in {"PENDING", "APPROVED"} /\ req[i].k[1] = e}
           Counted1(e) == {i \in Requests : req'[i].status \in {"PENDING", "APPROVED"} /\ req'[i].k[1] = e}
           Rows == {i \in Requests : Exists(req[i])}
<1> SUFFICES ASSUME NEW e \in Staff PROVE Cardinality(Counted1(e)) <= widest
  BY DEF WithinCap, CountThisMonth
<1>1. Counted1(e) \subseteq Counted0(e)
  OBVIOUS
<1>2. Counted0(e) \subseteq Rows
  BY DEF Exists
<1>3. IsFiniteSet(Counted0(e))
  BY <1>2, FS_Subset DEF RequestsOK
<1>4. Cardinality(Counted1(e)) <= Cardinality(Counted0(e)) /\ Cardinality(Counted0(e)) \in Nat
      /\ Cardinality(Counted1(e)) \in Nat
  BY <1>1, <1>3, FS_Subset, FS_CardinalityType
<1>5. Cardinality(Counted0(e)) <= widest
  BY DEF WithinCap, CountThisMonth
<1> HIDE DEF Counted0, Counted1
<1> QED
  BY <1>4, <1>5

LEMMA DaysCreated ==
  ASSUME Shape, Alone, DaysInv, NEW h \in Handlers, Moves(h, DisputePcs), CreateRequest(h)
  PROVE  DaysInv'
<1> DEFINE c == calls[h]
<1>1. /\ CallsOK /\ RequestsOK /\ widest \in Nat /\ limits.cap \in Nat /\ limits.cap <= widest
      /\ c.pc = "request" /\ c.k \in Slots /\ c.linked \in BOOLEAN
      /\ UNCHANGED rec /\ UNCHANGED breaks /\ UNCHANGED leave /\ UNCHANGED punch /\ UNCHANGED widest
  BY AttendanceAssumption DEF Shape, DaysOK, CallsOK, CallOK, DisputeCall, CreateRequest, attUntouched
<1>2. PICK i \in Requests : NextRequest(i) /\ req' = [req EXCEPT ![i] =
        [status |-> "PENDING", k |-> c.k, ask |-> c.ask, linked |-> c.linked /\ Exists(rec[c.k])]]
  BY DEF CreateRequest
<1> DEFINE row == [status |-> "PENDING", k |-> c.k, ask |-> c.ask,
                   linked |-> c.linked /\ Exists(rec[c.k])]
<1>3. req[i] = NoRequest /\ \A j \in Requests : req'[j] = IF j = i THEN row ELSE req[j]
  BY <1>1, <1>2 DEF NextRequest, RequestsOK
<1>4. row.status = "PENDING" /\ row.k = c.k /\ (c.linked /\ Exists(rec[c.k]) => row.linked)
  OBVIOUS
<1> HIDE DEF row
<1>5. ASSUME calm, calm' PROVE WithinCap'
  <2>1. BelowCap(c.k[1])
    BY <1>1, <1>5 DEF DaysInv, DayRead
  <2> DEFINE Set0(e) == {j \in Requests : req[j].status \in {"PENDING", "APPROVED"} /\ req[j].k[1] = e}
             Set1(e) == {j \in Requests : req'[j].status \in {"PENDING", "APPROVED"} /\ req'[j].k[1] = e}
             Rows == {j \in Requests : Exists(req[j])}
  <2> SUFFICES ASSUME NEW e \in Staff PROVE Cardinality(Set1(e)) <= widest
    BY <1>1 DEF WithinCap, CountThisMonth
  <2>2. IsFiniteSet(Set0(e))
    <3>1. Set0(e) \subseteq Rows
      BY DEF Exists
    <3> QED
      BY <1>1, <3>1, FS_Subset DEF RequestsOK
  <2>3. Cardinality(Set0(e)) \in Nat /\ Cardinality(Set0(e)) <= widest
        /\ (e = c.k[1] => Cardinality(Set0(e)) < limits.cap)
    BY <1>5, <2>1, <2>2, FS_CardinalityType DEF DaysInv, WithinCap, BelowCap, CountThisMonth
  <2>4. i \notin Set0(e)
    BY <1>3 DEF NoRequest
  <2>5. CASE e = c.k[1]
    <3>1. Set1(e) = Set0(e) \cup {i}
      BY <1>3, <1>4, <2>5
    <3>2. Cardinality(Set0(e) \cup {i}) = Cardinality(Set0(e)) + 1
      BY <2>2, <2>4, FS_AddElement
    <3>3. Cardinality(Set1(e)) = Cardinality(Set0(e)) + 1
      BY <3>1, <3>2, Zenon
    <3> HIDE DEF Set0, Set1
    <3> QED
      BY <1>1, <2>3, <2>5, <3>3
  <2>6. CASE e # c.k[1]
    <3>1. Set1(e) = Set0(e)
      BY <1>3, <1>4, <2>4, <2>6
    <3> QED
      BY <2>3, <3>1, Zenon
  <2> QED
    BY <2>5, <2>6
<1>6. ASSUME calm, calm' PROVE DayRead(calls[h])'
  <2>1. CASE ~c.linked
    <3>1. calls'[h] = Idle
      BY <1>1, <2>1 DEF CreateRequest, Finish, Continue, CallsOK
    <3> QED
      BY <3>1 DEF DayRead, Idle
  <2>2. CASE c.linked
    <3>1. calls'[h].pc = "dispute" /\ calls'[h].k = c.k
      <4>1. calls'[h] = [c EXCEPT !.pc = "dispute"]
            /\ c \in [pc: {"request", "dispute"}, k: Slots, ask: [in: Ins, out: BOOLEAN], linked: BOOLEAN]
        BY <1>1, <2>2 DEF CreateRequest, Continue, CallsOK, CallOK, DisputeCall
      <4> QED
        BY <4>1
    <3>2. Exists(rec[c.k])
      BY <1>1, <1>6, <2>2 DEF DaysInv, DayRead
    <3>3. \E j \in Requests : req'[j].status = "PENDING" /\ req'[j].k = c.k /\ req'[j].linked
      BY <1>3, <1>4, <2>2, <3>2
    <3> QED
      BY <3>1, <3>3 DEF DayRead, Undecided
  <2> QED
    BY <1>1, <2>1, <2>2
<1>7. ASSUME calm, calm', NEW k \in Slots
      PROVE  (SoonRejected(k) => SoonRejected(k)') /\ DisputeOK(k)'
  <2>1. \A g \in Handlers : calls[g].pc \notin {"decide", "cutoffRecord"}
    BY <1>1, <1>7, SoleCall DEF Shape, Idle
  <2>2. SoonRejected(k) => SoonRejected(k)'
    BY <1>3, <2>1 DEF SoonRejected, RejectedFor, NoRequest
  <2>3. Asked(k) => Asked(k)'
    BY <1>3 DEF Asked, NoRequest
  <2> QED
    BY <1>1, <1>7, <2>1, <2>2, <2>3 DEF DisputeOK, Resolving, DaysInv, SlotOK
<1> QED
  BY <1>1, <1>5, <1>6, <1>7, DaysRequested

LEMMA DaysDecided ==
  ASSUME Shape, Alone, DaysInv, NEW h \in Handlers, Moves(h, DisputePcs), Decide(h)
  PROVE  DaysInv'
<1> DEFINE c == calls[h]
           row == [req[c.i] EXCEPT !.status = c.status]
<1>1. /\ CallsOK /\ RequestsOK /\ widest \in Nat /\ c.pc = "decide" /\ c.i \in Requests
      /\ c.status \in {"APPROVED", "REJECTED", "CANCELLED"} /\ req[c.i] \in RequestRows
      /\ UNCHANGED rec /\ UNCHANGED breaks /\ UNCHANGED leave /\ UNCHANGED punch /\ UNCHANGED widest
      /\ calls'[h] = Idle /\ req' = [req EXCEPT ![c.i] = row]
  BY DEF Shape, DaysOK, CallsOK, CallOK, DisputeCall, Decide, attUntouched, RequestsOK, Exists, NoRequest,
     Finish, Continue
<1>2. row.status = c.status /\ row.k = req[c.i].k /\ row.linked = req[c.i].linked
  BY <1>1 DEF RequestRows
<1> HIDE DEF row
<1>3. \A j \in Requests : req'[j] = IF j = c.i THEN row ELSE req[j]
  BY <1>1 DEF RequestsOK
<1>4. DayRead(calls[h])'
  BY <1>1 DEF DayRead, Idle
<1>5. ASSUME calm, calm'
      PROVE  /\ WithinCap'
             /\ \A k \in Slots : (SoonRejected(k) => SoonRejected(k)') /\ DisputeOK(k)'
  <2>1. Undecided(c.i) /\ (c.status # "CANCELLED" /\ req[c.i].linked =>
                             rec[req[c.i].k].status # "PENDING_REGULARIZATION")
    BY <1>1, <1>5 DEF DaysInv, DayRead
  <2>2. WithinCap'
    BY <1>1, <1>2, <1>3, <1>5, <2>1, CapKept DEF DaysInv, Undecided
  <2>3. \A g \in Handlers \ {h} : calls[g].pc = "idle"
    BY <1>5, SoleCall DEF Shape, Idle
  <2>4. ASSUME NEW k \in Slots, SoonRejected(k) PROVE SoonRejected(k)'
    <3>1. CASE RejectedFor(k)
      BY <1>3, <2>1, <3>1 DEF SoonRejected, RejectedFor, Undecided
    <3>2. CASE c.status = "REJECTED" /\ req[c.i].k = k
      BY <1>1, <1>2, <1>3, <3>2 DEF SoonRejected, RejectedFor
    <3> QED
      BY <1>1, <2>3, <2>4, <3>1, <3>2 DEF SoonRejected
  <2>5. ASSUME NEW k \in Slots PROVE DisputeOK(k)'
    <3> SUFFICES ASSUME rec[k].status = "PENDING_REGULARIZATION" PROVE Asked(k)'
      BY <1>1 DEF DisputeOK
    <3>1. Asked(k)
      BY <1>1, <1>5, <2>3 DEF DaysInv, SlotOK, DisputeOK, Resolving
    <3>2. PICK j \in Requests : req[j].status \in {"PENDING", "CANCELLED"} /\ req[j].k = k /\ req[j].linked
      BY <3>1 DEF Asked
    <3>3. req'[j].status \in {"PENDING", "CANCELLED"} /\ req'[j].k = k /\ req'[j].linked
      BY <1>1, <1>2, <1>3, <2>1, <3>2
    <3> QED
      BY <3>3 DEF Asked
  <2> QED
    BY <2>2, <2>4, <2>5
<1> QED
  BY <1>1, <1>4, <1>5, DaysRequested

LEMMA DaysDispute ==
  ASSUME Shape, Alone, DaysInv, NEW h \in Handlers, DisputeStep(h)
  PROVE  DaysInv'
BY DaysAsked, DaysDisputed, DaysCreated, DaysDecided DEF DisputeStep, DisputeNext

(* The nightly jobs: what they read ...                                     *)
LEMMA DaysJobReads ==
  ASSUME Shape, Alone, DaysInv, NEW h \in Handlers, Moves(h, JobPcs),
         finalize(h) \/ FinalizeDone(h) \/ resolveCutoff(h) \/ CutoffDone(h)
  PROVE  DaysInv'
<1>1. CallsOK /\ UNCHANGED attVars /\ calls[h].pc \notin {"decide", "cutoffRecord"}
  BY DEF Shape, finalize, FinalizeDone, resolveCutoff, CutoffDone, Begin, Idle
<1>2. UNCHANGED rec /\ UNCHANGED breaks /\ UNCHANGED req /\ UNCHANGED leave /\ UNCHANGED punch
      /\ UNCHANGED limits /\ UNCHANGED widest
  BY <1>1 DEF attVars
<1>3. ASSUME finalize(h) PROVE DayRead(calls[h])'
  <2>1. /\ calls'[h].pc = "finalize" /\ calls'[h].d = today - 1
        /\ calls'[h].todo = {e \in Staff : ~HasOutcome(rec[<<e, today - 1>>])}
    BY <1>1, <1>3 DEF finalize, Begin, CallsOK
  <2> QED
    BY <1>2, <2>1 DEF DayRead
<1>4. ASSUME resolveCutoff(h) PROVE DayRead(calls[h])'
  <2>1. /\ calls'[h].pc = "cutoff"
        /\ calls'[h].todo = {i \in PendingRequests : req[i].k[2] < today}
        /\ calls'[h].links = {i \in PendingRequests : req[i].linked}
    BY <1>1, <1>4 DEF resolveCutoff, Begin, CallsOK
  <2> QED
    BY <1>2, <2>1 DEF DayRead, PendingRequests, Undecided
<1>5. ASSUME FinalizeDone(h) \/ CutoffDone(h) PROVE DayRead(calls[h])'
  <2>1. calls'[h] = Idle
    BY <1>1, <1>5 DEF FinalizeDone, CutoffDone, Finish, Continue, CallsOK
  <2> QED
    BY <2>1 DEF DayRead, Idle
<1> QED
  BY <1>1, <1>2, <1>3, <1>4, <1>5, DaysSame

(* ... the outcome the finalization gives a day ...                         *)
LEMMA DaysFinalized ==
  ASSUME Shape, Alone, DaysInv, NEW h \in Handlers, Moves(h, JobPcs), NEW e \in Staff, FinalizeOne(h, e)
  PROVE  DaysInv'
<1> DEFINE c == calls[h]
           s == <<e, c.d>>
           row == FinalRow(c, punch[s], rec[s])
<1>1. /\ CallsOK /\ c \in [pc: {"finalize"}, d: Days, base: Bases, todo: SUBSET Staff]
      /\ DaysOK /\ s \in Slots /\ e \in c.todo
      /\ UNCHANGED punch /\ UNCHANGED breaks /\ UNCHANGED req /\ UNCHANGED leave /\ UNCHANGED widest
  BY DEF Shape, CallsOK, CallOK, JobCall, FinalizeOne, Slots, attUntouched
<1>2. rec' = [rec EXCEPT ![s] = row] /\ calls'[h] = [c EXCEPT !.todo = c.todo \ {e}]
  BY <1>1 DEF FinalizeOne, FinalRow, Continue, CallsOK
<1>3. /\ c.base = "ABSENT" /\ Punched(punch[s]) => row.status \in {"LATE", "PRESENT"}
      /\ ~(c.base = "ABSENT" /\ Punched(punch[s])) =>
           /\ row.status = c.base /\ row.in = rec[s].in
           /\ rec[s].source = "MANUAL" => row.source = "MANUAL"
      /\ row.out /\ row.source = "WEB" => rec[s].out /\ rec[s].source = "WEB"
  BY <1>1, FinalRowIs DEF DaysOK
<1> HIDE DEF row
<1>4. \A k \in Slots : rec'[k] = IF k = s THEN row ELSE rec[k]
  BY <1>1, <1>2 DEF DaysOK
<1>5. c.base \in Bases
  BY <1>1
<1>6. ASSUME calm, calm' PROVE DayRead(calls[h])'
  <2>1. calls'[h].pc = "finalize" /\ calls'[h].d = c.d /\ calls'[h].todo = c.todo \ {e} /\ c.pc = "finalize"
    BY <1>1, <1>2
  <2>2. \A x \in c.todo : ~HasOutcome(rec[<<x, c.d>>]) /\ <<x, c.d>> \in Slots
    BY <1>1, <1>6, <2>1 DEF DaysInv, DayRead, Slots
  <2>3. \A x \in c.todo \ {e} : rec'[<<x, c.d>>] = rec[<<x, c.d>>]
    BY <1>4, <2>2
  <2> QED
    BY <2>1, <2>2, <2>3 DEF DayRead
<1>7. ASSUME calm, calm', NEW k \in Slots, k = s PROVE SlotOK(k)'
  <2>1. ~HasOutcome(rec[k]) /\ AbsenceOK(k) /\ LeaveOK(k)
    BY <1>1, <1>6, <1>7 DEF DaysInv, SlotOK, DayRead
  <2>2. SoonRejected(k) => SoonRejected(k)'
    <3>1. \A g \in Handlers : calls[g].pc # "decide"
      BY <1>1, <1>7, SoleCall DEF Shape, Idle
    <3> QED
      BY <1>1, <3>1 DEF SoonRejected, RejectedFor
  <2>3. rec'[k] = row /\ punch'[k] = punch[k] /\ leave'[k] = leave[k]
    BY <1>1, <1>4, <1>7
  <2>4. CASE c.base = "ABSENT" /\ Punched(punch[s])
    BY <1>3, <1>7, <2>3, <2>4 DEF SlotOK, AbsenceOK, LeaveOK, DisputeOK
  <2>5. CASE ~(c.base = "ABSENT" /\ Punched(punch[s]))
    <3>1. row.status = c.base /\ row.in = "none" /\ (rec[s].source = "MANUAL" => row.source = "MANUAL")
      BY <1>3, <1>7, <2>1, <2>5 DEF HasOutcome
    <3>2. leave[k] = "marked" =>
            rec[k].source = "MANUAL" \/ SoonRejected(k) \/ Punched(punch[k])
      BY <2>1 DEF LeaveOK, HasOutcome
    <3>3. LeaveOK(k)'
      BY <1>7, <2>2, <2>3, <3>1, <3>2 DEF LeaveOK
    <3>4. AbsenceOK(k)'
      BY <1>7, <2>2, <2>3, <2>5, <3>1, <3>2 DEF AbsenceOK
    <3>5. DisputeOK(k)'
      BY <1>5, <2>3, <3>1 DEF DisputeOK, Bases
    <3> QED
      BY <3>3, <3>4, <3>5 DEF SlotOK
  <2> QED
    BY <2>4, <2>5
<1>8. calm => \A k \in Slots : BreakOK(k)'
  BY <1>1, <1>3, <1>4 DEF DaysInv, BreakOK
<1>9. \A k \in Slots : ~Resolving(h, k) /\ (k # s => SameDay(k))
  BY <1>1, <1>4 DEF Resolving, SameDay
<1>10. c.pc # "decide" /\ \A k \in Slots : Punched(punch[k]) => Punched(punch'[k])
  BY <1>1
<1> QED
  BY <1>1, <1>6, <1>7, <1>8, <1>9, <1>10, DaysMoved

(* ... and what the cutoff decides, the request before the record.          *)
LEMMA DaysCutRequest ==
  ASSUME Shape, Alone, DaysInv, NEW h \in Handlers, Moves(h, JobPcs),
         NEW i \in Requests, CutoffRequest(h, i)
  PROVE  DaysInv'
<1> DEFINE c == calls[h]
           row == [req[i] EXCEPT !.status = IF c.approve THEN "APPROVED" ELSE "REJECTED"]
<1>1. /\ CallsOK /\ RequestsOK /\ widest \in Nat
      /\ c \in [pc: {"cutoff"}, todo: SUBSET Requests, links: SUBSET Requests, approve: BOOLEAN]
      /\ i \in c.todo /\ req[i] \in RequestRows
      /\ UNCHANGED rec /\ UNCHANGED breaks /\ UNCHANGED leave /\ UNCHANGED punch /\ UNCHANGED widest
      /\ calls'[h] = [pc |-> "cutoffRecord", todo |-> c.todo \ {i}, links |-> c.links,
                      approve |-> c.approve, i |-> i]
      /\ req' = [req EXCEPT ![i] = row]
  <2>1. CallsOK /\ RequestsOK /\ widest \in Nat /\ CallOK(c, req) /\ c.pc = "cutoff" /\ i \in c.todo
    BY DEF Shape, DaysOK, CallsOK, CutoffRequest
  <2>2. c \in [pc: {"cutoff"}, todo: SUBSET Requests, links: SUBSET Requests, approve: BOOLEAN]
        /\ Exists(req[i])
    BY <2>1 DEF CallOK, JobCall
  <2> QED
    BY <2>1, <2>2 DEF CallsOK, CutoffRequest, attUntouched, RequestsOK, Exists, NoRequest, Continue
<1>2. row.status = (IF c.approve THEN "APPROVED" ELSE "REJECTED") /\ row.k = req[i].k
      /\ row.linked = req[i].linked
  BY <1>1 DEF RequestRows
<1> HIDE DEF row
<1>3. \A j \in Requests : req'[j] = IF j = i THEN row ELSE req[j]
  BY <1>1 DEF RequestsOK
<1>4. ASSUME calm, calm' PROVE \A j \in c.todo : Undecided(j) /\ (req[j].linked => j \in c.links)
  BY <1>1, <1>4 DEF DaysInv, DayRead
<1>5. ASSUME calm, calm' PROVE DayRead(calls[h])'
  <2>1. /\ calls'[h].pc = "cutoffRecord" /\ calls'[h].todo = c.todo \ {i} /\ calls'[h].links = c.links
        /\ calls'[h].approve = c.approve /\ calls'[h].i = i
    BY <1>1
  <2>2. c.todo \subseteq Requests
    BY <1>1
  <2>3. \A j \in c.todo \ {i} : req'[j].status = "PENDING" /\ (req'[j].linked => j \in c.links)
    BY <1>3, <1>4, <1>5, <2>2 DEF Undecided
  <2>4. /\ req'[i].linked => i \in c.links
        /\ req'[i].status = IF c.approve THEN "APPROVED" ELSE "REJECTED"
    BY <1>1, <1>2, <1>3, <1>4, <1>5
  <2> QED
    BY <2>1, <2>3, <2>4 DEF DayRead, Undecided
<1>6. ASSUME calm, calm' PROVE WithinCap'
  <2>1. WithinCap /\ Undecided(i)
    BY <1>1, <1>4, <1>6 DEF DaysInv
  <2> QED
    BY <1>1, <1>2, <1>3, <2>1, CapKept DEF Undecided
<1>7. ASSUME calm, calm', NEW k \in Slots
      PROVE  (SoonRejected(k) => SoonRejected(k)') /\ DisputeOK(k)'
  <2>1. c.pc = "cutoff" /\ Undecided(i)
    BY <1>1, <1>4, <1>7
  <2>2. \A g \in Handlers : calls[g].pc \notin {"decide", "cutoffRecord"}
    BY <1>1, <1>7, <2>1, SoleCall DEF Shape, Idle
  <2>3. SoonRejected(k) => SoonRejected(k)'
    BY <1>3, <2>1, <2>2 DEF SoonRejected, RejectedFor, Undecided
  <2>4. ASSUME rec[k].status = "PENDING_REGULARIZATION" PROVE Asked(k)' \/ Resolving(h, k)'
    <3>1. Asked(k)
      BY <1>7, <2>2, <2>4 DEF DaysInv, SlotOK, DisputeOK, Resolving
    <3>2. PICK j \in Requests : req[j].status \in {"PENDING", "CANCELLED"} /\ req[j].k = k /\ req[j].linked
      BY <3>1 DEF Asked
    <3>3. CASE j = i
      <4>1. calls'[h].pc = "cutoffRecord" /\ calls'[h].i = i
        BY <1>1
      <4> QED
        BY <1>2, <1>3, <3>2, <3>3, <4>1 DEF Resolving
    <3>4. CASE j # i
      BY <1>3, <3>2, <3>4 DEF Asked
    <3> QED
      BY <3>3, <3>4
  <2> QED
    BY <1>1, <2>3, <2>4 DEF DisputeOK
<1> QED
  BY <1>1, <1>5, <1>6, <1>7, DaysRequested

LEMMA DaysCutRecord ==
  ASSUME Shape, Alone, DaysInv, NEW h \in Handlers, Moves(h, JobPcs), CutoffRecord(h)
  PROVE  DaysInv'
<1> DEFINE c == calls[h]
           s == req[c.i].k
           r == rec[s]
           row == Resolved(r, req[c.i].ask, c.approve)
<1>1. /\ CallsOK /\ RequestsOK /\ DaysOK
      /\ c \in [pc: {"cutoffRecord"}, todo: SUBSET Requests, links: SUBSET Requests,
                approve: BOOLEAN, i: Requests]
      /\ req[c.i] \in RequestRows /\ s \in Slots /\ r \in Records
      /\ UNCHANGED req /\ UNCHANGED breaks /\ UNCHANGED leave /\ UNCHANGED punch /\ UNCHANGED widest
  <2>1. CallsOK /\ RequestsOK /\ DaysOK /\ CallOK(c, req) /\ c.pc = "cutoffRecord"
    BY DEF Shape, CallsOK, CutoffRecord
  <2>2. c \in [pc: {"cutoffRecord"}, todo: SUBSET Requests, links: SUBSET Requests,
                approve: BOOLEAN, i: Requests] /\ Exists(req[c.i])
    BY <2>1 DEF CallOK, JobCall
  <2>3. req[c.i] \in RequestRows
    BY <2>1, <2>2 DEF RequestsOK, Exists, NoRequest
  <2> QED
    BY <2>1, <2>2, <2>3 DEF DaysOK, CutoffRecord, attUntouched, RequestRows
<1>2. row.status \in {"PRESENT", "ABSENT"}
      /\ (c.approve => row.source = "MANUAL" /\ row.status = "PRESENT")
      /\ (~c.approve => row.source = r.source /\ row.out = r.out /\ row.in = r.in)
  <2>1. CASE c.approve
    BY <2>1 DEF Resolved
  <2>2. CASE ~c.approve
    BY <1>1, <2>2 DEF Resolved, Records
  <2>3. c.approve \in BOOLEAN
    BY <1>1
  <2> HIDE DEF row
  <2> QED
    BY <2>1, <2>2, <2>3
<1>3. c.i \in c.links /\ req[c.i].linked => rec' = [rec EXCEPT ![s] = row]
  BY DEF CutoffRecord
<1> HIDE DEF row
<1>4. c.i \in c.links /\ req[c.i].linked => \A k \in Slots : rec'[k] = IF k = s THEN row ELSE rec[k]
  BY <1>1, <1>3 DEF DaysOK
<1>5. ~(c.i \in c.links /\ req[c.i].linked) => UNCHANGED rec
  BY DEF CutoffRecord
<1>6. ASSUME calm, calm'
      PROVE  /\ req[c.i].linked => c.i \in c.links
             /\ req[c.i].status = IF c.approve THEN "APPROVED" ELSE "REJECTED"
             /\ \A j \in c.todo : Undecided(j) /\ (req[j].linked => j \in c.links)
  BY <1>1, <1>6 DEF DaysInv, DayRead
<1>7. ASSUME calm, calm' PROVE DayRead(calls[h])'
  <2>1. calls'[h] = Idle \/ calls'[h] = [pc |-> "cutoff", todo |-> c.todo, links |-> c.links, approve |-> c.approve]
    BY <1>1 DEF CutoffRecord, Finish, Continue, CallsOK
  <2> QED
    BY <1>1, <1>6, <1>7, <2>1 DEF DayRead, Idle, Undecided
<1>8. ASSUME calm, calm', NEW k \in Slots PROVE (SameDay(k) /\ ~Resolving(h, k)) \/ SlotOK(k)'
  <2>1. CASE k # s \/ ~req[c.i].linked
    BY <1>4, <1>5, <1>6, <1>8, <2>1 DEF SameDay, Resolving
  <2>2. CASE k = s /\ req[c.i].linked
    <3>1. rec'[k] = row
      BY <1>4, <1>6, <1>8, <2>2
    <3>2. ~c.approve => SoonRejected(k)'
      BY <1>1, <1>6, <1>8, <2>2 DEF SoonRejected, RejectedFor
    <3> QED
      BY <1>2, <3>1, <3>2 DEF SlotOK, AbsenceOK, LeaveOK, DisputeOK
  <2> QED
    BY <2>1, <2>2
<1>9. ASSUME calm, NEW k \in Slots PROVE BreakOK(k)'
  <2>1. BreakOK(k)
    BY <1>9 DEF DaysInv
  <2>2. rec'[k] = rec[k] \/ (rec'[k] = row /\ k = s)
    BY <1>4, <1>5
  <2> QED
    BY <1>1, <1>2, <2>1, <2>2 DEF BreakOK
<1>10. c.pc # "decide" /\ \A k \in Slots : Punched(punch[k]) => Punched(punch'[k])
  BY <1>1
<1> QED
  BY <1>1, <1>7, <1>8, <1>9, <1>10, DaysMoved

LEMMA DaysJob ==
  ASSUME Shape, Alone, DaysInv, NEW h \in Handlers, JobStep(h)
  PROVE  DaysInv'
BY DaysJobReads, DaysFinalized, DaysCutRequest, DaysCutRecord DEF JobStep, JobNext
----------------------------------------------------------------------------
(* The office, and the end of a day.                                        *)
LEMMA DaysOffice ==
  ASSUME Shape, DaysInv, OfficeStep
  PROVE  DaysInv'
<1> SUFFICES ASSUME calm' PROVE /\ \A h \in Handlers : DayRead(calls[h])'
                                /\ \A k \in Slots : SlotOK(k)' /\ BreakOK(k)'
                                /\ WithinCap'
  BY DEF DaysInv
<1>1. calm /\ UNCHANGED calls /\ DaysOK /\ RequestsOK /\ \A h \in Handlers : calls[h] = Idle
  BY NoCall DEF OfficeStep, Shape
<1>2. \A h \in Handlers : DayRead(calls[h])'
  BY <1>1 DEF DayRead, Idle
<1>3. /\ \A k \in Slots : SlotOK(k) /\ BreakOK(k)
      /\ WithinCap
  BY <1>1 DEF DaysInv
<1>4. \A k \in Slots : SoonRejected(k) => RejectedFor(k)
  BY <1>1 DEF SoonRejected, Idle
<1>5. \A k \in Slots : DisputeOK(k) => (rec[k].status = "PENDING_REGULARIZATION" => Asked(k))
  BY <1>1 DEF DisputeOK, Resolving, Idle
<1>6. ASSUME UNCHANGED req, NEW k \in Slots, SameDay(k), rec'[k].out = rec[k].out, UNCHANGED breaks,
             UNCHANGED punch, leave'[k] = leave[k]
      PROVE  SlotOK(k)' /\ BreakOK(k)'
  <2>1. SoonRejected(k) => SoonRejected(k)'
    BY <1>4, <1>6 DEF SoonRejected, RejectedFor
  <2>2. AbsenceOK(k)' /\ LeaveOK(k)' /\ BreakOK(k)'
    BY <1>3, <1>6, <2>1 DEF SlotOK, AbsenceOK, LeaveOK, BreakOK, SameDay
  <2>3. DisputeOK(k)'
    BY <1>3, <1>5, <1>6 DEF SlotOK, DisputeOK, Asked, SameDay
  <2> QED
    BY <2>2, <2>3 DEF SlotOK
<1>7. ASSUME NEW k \in Slots, leaveApproved(k)
      PROVE  (\A j \in Slots : SlotOK(j)' /\ BreakOK(j)') /\ WithinCap'
  <2>1. /\ leave' = [leave EXCEPT ![k] = IF Exists(rec[k]) THEN "late" ELSE "marked"]
        /\ rec' = [rec EXCEPT ![k] = IF Exists(rec[k]) THEN rec[k]
                                     ELSE [OrNew(rec[k]) EXCEPT !.status = "ON_LEAVE"]]
        /\ leave[k] = "none" /\ UNCHANGED req /\ UNCHANGED breaks /\ UNCHANGED punch /\ UNCHANGED widest
    BY <1>7 DEF leaveApproved
  <2>2. WithinCap'
    BY <1>3, <2>1 DEF WithinCap, CountThisMonth
  <2>3. \A j \in Slots : j # k => SlotOK(j)' /\ BreakOK(j)'
    BY <1>1, <1>6, <2>1 DEF SameDay, DaysOK
  <2>4. ASSUME NEW j \in Slots, j = k PROVE SlotOK(j)' /\ BreakOK(j)'
    <3>1. CASE Exists(rec[k])
      <4>1. rec'[j] = rec[j] /\ leave'[j] = "late"
        BY <1>1, <2>1, <2>4, <3>1 DEF DaysOK
      <4>2. SoonRejected(j) => SoonRejected(j)'
        BY <1>4, <2>1 DEF SoonRejected, RejectedFor
      <4>3. AbsenceOK(j)' /\ LeaveOK(j)' /\ BreakOK(j)'
        BY <1>3, <2>1, <2>4, <4>1, <4>2 DEF SlotOK, AbsenceOK, LeaveOK, BreakOK
      <4>4. DisputeOK(j)'
        BY <1>3, <1>5, <2>1, <4>1 DEF SlotOK, DisputeOK, Asked
      <4> QED
        BY <4>3, <4>4 DEF SlotOK
    <3>2. CASE ~Exists(rec[k])
      <4> DEFINE row == [[NoRecord EXCEPT !.source = "WEB"] EXCEPT !.status = "ON_LEAVE"]
      <4>1. rec'[j] = row
        BY <1>1, <2>1, <2>4, <3>2 DEF DaysOK, OrNew
      <4>2. row.status = "ON_LEAVE" /\ row.out = FALSE
        BY DEF NoRecord
      <4> HIDE DEF row
      <4> QED
        BY <1>3, <2>1, <4>1, <4>2 DEF SlotOK, AbsenceOK, LeaveOK, DisputeOK, BreakOK
    <3> QED
      BY <3>1, <3>2
  <2> QED
    BY <2>2, <2>3, <2>4
<1>8. ASSUME NEW k \in Slots, leaveCancelled(k)
      PROVE  (\A j \in Slots : SlotOK(j)' /\ BreakOK(j)') /\ WithinCap'
  <2> DEFINE gone == rec[k].status = "ON_LEAVE"
             cut(i) == gone /\ Exists(req[i]) /\ req[i].k = k
             row(i) == IF cut(i) THEN [req[i] EXCEPT !.linked = FALSE] ELSE req[i]
  <2>1. /\ leave' = [leave EXCEPT ![k] = "none"]
        /\ rec' = [rec EXCEPT ![k] = IF gone THEN NoRecord ELSE rec[k]]
        /\ breaks' = [breaks EXCEPT ![k] = IF gone THEN 0 ELSE breaks[k]]
        /\ req' = [i \in Requests |-> row(i)]
        /\ UNCHANGED punch /\ UNCHANGED widest
    BY <1>8 DEF leaveCancelled
  <2>2. \A i \in Requests : /\ row(i).status = req[i].status
                            /\ Exists(req[i]) => row(i).k = req[i].k
                            /\ ~cut(i) => row(i) = req[i]
    <3> SUFFICES ASSUME NEW i \in Requests, cut(i)
                 PROVE  row(i).status = req[i].status /\ row(i).k = req[i].k
      OBVIOUS
    <3>1. row(i) = [req[i] EXCEPT !.linked = FALSE] /\ req[i] \in RequestRows
      BY <1>1 DEF RequestsOK, Exists, NoRequest
    <3> HIDE DEF row
    <3> QED
      BY <3>1 DEF RequestRows
  <2> HIDE DEF row
  <2>3. WithinCap'
    BY <1>1, <1>3, <2>1, <2>2, CapKept DEF Exists, DaysOK
  <2>4. \A j \in Slots : SoonRejected(j) => SoonRejected(j)'
    BY <1>4, <2>1, <2>2 DEF SoonRejected, RejectedFor, Exists
  <2>5. \A j \in Slots : /\ rec'[j] = IF j = k /\ gone THEN NoRecord ELSE rec[j]
                         /\ breaks'[j] = IF j = k /\ gone THEN 0 ELSE breaks[j]
                         /\ leave'[j] = IF j = k THEN "none" ELSE leave[j]
    BY <1>1, <2>1 DEF DaysOK
  <2>6. ASSUME NEW j \in Slots PROVE AbsenceOK(j)' /\ LeaveOK(j)' /\ BreakOK(j)'
    <3>1. AbsenceOK(j) /\ LeaveOK(j) /\ BreakOK(j)
      BY <1>3 DEF SlotOK
    <3>2. CASE j = k /\ gone
      BY <2>5, <3>2 DEF AbsenceOK, LeaveOK, BreakOK, NoRecord
    <3>3. CASE ~(j = k /\ gone)
      <4>1. AbsenceOK(j)'
        BY <2>4, <2>5, <3>1, <3>3 DEF AbsenceOK
      <4>2. LeaveOK(j)'
        BY <2>1, <2>4, <2>5, <3>1, <3>3 DEF LeaveOK
      <4>3. BreakOK(j)'
        BY <2>5, <3>1, <3>3 DEF BreakOK
      <4> QED
        BY <4>1, <4>2, <4>3
    <3> QED
      BY <3>2, <3>3
  <2>7. ASSUME NEW j \in Slots, rec'[j].status = "PENDING_REGULARIZATION" PROVE Asked(j)'
    <3>1. ~(j = k /\ gone) /\ rec[j].status = "PENDING_REGULARIZATION"
      BY <2>5, <2>7 DEF NoRecord
    <3>2. PICK i \in Requests : req[i].status \in {"PENDING", "CANCELLED"} /\ req[i].k = j /\ req[i].linked
      BY <1>3, <1>5, <3>1 DEF SlotOK, Asked
    <3>3. req'[i] = req[i]
      BY <2>1, <2>2, <3>1, <3>2
    <3> QED
      BY <3>2, <3>3 DEF Asked
  <2> QED
    BY <2>3, <2>6, <2>7 DEF SlotOK, DisputeOK
<1>9. ASSUME NEW k \in Slots, NEW mark \in Marks, markAttendance(k, mark)
      PROVE  (\A j \in Slots : SlotOK(j)' /\ BreakOK(j)') /\ WithinCap'
  <2> DEFINE row == [status |-> mark.status, in |-> Given(mark.in, rec[k].in),
                     out |-> mark.out \/ rec[k].out, source |-> "MANUAL"]
  <2>1. rec' = [rec EXCEPT ![k] = row]
        /\ UNCHANGED leave /\ UNCHANGED punch /\ UNCHANGED breaks /\ UNCHANGED req /\ UNCHANGED widest
    BY <1>9 DEF markAttendance, attUntouched
  <2>2. row.status # "PENDING_REGULARIZATION" /\ row.source = "MANUAL"
    BY AttendanceAssumption
  <2> HIDE DEF row
  <2>3. \A j \in Slots : rec'[j] = IF j = k THEN row ELSE rec[j]
    BY <1>1, <2>1 DEF DaysOK
  <2>4. \A j \in Slots : j # k => SlotOK(j)' /\ BreakOK(j)'
    BY <1>6, <2>1, <2>3 DEF SameDay
  <2>5. \A j \in Slots : j = k => SlotOK(j)' /\ BreakOK(j)'
    BY <1>3, <2>1, <2>2, <2>3 DEF SlotOK, AbsenceOK, LeaveOK, DisputeOK, BreakOK
  <2>6. WithinCap'
    BY <1>3, <2>1 DEF WithinCap, CountThisMonth
  <2> QED
    BY <2>4, <2>5, <2>6
<1>10. ASSUME NEW cal \in Calendars, NEW b \in Behaviors, NEW l \in Limits, updateAttendanceConfig(cal, b, l)
       PROVE  (\A j \in Slots : SlotOK(j)' /\ BreakOK(j)') /\ WithinCap'
  <2>1. UNCHANGED rec /\ UNCHANGED leave /\ UNCHANGED punch /\ UNCHANGED breaks /\ UNCHANGED req
    BY <1>10 DEF updateAttendanceConfig
  <2>2. WithinCap'
    <3> SUFFICES ASSUME NEW e \in Staff PROVE CountThisMonth(e)' <= widest'
      BY DEF WithinCap
    <3>1. CountThisMonth(e)' = CountThisMonth(e) /\ CountThisMonth(e) <= widest
      BY <1>3, <2>1 DEF WithinCap, CountThisMonth
    <3>2. CountThisMonth(e) \in Nat
      <4>1. {i \in Requests : req[i].status \in {"PENDING", "APPROVED"} /\ req[i].k[1] = e}
              \subseteq {i \in Requests : Exists(req[i])}
        BY DEF Exists
      <4> QED
        BY <1>1, <4>1, FS_Subset, FS_CardinalityType DEF RequestsOK, CountThisMonth
    <3>3. widest \in Nat /\ l.cap \in Nat /\ widest' = (IF l.cap > widest THEN l.cap ELSE widest)
      BY <1>1, <1>10, AttendanceAssumption DEF DaysOK, updateAttendanceConfig
    <3> QED
      BY <3>1, <3>2, <3>3
  <2> QED
    BY <1>6, <2>1, <2>2 DEF SameDay
<1> QED
  BY <1>2, <1>7, <1>8, <1>9, <1>10 DEF OfficeStep, OfficeNext

LEMMA DaysStays ==
  ASSUME Shape, Alone, DaysInv, [AttendanceNext]_attendanceVars
  PROVE  DaysInv'
<1>1. ASSUME NEW h \in Handlers, CallStep(h) PROVE DaysInv'
  <2>1. CASE ClockStep(h)
    BY <2>1, DaysClock
  <2>2. CASE DisputeStep(h)
    BY <2>2, DaysDispute
  <2>3. CASE JobStep(h)
    BY <2>3, DaysJob
  <2>4. CASE LostStep(h)
    BY <2>4 DEF LostStep, DaysInv
  <2>5. CASE CompStep(h) \/ ClaimStep(h) \/ ShiftStep(h)
    <3>1. Moves(h, CompPcs \cup ClaimPcs \cup ShiftPcs) /\ UNCHANGED attVars
      BY <2>5, MovesWider DEF CompStep, ClaimStep, ShiftStep
    <3> QED
      BY <3>1, DaysElsewhere
  <2> QED
    BY <1>1, <2>1, <2>2, <2>3, <2>4, <2>5 DEF CallStep
<1>2. ASSUME ClaimAtOnce \/ DayStepOn \/ UNCHANGED attendanceVars PROVE DaysInv'
  <2>1. UNCHANGED attVars /\ (AtOnce \/ UNCHANGED callVars)
    BY <1>2 DEF ClaimAtOnce, DayStepOn, attendanceVars
  <2> QED
    BY <2>1, DaysElsewhere
<1> QED
  BY <1>1, <1>2, DaysOffice, EveryStep

LEMMA DaysInit == AttendanceInit => DaysInv
<1> SUFFICES ASSUME AttendanceInit PROVE DaysInv
  OBVIOUS
<1>1. /\ calls = [h \in Handlers |-> Idle] /\ rec = [k \in Slots |-> NoRecord]
      /\ breaks = [k \in Slots |-> 0] /\ req = [i \in Requests |-> NoRequest]
      /\ leave = [k \in Slots |-> "none"]
  BY DEF AttendanceInit, CallsInit, AttInit
<1>2. \A h \in Handlers : DayRead(calls[h])
  BY <1>1, IdleDayRead
<1>3. \A k \in Slots : SlotOK(k) /\ BreakOK(k)
  BY <1>1 DEF SlotOK, AbsenceOK, LeaveOK, DisputeOK, BreakOK, NoRecord
<1>4. WithinCap
  <2>1. \A e \in Staff : {i \in Requests : req[i].status \in {"PENDING", "APPROVED"} /\ req[i].k[1] = e} = {}
    BY <1>1 DEF NoRequest
  <2>2. \A e \in Staff : CountThisMonth(e) = 0
    BY <2>1, FS_EmptySet DEF CountThisMonth
  <2> QED
    BY <2>2, AttendanceAssumption DEF WithinCap, AttendanceInit, AttInit
<1> QED
  BY <1>2, <1>3, <1>4 DEF DaysInv

LEMMA DaysHold == AttendanceSpec => []DaysInv
BY DaysInit, DaysStays, ShapeHolds, AloneHolds, PTL DEF AttendanceSpec
----------------------------------------------------------------------------
(* A day without pay was absent, its attendance rejected or HR's own mark;  *)
(* a day that waits has a request: neither the nightly finalization nor the *)
(* cutoff turns attendance or leave into absence                            *)
(* (attendance-finalization.processor.ts).                                  *)
THEOREM DaysHaveReasons == AttendanceSpec => []DaysAreExplained
<1>1. Shape /\ DaysInv => DaysAreExplained
  <2> SUFFICES ASSUME calm, Quiet, DaysInv PROVE
         /\ \A k \in Slots :
              rec[k].status = "ABSENT" /\ (rec[k].in # "none" \/ leave[k] = "marked") =>
                RejectedFor(k) \/ rec[k].source = "MANUAL"
         /\ \A k \in Slots :
              rec[k].status = "PENDING_REGULARIZATION" =>
                \E i \in Requests : req[i].status \in {"PENDING", "CANCELLED"} /\ req[i].k = k
    BY DEF DaysAreExplained, AbsenceIsExplained, DisputeHasRequest
  <2>1. \A h \in Handlers : calls[h] = Idle
    BY DEF Quiet, Running
  <2>2. \A k \in Slots : SoonRejected(k) => RejectedFor(k)
    BY <2>1 DEF SoonRejected, Idle
  <2>3. \A h \in Handlers, k \in Slots : ~Resolving(h, k)
    BY <2>1 DEF Resolving, Idle
  <2>4. \A k \in Slots : AbsenceOK(k) /\ DisputeOK(k)
    BY DEF DaysInv, SlotOK
  <2> QED
    BY <2>2, <2>3, <2>4 DEF AbsenceOK, DisputeOK, Asked
<1> QED
  BY <1>1, ShapeHolds, DaysHold, PTL

(* The tables are well typed, and what a handler checks before it writes    *)
(* holds afterwards on a calm tenant: the monthly cap on regularizations,   *)
(* one open break and none after the check-out, one default shift.          *)
THEOREM LimitsAreKept == AttendanceSpec => []LimitsHold
<1>1. Shape => AttendanceTypeOK
  <2> SUFFICES ASSUME Shape PROVE AttendanceTypeOK
    OBVIOUS
  <2>1. ASSUME NEW i \in Requests PROVE req[i] = NoRequest \/
         /\ req[i].status \in {"PENDING", "APPROVED", "REJECTED", "CANCELLED"}
         /\ req[i].k \in Slots /\ req[i].linked \in BOOLEAN
         /\ req[i].linked => Exists(rec[req[i].k])
    BY DEF Shape, RequestsOK, RequestRows, Exists
  <2> QED
    BY <2>1 DEF Shape, DaysOK, AttendanceTypeOK
<1>2. DaysInv => WithinMonthlyCap /\ BreaksEndAtCheckOut
  BY DEF DaysInv, WithinCap, BreakOK, WithinMonthlyCap, BreaksEndAtCheckOut
<1>3. Shape /\ ShiftsInv => OneDefaultShift
  <2> SUFFICES ASSUME Shape, calm, Quiet, ShiftsInv
               PROVE  Cardinality(Default(shift)) <= 1 /\ (cleared \/ Default(shift) # {})
    BY DEF OneDefaultShift, Default
  <2>1. \A h \in Handlers : calls[h].pc \notin ShiftPcs
    BY IdleReads DEF Quiet, Running
  <2>2. OneOf(Default(shift), cleared)
    BY <2>1 DEF ShiftsInv
  <2>3. CASE Default(shift) = {}
    BY <2>2, <2>3, FS_EmptySet DEF OneOf
  <2>4. CASE Default(shift) # {}
    <3>1. PICK s \in Default(shift) : Default(shift) = {s}
      BY <2>2, <2>4 DEF OneOf, AtMostOne
    <3>2. Cardinality(Default(shift)) = Cardinality({s}) /\ Cardinality({s}) = 1
      BY <3>1, FS_Singleton, Zenon
    <3> QED
      BY <2>4, <3>2
  <2> QED
    BY <2>3, <2>4
<1> QED
  BY <1>1, <1>2, <1>3, ShapeHolds, DaysHold, ShiftsHold, PTL DEF LimitsHold

(* A decided regularization is not decided again, and a claim goes from the *)
(* manager to HR to its end: only overlapping decisions can overwrite one   *)
(* another (attendance.service.ts, overtime.service.ts).                    *)
THEOREM DecisionsStand == AttendanceSpec => DecisionsAreFinal
<1> DEFINE Once == calm' => \A i \in Requests :
             req[i].status \in {"APPROVED", "REJECTED", "CANCELLED"} => req'[i].status = req[i].status
           Forward == calm' => \A e \in Staff :
             claim'[e].status # claim[e].status =>
               <<claim[e].status, claim'[e].status>> \in
                 {<<"NONE", "PENDING_MANAGER">>, <<"NONE", "PENDING_HR">>,
                  <<"PENDING_MANAGER", "PENDING_HR">>, <<"PENDING_HR", "APPROVED">>,
                  <<"PENDING_MANAGER", "REJECTED">>, <<"PENDING_HR", "REJECTED">>}
<1>1. ASSUME Shape, Alone, CompInv, DaysInv, AttendanceNext PROVE Once /\ Forward
  <2> SUFFICES ASSUME calm' PROVE Once /\ Forward
    OBVIOUS
  <2>1. ASSUME UNCHANGED req PROVE Once
    BY <2>1
  <2>2. ASSUME UNCHANGED claim PROVE Forward
    BY <2>2
  <2>3. ASSUME NEW h \in Handlers, CallStep(h) PROVE Once
    <3>1. CASE \/ Decide(h) /\ DisputeStep(h)
               \/ \E i \in Requests : CutoffRequest(h, i) /\ JobStep(h)
      <4>1. PICK i \in Requests : /\ \A j \in Requests \ {i} : req'[j] = req[j]
                                  /\ calm => Undecided(i)
        <5>1. CASE Decide(h)
          <6>1. calls[h].i \in Requests
            BY <1>1, <5>1 DEF Decide, Shape, CallsOK, CallOK, DisputeCall
          <6>2. req' = [req EXCEPT ![calls[h].i] = [req[calls[h].i] EXCEPT !.status = calls[h].status]]
            BY <5>1 DEF Decide
          <6>3. calm => Undecided(calls[h].i)
            BY <1>1, <5>1 DEF Decide, DaysInv, DayRead
          <6> QED
            BY <1>1, <6>1, <6>2, <6>3 DEF Shape, RequestsOK
        <5>2. CASE \E i \in Requests : CutoffRequest(h, i)
          <6>1. PICK i \in Requests : CutoffRequest(h, i)
            BY <5>2
          <6>2. req' = [req EXCEPT ![i] = [req[i] EXCEPT !.status =
                                             IF calls[h].approve THEN "APPROVED" ELSE "REJECTED"]]
            BY <6>1 DEF CutoffRequest
          <6>3. calm => Undecided(i)
            BY <1>1, <6>1 DEF CutoffRequest, DaysInv, DayRead
          <6> QED
            BY <1>1, <6>2, <6>3 DEF Shape, RequestsOK
        <5> QED
          BY <3>1, <5>1, <5>2
      <4>2. calm
        BY <3>1 DEF DisputeStep, JobStep, Moves
      <4>3. req[i].status = "PENDING"
        BY <4>1, <4>2, Zenon DEF Undecided
      <4>4. \A j \in Requests : req[j].status # "PENDING" => req'[j] = req[j]
        BY <4>1, <4>3
      <4> QED
        BY <4>4
    <3>2. CASE CreateRequest(h)
      <4>1. PICK i \in Requests : NextRequest(i) /\ req' = [req EXCEPT ![i] =
                                [status |-> "PENDING", k |-> calls[h].k, ask |-> calls[h].ask,
                                 linked |-> calls[h].linked /\ Exists(rec[calls[h].k])]]
        BY <3>2 DEF CreateRequest
      <4>2. req[i] = NoRequest /\ \A j \in Requests \ {i} : req'[j] = req[j]
        BY <1>1, <4>1 DEF NextRequest, Shape, RequestsOK
      <4> QED
        BY <1>1, <4>2 DEF Shape, RequestsOK, NoRequest
    <3>3. CASE UNCHANGED req
      BY <2>1, <3>3
    <3>4. CASE ClockStep(h)
      <4>1. UNCHANGED req
        BY <3>4 DEF ClockStep, attVars, clockIn, clockOut, startBreak, endBreak, ClockInRecord,
           PunchIn, ClockOutRecord, PunchOut, CreateBreak, CloseBreak
      <4> QED
        BY <3>3, <4>1
    <3>5. CASE CompStep(h) \/ ClaimStep(h) \/ ShiftStep(h) \/ LostStep(h)
      <4>1. UNCHANGED req
        BY <3>5 DEF CompStep, ClaimStep, ShiftStep, LostStep, dayTables, attVars
      <4> QED
        BY <3>3, <4>1
    <3>6. CASE DisputeStep(h)
      <4>1. ASSUME FlagDispute(h) \/ ApproveRecord(h) \/ RejectRecord(h) PROVE UNCHANGED req
        BY <4>1 DEF FlagDispute, ApproveRecord, RejectRecord, attVars
      <4>2. ASSUME NEW e \in Staff, NEW d \in Days, NEW ask \in Asks, requestRegularization(h, e, d, ask)
            PROVE  UNCHANGED req
        BY <4>2 DEF requestRegularization, attVars
      <4>3. ASSUME NEW i \in Requests, cancelRegularization(h, i) PROVE UNCHANGED req
        BY <4>3 DEF cancelRegularization, attVars
      <4>4. ASSUME NEW i \in Requests, NEW u \in Admins \cup LineManagers,
                   approveRegularization(h, u, i) \/ rejectRegularization(h, u, i)
            PROVE  UNCHANGED req
        BY <4>4 DEF approveRegularization, rejectRegularization, attVars
      <4> QED
        BY <3>1, <3>2, <3>3, <3>6, <4>1, <4>2, <4>3, <4>4 DEF DisputeStep, DisputeNext
    <3>7. CASE JobStep(h)
      <4>1. ASSUME finalize(h) \/ FinalizeDone(h) \/ resolveCutoff(h) \/ CutoffRecord(h) \/ CutoffDone(h)
            PROVE  UNCHANGED req
        BY <4>1 DEF finalize, FinalizeDone, resolveCutoff, CutoffRecord, CutoffDone, attVars
      <4>2. ASSUME NEW e \in Staff, FinalizeOne(h, e) PROVE UNCHANGED req
        BY <4>2 DEF FinalizeOne
      <4> QED
        BY <3>1, <3>3, <3>7, <4>1, <4>2 DEF JobStep, JobNext
    <3> QED
      BY <2>3, <3>4, <3>5, <3>6, <3>7 DEF CallStep
  <2>4. ASSUME OfficeStep PROVE Once
    <3>1. CASE UNCHANGED req
      BY <2>1, <3>1
    <3>2. ASSUME NEW k \in Slots, leaveCancelled(k) PROVE Once
      <4>1. \A i \in Requests : req'[i] = req[i] \/ (req'[i] = [req[i] EXCEPT !.linked = FALSE] /\ Exists(req[i]))
        BY <3>2 DEF leaveCancelled
      <4>2. \A i \in Requests : Exists(req[i]) => req[i] \in RequestRows
        BY <1>1 DEF Shape, RequestsOK, Exists, NoRequest
      <4>3. \A i \in Requests : req'[i].status = req[i].status
        BY <4>1, <4>2 DEF RequestRows
      <4> QED
        BY <4>3
    <3> QED
      BY <2>4, <3>1, <3>2 DEF OfficeStep, OfficeNext, leaveApproved, markAttendance, updateAttendanceConfig, attUntouched
  <2>5. ASSUME NEW h \in Handlers, CallStep(h) PROVE Forward
    <3>1. CASE ClaimStep(h) /\ WriteClaim(h)
      <4> DEFINE c == calls[h]
      <4>1. /\ c \in [pc: {"claim"}, e: Staff, mode: Modes, status: {"PENDING_HR", "APPROVED", "REJECTED"}]
            /\ claim' = [claim EXCEPT ![c.e] = [claim[c.e] EXCEPT !.status = c.status]]
            /\ claim \in [Staff -> Claims]
        BY <1>1, <3>1 DEF WriteClaim, Shape, CompOK, CallsOK, CallOK, ClaimCall
      <4>2. CompRead(c)
        BY <1>1, <3>1 DEF CompInv, ClaimStep, Moves
      <4>3. \A e \in Staff : claim'[e].status = IF e = c.e THEN c.status ELSE claim[e].status
        BY <4>1 DEF Claims
      <4>4. <<claim[c.e].status, c.status>> \in
               {<<"PENDING_MANAGER", "PENDING_HR">>, <<"PENDING_HR", "APPROVED">>,
                <<"PENDING_MANAGER", "REJECTED">>, <<"PENDING_HR", "REJECTED">>}
        BY <4>1, <4>2 DEF CompRead
      <4> QED
        BY <4>3, <4>4
    <3>2. CASE UNCHANGED claim
      BY <2>2, <3>2
    <3> QED
      BY <2>5, <3>1, <3>2 DEF CallStep, ClockStep, CompStep, ClaimStep, ShiftStep, LostStep, DisputeStep,
         JobStep, sideTables, otVars, ClaimHours, ClaimEmpty, ClaimBalance, ClaimRow, decideOvertimeClaim
  <2>6. ASSUME ClaimAtOnce PROVE Forward
    <3>1. CASE UNCHANGED claim
      BY <2>2, <3>1
    <3>2. ASSUME NEW e \in Overtimers, NEW mode \in {"CASH", "COMP_OFF"}, createOvertimeClaim(e, mode)
          PROVE Forward
      <4>1. claim[e] = NoClaim /\ claim' = [claim EXCEPT ![e] = [mode |-> mode,
              status |-> IF managerOf[e] = NoOne THEN "PENDING_HR" ELSE "PENDING_MANAGER"]]
        BY <3>2 DEF createOvertimeClaim
      <4> QED
        BY <1>1, <4>1 DEF Shape, CompOK, NoClaim
    <3> QED
      BY <2>6, <3>1, <3>2 DEF ClaimAtOnce, moveReport, SetupEdit, otVars
  <2>7. (ClaimAtOnce \/ DayStepOn => UNCHANGED req) /\ (OfficeStep \/ DayStepOn => UNCHANGED claim)
    BY DEF ClaimAtOnce, DayStepOn, OfficeStep, attVars, sideTables, otVars
  <2> QED
    BY <1>1, <2>1, <2>2, <2>3, <2>4, <2>5, <2>6, <2>7, EveryStep
<1>2. Shape /\ Alone /\ CompInv /\ DaysInv /\ [AttendanceNext]_attendanceVars => [Once]_req /\ [Forward]_claim
  <2>1. UNCHANGED attendanceVars => UNCHANGED req /\ UNCHANGED claim
    BY DEF attendanceVars, attVars, otVars
  <2> HIDE DEF Once, Forward
  <2> QED
    BY <1>1, <2>1
<1> QED
  BY <1>2, ShapeHolds, AloneHolds, CompHolds, DaysHold, PTL
  DEF AttendanceSpec, DecisionsAreFinal, DecidedOnce, ClaimMovesForward
=============================================================================
