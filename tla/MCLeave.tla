------------------------------ MODULE MCLeave ------------------------------
(* Values for the constants of LeaveRequests that a .cfg cannot spell.      *)
EXTENDS LeaveProperties, TLC

CONSTANTS emp, mgr, hr

MCMgr == emp :> mgr @@ mgr :> Nobody @@ hr :> Nobody
MCApplicantOnly == {<<emp, t>> : t \in Types}

(* One day, in December. *)
MCCalMonth == [d \in Days |-> 12]
MCCalYear  == [d \in Days |-> 1]
MCOneDay   == {1}
MCNoHolidays == {{}}
MCHolidayEdits == {{}, {1}}

(* Tenant settings: the approval chain, the leave-year start, LOP allowed. *)
Chain(levels, single) == [levels |-> levels, single |-> single, fy |-> 1, allowLop |-> TRUE]
MCTwoLevels   == {Chain(2, "HR")}
MCManagerOnly == {Chain(1, "MANAGER")}
MCAnyChain    == {Chain(2, "HR"), Chain(1, "MANAGER")}

Accrued == [mode |-> "ACCRUED", perEvent |-> 0, reduced |-> 0, reducedAfter |-> 0,
            maxEvents |-> 0, calendar |-> FALSE, before |-> 0, after |-> 0,
            requiresDocument |-> FALSE, minNotice |-> 0, restricted |-> FALSE]
Marriage == [Accrued EXCEPT !.mode = "ON_EVENT", !.perEvent = 4, !.maxEvents = 1,
                            !.before = 1, !.after = 1, !.requiresDocument = TRUE]
MCAccrued == {Accrued}
MCAccruedOrMarriage == {Accrued, [Marriage EXCEPT !.perEvent = 2]}
MCAccruedOrEvent == {Accrued, [Marriage EXCEPT !.requiresDocument = FALSE]}

(* The one-at-a-time run: either two requests for the day or clock-ins on it, *)
(* so that the two do not multiply.                                         *)
OneRequestOrNoClock ==
    \/ \A r \in Reqs : r > 1 => request[r] = NoRequest
    \/ \A e \in Employees, d \in Days : attendance[e][d] # "WORKED"

(* The overlapping run: a holiday is added, or else balances are adjusted.  *)
Adjusted == (\E c \in Calls : call[c].op = "ADJUST") \/ \E x \in ledger : x.r = NoReq
HolidayOrAdjustment ==
    holidays' \in {holidays, {1}} /\ (holidays' = {} \/ ~Adjusted')
NoHolidayYet == Init /\ holidays = {}
ConcurrentSpec == NoHolidayYet /\ [][Next]_vars
=============================================================================
