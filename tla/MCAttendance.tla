---------------------------- MODULE MCAttendance ----------------------------
(***************************************************************************)
(* Attendance, overtime claims and shifts in one run: `part` says which of *)
(* them a behaviour is about, so that their states add up instead of       *)
(* multiplying.  "days" and "disputes" are two instances of Attendance:    *)
(* the clock with the comp-off credits, and regularization with the jobs.  *)
(***************************************************************************)
EXTENDS AttendanceProperties

CONSTANTS ann, mia, boss, hr1, hr2, h1, h2

VARIABLE part

allVars == <<part, callVars, today, compVars, attVars, otVars, shVars>>

MCWork == [d \in Days |-> "ABSENT"]
MCFeast == [d \in Days |-> IF d = 0 THEN "HOLIDAY" ELSE "ABSENT"]
MCCalendars == {MCWork, MCFeast}
MCMarks == {[status |-> "PRESENT", in |-> "ontime", out |-> TRUE],
            [status |-> "ABSENT", in |-> "none", out |-> FALSE]}
MCLimits == {[window |-> 1, cap |-> 1], [window |-> 2, cap |-> 2]}
MCSymmetry == Permutations(Handlers)
MCSubtree == [m \in {boss} |-> {ann}]
MCAsks == {[in |-> "none", out |-> TRUE], [in |-> "late", out |-> FALSE]}
MCEmployeeOf == [u \in {boss, hr1, hr2} |-> IF u = boss THEN mia ELSE NoOne]

MCInit ==
    /\ part \in {"days", "disputes", "overtime", "shifts"}
    /\ CallsInit /\ CompInit /\ AttInit /\ OtInit /\ ShInit
    /\ part = "days" => calendar = MCFeast
    /\ part # "days" => calendar = MCWork
    /\ behavior = "AUTO_APPROVE"
    /\ limits.cap = 1
    /\ part # "overtime" => managerOf = [e \in Overtimers |-> NoOne] /\ ~lapsed
    /\ shift[1] = "default"

Days_ ==
    /\ part = "days"
    /\ \/ \E h \in Handlers : ClockNext(h) \/ JobNext(h) \/ AttLose(h)
       \/ NextDay
       \/ \E found \in BOOLEAN : designate(found) /\ UNCHANGED attVars
    /\ UNCHANGED <<part, otVars, shVars>>

Disputes ==
    /\ part = "disputes"
    /\ \/ \E h \in Handlers : DisputeNext(h) \/ JobNext(h) \/ AttLose(h)
       \/ OfficeNext \/ NextDay
    /\ UNCHANGED <<part, otVars, shVars>>

OvertimePart == part = "overtime" /\ OtNext /\ UNCHANGED <<part, attVars, shVars>>
ShiftsPart == part = "shifts" /\ ShNext /\ UNCHANGED <<part, today, compVars, attVars, otVars>>

MCNext == Days_ \/ Disputes \/ OvertimePart \/ ShiftsPart
MCSpec == MCInit /\ [][MCNext]_allVars
=============================================================================
