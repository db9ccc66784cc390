------------------------------- MODULE Client -------------------------------
(***************************************************************************)
(* The web client in front of the API.  A user opens a screen from the     *)
(* menu or by a link; the screen asks for what it shows, and asks again    *)
(* when the user changes what it asks for or when a call of its own is     *)
(* done.  Answers arrive in any order.  The user clicks on what is shown,  *)
(* other people change the rows meanwhile, and the API decides on the row  *)
(* as it is when the call reaches it.  Screens that are left hear nothing. *)
(***************************************************************************)
EXTENDS Screens, FiniteSets, Integers

CONSTANTS
    Accounts,       \* the users, by role and whether they have an employee record
    MaxAsked,       \* questions a user asks on one screen
    MaxClicked,     \* clicks on one screen
    MaxMoved        \* changes by other people while it is open

ASSUME ClientBounds == {MaxAsked, MaxClicked, MaxMoved} \subseteq Nat

Pages == LeavePages @@ AttendancePages @@ EmployeePages @@ AdminPages @@ PayrollPages @@ ConsolePages

(* The tabs of one page are all a click away.                               *)
Tabs == {DOMAIN LeavePages \ {"holiday_import"}, DOMAIN AttendancePages, PayrollTabs, {"access", "audit"},
         {"employee", "employee_status", "employee_login", "employee_documents"}, {"run", "drawer"}}
Menu(role) == IF role = OPS THEN DOMAIN PlatformShell ELSE {p \in DOMAIN NAV : role \in NAV[p]} \cup (IF role = CA THEN {"setup"} ELSE {})

VARIABLES
    account,        \* who is signed in
    page,           \* the screen
    about,          \* the employees a link to it was about, none for a list
    rows,           \* the rows it is about, as the database has them
    asked,          \* the row asked for last
    questions,      \* how many were asked
    fetching,       \* questions whose answers are under way, as they were answered
    heard,          \* the latest question whose answer arrived
    overtaken,      \* an answer arrived after the answer to a later question
    view,           \* the row shown
    sending,        \* clicks under way
    clicked, moved, \* how many clicks, how many changes by others
    answer          \* the last answer to a click

vars == <<account, page, about, rows, asked, questions, fetching, heard, overtaken, view, sending, clicked, moved, answer>>

Nothing == [key |-> 0]
NoAnswer == [call |-> "none"]
NoRow == [kind |-> "plain", rel |-> "none", state |-> "NONE"]
screen == Pages[page]
Keys == DOMAIN rows

-----------------------------------------------------------------------------
(* Opening a screen.                                                        *)
MayExist(kind, rel) == rel = "other" \/ account.linked \/ kind \in {"login", "plain"}
RowsOf(p) ==
    LET s == Pages[p] IN
    {[kind |-> s.kind, rel |-> r[1], state |-> r[2]] : r \in {x \in s.rows[account.role] : MayExist(s.kind, x[1])}}
RowsLinked(p, rels) ==
    LET s == Pages[p] IN
    {[kind |-> s.kind, rel |-> x, state |-> st] : x \in {y \in rels : MayExist("linked", y)}, st \in States[s.kind]}
(* A screen whose question can change has a second row of the same employee *)
(* group to ask for.                                                        *)
Opened(choice) ==
    IF choice = {} THEN {<<NoRow>>}
    ELSE IF screen.keyed THEN {x \in choice \X choice : x[1].rel = x[2].rel}
    ELSE {<<a>> : a \in choice}
(* The screen is there at once, its rows are whatever the database holds.   *)
Open(p, rels) ==
    /\ page' = p /\ about' = rels
    /\ rows' = <<>> /\ fetching' = {} /\ view' = Nothing
    /\ UNCHANGED <<account, asked, questions, heard, overtaken, sending, clicked, moved, answer>>
Load ==
    /\ rows = <<>>
    /\ rows' \in Opened(IF about = {} THEN RowsOf(page) ELSE RowsLinked(page, about))
    /\ fetching' = {[no |-> 1, key |-> 1, row |-> rows'[1]]}
    /\ UNCHANGED <<account, page, about, asked, questions, heard, overtaken, view, sending, clicked, moved, answer>>

(* Nothing of a screen is left when another is opened, so it is enough to   *)
(* leave a screen before anything else is done with it (a bound).           *)
Untouched == questions = 1 /\ clicked = 0 /\ moved = 0
Navigate == rows = <<>> /\ \E p \in Menu(account.role) \ {page} : Open(p, {})
ChooseTab ==
    /\ Untouched /\ view # Nothing
    /\ \E group \in Tabs : \E p \in group \ {page} :
           /\ page \in group /\ account.role \in Pages[p].who
           /\ Open(p, IF page \in DOMAIN EmployeePages THEN {rows[1].rel} ELSE {})
FollowLink ==
    /\ Untouched /\ view # Nothing
    /\ \E l \in screen.links : account.role \in l.who /\ Open(l.page, IF l.row THEN l.of ELSE {})

-----------------------------------------------------------------------------
(* Asking and answering.  The answer is at least as old as the question.    *)
Asking(key, table) == [no |-> questions + 1, key |-> key, row |-> table[key]]
Ask(key) ==
    /\ screen.keyed /\ questions < MaxAsked /\ key # asked
    /\ asked' = key /\ questions' = questions + 1
    /\ fetching' = fetching \cup {Asking(key, rows)}
    /\ view' = (IF screen.cleared THEN Nothing ELSE view)
    /\ UNCHANGED <<account, page, about, rows, heard, overtaken, sending, clicked, moved, answer>>

(* A row that is no longer on the screen's list is no longer answered.      *)
Answered(row) == IF <<row.rel, row.state>> \in screen.rows[account.role] THEN row ELSE NoRow
(* Mutant of Dropped: every answer is shown. *)
DroppedNever(f) == FALSE
Dropped(f) == screen.latest /\ f.no # questions
Arrive(f) ==
    /\ fetching' = fetching \ {f}
    /\ view' = (IF Dropped(f) THEN view ELSE [key |-> f.key, row |-> Answered(f.row)])
    /\ overtaken' = (overtaken \/ f.no < heard)
    /\ heard' = (IF f.no > heard THEN f.no ELSE heard)
    /\ UNCHANGED <<account, page, about, rows, asked, questions, sending, clicked, moved, answer>>

-----------------------------------------------------------------------------
(* Clicking.                                                                *)
Shown(u) ==
    /\ account.role \in u.who /\ (u.linked => account.linked)
    /\ view.row.rel \in u.of /\ view.row.state \in u.on
    /\ u.held => \A c \in sending : c.call # u.call
Click(u) ==
    /\ view # Nothing /\ clicked < MaxClicked /\ Shown(u)
    /\ clicked' = clicked + 1
    /\ sending' = sending \cup
           {[id |-> clicked + 1, call |-> u.call, to |-> u.to, after |-> u.after, seen |-> view,
             key |-> IF u.names = "asked" THEN asked ELSE view.key]}
    /\ UNCHANGED <<account, page, about, rows, asked, questions, fetching, heard, overtaken, view, moved, answer>>

(* The API handles a call and the screen takes its answer.                  *)
Outcome(c, accepted) ==
    [call |-> c.call, accepted |-> accepted, row |-> rows[c.key], key |-> c.key, seen |-> c.seen]
Refuse(c) ==
    /\ After(c.call, c.to, account, rows[c.key]) = {}
    /\ answer' = Outcome(c, FALSE) /\ sending' = sending \ {c}
    /\ UNCHANGED <<account, page, about, rows, asked, questions, fetching, heard, overtaken, view, clicked, moved>>
Accept(c) ==
    /\ \E s \in After(c.call, c.to, account, rows[c.key]) : rows' = [rows EXCEPT ![c.key].state = s]
    /\ answer' = Outcome(c, TRUE) /\ sending' = sending \ {c}
    /\ IF c.after = "reload"
       THEN questions' = questions + 1 /\ fetching' = fetching \cup {Asking(asked, rows')} /\ view' = view
       ELSE IF c.after = "leave"
       THEN fetching' = {} /\ view' = Nothing /\ UNCHANGED questions
       ELSE UNCHANGED <<questions, fetching, view>>
    /\ UNCHANGED <<account, page, about, asked, heard, overtaken, clicked, moved>>

(* Somebody else acts on a row, as the API lets them.                       *)
Undecides == {"POST leave/requests/:id/reject", "POST leave/requests/:id/cancel"}
MoveByOthers ==
    /\ moved < MaxMoved /\ Keys # {} /\ rows[1] # NoRow
    /\ \E k \in Keys :
           \E m \in KindSteps[rows[k].kind] :
               /\ m[1] \notin Undecides /\ m[2] = rows[k].state /\ m[3] # m[2]
               /\ rows' = [rows EXCEPT ![k].state = m[3]]
    /\ moved' = moved + 1
    /\ UNCHANGED <<account, page, about, asked, questions, fetching, heard, overtaken, view, sending, clicked, answer>>

ClientInit ==
    /\ account \in Accounts
    /\ page \in Menu(account.role) /\ about = {} /\ rows = <<>>
    /\ asked = 1 /\ questions = 1 /\ heard = 0 /\ overtaken = FALSE
    /\ fetching = {} /\ view = Nothing /\ sending = {} /\ clicked = 0 /\ moved = 0 /\ answer = NoAnswer
ClientNext ==
    \/ Load \/ Navigate \/ ChooseTab \/ FollowLink
    \/ \E key \in Keys : Ask(key)
    \/ \E f \in fetching : Arrive(f)
    \/ \E u \in screen.offers : Click(u)
    \/ \E c \in sending : Refuse(c) \/ Accept(c)
    \/ MoveByOthers
ClientSpec == ClientInit /\ [][ClientNext]_vars
=============================================================================
