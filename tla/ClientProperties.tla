-------------------------- MODULE ClientProperties --------------------------
(***************************************************************************)
(* What the web client and the API owe each other.                         *)
(***************************************************************************)
EXTENDS Client, Browser

(* The client is in a state of its own: rows, questions and clicks fit the  *)
(* screen that is open (the useState values of a page component).           *)
ClientTypeOK ==
    /\ account \in Accounts /\ page \in DOMAIN Pages /\ about \subseteq Rels \cup {"none"}
    /\ rows = <<>> \/ asked \in Keys
    /\ \A k \in Keys : rows[k] = NoRow \/ (rows[k].rel \in Rels /\ rows[k].state \in States[rows[k].kind])
    /\ heard \in 0..questions /\ clicked \in 0..MaxClicked /\ moved \in 0..MaxMoved
    /\ \A f \in fetching : f.no \in 1..questions /\ f.key \in Keys
    /\ view = Nothing \/ view.key \in Keys
    /\ \A c \in sending : c.call \in {u.call : u \in screen.offers} /\ c.key \in Keys

(* Where the two sides are known to disagree: an HR manager may open the    *)
(* attendance settings and save them, a line manager or auditor is offered  *)
(* an upload on every profile they see, removing a holiday posts to a path  *)
(* that does not exist, and an approved run still offers to adjust pay.     *)
KnownRefusals ==
    {<<"PATCH attendance/settings", HR>>}
    \cup {<<"POST employees/:id/documents", r>> : r \in {EMP, LM, AUD}}
    \cup {<<"POST leave/holidays/:id/delete", r>> : r \in HrAdmins}

(* What a screen offers, the API does: a click on a row that is as it was   *)
(* shown is not refused, for any role, relation and state, on any screen.   *)
OffersAreAccepted ==
    answer # NoAnswer =>
        \/ answer.accepted
        \/ answer.key # answer.seen.key \/ answer.row # answer.seen.row
        \/ <<answer.call, account.role>> \in KnownRefusals
        \/ answer.call = "PATCH payroll/runs/:id/line-items/:employeeId" /\ answer.row.state = "APPROVED"

(* What a screen asks for when it opens, for the rows a link leads to, is   *)
(* the user's to see.  Attendance opens for a login without an employee,    *)
(* and an employee with reports is led to profiles they may not open.       *)
KnownDeadEnds ==
    \/ page = "my_attendance" /\ ~account.linked
    \/ account.role = EMP /\ rows[1].rel # "own"
LoadRel(u) == IF u.of = {"own"} THEN "own" ELSE rows[asked].rel
LoadsAreAllowed ==
    \/ rows = <<>> \/ KnownDeadEnds
    \/ /\ account.role \in screen.who
       /\ \A u \in screen.loads :
              account.role \in u.who /\ (u.linked => account.linked) /\ (rows[1] # NoRow \/ u.call \notin DOMAIN Reach)
                  => Allowed(u.call, account, LoadRel(u))

(* At rest a screen shows the row it asked for last; one that drops late    *)
(* answers and blanks itself never shows another, so that no click of it    *)
(* can name a row other than the one in view.                               *)
AtRest == view # Nothing /\ fetching = {} /\ sending = {} /\ questions > 0
ShowsWhatItAsked ==
    /\ AtRest /\ (screen.latest \/ ~overtaken) => view.key = asked
    /\ screen.latest /\ screen.cleared /\ view # Nothing => view.key = asked
(* Where nobody else interfered it shows what the user's own calls did.     *)
ShowsWhatItDid ==
    AtRest /\ (screen.latest \/ ~overtaken) /\ moved = 0 => view.row = Answered(rows[view.key])

-----------------------------------------------------------------------------
(* What is settled stays settled, whatever an outdated screen asks for:     *)
(* only rejecting and cancelling a leave request look at no status.         *)
Settled ==
    [leave |-> {"REJECTED", "CANCELLED"}, regularization |-> {"APPROVED", "REJECTED", "CANCELLED"},
     lifecycle |-> {"SEPARATED"}, run |-> {"DISBURSED"}, settlement |-> {"PAID"}, account |-> {"LINKED"}]
StaysSettled ==
    \A k \in Keys :
        /\ rows[k].kind \in DOMAIN Settled /\ rows[k].state \in Settled[rows[k].kind]
        /\ rows'[k] # rows[k]
        => answer' # answer /\ answer'.call \in Undecides
SettledStaysSettled == [][page' = page /\ rows' # <<>> => StaysSettled]_vars

(* A line manager's approval counts only for the level that was shown to    *)
(* them: a request that moved to HR meanwhile is not approved twice over.   *)
ManagersDecideWhatTheySaw ==
    answer # NoAnswer /\ answer.call = "POST leave/requests/:id/approve" /\ answer.accepted /\ account.role = LM
        => answer.row.state = answer.seen.row.state

(* Nothing typed into the setup wizard is lost: a form that says it is      *)
(* saved is what the API keeps, and what is submitted is what was typed.    *)
(* Two things still lose an edit: the API handling two saves the other way  *)
(* round, and typing while a save asked for by a button is under way.       *)
NothingTypedIsLost ==
    \/ typedLate \/ crossed
    \/ /\ dirty \/ kept = typed
       /\ submitted \in {typed, Unsubmitted}

(* Once every question is answered, whoever is shown is who is signed in,   *)
(* in the workspace that every call names.  Two things still break it: an   *)
(* answer about an earlier sign-in that comes late, and a sign-in that      *)
(* fails in another workspace while somebody is shown.                      *)
ShowsWhoIsSignedIn ==
    checks = {} /\ user # Guest
        => lateAnswer \/ (user.person = signed /\ (mistyped \/ user.at = workspace))
-----------------------------------------------------------------------------
(* What a screen offers and asks for, its user may do and see, and decides  *)
(* on what was shown.                                                       *)
OffersHold == OffersAreAccepted /\ LoadsAreAllowed /\ ManagersDecideWhatTheySaw

(* The client's state is well formed, and a screen at rest shows the row it *)
(* asked for as the API has it.                                             *)
ViewsAreCurrent == ClientTypeOK /\ ShowsWhatItAsked /\ ShowsWhatItDid

(* The browser loses no edit of the setup and mistakes nobody for somebody  *)
(* else.                                                                    *)
BrowserIsTrue == NothingTypedIsLost /\ ShowsWhoIsSignedIn
=============================================================================
