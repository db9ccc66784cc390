------------------------------ MODULE Browser ------------------------------
(***************************************************************************)
(* What the web client keeps of its own: the draft of the setup wizard and *)
(* the user it takes itself to have.                                       *)
(***************************************************************************)
EXTENDS Integers, FiniteSets

(***************************************************************************)
(* The draft of the setup wizard in the browser (pages/setup/index.tsx)    *)
(* and the copy the API keeps of it.  Edits are counted, and a copy is     *)
(* named by the number of edits it has.  A pause in typing saves in the    *)
(* background, the buttons save aloud and may then submit what the API     *)
(* has.  Calls are handled in any order and may be lost.                   *)
(***************************************************************************)

CONSTANTS MaxTyped, MaxSaves    \* bounds: edits, saves

ASSUME EditorBounds == {MaxTyped, MaxSaves} \subseteq Nat

VARIABLES
    typed,      \* edits in the form
    dirty,      \* the form says there are edits to save
    armed,      \* the pause after an edit is running
    saves,      \* saves under way: [no, copy, aloud, submits, stale, handled]
    sent,       \* how many were sent
    kept,       \* the copy the API keeps
    newest,     \* the latest save it handled
    busy,       \* what the buttons show: "idle", "save" or "submit"
    submitting, \* submissions under way
    submitted,  \* the copy that was submitted, or Unsubmitted
    typedLate,  \* something was typed while a save aloud or the submission was under way
    crossed     \* the API handled a save after a later one

editorVars == <<typed, dirty, armed, saves, sent, kept, newest, busy, submitting, submitted, typedLate, crossed>>
Unsubmitted == -1
Outdated(ss) == {[s EXCEPT !.stale = TRUE] : s \in ss}

EditorInit ==
    /\ typed = 0 /\ kept = 0 /\ dirty = FALSE /\ armed = FALSE /\ saves = {} /\ sent = 0 /\ newest = 0
    /\ busy = "idle" /\ submitting = 0 /\ submitted = Unsubmitted /\ typedLate = FALSE /\ crossed = FALSE

(* An edit makes the background save under way stale and starts the pause.  *)
Edit ==
    /\ typed < MaxTyped /\ submitted = Unsubmitted
    /\ typed' = typed + 1 /\ dirty' = TRUE /\ armed' = TRUE /\ saves' = Outdated(saves)
    /\ typedLate' = (typedLate \/ submitting > 0 \/ \E s \in saves : s.aloud)
    /\ UNCHANGED <<sent, kept, newest, busy, submitting, submitted, crossed>>

Sent(aloud, submits) ==
    /\ sent < MaxSaves /\ sent' = sent + 1
    /\ saves' = saves \cup {[no |-> sent + 1, copy |-> typed, aloud |-> aloud, submits |-> submits,
                             stale |-> FALSE, handled |-> FALSE]}
BackgroundSave ==
    /\ armed /\ armed' = FALSE /\ Sent(FALSE, FALSE)
    /\ UNCHANGED <<typed, dirty, kept, newest, busy, submitting, submitted, typedLate, crossed>>

(* save(), which has nothing to send where the form is clean, and submit()  *)
(* behind it.  A busy form turns the buttons off, but for those of the      *)
(* steps, which save what is dirty.                                         *)
SaveAloud(submits) ==
    /\ submitted = Unsubmitted /\ (busy = "idle" \/ (dirty /\ ~submits))
    /\ IF dirty
       THEN busy' = "save" /\ Sent(TRUE, submits) /\ UNCHANGED submitting
       ELSE submits /\ busy' = "submit" /\ submitting' = submitting + 1 /\ UNCHANGED <<saves, sent>>
    /\ UNCHANGED <<typed, dirty, armed, kept, newest, submitted, typedLate, crossed>>

Handle(s) ==
    /\ ~s.handled /\ submitted = Unsubmitted
    /\ kept' = s.copy
    /\ saves' = (saves \ {s}) \cup {[s EXCEPT !.handled = TRUE]}
    /\ newest' = (IF s.no > newest THEN s.no ELSE newest)
    /\ crossed' = (crossed \/ s.no < newest)
    /\ UNCHANGED <<typed, dirty, armed, sent, busy, submitting, submitted, typedLate>>

(* Becoming clean ends the pause and makes the background saves stale.      *)
Clean(rest) ==
    /\ dirty' = FALSE
    /\ armed' = (armed /\ ~dirty)
    /\ saves' = IF dirty THEN Outdated(rest) ELSE rest
(* Mutant of AnsweredInBackground: an answer counts whatever was typed since. *)
AnsweredWithoutStale(s) ==
    /\ s.handled /\ ~s.aloud
    /\ Clean(saves \ {s})
    /\ UNCHANGED <<typed, sent, kept, newest, busy, submitting, submitted, typedLate, crossed>>
AnsweredInBackground(s) ==
    /\ s.handled /\ ~s.aloud
    /\ IF s.stale THEN saves' = saves \ {s} /\ UNCHANGED <<dirty, armed>> ELSE Clean(saves \ {s})
    /\ UNCHANGED <<typed, sent, kept, newest, busy, submitting, submitted, typedLate, crossed>>
AnsweredAloud(s) ==
    /\ s.handled /\ s.aloud
    /\ Clean(saves \ {s})
    /\ busy' = IF s.submits THEN "submit" ELSE "idle"
    /\ submitting' = IF s.submits THEN submitting + 1 ELSE submitting
    /\ UNCHANGED <<typed, sent, kept, newest, submitted, typedLate, crossed>>
(* A save that fails is not tried again before the next edit or button.     *)
Fail(s) ==
    /\ saves' = saves \ {s}
    /\ busy' = IF s.aloud THEN "idle" ELSE busy
    /\ UNCHANGED <<typed, dirty, armed, sent, kept, newest, submitting, submitted, typedLate, crossed>>

(* The API submits what it keeps, once.                                     *)
Submit ==
    /\ submitting > 0 /\ submitting' = submitting - 1 /\ busy' = "idle"
    /\ submitted' \in IF submitted = Unsubmitted THEN {kept, Unsubmitted} ELSE {submitted}
    /\ UNCHANGED <<typed, dirty, armed, saves, sent, kept, newest, typedLate, crossed>>

EditorNext ==
    \/ Edit \/ BackgroundSave \/ Submit
    \/ \E submits \in BOOLEAN : SaveAloud(submits)
    \/ \E s \in saves : Handle(s) \/ AnsweredInBackground(s) \/ AnsweredAloud(s) \/ Fail(s)
EditorSpec == EditorInit /\ [][EditorNext]_editorVars

-----------------------------------------------------------------------------
(***************************************************************************)
(* Who the web client takes its user to be (context/auth-context.tsx).     *)
(* Firebase holds the sign-in and the browser a workspace; every sign-in   *)
(* and every renewal of the token asks the API who that is, and the last   *)
(* answer to arrive is the user, whichever sign-in it was about.           *)
(***************************************************************************)

CONSTANTS
    Home,           \* the workspace of each login
    MaxChecks       \* bound: questions to the API

VARIABLES
    signed,         \* who Firebase has signed in
    workspace,      \* the subdomain in the browser, sent with every call
    user,           \* [person, at] the client shows, or Guest
    active,         \* logins that are not deactivated
    checks,         \* questions under way: [no, person, at, login]
    checked,        \* how many were asked
    lastHeard,      \* the latest that was answered
    lateAnswer,     \* a session was set by an answer to an earlier sign-in
    mistyped        \* a sign-in failed after its workspace was stored

sessionVars == <<signed, workspace, user, active, checks, checked, lastHeard, lateAnswer, mistyped>>
Persons == DOMAIN Home
Workspaces == {Home[p] : p \in Persons}
Nobody == "nobody"
Guest == [person |-> Nobody, at |-> Nobody]

SessionInit ==
    /\ signed = Nobody /\ workspace \in Workspaces /\ user = Guest /\ active = Persons
    /\ checks = {} /\ checked = 0 /\ lastHeard = 0 /\ lateAnswer = FALSE /\ mistyped = FALSE

Check(no, p, at, login) == [no |-> no, person |-> p, at |-> at, login |-> login]

(* login(): the workspace is stored first; a sign-in asks twice, once by    *)
(* itself and once because the token changed.                               *)
SignIn(p, w) ==
    /\ checked + 2 <= MaxChecks
    /\ workspace' = w
    /\ \/ /\ signed' = p /\ checked' = checked + 2 /\ mistyped' = FALSE
          /\ checks' = checks \cup {Check(checked + 1, p, w, FALSE), Check(checked + 2, p, w, TRUE)}
       \/ mistyped' = TRUE /\ UNCHANGED <<signed, checked, checks>>
    /\ UNCHANGED <<user, active, lastHeard, lateAnswer>>
logout == signed' = Nobody /\ user' = Guest /\ UNCHANGED <<workspace, active, checks, checked, lastHeard, lateAnswer, mistyped>>
onIdTokenChanged ==
    /\ signed # Nobody /\ checked < MaxChecks
    /\ checked' = checked + 1
    /\ checks' = checks \cup {Check(checked + 1, signed, workspace, FALSE)}
    /\ UNCHANGED <<signed, workspace, user, active, lastHeard, lateAnswer, mistyped>>

(* session(): the token's workspace is the one asked, and the login active. *)
session(c) == Home[c.person] = c.at /\ c.person \in active
Late(c) == c.no < lastHeard \/ c.person # signed \/ c.at # workspace
Hear(c) ==
    /\ checks' = checks \ {c}
    /\ lastHeard' = (IF c.no > lastHeard THEN c.no ELSE lastHeard)
    /\ UNCHANGED <<signed, workspace, active, checked, mistyped>>
Accepted(c) ==
    /\ session(c)
    /\ user' = [person |-> c.person, at |-> c.at] /\ lateAnswer' = (lateAnswer \/ Late(c))
    /\ Hear(c)
(* Refused or lost: the listener shows nobody, the login page the error.    *)
NotAccepted(c) ==
    /\ user' = (IF c.login THEN user ELSE Guest) /\ UNCHANGED lateAnswer
    /\ Hear(c)
Deactivate(p) ==
    /\ active' = active \ {p}
    /\ UNCHANGED <<signed, workspace, user, checks, checked, lastHeard, lateAnswer, mistyped>>

SessionNext ==
    \/ \E p \in Persons, w \in Workspaces : SignIn(p, w)
    \/ logout \/ onIdTokenChanged
    \/ \E c \in checks : Accepted(c) \/ NotAccepted(c)
    \/ \E p \in active : Deactivate(p)
SessionSpec == SessionInit /\ [][SessionNext]_sessionVars
=============================================================================
