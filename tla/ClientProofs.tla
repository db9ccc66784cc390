---------------------------- MODULE ClientProofs ----------------------------
(***************************************************************************)
(* Proofs about the web client: the draft of the setup wizard, the session *)
(* and what screens ask of settled rows, for any number of edits, saves,   *)
(* logins, questions and clicks, and for every user.                       *)
(***************************************************************************)
EXTENDS ClientProperties, TLAPS

(***************************************************************************)
(* The draft of the wizard.  Saves are numbered as they are sent, and a    *)
(* save that is not stale is a copy of the form as it is.  As long as      *)
(* nothing was typed late and the API handled the saves in order, what it  *)
(* keeps is at least as new as what it answers for.                        *)
(***************************************************************************)
Saves == [no : Nat, copy : Nat, aloud : BOOLEAN, submits : BOOLEAN, stale : BOOLEAN, handled : BOOLEAN]
EditorTypes ==
    /\ typed \in Nat /\ kept \in Nat /\ sent \in Nat /\ newest \in Nat /\ submitting \in Nat
    /\ dirty \in BOOLEAN /\ armed \in BOOLEAN /\ typedLate \in BOOLEAN /\ crossed \in BOOLEAN
    /\ saves \subseteq Saves
    /\ kept <= typed
SavesOK ==
    \A s \in saves :
        /\ 1 <= s.no /\ s.no <= sent /\ s.copy <= typed
        /\ ~s.stale => s.copy = typed
        /\ s.handled => s.no <= newest
        /\ s.aloud => typedLate \/ s.copy = typed
        /\ \A t \in saves : /\ s.no = t.no => s = t
                            /\ s.no < t.no => s.copy <= t.copy
KeptOK ==
    crossed \/ \A s \in saves :
        /\ s.handled => s.copy <= kept
        /\ ~s.handled /\ newest < s.no => kept <= s.copy
        /\ ~s.handled => s.no # newest
DraftOK ==
    typedLate \/ crossed
    \/ /\ ~dirty => kept = typed
       /\ submitting > 0 => ~dirty
       /\ submitted \in {typed, Unsubmitted}
EditorInv == EditorTypes /\ newest <= sent /\ SavesOK /\ KeptOK /\ DraftOK

LEMMA EditorStarts == ASSUME EditorInit PROVE EditorInv
<1>1. EditorTypes /\ newest <= sent
  <2>1. dirty \in BOOLEAN /\ armed \in BOOLEAN /\ typedLate \in BOOLEAN /\ crossed \in BOOLEAN
    BY DEF EditorInit
  <2>2. /\ typed \in Nat /\ kept \in Nat /\ sent \in Nat /\ newest \in Nat /\ submitting \in Nat
        /\ kept <= typed /\ newest <= sent /\ saves \subseteq Saves
    BY DEF EditorInit
  <2> QED BY <2>1, <2>2 DEF EditorTypes
<1>2. SavesOK /\ KeptOK BY DEF EditorInit, SavesOK, KeptOK
<1>3. DraftOK BY DEF EditorInit, DraftOK
<1> QED BY <1>1, <1>2, <1>3 DEF EditorInv

LEMMA OutdatedSaves ==
  ASSUME NEW ss \in SUBSET Saves
  PROVE  /\ Outdated(ss) \subseteq Saves
         /\ \A s \in Outdated(ss) : \E t \in ss :
              /\ s = [t EXCEPT !.stale = TRUE] /\ s.stale
              /\ s.no = t.no /\ s.copy = t.copy /\ s.aloud = t.aloud
              /\ s.submits = t.submits /\ s.handled = t.handled
BY DEF Outdated, Saves

LEMMA EditKeeps == ASSUME EditorInv, Edit PROVE EditorInv'
<1>0. saves \subseteq Saves BY DEF EditorInv, EditorTypes
<1>1. EditorTypes' /\ (newest <= sent)'
  BY <1>0, OutdatedSaves DEF EditorInv, EditorTypes, Edit
<1>2. SavesOK'
  BY <1>0, OutdatedSaves DEF EditorInv, EditorTypes, SavesOK, Edit, Saves
<1>3. KeptOK'
  BY <1>0, OutdatedSaves DEF EditorInv, EditorTypes, KeptOK, Edit, Saves
<1>4. DraftOK'
  BY DEF EditorInv, EditorTypes, DraftOK, Edit
<1> QED BY <1>1, <1>2, <1>3, <1>4 DEF EditorInv

(* A save that is sent is the newest and holds what is typed.               *)
LEMMA SentKeeps ==
  ASSUME EditorInv, NEW aloud \in BOOLEAN, NEW submits \in BOOLEAN, Sent(aloud, submits),
         armed' \in BOOLEAN,
         UNCHANGED <<typed, dirty, kept, newest, submitting, submitted, typedLate, crossed>>
  PROVE  EditorInv'
<1> DEFINE new == [no |-> sent + 1, copy |-> typed, aloud |-> aloud, submits |-> submits,
                   stale |-> FALSE, handled |-> FALSE]
<1>0. saves' = saves \cup {new} /\ sent' = sent + 1 BY DEF Sent
<1>1. EditorTypes' /\ (newest <= sent)'
  <2>1. new \in Saves BY DEF EditorInv, EditorTypes, Saves
  <2> HIDE DEF new
  <2> QED BY <1>0, <2>1 DEF EditorInv, EditorTypes
<1>2. SavesOK'
  <2>0. /\ new.no = sent + 1 /\ new.copy = typed /\ ~new.stale /\ ~new.handled /\ new.aloud = aloud
        /\ saves \subseteq Saves /\ sent \in Nat /\ typed \in Nat
    BY DEF EditorInv, EditorTypes
  <2> HIDE DEF new
  <2>1. \A s \in saves : s.no \in Nat /\ s.no <= sent /\ s.copy <= typed
    BY <2>0 DEF EditorInv, SavesOK, Saves
  <2> QED BY <1>0, <2>0, <2>1 DEF EditorInv, SavesOK
<1>3. KeptOK'
  BY <1>0 DEF EditorInv, EditorTypes, KeptOK, Saves
<1>4. DraftOK'
  BY DEF EditorInv, EditorTypes, DraftOK
<1> QED BY <1>1, <1>2, <1>3, <1>4 DEF EditorInv

LEMMA SaveKeeps ==
  ASSUME EditorInv, BackgroundSave \/ \E submits \in BOOLEAN : SaveAloud(submits)
  PROVE  EditorInv'
<1>1. CASE BackgroundSave
  BY <1>1, SentKeeps DEF BackgroundSave
<1>2. ASSUME NEW submits \in BOOLEAN, SaveAloud(submits) PROVE EditorInv'
  <2>1. CASE dirty
    BY <1>2, <2>1, SentKeeps DEF SaveAloud, EditorInv, EditorTypes
  <2>2. CASE ~dirty
    BY <1>2, <2>2 DEF SaveAloud, EditorInv, EditorTypes, SavesOK, KeptOK, DraftOK
  <2> QED BY <2>1, <2>2
<1> QED BY <1>1, <1>2

LEMMA HandleKeeps == ASSUME EditorInv, NEW s \in saves, Handle(s) PROVE EditorInv'
<1> DEFINE done == [s EXCEPT !.handled = TRUE]
<1>0. /\ saves' = (saves \ {s}) \cup {done} /\ kept' = s.copy /\ saves \subseteq Saves
      /\ done \in Saves /\ done.handled /\ done.no = s.no /\ done.copy = s.copy /\ done.aloud = s.aloud
      /\ done.stale = s.stale
  BY DEF Handle, EditorInv, EditorTypes, Saves
<1> HIDE DEF done
<1>1. EditorTypes' /\ (newest <= sent)'
  BY <1>0 DEF EditorInv, EditorTypes, SavesOK, Handle, Saves
<1>2. SavesOK'
  <2>1. newest' \in Nat /\ s.no <= newest' /\ newest <= newest'
    BY <1>0 DEF EditorInv, EditorTypes, Handle, Saves
  <2> QED BY <1>0, <2>1 DEF EditorInv, EditorTypes, SavesOK, Handle, Saves
<1>3. KeptOK'
  <2>1. CASE ~crossed'
    <3>1. ~crossed /\ newest < s.no /\ newest' = s.no
      BY <1>0, <2>1 DEF EditorInv, EditorTypes, Handle, Saves, KeptOK
    <3> QED BY <1>0, <3>1 DEF EditorInv, EditorTypes, SavesOK, KeptOK, Handle, Saves
  <2> QED BY <2>1 DEF KeptOK
<1>4. DraftOK'
  <2>1. CASE ~typedLate /\ ~crossed'
    <3>1. ~crossed /\ newest < s.no
      BY <1>0, <2>1 DEF EditorInv, EditorTypes, Handle, Saves, KeptOK
    <3>2. kept <= s.copy /\ s.copy <= typed
      BY <3>1, <1>0 DEF EditorInv, KeptOK, SavesOK, Handle
    <3> QED BY <1>0, <2>1, <3>1, <3>2 DEF EditorInv, EditorTypes, DraftOK, Handle, Saves
  <2> QED BY <2>1 DEF DraftOK, Handle
<1> QED BY <1>1, <1>2, <1>3, <1>4 DEF EditorInv

(* A save is no longer under way; the others may be stale now.              *)
LEMMA LessKeeps ==
  ASSUME EditorInv, NEW s \in saves, saves' \in {saves \ {s}, Outdated(saves \ {s})},
         armed' \in BOOLEAN,
         UNCHANGED <<typed, sent, kept, newest, crossed, typedLate>>
  PROVE  /\ saves' \subseteq Saves /\ (newest <= sent)' /\ SavesOK' /\ KeptOK'
<1>0. saves \subseteq Saves BY DEF EditorInv, EditorTypes
<1>1. \A t \in saves' :
        /\ t \in Saves
        /\ \E u \in saves \ {s} :
              /\ t = u \/ (t = [u EXCEPT !.stale = TRUE] /\ t.stale)
              /\ t.no = u.no /\ t.copy = u.copy /\ t.aloud = u.aloud
              /\ t.submits = u.submits /\ t.handled = u.handled
  BY <1>0, OutdatedSaves
<1>2. SavesOK'
  <2>2. \A t \in saves' :
        /\ 1 <= t.no /\ t.no <= sent' /\ t.copy <= typed'
        /\ ~t.stale => t.copy = typed'
        /\ t.handled => t.no <= newest'
        /\ t.aloud => typedLate' \/ t.copy = typed'
    BY <1>1 DEF EditorInv, SavesOK
  <2>3. ASSUME NEW t \in saves', NEW v \in saves'
        PROVE  /\ t.no = v.no => t = v
               /\ t.no < v.no => t.copy <= v.copy
    <3>1. CASE saves' = saves \ {s} BY <3>1, <2>3 DEF EditorInv, SavesOK
    <3>2. CASE saves' = Outdated(saves \ {s})
      <4>1. PICK a \in saves : t = [a EXCEPT !.stale = TRUE] /\ t.no = a.no /\ t.copy = a.copy
        BY <3>2, <1>0, <2>3, OutdatedSaves
      <4>2. PICK b \in saves : v = [b EXCEPT !.stale = TRUE] /\ v.no = b.no /\ v.copy = b.copy
        BY <3>2, <1>0, <2>3, OutdatedSaves
      <4>3. /\ a.no = b.no => a = b
            /\ a.no < b.no => a.copy <= b.copy
        BY DEF EditorInv, SavesOK
      <4> QED BY <4>1, <4>2, <4>3
    <3> QED BY <3>1, <3>2
  <2> QED BY <2>2, <2>3 DEF SavesOK
<1>3. KeptOK'
  <2> SUFFICES ASSUME ~crossed, NEW t \in saves'
               PROVE  /\ t.handled => t.copy <= kept
                      /\ ~t.handled /\ newest < t.no => kept <= t.copy
                      /\ ~t.handled => t.no # newest
    BY DEF KeptOK
  <2>1. PICK u \in saves : t.no = u.no /\ t.copy = u.copy /\ t.handled = u.handled
    BY <1>1
  <2> QED BY <2>1 DEF EditorInv, KeptOK
<1> QED BY <1>1, <1>2, <1>3 DEF EditorInv

LEMMA AnswerKeeps ==
  ASSUME EditorInv, NEW s \in saves, AnsweredInBackground(s) \/ AnsweredAloud(s) \/ Fail(s)
  PROVE  EditorInv'
<1>0. /\ saves' \in {saves \ {s}, Outdated(saves \ {s})} /\ armed' \in BOOLEAN /\ dirty' \in BOOLEAN
      /\ submitting' = submitting \/ (submitting' = submitting + 1 /\ ~dirty')
      /\ UNCHANGED <<typed, sent, kept, newest, crossed, typedLate, submitted>>
  BY DEF AnsweredInBackground, AnsweredAloud, Fail, Clean, EditorInv, EditorTypes
<1>1. /\ saves' \subseteq Saves /\ (newest <= sent)' /\ SavesOK' /\ KeptOK'
  BY <1>0, LessKeeps
<1>2. EditorTypes' BY <1>0, <1>1 DEF EditorInv, EditorTypes
<1>3. DraftOK'
  <2>1. CASE ~typedLate /\ ~crossed
    <3>1. CASE dirty' = dirty
      BY <3>1, <1>0, <2>1 DEF EditorInv, EditorTypes, DraftOK
    <3>2. CASE s.handled /\ s.copy = typed /\ ~dirty'
      <4>1. kept = typed
        BY <3>2, <2>1 DEF EditorInv, EditorTypes, KeptOK
      <4> QED BY <4>1, <3>2, <1>0, <2>1 DEF EditorInv, DraftOK
    <3>3. dirty' = dirty \/ (s.handled /\ s.copy = typed /\ ~dirty')
      <4>1. CASE Fail(s) BY <4>1 DEF Fail
      <4>2. CASE AnsweredAloud(s) BY <4>2, <2>1 DEF AnsweredAloud, Clean, EditorInv, SavesOK
      <4>3. CASE AnsweredInBackground(s) BY <4>3 DEF AnsweredInBackground, Clean, EditorInv, SavesOK
      <4> QED BY <4>1, <4>2, <4>3
    <3> QED BY <3>1, <3>2, <3>3
  <2> QED BY <2>1, <1>0 DEF DraftOK
<1> QED BY <1>1, <1>2, <1>3 DEF EditorInv

LEMMA SubmitKeeps == ASSUME EditorInv, Submit PROVE EditorInv'
BY DEF EditorInv, EditorTypes, SavesOK, KeptOK, DraftOK, Submit

LEMMA EditorSteps == ASSUME EditorInv, [EditorNext]_editorVars PROVE EditorInv'
<1>1. CASE UNCHANGED editorVars
  BY <1>1 DEF EditorInv, EditorTypes, SavesOK, KeptOK, DraftOK, editorVars
<1>2. CASE EditorNext
  BY <1>2, EditKeeps, SaveKeeps, HandleKeeps, AnswerKeeps, SubmitKeeps DEF EditorNext
<1> QED BY <1>1, <1>2

-----------------------------------------------------------------------------
(***************************************************************************)
(* The session.  Whoever is shown is signed in, unless an answer came late *)
(* or the sign-in still has to answer for itself, which it does twice.     *)
(***************************************************************************)
SessionInv ==
    \/ user = Guest \/ lateAnswer
    \/ user.person = signed /\ (mistyped \/ user.at = workspace)
    \/ \E c \in checks : ~c.login

LEMMA SessionSteps == ASSUME SessionInv, [SessionNext]_sessionVars PROVE SessionInv'
<1>1. CASE UNCHANGED sessionVars BY <1>1 DEF SessionInv, sessionVars
<1>2. ASSUME NEW p \in Persons, NEW w \in Workspaces, SignIn(p, w) PROVE SessionInv'
  <2>1. CASE mistyped' = TRUE /\ UNCHANGED <<signed, checked, checks>>
    BY <1>2, <2>1 DEF SessionInv, SignIn
  <2>2. CASE checks' = checks \cup {Check(checked + 1, p, w, FALSE), Check(checked + 2, p, w, TRUE)}
    <3>1. Check(checked + 1, p, w, FALSE) \in checks' /\ ~Check(checked + 1, p, w, FALSE).login
      BY <2>2 DEF Check
    <3> QED BY <3>1 DEF SessionInv
  <2> QED BY <1>2, <2>1, <2>2 DEF SignIn
<1>3. CASE logout BY <1>3 DEF SessionInv, logout
<1>4. CASE onIdTokenChanged BY <1>4 DEF SessionInv, onIdTokenChanged
<1>5. ASSUME NEW c \in checks, Accepted(c) PROVE SessionInv'
  BY <1>5 DEF SessionInv, Accepted, Hear, Late
<1>6. ASSUME NEW c \in checks, NotAccepted(c) PROVE SessionInv'
  BY <1>6 DEF SessionInv, NotAccepted, Hear
<1>7. ASSUME NEW p \in active, Deactivate(p) PROVE SessionInv'
  BY <1>7 DEF SessionInv, Deactivate
<1> QED BY <1>1, <1>2, <1>3, <1>4, <1>5, <1>6, <1>7 DEF SessionNext

(* The wizard and the session live side by side in a browser.               *)
BrowserSpec == EditorSpec /\ SessionSpec

(* NothingTypedIsLost and ShowsWhoIsSignedIn (pages/setup/index.tsx and     *)
(* context/auth-context.tsx), whatever order calls are handled and answered *)
(* in and whichever are lost.                                               *)
THEOREM BrowserStaysTrue == BrowserSpec => []BrowserIsTrue
<1>1. EditorSpec => []EditorInv
  BY EditorStarts, EditorSteps, PTL DEF EditorSpec
<1>2. SessionSpec => []SessionInv
  <2>1. SessionInit => SessionInv BY DEF SessionInit, SessionInv
  <2> QED BY <2>1, SessionSteps, PTL DEF SessionSpec
<1>3. EditorInv /\ SessionInv => BrowserIsTrue
  BY DEF EditorInv, EditorTypes, SessionInv, DraftOK, BrowserIsTrue, NothingTypedIsLost, ShowsWhoIsSignedIn
<1> QED BY <1>1, <1>2, <1>3, PTL DEF BrowserSpec

-----------------------------------------------------------------------------
(***************************************************************************)
(* What is settled.  No move of the API leaves a settled state, but for    *)
(* rejecting and cancelling leave, which end in the state they say.        *)
(***************************************************************************)
Stays(steps, S) == \A m \in steps : m[2] \in S => m[3] = m[2]

Reject == "POST leave/requests/:id/reject"
Undone(call) == IF call = Reject THEN "REJECTED" ELSE "CANCELLED"

LEMMA MoveStates ==
  ASSUME NEW call, NEW from, NEW to, NEW m \in Moves(call, from, to)
  PROVE  m[1] = call /\ m[2] \in from /\ m[3] \in to
BY DEF Moves
LEMMA KeepStates ==
  ASSUME NEW call, NEW states, NEW m \in Keeps(call, states)
  PROVE  \E s \in states : m = <<call, s, s>>
BY DEF Keeps

LEMMA RegularizationStays == Stays(RegularizationSteps, {"APPROVED", "REJECTED", "CANCELLED"})
<1> SUFFICES ASSUME NEW m \in RegularizationSteps PROVE m[2] \in {"PENDING"} BY DEF Stays
<1>1. \/ m \in Moves("POST attendance/regularization/:id/approve", {"PENDING"}, {"APPROVED"})
      \/ m \in Moves("POST attendance/regularization/bulk-approve", {"PENDING"}, {"APPROVED"})
      \/ m \in Moves("POST attendance/regularization/:id/reject", {"PENDING"}, {"REJECTED"})
      \/ m \in Moves("POST attendance/regularization/:id/cancel", {"PENDING"}, {"CANCELLED"})
      \/ m \in Keeps("POST attendance/regularization/:id/evidence", {"PENDING"})
  BY DEF RegularizationSteps
<1>2. ASSUME NEW c, NEW S, m \in Keeps(c, S) PROVE m[2] \in S /\ m[3] = m[2] BY <1>2, KeepStates
<1>3. ASSUME NEW c, NEW A, NEW B, m \in Moves(c, A, B) PROVE m[2] \in A BY <1>3, MoveStates
<1> QED BY <1>1, <1>2, <1>3

LEMMA LifecycleStays == Stays(LifecycleSteps, {"SEPARATED"})
<1> SUFFICES ASSUME NEW m \in LifecycleSteps, m[2] = "SEPARATED" PROVE FALSE BY DEF Stays
<1> QED BY MoveStates DEF LifecycleSteps

LEMMA RunStays == Stays(RunSteps, {"DISBURSED"})
<1> SUFFICES ASSUME NEW m \in RunSteps, m[2] = "DISBURSED" PROVE m[3] = m[2] BY DEF Stays
<1>1. \/ m \in Keeps("POST payroll/runs/:id/recalculate", {"DRAFT", "REVIEW"})
      \/ m \in Keeps("PATCH payroll/runs/:id/line-items/:employeeId", {"DRAFT", "REVIEW"})
      \/ m \in Moves("POST payroll/runs/:id/submit-review", {"DRAFT"}, {"REVIEW"})
      \/ m \in Moves("POST payroll/runs/:id/approve", {"REVIEW"}, {"REVIEW", "APPROVED"})
      \/ m \in Moves("POST payroll/runs/:id/process", {"APPROVED"}, {"PROCESSED"})
      \/ m \in Moves("POST payroll/runs/:id/disburse", {"PROCESSED"}, {"DISBURSED"})
      \/ m \in Keeps("GET payroll/payslips/:employeeId", {"PROCESSED", "DISBURSED"})
  BY DEF RunSteps
<1>2. ASSUME NEW c, NEW S, m \in Keeps(c, S) PROVE m[2] \in S /\ m[3] = m[2] BY <1>2, KeepStates
<1>3. ASSUME NEW c, NEW A, NEW B, m \in Moves(c, A, B) PROVE m[2] \in A BY <1>3, MoveStates
<1> QED BY <1>1, <1>2, <1>3

LEMMA SettlementStays == Stays(SettlementSteps, {"PAID"})
<1> SUFFICES ASSUME NEW m \in SettlementSteps, m[2] = "PAID" PROVE m[3] = m[2] BY DEF Stays
<1>1. \/ m \in Moves("POST payroll/fnf/:employeeId", {"NONE"}, {"DRAFT"})
      \/ m \in Keeps("GET payroll/fnf/:employeeId", States.settlement \ {"NONE"})
      \/ m \in Keeps("PATCH payroll/fnf/:employeeId", {"DRAFT"})
      \/ m \in Moves("POST payroll/fnf/:employeeId/approve", {"DRAFT"}, {"APPROVED"})
      \/ m \in Moves("POST payroll/fnf/:employeeId/mark-paid", {"APPROVED"}, {"PAID"})
  BY DEF SettlementSteps
<1>2. ASSUME NEW c, NEW S, m \in Keeps(c, S) PROVE m[2] \in S /\ m[3] = m[2] BY <1>2, KeepStates
<1>3. ASSUME NEW c, NEW A, NEW B, m \in Moves(c, A, B) PROVE m[2] \in A BY <1>3, MoveStates
<1> QED BY <1>1, <1>2, <1>3

LEMMA AccountStays == Stays(AccountSteps, {"LINKED"})
<1> SUFFICES ASSUME NEW m \in AccountSteps, m[2] = "LINKED" PROVE m[3] = m[2] BY DEF Stays
<1>1. \/ m \in Moves("POST employees/:id/login", {"NONE"}, {"LINKED"})
      \/ m \in Moves("PATCH employees/:id/login", {"NONE"}, {"LINKED"})
      \/ m \in Keeps("POST employees/:id/login/sync-email", {"LINKED"})
  BY DEF AccountSteps
<1>2. ASSUME NEW c, NEW S, m \in Keeps(c, S) PROVE m[2] \in S /\ m[3] = m[2] BY <1>2, KeepStates
<1>3. ASSUME NEW c, NEW A, NEW B, m \in Moves(c, A, B) PROVE m[2] \in A BY <1>3, MoveStates
<1> QED BY <1>1, <1>2, <1>3

LEMMA LeaveStays ==
  /\ \A m \in LeaveSteps : IF m[1] \in Undecides THEN m[3] = Undone(m[1])
                           ELSE m[2] \in {"REJECTED", "CANCELLED"} => m[3] = m[2]
  /\ \A call \in Undecides : \E m \in LeaveSteps : m[1] = call
<1> DEFINE Fine(m) == IF m[1] \in Undecides THEN m[3] = Undone(m[1])
                      ELSE m[2] \in {"REJECTED", "CANCELLED"} => m[3] = m[2]
<1>1. \A m \in Moves("POST leave/requests/:id/approve", {"PENDING_L1"}, {"PENDING_L2", "APPROVED"})
               \cup Moves("POST leave/requests/:id/approve", {"PENDING_L2"}, {"APPROVED"}) : Fine(m)
  BY DEF Moves, Undecides
<1>2. \A m \in Moves("POST leave/requests/:id/reject", States.leave, {"REJECTED"}) : Fine(m)
  BY DEF Moves, Undecides, Undone, Reject
<1>3. \A m \in Moves("POST leave/requests/:id/cancel", States.leave, {"CANCELLED"}) : Fine(m)
  BY DEF Moves, Undecides, Undone, Reject
<1>4. \A m \in Keeps("POST leave/requests/:id/attachment", States.leave \ {"CANCELLED", "REJECTED"}) : Fine(m)
  <2> SUFFICES ASSUME NEW m \in Keeps("POST leave/requests/:id/attachment", States.leave \ {"CANCELLED", "REJECTED"})
               PROVE  m[1] \notin Undecides /\ m[3] = m[2]
    OBVIOUS
  <2>1. PICK s : m = <<"POST leave/requests/:id/attachment", s, s>> BY DEF Keeps
  <2>2. "POST leave/requests/:id/attachment" \notin Undecides BY DEF Undecides
  <2> QED BY <2>1, <2>2
<1>5. \A m \in LeaveSteps : Fine(m)
  <2> HIDE DEF Fine
  <2> QED BY <1>1, <1>2, <1>3, <1>4 DEF LeaveSteps
<1>6. "APPROVED" \in States.leave BY DEF States
<1>7. /\ <<"POST leave/requests/:id/reject", "APPROVED", "REJECTED">> \in LeaveSteps
      /\ <<"POST leave/requests/:id/cancel", "APPROVED", "CANCELLED">> \in LeaveSteps
  BY <1>6 DEF LeaveSteps, Moves
<1>8. \A call \in Undecides : \E m \in LeaveSteps : m[1] = call
  BY <1>7 DEF Undecides
<1> QED BY <1>5, <1>8

(* What a move makes of a row whose kind is settled sooner or later.        *)
LEMMA MovesSettle ==
  ASSUME NEW row, row.kind \in DOMAIN Settled, NEW m \in KindSteps[row.kind], m[2] = row.state
  PROVE  IF row.kind = "leave" /\ m[1] \in Undecides THEN m[3] = Undone(m[1])
         ELSE row.state \in Settled[row.kind] => m[3] = row.state
<1>1. /\ DOMAIN Settled = {"leave", "regularization", "lifecycle", "run", "settlement", "account"}
      /\ Settled["leave"] = {"REJECTED", "CANCELLED"}
      /\ Settled["regularization"] = {"APPROVED", "REJECTED", "CANCELLED"}
      /\ Settled["lifecycle"] = {"SEPARATED"} /\ Settled["run"] = {"DISBURSED"}
      /\ Settled["settlement"] = {"PAID"} /\ Settled["account"] = {"LINKED"}
  BY DEF Settled
<1>2. /\ KindSteps["leave"] = LeaveSteps /\ KindSteps["regularization"] = RegularizationSteps
      /\ KindSteps["lifecycle"] = LifecycleSteps /\ KindSteps["run"] = RunSteps
      /\ KindSteps["settlement"] = SettlementSteps /\ KindSteps["account"] = AccountSteps
  BY DEF KindSteps
<1>3. CASE row.kind = "leave" BY <1>1, <1>2, <1>3, LeaveStays
<1>4. CASE row.kind = "regularization" BY <1>1, <1>2, <1>4, RegularizationStays DEF Stays
<1>5. CASE row.kind = "lifecycle" BY <1>1, <1>2, <1>5, LifecycleStays DEF Stays
<1>6. CASE row.kind = "run" BY <1>1, <1>2, <1>6, RunStays DEF Stays
<1>7. CASE row.kind = "settlement" BY <1>1, <1>2, <1>7, SettlementStays DEF Stays
<1>8. CASE row.kind = "account" BY <1>1, <1>2, <1>8, AccountStays DEF Stays
<1> QED BY <1>1, <1>3, <1>4, <1>5, <1>6, <1>7, <1>8

LEMMA AfterSettles ==
  ASSUME NEW row, row.kind \in DOMAIN Settled, NEW call, NEW to, NEW v, NEW s \in After(call, to, v, row)
  PROVE  IF row.kind = "leave" /\ call \in Undecides THEN s = Undone(call)
         ELSE row.state \in Settled[row.kind] => s = row.state
<1>1. \/ s = row.state /\ ~\E m \in KindSteps[row.kind] : m[1] = call
      \/ \E m \in KindSteps[row.kind] : m[1] = call /\ m[2] = row.state /\ m[3] = s
  BY DEF After
<1>2. KindSteps["leave"] = LeaveSteps BY DEF KindSteps
<1>3. CASE s = row.state /\ ~\E m \in KindSteps[row.kind] : m[1] = call
  BY <1>2, <1>3, LeaveStays
<1>4. CASE \E m \in KindSteps[row.kind] : m[1] = call /\ m[2] = row.state /\ m[3] = s
  BY <1>4, MovesSettle
<1> QED BY <1>1, <1>3, <1>4

-----------------------------------------------------------------------------
(* A screen: rows are records, every question, click and view names one of  *)
(* them, a screen nobody has touched has heard no answer to a click, and a  *)
(* leave request that the last answer rejected or cancelled still is.       *)
RowsOK == \A k \in Keys : rows[k] = [kind |-> rows[k].kind, rel |-> rows[k].rel, state |-> rows[k].state]
NamesOK ==
    /\ rows = <<>> => clicked = 0 /\ view = Nothing
    /\ rows # <<>> => asked \in Keys
    /\ questions \in Nat /\ questions >= 1 /\ clicked \in Nat
    /\ questions = 1 => asked = 1
    /\ rows = <<>> => asked = 1
    /\ \A f \in fetching : f.key \in Keys
    /\ view # Nothing => view.key \in Keys
    /\ \A c \in sending : c.key \in Keys
    /\ clicked = 0 => sending = {} /\ answer = NoAnswer
AnswerOK ==
    answer.call \in Undecides /\ answer.accepted /\ answer.key \in Keys /\ rows[answer.key].kind = "leave"
        => rows[answer.key].state = Undone(answer.call)
ScreenInv == RowsOK /\ NamesOK /\ AnswerOK

LEMMA LeaveIsSettled == "leave" \in DOMAIN Settled
BY DEF Settled

LEMMA ScreenStarts == ASSUME ClientInit PROVE ScreenInv
BY DEF ClientInit, ScreenInv, RowsOK, NamesOK, AnswerOK, NoAnswer, Undecides, Keys

LEMMA NoneUndecides == NoAnswer.call \notin Undecides
BY DEF NoAnswer, Undecides

LEMMA OpenKeeps ==
  ASSUME ScreenInv, NEW p, NEW rels, Open(p, rels), clicked = 0, asked = 1
  PROVE  ScreenInv' /\ rows' = <<>>
<1>0. Keys' = {} /\ rows' = <<>> /\ fetching' = {} /\ sending' = {} /\ view' = Nothing /\ questions' = questions
      /\ answer' = NoAnswer /\ asked' = 1 /\ clicked' = 0 /\ questions \in Nat /\ questions >= 1
  BY DEF Open, Keys, ScreenInv, NamesOK
<1>1. RowsOK' BY <1>0 DEF RowsOK
<1>2. NamesOK' BY <1>0 DEF NamesOK
<1>3. AnswerOK' BY <1>0, NoneUndecides DEF AnswerOK
<1> QED BY <1>1, <1>2, <1>3 DEF ScreenInv, Open

LEMMA MenuKeeps ==
  ASSUME ScreenInv, Navigate \/ ChooseTab \/ FollowLink PROVE ScreenInv' /\ rows' = <<>>
<1>1. CASE Navigate BY <1>1, OpenKeeps DEF Navigate, ScreenInv, NamesOK
<1>2. CASE ChooseTab BY <1>2, OpenKeeps DEF ChooseTab, Untouched, ScreenInv, NamesOK
<1>3. CASE FollowLink BY <1>3, OpenKeeps DEF FollowLink, Untouched, ScreenInv, NamesOK
<1> QED BY <1>1, <1>2, <1>3

LEMMA LoadKeeps == ASSUME ScreenInv, Load PROVE ScreenInv' /\ Keys = {}
<1> DEFINE RowLike(r) == r = [kind |-> r.kind, rel |-> r.rel, state |-> r.state]
<1> DEFINE choice == IF about = {} THEN RowsOf(page) ELSE RowsLinked(page, about)
<1>1. \A r \in choice : RowLike(r) BY DEF RowsOf, RowsLinked
<1>2. RowLike(NoRow) BY DEF NoRow
<1>3. rows' \in Opened(choice) BY DEF Load
<1> HIDE DEF choice
<1>4. /\ rows' = <<rows'[1]>> /\ RowLike(rows'[1])
      \/ /\ rows' = <<rows'[1], rows'[2]>> /\ RowLike(rows'[1]) /\ RowLike(rows'[2])
  BY <1>1, <1>2, <1>3 DEF Opened
<1>5. 1 \in Keys' /\ rows' # <<>> /\ (\A k \in Keys' : k = 1 \/ k = 2) BY <1>4 DEF Keys
<1>6. RowsOK' BY <1>4, <1>5 DEF RowsOK, Keys
<1>7. NamesOK'
  <2>1. /\ asked' = 1 /\ view' = Nothing /\ clicked' = 0 /\ questions' = questions /\ sending' = {}
        /\ answer' = NoAnswer /\ \A f \in fetching' : f.key = 1
    BY DEF Load, ScreenInv, NamesOK
  <2>2. questions \in Nat /\ questions >= 1 BY DEF ScreenInv, NamesOK
  <2> QED BY <1>5, <2>1, <2>2 DEF NamesOK
<1>8. AnswerOK'
  <2>1. answer' = NoAnswer BY DEF Load, ScreenInv, NamesOK
  <2> QED BY <2>1, NoneUndecides DEF AnswerOK
<1> QED BY <1>6, <1>7, <1>8 DEF ScreenInv, Load, Keys

LEMMA LookKeeps ==
  ASSUME ScreenInv, \/ \E key \in Keys : Ask(key)
                    \/ \E f \in fetching : Arrive(f)
                    \/ \E u \in screen.offers : Click(u)
  PROVE  ScreenInv' /\ UNCHANGED rows
<1>1. ASSUME NEW key \in Keys, Ask(key) PROVE ScreenInv' /\ UNCHANGED rows
  BY <1>1 DEF Ask, Asking, ScreenInv, RowsOK, NamesOK, AnswerOK, Keys
<1>2. ASSUME NEW f \in fetching, Arrive(f) PROVE ScreenInv' /\ UNCHANGED rows
  BY <1>2 DEF Arrive, ScreenInv, RowsOK, NamesOK, AnswerOK, Keys
<1>3. ASSUME NEW u \in screen.offers, Click(u) PROVE ScreenInv' /\ UNCHANGED rows
  BY <1>3 DEF Click, ScreenInv, RowsOK, NamesOK, AnswerOK, Keys
<1> QED BY <1>1, <1>2, <1>3

LEMMA RefuseKeeps ==
  ASSUME ScreenInv, NEW c \in sending, Refuse(c) PROVE ScreenInv' /\ UNCHANGED rows
<1>1. answer'.accepted = FALSE /\ clicked # 0 BY DEF Refuse, Outcome, ScreenInv, NamesOK
<1> QED BY <1>1 DEF Refuse, ScreenInv, RowsOK, NamesOK, AnswerOK, Keys

LEMMA AcceptKeeps ==
  ASSUME ScreenInv, NEW c \in sending, Accept(c) PROVE ScreenInv' /\ StaysSettled
<1> DEFINE k == c.key
<1>0. k \in Keys /\ clicked # 0 /\ rows # <<>> BY DEF ScreenInv, NamesOK, Keys
<1>1. PICK s \in After(c.call, c.to, account, rows[k]) : rows' = [rows EXCEPT ![k].state = s]
  BY DEF Accept
<1>2. /\ Keys' = Keys /\ \A j \in Keys \ {k} : rows'[j] = rows[j]
      /\ rows'[k] = [rows[k] EXCEPT !.state = s]
  BY <1>0, <1>1 DEF Keys
<1>3. /\ rows'[k] = [kind |-> rows[k].kind, rel |-> rows[k].rel, state |-> s]
      /\ rows'[k].kind = rows[k].kind /\ rows'[k].state = s
  BY <1>0, <1>2 DEF ScreenInv, RowsOK
<1>4. /\ answer'.call = c.call /\ answer'.accepted /\ answer'.key = k
  BY DEF Accept, Outcome
<1>5. rows[k].kind \in DOMAIN Settled =>
        IF rows[k].kind = "leave" /\ c.call \in Undecides THEN s = Undone(c.call)
        ELSE rows[k].state \in Settled[rows[k].kind] => s = rows[k].state
  BY AfterSettles
<1>6. RowsOK' BY <1>2, <1>3 DEF ScreenInv, RowsOK
<1>7. NamesOK'
  <2>1. rows' # <<>> /\ clicked' = clicked /\ asked' = asked /\ sending' \subseteq sending /\ asked \in Keys
        /\ clicked \in Nat /\ questions \in Nat /\ questions >= 1
    BY <1>0, <1>2 DEF Accept, ScreenInv, NamesOK, Keys
  <2>2. view' = Nothing \/ view' = view BY DEF Accept
  <2>3. \A f \in fetching' : f \in fetching \/ f.key = asked BY DEF Accept, Asking
  <2>4. questions' = questions \/ questions' = questions + 1 BY DEF Accept
  <2> QED BY <1>0, <1>2, <2>1, <2>2, <2>3, <2>4 DEF ScreenInv, NamesOK
<1>8. AnswerOK'
  BY <1>3, <1>4, <1>5, LeaveIsSettled DEF AnswerOK
<1>9. StaysSettled
  <2> SUFFICES ASSUME NEW j \in Keys, rows[j].kind \in DOMAIN Settled, rows[j].state \in Settled[rows[j].kind],
                      rows'[j] # rows[j]
               PROVE  answer' # answer /\ answer'.call \in Undecides
    BY DEF StaysSettled
  <2>1. j = k BY <1>2
  <2>2. s # rows[k].state BY <2>1, <1>0, <1>3 DEF ScreenInv, RowsOK
  <2>3. rows[k].kind = "leave" /\ c.call \in Undecides /\ s = Undone(c.call) BY <2>1, <2>2, <1>5
  <2>4. answer' # answer
    <3> SUFFICES ASSUME answer' = answer PROVE FALSE OBVIOUS
    <3> QED BY <1>0, <1>4, <2>2, <2>3 DEF ScreenInv, AnswerOK
  <2> QED BY <2>3, <2>4, <1>4
<1> QED BY <1>6, <1>7, <1>8, <1>9 DEF ScreenInv

LEMMA OthersKeep == ASSUME ScreenInv, MoveByOthers PROVE ScreenInv' /\ StaysSettled
<1>0. PICK k \in Keys : \E m \in KindSteps[rows[k].kind] :
         m[1] \notin Undecides /\ m[2] = rows[k].state /\ m[3] # m[2] /\ rows' = [rows EXCEPT ![k].state = m[3]]
  BY DEF MoveByOthers
<1>1. PICK m \in KindSteps[rows[k].kind] :
         m[1] \notin Undecides /\ m[2] = rows[k].state /\ m[3] # m[2] /\ rows' = [rows EXCEPT ![k].state = m[3]]
  BY <1>0
<1> DEFINE s == m[3]
<1>2. s # rows[k].state /\ rows' = [rows EXCEPT ![k].state = s] BY <1>1
<1>3. rows[k].kind \in DOMAIN Settled => rows[k].state \notin Settled[rows[k].kind]
  BY <1>1, MovesSettle
<1> HIDE DEF s
<1>4. /\ Keys' = Keys /\ \A j \in Keys \ {k} : rows'[j] = rows[j]
      /\ rows'[k] = [rows[k] EXCEPT !.state = s]
  BY <1>2 DEF Keys
<1>5. /\ rows'[k] = [kind |-> rows[k].kind, rel |-> rows[k].rel, state |-> s]
      /\ rows'[k].kind = rows[k].kind
  BY <1>4 DEF ScreenInv, RowsOK
<1>6. StaysSettled BY <1>3, <1>4 DEF StaysSettled
<1>7. RowsOK' BY <1>4, <1>5 DEF ScreenInv, RowsOK
<1>8. NamesOK'
  <2>1. rows # <<>> /\ rows' # <<>> BY <1>4 DEF Keys
  <2> QED BY <1>4, <2>1 DEF MoveByOthers, ScreenInv, NamesOK, Keys
<1>9. AnswerOK'
  <2>1. Settled["leave"] = {"REJECTED", "CANCELLED"} /\ "leave" \in DOMAIN Settled BY DEF Settled
  <2>2. \A c : Undone(c) \in Settled["leave"] BY <2>1 DEF Undone
  <2> SUFFICES ASSUME answer.call \in Undecides, answer.accepted, answer.key \in Keys, rows'[answer.key].kind = "leave"
               PROVE  rows'[answer.key].state = Undone(answer.call)
    BY <1>4 DEF AnswerOK, MoveByOthers
  <2>3. rows[answer.key].kind = "leave" /\ rows[answer.key].state = Undone(answer.call)
    BY <1>4, <1>5 DEF ScreenInv, AnswerOK
  <2>4. answer.key # k BY <1>3, <2>1, <2>2, <2>3
  <2> QED BY <1>4, <2>3, <2>4
<1> QED BY <1>6, <1>7, <1>8, <1>9 DEF ScreenInv

LEMMA ScreenSteps ==
  ASSUME ScreenInv, [ClientNext]_vars
  PROVE  ScreenInv' /\ [page' = page /\ rows' # <<>> => StaysSettled]_vars
<1>1. UNCHANGED rows \/ Keys = {} => StaysSettled BY DEF StaysSettled, Keys
<1>2. CASE UNCHANGED vars
  BY <1>2 DEF ScreenInv, RowsOK, NamesOK, AnswerOK, Keys, vars
<1>3. CASE ClientNext
  BY <1>1, <1>3, LoadKeeps, MenuKeeps, LookKeeps, RefuseKeeps, AcceptKeeps, OthersKeep DEF ClientNext
<1> QED BY <1>2, <1>3

(* SettledStaysSettled: no screen, however outdated, moves a row that was   *)
(* decided, paid or disbursed, unless it rejects or cancels a leave request *)
(* (leave.service.ts, reject() and cancel(), which look at no status).      *)
THEOREM SettledRowsStand == ClientSpec => SettledStaysSettled
<1>1. ClientSpec => []ScreenInv
  BY ScreenStarts, ScreenSteps, PTL DEF ClientSpec
<1> QED BY <1>1, ScreenSteps, PTL DEF ClientSpec, SettledStaysSettled
-----------------------------------------------------------------------------
(* The question asked last is about the row asked for last, and while its   *)
(* answer is not there it is still under way, unless the screen was left.   *)
AskedOK ==
    /\ questions \in Nat /\ questions >= 1 /\ heard \in Nat
    /\ questions = 1 => asked = 1
    /\ rows = <<>> => fetching = {} /\ view = Nothing /\ questions = 1
    /\ heard <= questions
    /\ \A f \in fetching : f.no \in Nat /\ f.no <= questions /\ (f.no = questions => f.key = asked)
    /\ rows # <<>> /\ heard < questions => (\E f \in fetching : f.no = questions) \/ (view = Nothing /\ fetching = {})
ShownOK ==
    /\ view # Nothing /\ heard = questions /\ (screen.latest \/ ~overtaken) => view.key = asked
    /\ screen.latest /\ screen.cleared /\ view # Nothing => view.key = asked
AskedInv == AskedOK /\ ShownOK

LEMMA AskedStarts == ASSUME ClientInit PROVE AskedInv
BY DEF ClientInit, AskedInv, AskedOK, ShownOK

LEMMA AskedOpen ==
  ASSUME AskedInv, NEW p, NEW rels, Open(p, rels), questions = 1 PROVE AskedInv'
BY DEF Open, AskedInv, AskedOK, ShownOK

LEMMA AskedSteps == ASSUME ScreenInv, AskedInv, [ClientNext]_vars PROVE AskedInv'
<1>1. CASE UNCHANGED vars BY <1>1 DEF vars, AskedInv, AskedOK, ShownOK, screen
<1>2. CASE Load
  <2>1. questions = 1 /\ asked = 1 /\ view = Nothing BY <1>2 DEF Load, AskedInv, AskedOK
  <2>2. fetching' = {[no |-> 1, key |-> 1, row |-> rows'[1]]} BY <1>2 DEF Load
  <2>3. AskedOK'
    <3> DEFINE q == [no |-> 1, key |-> 1, row |-> rows'[1]]
    <3>1. q.no = 1 /\ q.key = 1 /\ fetching' = {q} BY <2>2
    <3>2. rows' # <<>> BY <1>2, LoadKeeps DEF Load, Opened
    <3> HIDE DEF q
    <3> QED BY <1>2, <2>1, <3>1, <3>2 DEF Load, AskedInv, AskedOK
  <2> QED BY <1>2, <2>1, <2>3 DEF Load, AskedInv, ShownOK
<1>3. CASE Navigate \/ ChooseTab \/ FollowLink
  BY <1>3, AskedOpen DEF Navigate, ChooseTab, FollowLink, Untouched, AskedInv, AskedOK
<1>4. ASSUME NEW key \in Keys, Ask(key) PROVE AskedInv'
  <2>1. rows # <<>> BY <1>4 DEF Keys
  <2>2. AskedOK'
    <3>1. Asking(key, rows).no = questions + 1 /\ Asking(key, rows).key = key /\ Asking(key, rows) \in fetching'
          /\ fetching' = fetching \cup {Asking(key, rows)}
      BY <1>4 DEF Ask, Asking
    <3> HIDE DEF Asking
    <3> QED BY <1>4, <2>1, <3>1 DEF Ask, AskedInv, AskedOK
  <2>3. ShownOK'
    <3>1. heard' # questions' BY <1>4 DEF Ask, AskedInv, AskedOK
    <3> QED BY <1>4, <3>1 DEF Ask, ShownOK, screen
  <2> QED BY <2>2, <2>3 DEF AskedInv
<1>5. ASSUME NEW f \in fetching, Arrive(f) PROVE AskedInv'
  <2>0. /\ f.no \in Nat /\ f.no <= questions /\ (f.no = questions => f.key = asked) /\ rows # <<>>
        /\ screen' = screen
    BY <1>5 DEF AskedInv, AskedOK, Arrive, screen
  <2>1. AskedOK' BY <1>5, <2>0 DEF Arrive, AskedInv, AskedOK
  <2>2. ShownOK'
    <3>1. CASE Dropped(f)
      BY <1>5, <2>0, <3>1 DEF Arrive, Dropped, AskedInv, AskedOK, ShownOK
    <3>2. CASE ~Dropped(f)
      <4>1. view' = [key |-> f.key, row |-> Answered(f.row)] /\ view'.key = f.key BY <1>5, <3>2 DEF Arrive
      <4>2. screen.latest => f.no = questions BY <3>2 DEF Dropped
      <4>3. heard' = questions' /\ ~overtaken' => f.no = questions
        <5>1. ~overtaken' => ~(f.no < heard) BY <1>5, Zenon DEF Arrive
        <5>2. heard' = (IF f.no > heard THEN f.no ELSE heard) /\ questions' = questions BY <1>5 DEF Arrive
        <5> QED BY <2>0, <5>1, <5>2 DEF AskedInv, AskedOK
      <4>4. UNCHANGED <<asked, questions>> BY <1>5 DEF Arrive
      <4> QED BY <2>0, <4>1, <4>2, <4>3, <4>4 DEF ShownOK
    <3> QED BY <3>1, <3>2
  <2> QED BY <2>1, <2>2 DEF AskedInv
<1>6. ASSUME NEW u \in screen.offers, Click(u) PROVE AskedInv'
  BY <1>6 DEF Click, AskedInv, AskedOK, ShownOK, screen
<1>7. ASSUME NEW c \in sending, Refuse(c) PROVE AskedInv'
  BY <1>7 DEF Refuse, AskedInv, AskedOK, ShownOK, screen
<1>8. ASSUME NEW c \in sending, Accept(c) PROVE AskedInv'
  <2>0. rows' = <<>> <=> rows = <<>>
    BY <1>8 DEF Accept
  <2>a. rows # <<>> BY DEF ScreenInv, NamesOK
  <2>1. CASE c.after = "reload"
    <3> DEFINE q == Asking(asked, rows')
    <3>1. q.no = questions + 1 /\ q.key = asked BY DEF Asking
    <3>2. fetching' = fetching \cup {q} /\ questions' = questions + 1 /\ view' = view /\ rows # <<>>
          /\ UNCHANGED <<asked, heard, overtaken, page>>
      BY <1>8, <2>a, <2>1 DEF Accept
    <3> HIDE DEF q
    <3>3. AskedOK' BY <2>0, <3>1, <3>2 DEF AskedInv, AskedOK
    <3> QED BY <3>2, <3>3 DEF AskedInv, AskedOK, ShownOK, screen
  <2>2. CASE c.after = "leave"
    BY <1>8, <2>0, <2>2 DEF Accept, AskedInv, AskedOK, ShownOK, screen
  <2>3. CASE c.after # "reload" /\ c.after # "leave"
    BY <1>8, <2>0, <2>3 DEF Accept, AskedInv, AskedOK, ShownOK, screen
  <2> QED BY <2>1, <2>2, <2>3
<1>9. CASE MoveByOthers
  <2>0. rows # <<>> /\ rows' # <<>> BY <1>9 DEF MoveByOthers, Keys
  <2> QED BY <1>9, <2>0 DEF MoveByOthers, AskedInv, AskedOK, ShownOK, screen
<1> QED BY <1>1, <1>2, <1>3, <1>4, <1>5, <1>6, <1>7, <1>8, <1>9 DEF ClientNext

(* ShowsWhatItAsked: whatever order answers arrive in, a screen at rest     *)
(* shows the row it asked for last, and one that drops late answers and     *)
(* blanks itself never shows another (the effects of the pages that guard   *)
(* against a reply for a row since left, and those that do not).            *)
THEOREM ShownIsAsked == ClientSpec => []ShowsWhatItAsked
<1>1. AskedInv => ShowsWhatItAsked
  <2> SUFFICES ASSUME AskedInv PROVE ShowsWhatItAsked OBVIOUS
  <2>1. ASSUME AtRest, screen.latest \/ ~overtaken PROVE view.key = asked
    <3>1. rows # <<>> /\ heard = questions BY <2>1 DEF AtRest, AskedInv, AskedOK
    <3> QED BY <2>1, <3>1 DEF AtRest, AskedInv, ShownOK
  <2> QED BY <2>1 DEF AskedInv, ShownOK, ShowsWhatItAsked
<1>2. ScreenInv /\ AskedInv /\ [ClientNext]_vars => ScreenInv' /\ AskedInv' BY ScreenSteps, AskedSteps
<1> QED BY <1>1, <1>2, ScreenStarts, AskedStarts, PTL DEF ClientSpec
=============================================================================
