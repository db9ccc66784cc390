--------------------------- MODULE EmployeeImport ---------------------------
(***************************************************************************)
(* The bulk import of employees (employees/employee-import.service.ts): a  *)
(* plan that accepts or refuses every row, shown by the dry run, and the   *)
(* commit that writes the accepted rows a few at a time, each by itself,   *)
(* and then their reporting lines.  What one row alone decides (names,     *)
(* dates, patterns, enumerations, the role ceiling) is one flag, `bad`.    *)
(***************************************************************************)
EXTENDS Integers, Sequences, FiniteSets

CONSTANTS
    Codes,       \* employee codes
    Sheets,      \* files: sequences of [code, mgr, mail, bad]
    Books,       \* initial [known, boss, login]
    Elsewhere,   \* mails with an account from another workspace
    NoCode       \* no manager, no mail

VARIABLES
    known,     \* codes of employees that exist
    boss,      \* boss[c]: reportingManagerId, as a code
    login,     \* login[c]: the mail of the employee's login, or NoCode
    accounts,  \* mails with an account at Firebase
    sheet,
    before,    \* boss when the file was planned
    errs,      \* rows the plan refused
    failed,    \* rows that could not be written
    refusedBy, \* rows refused in resolveManagers()
    phase,     \* "planned", "saving", "linking", "done"
    made1,     \* rows whose account exists and whose row is not written
    saved,     \* `done` in the code
    toLink,    \* rows whose reporting line is still to be written
    disturbed, \* somebody else edited, or a line could not be written
    leftover   \* mails whose account could not be deleted again

importVars == <<known, boss, login, accounts, sheet, before, errs, failed, refusedBy, phase, made1, saved,
                toLink, disturbed, leftover>>

Rows == DOMAIN sheet
MailsInUse == {login[c] : c \in Codes} \ {NoCode}

----------------------------------------------------------------------------
(* plan().  parseRow(): the row by itself and against the employees and     *)
(* logins there are; an own manager is an error.                            *)
LoginError(i) ==
    sheet[i].mail # NoCode /\ (login[sheet[i].code] # NoCode \/ sheet[i].mail \in MailsInUse)
RowErrors(i) == sheet[i].bad \/ sheet[i].mgr = sheet[i].code \/ LoginError(i)

(* flagDuplicates() and flagFirebaseEmailClashes(). *)
Duplicated(i) ==
    \E j \in Rows \ {i} :
      sheet[j].code = sheet[i].code
      \/ (sheet[i].mail # NoCode /\ sheet[j].mail = sheet[i].mail /\ ~LoginError(i) /\ ~LoginError(j))
FirstErrors == {i \in Rows : RowErrors(i) \/ Duplicated(i) \/ sheet[i].mail \in accounts}

(* resolveManagers(): rows are refused in file order, and again until no    *)
(* row is; the manager of a refused row is forgotten.                       *)
ManagerOf(errors) ==
    [c \in Codes |->
       LET own == {i \in Rows : sheet[i].code = c /\ i \notin errors /\ sheet[i].mgr # NoCode} IN
       IF own # {} THEN sheet[CHOOSE i \in own : TRUE].mgr
       ELSE IF c \in known THEN boss[c] ELSE NoCode]
Climbs(m, from, start) ==
    LET climbs[cursor \in Codes \cup {NoCode}, seen \in SUBSET Codes] ==
          cursor # NoCode /\ (cursor \in seen \/ climbs[m[cursor], seen \cup {cursor}])
    IN climbs[from, start]
ClosesCycle(c, m) == Climbs(m, m[c], {c})

(* Mutant of ManagerProblem: a manager's row is not looked at. *)
ManagerProblemAnyRow(i, errors, m) ==
    LET r == sheet[i]
        inFile == {j \in Rows : sheet[j].code = r.mgr}
    IN (inFile = {} /\ r.mgr \notin known) \/ ClosesCycle(r.code, m)
ManagerProblem(i, errors, m) ==
    LET r == sheet[i]
        inFile == {j \in Rows : sheet[j].code = r.mgr}
    IN \/ inFile \cap errors # {}
       \/ inFile = {} /\ r.mgr \notin known
       \/ ClosesCycle(r.code, m)
Refuse(i, s) ==
    IF i \notin s.errors /\ sheet[i].mgr # NoCode /\ ManagerProblem(i, s.errors, s.m)
    THEN [errors |-> s.errors \cup {i}, m |-> [s.m EXCEPT ![sheet[i].code] = NoCode]]
    ELSE s
(* A round that changes anything refuses a row, so there are at most as     *)
(* many as rows; the next ones change nothing.                              *)
Resolved ==
    LET n == Len(sheet)
        step[i \in 0..n * n] ==
          IF i = 0 THEN [errors |-> FirstErrors, m |-> ManagerOf(FirstErrors)]
          ELSE LET s == step[i - 1] IN Refuse(((i - 1) % n) + 1, s)
    IN step[n * n]
PlanErrors == Resolved.errors

Planned(b, f) ==
    /\ known = b.known /\ boss = b.boss /\ login = b.login
    /\ accounts = MailsInUse \cup Elsewhere
    /\ sheet = f
    /\ before = boss
    /\ errs = PlanErrors /\ refusedBy = PlanErrors \ FirstErrors /\ failed = {}
    /\ phase = "planned" /\ made1 = {} /\ saved = {} /\ toLink = {}
    /\ disturbed = FALSE /\ leftover = {}
ImportInit == \E b \in Books, f \in Sheets : Planned(b, f)

----------------------------------------------------------------------------
(* The same import confirmed: the plan is made again, from what is there    *)
(* now, and a dry run before it has written nothing.                        *)
Commit ==
    /\ phase = "planned"
    /\ errs' = PlanErrors /\ refusedBy' = PlanErrors \ FirstErrors /\ before' = boss
    /\ phase' = "saving"
    /\ UNCHANGED <<known, boss, login, accounts, sheet, made1, saved, toLink, disturbed, leftover, failed>>

(* writeRow(): the account, if the row has a login; a refused one fails the *)
(* row.                                                                     *)
RowAccount(i) ==
    /\ phase = "saving" /\ i \notin errs \cup failed \cup saved \cup made1 /\ sheet[i].mail # NoCode
    /\ \/ /\ sheet[i].mail \notin accounts
          /\ accounts' = accounts \cup {sheet[i].mail} /\ made1' = made1 \cup {i} /\ UNCHANGED failed
       \/ failed' = failed \cup {i} /\ UNCHANGED <<accounts, made1>>
    /\ UNCHANGED <<known, boss, login, sheet, before, errs, refusedBy, phase, saved, toLink, disturbed, leftover>>

(* The employee with a nested `users` row, one statement: refused when the  *)
(* code is taken meanwhile, or for any other reason; then the account is    *)
(* deleted again, unless that fails.  An update connects the new login even *)
(* to an employee who got one meanwhile.                                    *)
RowWrite(i) ==
    LET r == sheet[i] IN
    /\ phase = "saving" /\ i \notin errs \cup failed \cup saved /\ (r.mail # NoCode => i \in made1)
    /\ \/ /\ saved' = saved \cup {i} /\ known' = known \cup {r.code}
          /\ login' = IF r.mail = NoCode THEN login ELSE [login EXCEPT ![r.code] = r.mail]
          /\ UNCHANGED <<accounts, failed, leftover>>
       \/ /\ failed' = failed \cup {i}
          /\ \/ accounts' = (IF r.mail = NoCode THEN accounts ELSE accounts \ {r.mail}) /\ UNCHANGED leftover
             \/ r.mail # NoCode /\ leftover' = leftover \cup {r.mail} /\ UNCHANGED accounts
          /\ UNCHANGED <<known, login, saved>>
    /\ made1' = made1 \ {i}
    /\ UNCHANGED <<boss, sheet, before, errs, refusedBy, phase, toLink, disturbed>>

(* Pass 2 starts when every row has been tried. *)
StartLinking ==
    /\ phase = "saving" /\ Rows = errs \cup failed \cup saved
    /\ phase' = "linking" /\ toLink' = {i \in saved : sheet[i].mgr # NoCode}
    /\ UNCHANGED <<known, boss, login, accounts, sheet, before, errs, failed, refusedBy, made1, saved, disturbed, leftover>>

(* A manager that did not arrive, or a failed write, is only a warning. *)
LinkManager(i) ==
    /\ phase = "linking" /\ i \in toLink /\ toLink' = toLink \ {i}
    /\ \/ sheet[i].mgr \in known /\ boss' = [boss EXCEPT ![sheet[i].code] = sheet[i].mgr] /\ UNCHANGED disturbed
       \/ UNCHANGED boss /\ disturbed' = TRUE
    /\ UNCHANGED <<known, login, accounts, sheet, before, errs, failed, refusedBy, phase, made1, saved, leftover>>

(* Policy defaults, invitations, the report and the audit follow; none of   *)
(* them fails the import.                                                   *)
Report ==
    /\ phase = "linking" /\ toLink = {} /\ phase' = "done"
    /\ UNCHANGED <<known, boss, login, accounts, sheet, before, errs, failed, refusedBy, made1, saved, toLink, disturbed, leftover>>

(* HR edits a reporting line meanwhile, with the check update() makes. *)
OtherEdit(c, m) ==
    /\ phase # "done" /\ c \in known /\ m \in known /\ c # m /\ ~disturbed
    /\ ~Climbs(boss, m, {c})
    /\ boss' = [boss EXCEPT ![c] = m] /\ disturbed' = TRUE
    /\ UNCHANGED <<known, login, accounts, sheet, before, errs, failed, refusedBy, phase, made1, saved, toLink, leftover>>

ImportNext ==
    \/ Commit \/ StartLinking \/ Report
    \/ \E i \in Rows : RowAccount(i) \/ RowWrite(i) \/ LinkManager(i)
    \/ \E c, m \in Codes : OtherEdit(c, m)
=============================================================================
