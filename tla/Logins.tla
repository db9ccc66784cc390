------------------------------- MODULE Logins -------------------------------
(***************************************************************************)
(* Logins, their roles and their employees (access/access.service.ts and   *)
(* the login and lifecycle half of employees/employees.service.ts).  A     *)
(* login is kept twice: an account at Firebase and a row of `users`; every *)
(* change is made at Firebase first and then in the row.  An account has   *)
(* the same name in both; an employee is named by the employee code.       *)
(***************************************************************************)
EXTENDS Calls

CONSTANTS
    Accounts,   \* Firebase uids
    Emails,
    Staff,      \* employee codes
    Roles,      \* the roles given out
    Workspaces, \* initial [users, staff], each with an active Company Admin
    Nothing

FirebaseRows == [email : Emails, role : Roles \cup {Nothing}, disabled : BOOLEAN]
UserRows == [email : Emails, role : Roles, active : BOOLEAN]
StaffRows ==
    [state : {"PRE_JOINING", "PROBATION", "CONFIRMED", "NOTICE_PERIOD", "SUSPENDED", "SEPARATED"},
     login : Accounts \cup {Nothing}, email : Emails \cup {Nothing}]

ASSUME LoginsAssumption ==
    /\ Nothing \notin Accounts \cup Emails \cup Roles
    /\ Nothing \notin FirebaseRows /\ Nothing \notin UserRows /\ Nothing \notin StaffRows
    /\ \A w \in Workspaces :
         /\ w.users \in [Accounts -> UserRows \cup {Nothing}]
         /\ w.staff \in [Staff -> StaffRows \cup {Nothing}]
         /\ \A u, v \in Accounts :
              u # v /\ w.users[u] # Nothing /\ w.users[v] # Nothing => w.users[u].email # w.users[v].email
         /\ \A e \in Staff : w.staff[e] # Nothing =>
              /\ w.staff[e].state # "SEPARATED"
              /\ w.staff[e].login # Nothing => w.users[w.staff[e].login] # Nothing
         /\ \A e, f \in Staff :
              e # f /\ w.staff[e] # Nothing /\ w.staff[f] # Nothing /\ w.staff[e].login # Nothing
                => w.staff[e].login # w.staff[f].login
         /\ \A u \in Accounts : w.users[u] # Nothing => w.users[u].active
         /\ \E u \in Accounts : w.users[u] # Nothing /\ w.users[u].role = "COMPANY_ADMIN"

VARIABLES
    firebase,    \* firebase[u]: Nothing, or [email, role, disabled]
    users,       \* users[u]: Nothing, or [email, role, active]
    staff,       \* staff[e]: Nothing, or [state, login, email]
    stray,       \* accounts left behind by a call that failed
    readmitted,  \* logins activated by hand
    adminLeft    \* an active Company Admin was separated

loginVars == <<firebase, users, staff, stray, readmitted, adminLeft>>

RoleRank == [COMPANY_ADMIN |-> 4, HR_MANAGER |-> 3, LINE_MANAGER |-> 2, AUDITOR |-> 1, EMPLOYEE |-> 0]
AssignableRoles(actor) ==
    IF actor = "COMPANY_ADMIN" THEN Roles
    ELSE {r \in Roles : r # "COMPANY_ADMIN" /\ RoleRank[r] <= RoleRank[actor]}

(* LIFECYCLE_TRANSITIONS *)
Transitions ==
    [PRE_JOINING |-> {"PROBATION"},
     PROBATION |-> {"CONFIRMED", "SEPARATED", "SUSPENDED"},
     CONFIRMED |-> {"NOTICE_PERIOD", "SUSPENDED"},
     NOTICE_PERIOD |-> {"SEPARATED", "CONFIRMED"},
     SUSPENDED |-> {"PROBATION", "CONFIRMED"},
     SEPARATED |-> {}]

Known(u) == users[u] # Nothing
IsAdmin(u) == Known(u) /\ users[u].active /\ users[u].role = "COMPANY_ADMIN"
ActiveAdmins == {u \in Accounts : IsAdmin(u)}

(* Mutant of LastAdmin: deactivated admins are counted too. *)
LastAdminCountingAll(u) ==
    IsAdmin(u) /\ Cardinality({v \in Accounts : Known(v) /\ users[v].role = "COMPANY_ADMIN"}) <= 1

(* activeCompanyAdminCount(), for an active Company Admin. *)
LastAdmin(u) == IsAdmin(u) /\ Cardinality(ActiveAdmins) <= 1

(* RolesGuard on the caller's row. *)
MayCall(a, roles) == Known(a) /\ users[a].active /\ users[a].role \in roles
HR == {"COMPANY_ADMIN", "HR_MANAGER"}
Linked(u) == \E e \in Staff : staff[e] # Nothing /\ staff[e].login = u
FirebaseHas(mail) == \E u \in Accounts : firebase[u] # Nothing /\ firebase[u].email = mail
UsersHas(mail) == \E u \in Accounts : Known(u) /\ users[u].email = mail

LoginsInit ==
    /\ \E w \in Workspaces : users = w.users /\ staff = w.staff
    /\ firebase = [u \in Accounts |->
         IF Known(u) THEN [email |-> users[u].email, role |-> users[u].role, disabled |-> FALSE]
         ELSE Nothing]
    /\ stray = {} /\ readmitted = {} /\ adminLeft = FALSE

----------------------------------------------------------------------------
(* AccessService.changeRole(): the checks, the claim, the row. *)
ChangeRoleRead(h, a, u, r) ==
    /\ MayCall(a, {"COMPANY_ADMIN"}) /\ Known(u) /\ users[u].role # r
    /\ r \in AssignableRoles(users[a].role) /\ ~LastAdmin(u)
    /\ Begin(h, [pc |-> "claim", u |-> u, r |-> r])
    /\ UNCHANGED loginVars
ChangeRoleClaim(h) ==
    /\ calls[h].pc = "claim"
    /\ \/ /\ firebase' = [firebase EXCEPT ![calls[h].u].role = calls[h].r]
          /\ Continue(h, [pc |-> "role", u |-> calls[h].u, r |-> calls[h].r])
       \/ Finish(h) /\ UNCHANGED firebase
    /\ UNCHANGED <<users, staff, stray, readmitted, adminLeft>>
ChangeRoleWrite(h) ==
    /\ calls[h].pc = "role"
    /\ users' = [users EXCEPT ![calls[h].u].role = calls[h].r]
    /\ Finish(h)
    /\ UNCHANGED <<firebase, staff, stray, readmitted, adminLeft>>

(* AccessService.setStatus(): the second call to Firebase, which revokes    *)
(* the sessions, may fail after the first.                                  *)
SetStatusRead(h, a, u, on) ==
    /\ MayCall(a, HR) /\ Known(u) /\ (~on => u # a /\ ~LastAdmin(u)) /\ users[u].active # on
    /\ Begin(h, [pc |-> "flag", u |-> u, on |-> on])
    /\ UNCHANGED loginVars
SetStatusFirebase(h) ==
    /\ calls[h].pc = "flag"
    /\ \/ /\ firebase' = [firebase EXCEPT ![calls[h].u].disabled = ~calls[h].on]
          /\ \/ Continue(h, [pc |-> "status", u |-> calls[h].u, on |-> calls[h].on])
             \/ ~calls[h].on /\ Finish(h)
       \/ Finish(h) /\ UNCHANGED firebase
    /\ UNCHANGED <<users, staff, stray, readmitted, adminLeft>>
SetStatusWrite(h) ==
    /\ calls[h].pc = "status"
    /\ users' = [users EXCEPT ![calls[h].u].active = calls[h].on]
    /\ readmitted' = IF calls[h].on THEN readmitted \cup {calls[h].u} ELSE readmitted
    /\ Finish(h)
    /\ UNCHANGED <<firebase, staff, stray, adminLeft>>

----------------------------------------------------------------------------
(* assertLinkableLogin(): in the tenant, not linked, within the ceiling. *)
Linkable(a, u) == Known(u) /\ ~Linked(u) /\ users[u].role \in AssignableRoles(users[a].role)

(* EmployeesService.create() with an existing login, with a new one, or     *)
(* with none; nothing is checked about the employee code.                   *)
CreateRead(h, a, e, u) ==
    /\ MayCall(a, HR) /\ (u # Nothing => Linkable(a, u))
    /\ Begin(h, [pc |-> "insert", e |-> e, u |-> u, mail |-> Nothing, r |-> Nothing])
    /\ UNCHANGED loginVars
CreateNewRead(h, a, e, mail, r) ==
    /\ MayCall(a, HR)
    /\ Begin(h, [pc |-> "account", e |-> e, mail |-> mail, r |-> r, then |-> "insert"])
    /\ UNCHANGED loginVars

(* createUser() and setCustomUserClaims(), which create() and createLogin() *)
(* make; create() leaves the account behind when the second fails.          *)
MakeAccount(h) ==
    LET c == calls[h] IN
    /\ c.pc = "account"
    /\ \/ /\ ~FirebaseHas(c.mail)
          /\ \E u \in {v \in Accounts : firebase[v] = Nothing} :
               /\ firebase' = [firebase EXCEPT ![u] = [email |-> c.mail, role |-> Nothing, disabled |-> FALSE]]
               /\ Continue(h, [pc |-> "claims", e |-> c.e, u |-> u, mail |-> c.mail, r |-> c.r, then |-> c.then])
       \/ Finish(h) /\ UNCHANGED firebase
    /\ UNCHANGED <<users, staff, stray, readmitted, adminLeft>>
SetClaims(h) ==
    LET c == calls[h] IN
    /\ c.pc = "claims"
    /\ \/ /\ firebase' = [firebase EXCEPT ![c.u].role = c.r]
          /\ Continue(h, [pc |-> c.then, e |-> c.e, u |-> c.u, mail |-> c.mail, r |-> c.r])
          /\ UNCHANGED stray
       \/ /\ c.then = "insert" /\ Finish(h)
          /\ stray' = stray \cup {c.u} /\ UNCHANGED firebase
       \/ /\ c.then = "attach" /\ Continue(h, [pc |-> "undo", u |-> c.u])
          /\ UNCHANGED <<stray, firebase>>
    /\ UNCHANGED <<users, staff, readmitted, adminLeft>>
NewUser(c) == [email |-> c.mail, role |-> c.r, active |-> TRUE]

(* create()'s transaction: refused when the code, the login or the email is *)
(* taken, and then a new account stays at Firebase.                         *)
CreateWrite(h) ==
    LET c == calls[h]
        new == c.mail # Nothing
        ok == staff[c.e] = Nothing /\ (IF new THEN ~UsersHas(c.mail) ELSE c.u = Nothing \/ ~Linked(c.u))
    IN
    /\ c.pc = "insert"
    /\ IF ok
       THEN /\ users' = IF new THEN [users EXCEPT ![c.u] = NewUser(c)] ELSE users
            /\ staff' = [staff EXCEPT ![c.e] = [state |-> "PROBATION", login |-> c.u, email |-> c.mail]]
            /\ UNCHANGED stray
       ELSE stray' = (IF new THEN stray \cup {c.u} ELSE stray) /\ UNCHANGED <<users, staff>>
    /\ Finish(h)
    /\ UNCHANGED <<firebase, readmitted, adminLeft>>

CanHaveLogin(e) == staff[e] # Nothing /\ staff[e].login = Nothing /\ staff[e].state # "SEPARATED"

(* Mutant of LinkWrite: the filter on a free employee is missing. *)
LinkWriteUnfiltered(h) ==
    LET c == calls[h] IN
    /\ c.pc = "link"
    /\ staff' = IF ~Linked(c.u) THEN [staff EXCEPT ![c.e].login = c.u] ELSE staff
    /\ Finish(h)
    /\ UNCHANGED <<firebase, users, stray, readmitted, adminLeft>>

(* linkLogin(): the employee must still be without a login, the login       *)
(* without an employee.                                                     *)
LinkRead(h, a, e, u) ==
    /\ MayCall(a, HR) /\ CanHaveLogin(e) /\ Linkable(a, u)
    /\ Begin(h, [pc |-> "link", e |-> e, u |-> u])
    /\ UNCHANGED loginVars
LinkWrite(h) ==
    LET c == calls[h] IN
    /\ c.pc = "link"
    /\ staff' = IF staff[c.e].login = Nothing /\ ~Linked(c.u)
                THEN [staff EXCEPT ![c.e].login = c.u] ELSE staff
    /\ Finish(h)
    /\ UNCHANGED <<firebase, users, stray, readmitted, adminLeft>>

(* createLogin(): a failure after the account exists deletes it again,      *)
(* unless that fails too.                                                   *)
CreateLoginRead(h, a, e, mail, r) ==
    /\ MayCall(a, HR) /\ CanHaveLogin(e) /\ r \in AssignableRoles(users[a].role)
    /\ Begin(h, [pc |-> "account", e |-> e, mail |-> mail, r |-> r, then |-> "attach"])
    /\ UNCHANGED loginVars

CreateLoginWrite(h) ==
    LET c == calls[h] IN
    /\ c.pc = "attach"
    /\ IF UsersHas(c.mail) \/ staff[c.e].login # Nothing
       THEN Continue(h, [pc |-> "undo", u |-> c.u]) /\ UNCHANGED <<users, staff>>
       ELSE /\ users' = [users EXCEPT ![c.u] = NewUser(c)]
            /\ staff' = [staff EXCEPT ![c.e].login = c.u, ![c.e].email = c.mail]
            /\ Finish(h)
    /\ UNCHANGED <<firebase, stray, readmitted, adminLeft>>
UndoAccount(h) ==
    /\ calls[h].pc = "undo"
    /\ \/ firebase' = [firebase EXCEPT ![calls[h].u] = Nothing] /\ UNCHANGED stray
       \/ stray' = stray \cup {calls[h].u} /\ UNCHANGED firebase
    /\ Finish(h)
    /\ UNCHANGED <<users, staff, readmitted, adminLeft>>

----------------------------------------------------------------------------
(* syncLoginEmail(), and update() of an email by HR, which moves the        *)
(* login's email before it writes the employee.                             *)
SyncRead(h, a, e) ==
    /\ MayCall(a, HR) /\ staff[e] # Nothing /\ staff[e].login # Nothing /\ staff[e].email # Nothing
    /\ users[staff[e].login].email # staff[e].email
    /\ Begin(h, [pc |-> "move", e |-> e, u |-> staff[e].login, mail |-> staff[e].email,
                 old |-> users[staff[e].login].email, edit |-> FALSE])
    /\ UNCHANGED loginVars
UpdateEmailRead(h, a, e, mail) ==
    /\ MayCall(a, HR) /\ staff[e] # Nothing
    /\ LET u == staff[e].login IN
       IF u # Nothing /\ users[u].email # mail
       THEN Begin(h, [pc |-> "move", e |-> e, u |-> u, mail |-> mail, old |-> users[u].email, edit |-> TRUE])
       ELSE Begin(h, [pc |-> "edit", e |-> e, mail |-> mail])
    /\ UNCHANGED loginVars

(* changeLoginEmail(): Firebase refuses an email another account has; a     *)
(* refused row moves the account back, unless that fails.                   *)
MoveEmailFirebase(h) ==
    LET c == calls[h] IN
    /\ c.pc = "move"
    /\ \/ /\ firebase[c.u].email = c.mail \/ ~FirebaseHas(c.mail)
          /\ firebase' = [firebase EXCEPT ![c.u].email = c.mail]
          /\ Continue(h, [c EXCEPT !.pc = "moved"])
       \/ Finish(h) /\ UNCHANGED firebase
    /\ UNCHANGED <<users, staff, stray, readmitted, adminLeft>>

MoveEmailWrite(h) ==
    LET c == calls[h] IN
    /\ c.pc = "moved"
    /\ IF \E v \in Accounts \ {c.u} : Known(v) /\ users[v].email = c.mail
       THEN /\ \/ firebase' = [firebase EXCEPT ![c.u].email = c.old]
               \/ UNCHANGED firebase
            /\ Finish(h) /\ UNCHANGED users
       ELSE /\ users' = [users EXCEPT ![c.u].email = c.mail]
            /\ IF c.edit THEN Continue(h, [pc |-> "edit", e |-> c.e, mail |-> c.mail]) ELSE Finish(h)
            /\ UNCHANGED firebase
    /\ UNCHANGED <<staff, stray, readmitted, adminLeft>>
EditEmail(h) ==
    /\ calls[h].pc = "edit"
    /\ staff' = [staff EXCEPT ![calls[h].e].email = calls[h].mail]
    /\ Finish(h)
    /\ UNCHANGED <<firebase, users, stray, readmitted, adminLeft>>

----------------------------------------------------------------------------
(* Mutant of TransitionRead: the login is left as it is. *)
TransitionReadLoginKept(h, a, e, to) ==
    /\ MayCall(a, HR) /\ staff[e] # Nothing /\ to \in Transitions[staff[e].state]
    /\ Begin(h, [pc |-> "state", e |-> e, u |-> staff[e].login, to |-> to])
    /\ UNCHANGED loginVars

(* transitionLifecycle(): a separation first disables the linked login      *)
(* (disableLinkedLogin(), without the last-admin rule); the state is then   *)
(* written whatever it has become.                                          *)
TransitionRead(h, a, e, to) ==
    /\ MayCall(a, HR) /\ staff[e] # Nothing /\ to \in Transitions[staff[e].state]
    /\ LET u == staff[e].login
           cascade == to = "SEPARATED" /\ u # Nothing /\ (IF u = Nothing THEN FALSE ELSE users[u].active)
       IN Begin(h, [pc |-> IF cascade THEN "disable" ELSE "state", e |-> e, u |-> u, to |-> to])
    /\ UNCHANGED loginVars
DisableFirebase(h) ==
    LET c == calls[h] IN
    /\ c.pc = "disable"
    /\ \/ /\ firebase' = [firebase EXCEPT ![c.u].disabled = TRUE]
          /\ Finish(h) \/ Continue(h, [c EXCEPT !.pc = "deactivate"])
       \/ Finish(h) /\ UNCHANGED firebase
    /\ UNCHANGED <<users, staff, stray, readmitted, adminLeft>>
DeactivateLogin(h) ==
    LET c == calls[h] IN
    /\ c.pc = "deactivate"
    /\ users' = [users EXCEPT ![c.u].active = FALSE]
    /\ adminLeft' = (adminLeft \/ IsAdmin(c.u))
    /\ readmitted' = readmitted \ {c.u}
    /\ Continue(h, [c EXCEPT !.pc = "state"])
    /\ UNCHANGED <<firebase, staff, stray>>
WriteState(h) ==
    LET c == calls[h] IN
    /\ c.pc = "state"
    /\ staff' = [staff EXCEPT ![c.e].state = c.to]
    /\ Finish(h)
    /\ UNCHANGED <<firebase, users, stray, readmitted, adminLeft>>

----------------------------------------------------------------------------
(* A call is lost; an account it made has no row then. *)
LoginsLose(h) ==
    /\ Lose(h)
    /\ stray' = stray \cup {u \in Accounts : firebase[u] # Nothing /\ ~Known(u)
                              /\ "u" \in DOMAIN calls[h] /\ calls[h].u = u}
    /\ UNCHANGED <<firebase, users, staff, readmitted, adminLeft>>

AccessNext(h) ==
    \/ \E a, u \in Accounts, r \in Roles : ChangeRoleRead(h, a, u, r)
    \/ \E a, u \in Accounts, on \in BOOLEAN : SetStatusRead(h, a, u, on)
    \/ \E a \in Accounts, e \in Staff, to \in DOMAIN Transitions : TransitionRead(h, a, e, to)
    \/ ChangeRoleClaim(h) \/ ChangeRoleWrite(h)
    \/ SetStatusFirebase(h) \/ SetStatusWrite(h)
    \/ DisableFirebase(h) \/ DeactivateLogin(h) \/ WriteState(h)
    \/ LoginsLose(h)
AccountsNext(h) ==
    \/ \E a \in Accounts, e \in Staff, u \in Accounts \cup {Nothing} : CreateRead(h, a, e, u)
    \/ \E a \in Accounts, e \in Staff, mail \in Emails, r \in Roles :
         CreateNewRead(h, a, e, mail, r) \/ CreateLoginRead(h, a, e, mail, r)
    \/ \E a, u \in Accounts, e \in Staff : LinkRead(h, a, e, u)
    \/ \E a \in Accounts, e \in Staff : SyncRead(h, a, e)
    \/ \E a \in Accounts, e \in Staff, mail \in Emails : UpdateEmailRead(h, a, e, mail)
    \/ MakeAccount(h) \/ SetClaims(h) \/ CreateWrite(h) \/ LinkWrite(h)
    \/ CreateLoginWrite(h) \/ UndoAccount(h)
    \/ MoveEmailFirebase(h) \/ MoveEmailWrite(h) \/ EditEmail(h)
    \/ LoginsLose(h)
=============================================================================
