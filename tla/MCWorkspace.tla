----------------------------- MODULE MCWorkspace -----------------------------
(***************************************************************************)
(* Workspaces in one run.  The platform's side: a tenant's lifecycle with  *)
(* its billing, its commercial terms, its support grants, onboarding, and  *)
(* the identity cache.  The people's side: logins, the organisation, the   *)
(* employee import and the company's setup.  `part` says which operations  *)
(* a behaviour is about, and MCBudget how many calls it makes.             *)
(***************************************************************************)
EXTENDS WorkspaceProperties

CONSTANTS h1, h2, i1, i2, u1, u2, u3, a1, a2, t1, t2

VARIABLE part

platformVars == <<tenantVars, provVars, idVars>>
peopleVars == <<loginVars, orgVars, importVars, setupVars>>
allVars == <<part, callVars, platformVars, peopleVars>>

MCSymmetry == Permutations(Handlers) \cup Permutations(Instances) \cup Permutations(Admins) \cup Permutations(Texts)
MCBudget ==
    [lifecycle |-> 4, terms |-> 4, grants |-> 6, onboarding |-> 4, identity |-> 3,
     access |-> 4, accounts |-> 3, lines |-> 4, departments |-> 3, profile |-> 4, import |-> 0, setup |-> 4]

MCDefinitions == {[modules |-> "core", price |-> 0, seats |-> 1],
                  [modules |-> "more", price |-> 1, seats |-> 1]}
MCRoutes == {[write |-> FALSE, exempt |-> TRUE, roles |-> {"ADMIN", "STAFF"}],
             [write |-> TRUE, exempt |-> FALSE, roles |-> {"ADMIN"}]}

(* Two logins and an employee with the second; or one login, an employee    *)
(* without and a code not yet given.                                        *)
User(mail, role) == [email |-> mail, role |-> role, active |-> TRUE]
Person(state, acct, mail) == [state |-> state, login |-> acct, email |-> mail]
MCWorkspaces ==
    {[users |-> (u1 :> User("ann", "COMPANY_ADMIN") @@ u2 :> User("bob", r) @@ u3 :> Nothing),
      staff |-> ("E1" :> Person(st, u2, m) @@ "E2" :> Person("PROBATION", Nothing, Nothing))] :
        r \in {"COMPANY_ADMIN", "HR_MANAGER"}, st \in {"PROBATION", "NOTICE_PERIOD"}, m \in {"bob", "cay"}}

(* Files of up to three rows with reporting lines, and of two with logins;  *)
(* X is nobody's code, zed has an account elsewhere.                        *)
Row(c, m, mail, bad) == [code |-> c, mgr |-> m, mail |-> mail, bad |-> bad]
LineRows(c) == {Row(c, NoCode, NoCode, TRUE)} \cup {Row(c, m, NoCode, FALSE) : m \in Codes}
MCSheets ==
    LET mails == {NoCode, "ann", "zed", "new"}
    IN {<<a, b, c>> : a \in LineRows("A"), b \in LineRows("B"), c \in LineRows("C")}
       \cup {<<b, a>> : a \in LineRows("A"), b \in LineRows("B")}
       \cup {<<Row("A", m, x, FALSE), Row(c, NoCode, y, d)>> :
               m \in {NoCode, "B"}, x \in mails, c \in {"A", "B"}, y \in mails, d \in BOOLEAN}
Forest(f) == \A c \in {"A", "B", "C"} : ~Climbs(f, f[c], {c})
MCBooks ==
    {[known |-> {"A", "B", "C"}, boss |-> f @@ ("X" :> NoCode), login |-> [c \in Codes |-> NoCode]] :
        f \in {g \in [{"A", "B", "C"} -> {"A", "B", "C", NoCode}] : Forest(g @@ (NoCode :> NoCode))}}
    \cup {[known |-> k, boss |-> [c \in Codes |-> NoCode],
           login |-> [c \in Codes |-> IF c = "B" /\ "B" \in k THEN "ann" ELSE NoCode]] : k \in {{}, {"A"}, {"B"}}}
NoBook == [known |-> {}, boss |-> [c \in Codes |-> NoCode], login |-> [c \in Codes |-> NoCode]]

MCInit ==
    /\ part \in {"lifecycle", "terms", "grants", "onboarding", "identity", "access", "accounts", "lines", "departments", "profile", "import", "setup"}
    /\ CallsInit /\ TenantsInit /\ ProvInit /\ IdInit
    /\ tenant.plan = "STARTER"
    /\ part # "terms" => \A p \in Plans : catalog[p].price = 1
    /\ LoginsInit
    /\ part \notin {"access", "accounts"} => users[u2].role = "HR_MANAGER" /\ staff["E1"] = Person("PROBATION", u2, "bob")
    /\ part = "accounts" => users[u2].role = "HR_MANAGER"
    /\ part = "access" => staff["E1"].email = "bob"
    /\ part = "accounts" => staff["E1"].state = "PROBATION"
    /\ OrgInit
    /\ part # "lines" => \A p \in People : manager[p] = NoOne
    /\ part # "departments" => \A p \in People : dept[p] = NoOne
    /\ SetupInit /\ (part # "setup" => units = {})
    /\ \/ part = "import" /\ ImportInit
       \/ part # "import" /\ Planned(NoBook, <<>>)

TenantPart ==
    \/ part = "lifecycle"
       /\ \/ \E h \in Handlers : LifecycleNext(h)
          \/ \E s \in {"ACTIVE", "SUSPENDED", "TRIAL"} : UpdateTenantStatus(s)
          \/ Tick
    \/ part = "terms"
       /\ \/ \E h \in Handlers : TermsNext(h)
          \/ \E p \in Plans, d \in Definitions : UpdatePlan(p, d)
          \/ Tick
    \/ part = "grants" /\ ((\E h \in Handlers : GrantsNext(h)) \/ Tick)

LoginsPart == \E h \in Handlers : (part = "access" /\ AccessNext(h)) \/ (part = "accounts" /\ AccountsNext(h))
OrgPart ==
    \/ part = "lines" /\ ((\E h \in Handlers : LinesNext(h)) \/ \E p \in People : Separate(p))
    \/ part = "departments" /\ ((\E h \in Handlers : DepartmentsNext(h)) \/ \E d \in Departments : CreateDepartment(d))
    \/ part = "profile" /\ ((\E h \in Handlers : ProfileNext(h)) \/ \E c \in Contacts : DeleteContact(c))

MCNext ==
    /\ \/ TenantPart /\ UNCHANGED <<provVars, idVars, peopleVars>>
       \/ part = "onboarding" /\ ProvNext /\ UNCHANGED <<tenantVars, idVars, peopleVars>>
       \/ part = "identity" /\ IdNext /\ UNCHANGED <<tenantVars, provVars, peopleVars>>
       \/ LoginsPart /\ UNCHANGED <<platformVars, orgVars, importVars, setupVars>>
       \/ OrgPart /\ UNCHANGED <<platformVars, loginVars, importVars, setupVars>>
       \/ part = "import" /\ ImportNext /\ UNCHANGED <<platformVars, callVars, loginVars, orgVars, setupVars>>
       \/ /\ part = "setup" /\ (EditUnits \/ \E h \in Handlers : SetupNext(h))
          /\ UNCHANGED <<platformVars, loginVars, orgVars, importVars>>
    /\ UNCHANGED part /\ made' <= MCBudget[part]
MCSpec == MCInit /\ [][MCNext]_allVars
=============================================================================
