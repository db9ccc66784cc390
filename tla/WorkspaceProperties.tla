------------------------ MODULE WorkspaceProperties ------------------------
(***************************************************************************)
(* What must hold of tenants, their billing, onboarding and the identity   *)
(* cache.  "calm =>" says: as long as no two calls overlapped and none was *)
(* lost; the races that break such a property are in the README.           *)
(***************************************************************************)
EXTENDS Tenants, Provisioning, Identity, Logins, Org, EmployeeImport, Setup

(* Types. *)
TenancyTypeOK ==
    /\ tenant.status \in Statuses
    /\ \A d \in {tenant.trialEnds, tenant.graceEnds, tenant.renews} : d = None \/ d \in Nat
    /\ tenant.plan \in Plans /\ tenant.rate \in Nat /\ tenant.seats \in Nat
    /\ catalog \in [Plans -> Definitions]
    /\ \A i \in DOMAIN events : events[i] \in Good \cup Bad
    /\ payments \in [Charges -> Nat]

Restricting(i) == events[i].type \in {"halted", "cancelled"}
Settling(i) == events[i].type \in {"charged", "activated"}

(* A workspace is read-only only for a reason that still stands: its trial  *)
(* is over, its grace window is over, or Razorpay stopped the subscription  *)
(* and no payment came after that (expireTrials(), enforceGrace(),          *)
(* handleWebhook()).                                                        *)
RestrictedForReason ==
    calm /\ tenant.status = "READ_ONLY" =>
        \/ Past(tenant.trialEnds) \/ Past(tenant.graceEnds)
        \/ \E i \in DOMAIN events :
             Restricting(i) /\ \A j \in i + 1 .. Len(events) : ~Settling(j)

(* However often and in whatever order Razorpay delivers, a charge has one  *)
(* payment row exactly when its event is in the ledger (handleWebhook()'s   *)
(* transaction).                                                            *)
ChargeRecordedOnce ==
    \A c \in Charges :
        payments[c] = IF \E i \in DOMAIN events : events[i] = [type |-> "charged", id |-> c]
                      THEN 1 ELSE 0

(* Only the operator's status change lifts a suspension: no payment, job or *)
(* trial date does ("SUSPENDED is an operator decision").                   *)
SuspensionStands ==
    [][calm' /\ tenant.status = "SUSPENDED" /\ tenant'.status # "SUSPENDED"
         => calls' = calls /\ events' = events]_tenantVars

(* A tenant is billed by one subscription, the one stored with it           *)
(* (subscribeTenant()).                                                     *)
OneSubscription == calm /\ Quiet => remote = IF tenant.sub = None THEN 0 ELSE 1

(* The modules a tenant may use are a snapshot of the plan it is on         *)
(* (changeTenantPlan(), renewSubscription()).                               *)
ModulesAreThePlans == calm => tenant.modules[1] = tenant.plan

(* A renewal keeps the negotiated rate and seats, whatever the catalog says *)
(* by then (renewSubscription()).                                           *)
RenewalKeepsTerms ==
    [][calm' /\ (\E h \in Handlers : calls[h].pc = "renew" /\ calls'[h] = Idle)
         => tenant'.rate = tenant.rate /\ tenant'.seats = tenant.seats]_tenantVars

(* At most one support-access grant is live (requestBreakGlass()). *)
OneLiveGrant ==
    calm => Cardinality({i \in DOMAIN grants : Live(grants[i])}) <= 1

(* A revoked grant stays revoked: the expiry job does not relabel it        *)
(* (revokeBreakGlass(), expireOverdueBreakGlassGrants()).                   *)
RevokedStays ==
    [][calm' => \A i \in DOMAIN grants :
         grants[i].status = "REVOKED" => grants'[i].status = "REVOKED"]_tenantVars

(* Onboarding leaves a whole tenant or nothing: once no onboarding is under *)
(* way, every tenant has its rows and its admin's login, and every login    *)
(* belongs to a tenant or was reported as left behind.  Two onboardings may *)
(* overlap and any step may fail; only a process lost half-way breaks it    *)
(* (createTenant()'s rollback).                                             *)
WholeOrNothing ==
    Quiet /\ ~crashed =>
        /\ \A t \in TenantIds : t \in seeded /\ \E e \in AdminEmails : adminLogin[e] = t
        /\ \A e \in AdminEmails : adminLogin[e] \in TenantIds \cup {NoLogin} \/ e \in stranded

(* Even when a process is lost, nobody is invited to a workspace that does  *)
(* not exist, and one that has its rows has its admin's login ("an invite   *)
(* sent before a rollback points the customer at a tenant that doesn't      *)
(* exist").                                                                 *)
InvitedToAWorkspace ==
    /\ invited \subseteq seeded /\ seeded \subseteq TenantIds
    /\ \A t \in seeded : \E e \in AdminEmails : adminLogin[e] = t

(* A workspace in the registry is one a call created. *)
RegistryTypeOK == registry \in [Subdomains -> 1..MaxCalls \cup {NoTenant}]

(* Every decision rests on values that were true no longer ago than the     *)
(* cache's lifetime and the time requests take, on every instance: the      *)
(* caches, their invalidation and the guards implement RecentReads.         *)
Promise == INSTANCE RecentReads
DecidesOnRecentRows == Promise!RecentSpec

(* On the instance that wrote a row, requests that follow see what was      *)
(* written at once, as long as none overlapped the write                    *)
(* (invalidateOnIdentityWrites()).                                          *)
WriteBitesAtOnce ==
    [][calm' /\ turn' # turn
         => \A k \in Keys : wroteOn[k] \in {Nobody, servedOn'} => served'[k] = row[k]]_idVars

(* Nobody is turned away for an unfinished setup that was finished when the *)
(* request came (loadSetupComplete() keeps only a finished setup).          *)
SetupOpensAtOnce == ~refused

(* Lookups are of the rows' values. *)
LookupsTypeOK == \A k \in Keys : row[k] \in Values[k] /\ served[k] \in Values[k]

-----------------------------------------------------------------------------
(* What logins and the organisation promise. *)

(* Type correctness: a login belongs to a row, a row to an account, and no  *)
(* two employees or rows share a login or an email.                         *)
LoginsTypeOK ==
    /\ \A u \in Accounts : Known(u) => firebase[u] # Nothing
    /\ \A u, v \in Accounts : u # v /\ Known(u) /\ Known(v) => users[u].email # users[v].email
    /\ \A e \in Staff : staff[e] # Nothing =>
         /\ staff[e].state \in DOMAIN Transitions
         /\ staff[e].login # Nothing => Known(staff[e].login)
    /\ \A e, f \in Staff : e # f /\ staff[e] # Nothing /\ staff[f] # Nothing
         /\ staff[e].login # Nothing => staff[e].login # staff[f].login

(* With changes made one after the other, Firebase failing at any point, a  *)
(* workspace keeps an active Company Admin, unless one was separated as an  *)
(* employee: that path does not look.                                       *)
AnAdminRemains == calm /\ ~adminLeft => ActiveAdmins # {}

(* Between calls that did not overlap or get lost, a login is the same      *)
(* person with the same role and email at Firebase and in `users`, and one  *)
(* that is inactive cannot sign in, although each change is two writes and  *)
(* either may be refused.                                                   *)
InStep ==
    calm /\ Quiet => \A u \in Accounts : Known(u) =>
      /\ firebase[u].role = users[u].role /\ firebase[u].email = users[u].email
      /\ ~users[u].active => firebase[u].disabled

(* An account without a row, which makes the email unusable, is one a call  *)
(* is still working on, or was left by create() or by a call that was lost  *)
(* or could not clean up: createLogin() leaves none when its transaction is *)
(* refused, however it was overtaken.                                       *)
NoStrayAccount ==
    \A u \in Accounts : firebase[u] # Nothing /\ ~Known(u) =>
      u \in stray \/ \E h \in Running : "u" \in DOMAIN calls[h] /\ calls[h].u = u

(* The login of an employee is never replaced, whichever calls race for it. *)
LinkedForGood ==
    [][\A e \in Staff : staff[e] # Nothing =>
         staff[e].login \in {Nothing, staff'[e].login}]_staff

(* A separated employee cannot sign in, unless the login was activated by   *)
(* hand: the login is disabled before the state is written, and a separated *)
(* employee gets none.                                                      *)
SeparatedIsOut ==
    calm /\ Quiet => \A e \in Staff :
      staff[e] # Nothing /\ staff[e].state = "SEPARATED" /\ staff[e].login # Nothing =>
        ~users[staff[e].login].active \/ staff[e].login \in readmitted

(* A separation stands, as long as no two transitions overlapped. *)
SeparationStands ==
    [][calm' => \A e \in Staff :
         staff[e] # Nothing /\ staff[e].state = "SEPARATED" => staff'[e].state = "SEPARATED"]_staff

----------------------------------------------------------------------------
(* Nobody is above themselves, as long as no two edits overlapped. *)
NoReportingCycle == calm => Acyclic

(* Reference: the people with m somewhere above them. *)
Under(m) == {p \in People : m \in Chain[manager[p], {}]}

(* The rows a Line Manager may open are the people below, even when edits   *)
(* that overlapped closed a cycle; without one, the directory and the team  *)
(* relations say the same, and tell boss, teammates and reports apart.      *)
ScopesAgree ==
    \A m \in People :
      /\ SubordinateIds(m) = Under(m)
      /\ ManagerRows(m) \subseteq ManagerScope(m)
      /\ Acyclic => ManagerRows(m) = ManagerScope(m) /\ Teammates(m) \cap TeamReports(m) = {}

(* Reference: the employed people above, up to the first who is not. *)
EmployedChain[m \in People \cup {NoOne}, seen \in SUBSET People] ==
    IF m \notin OnChart \/ m \in seen THEN seen ELSE EmployedChain[manager[m], seen \cup {m}]

(* Without a cycle, everyone employed is on the org chart once, and the     *)
(* report count of a person on it is the number of people below that are    *)
(* reached through employed managers; counting ends in a cycle too.         *)
ChartIsWhole ==
    /\ Acyclic => WholeChart.seen = OnChart /\ WholeChart.total = Cardinality(OnChart)
    /\ \A m \in OnChart :
         TotalReportCount(m) = Cardinality({p \in OnChart \ {m} : m \in EmployedChain[manager[p], {}]})

(* Deleting a department leaves nobody without one, unless somebody joined  *)
(* it meanwhile.                                                            *)
DepartmentKept ==
    [][calm' => \A p \in People : dept[p] # NoOne => dept'[p] # NoOne]_dept

(* There is one primary contact at most, as long as no two edits overlapped. *)
OnePrimaryContact == calm => Cardinality({c \in Contacts : contacts[c] = "primary"}) <= 1

(* The photo of the row is in storage once no upload is under way, also     *)
(* after uploads that overlapped, as long as none was lost.                 *)
PhotoIsStored == Quiet /\ ~lost /\ photo # NoOne => stored[photo] = "kept"
----------------------------------------------------------------------------
AcyclicBoss == \A c \in known : ~Climbs(boss, boss[c], {c})

(* Whatever rows are refused, and in whatever order they stand, an accepted *)
(* row reports to an employee there is or to another accepted row.          *)
ManagersArrive ==
    phase = "planned" /\ ~disturbed => \A i \in Rows \ errs :
      sheet[i].mgr \in {NoCode} \cup known \cup {sheet[j].code : j \in Rows \ errs}

(* Every accepted row that could be written is, with its reporting line;    *)
(* employees without such a row keep theirs, and their login.               *)
GoodRowsArrive ==
    phase = "done" /\ ~disturbed =>
      /\ \A i \in saved : sheet[i].code \in known /\ (sheet[i].mail # NoCode => login[sheet[i].code] = sheet[i].mail)
      /\ \A c \in Codes :
           LET own == {i \in saved : sheet[i].code = c /\ sheet[i].mgr # NoCode} IN
           boss[c] = IF own = {} THEN before[c] ELSE sheet[CHOOSE i \in own : TRUE].mgr

(* An import that is not disturbed and writes every accepted row closes no  *)
(* reporting cycle, provided no row of an employee with a manager was       *)
(* refused for its new one: the plan then forgets the manager the employee  *)
(* keeps.                                                                   *)
ForgottenLine == \E i \in refusedBy : before[sheet[i].code] # NoCode
ImportKeepsTree ==
    phase = "done" /\ ~disturbed /\ failed = {} /\ ~ForgottenLine => AcyclicBoss

(* A row that fails leaves no account behind, unless its deletion failed. *)
RowsLeaveNoAccount ==
    phase = "done" => accounts \subseteq MailsInUse \cup Elsewhere \cup leftover
----------------------------------------------------------------------------
(* Only one submit of the setup lands, whichever admins race for it. *)
SetupLandsOnce == [][landed # Unsaved => landed' = landed]_landed

(* The profile that lands is one its submitter entered: no admin's login is *)
(* linked to a profile somebody else filled in, whatever saves overlapped.  *)
SubmittedByItsAuthor == landed # Unsaved => <<landed.by, landed.text>> \in wrote

(* The departments the file and the profile name are there when the setup   *)
(* has landed, unless one was deleted after the draft was saved.            *)
DepartmentsLand == landed # Unsaved /\ ~unitGone => landed.units \subseteq units

(* With edits made one after the other, the uploaded file, which the        *)
(* browser never has, is the one last uploaded, and it is not kept once the *)
(* setup has landed.                                                        *)
UploadKept ==
    calm /\ Quiet => IF setup.draft = Unsaved THEN setup.done \/ upload = "none"
                     ELSE ~setup.done /\ setup.draft.file = upload

(* With edits and retries made one after the other and none lost, each      *)
(* login of the file that landed is linked or listed as failed, and what    *)
(* failed left nothing behind, unless only the link or the deletion failed. *)
LoginsAccounted ==
    calm /\ Quiet /\ landed # Unsaved =>
      /\ landed.file = "good" => Hires \subseteq joined \cup setup.failures
      /\ \A p \in Hires \ halfDone : (p \in fbUsers <=> p \in joined) /\ (p \in dbUsers <=> p \in joined)
-----------------------------------------------------------------------------
(* A tenant's rows are well typed and agree with Razorpay, with the catalog *)
(* and with one another: nothing is recorded, billed or granted twice.      *)
TenancyAddsUp == TenancyTypeOK /\ ChargeRecordedOnce /\ OneSubscription /\ ModulesAreThePlans /\ OneLiveGrant

(* Onboarding leaves a whole workspace that its admin can open, or nothing. *)
OnboardingIsWhole == RegistryTypeOK /\ WholeOrNothing /\ InvitedToAWorkspace

(* What the operator or an admin has written stands and bites: suspensions, *)
(* negotiated terms, revocations, writes to the rows that guards read, and  *)
(* the setup that is done.                                                  *)
OperatorsWordStands ==
    /\ SuspensionStands /\ RenewalKeepsTerms /\ RevokedStays
    /\ WriteBitesAtOnce /\ []SetupOpensAtOnce /\ []LookupsTypeOK

(* Logins at Firebase and in the tables are in step, none is left over, and *)
(* separated employees are out.                                             *)
LoginsInStep == LoginsTypeOK /\ InStep /\ NoStrayAccount /\ SeparatedIsOut

(* The organisation is a forest that the scopes and the chart show alike,   *)
(* with one primary contact and the photo its row names.                    *)
OrgIsWhole == NoReportingCycle /\ ScopesAgree /\ ChartIsWhole /\ OnePrimaryContact /\ PhotoIsStored

(* What is entered by the file or by the setup wizard lands as it was       *)
(* entered, and leaves nothing behind where it does not.                    *)
EntriesLand ==
    /\ ManagersArrive /\ GoodRowsArrive /\ ImportKeepsTree /\ RowsLeaveNoAccount
    /\ SubmittedByItsAuthor /\ DepartmentsLand /\ UploadKept /\ LoginsAccounted

(* Links, separations, departments and the setup that landed are not undone *)
(* by what comes later.                                                     *)
StaysDecided == LinkedForGood /\ SeparationStands /\ DepartmentKept /\ SetupLandsOnce
=============================================================================
