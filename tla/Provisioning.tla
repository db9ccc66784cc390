---------------------------- MODULE Provisioning ----------------------------
(***************************************************************************)
(* Onboarding a tenant (createTenant() and its helpers in                  *)
(* apps/api/src/platform-admin/platform-admin.service.ts): the tenant row, *)
(* the admin's login at Firebase, the login's claims, the tenant's own     *)
(* rows and the invite, one after the other, with compensation when a step *)
(* fails.  A tenant's id is the number of the call that creates it.        *)
(***************************************************************************)
EXTENDS Calls

CONSTANTS
    Subdomains,
    AdminEmails,
    NoTenant

ASSUME ProvisioningAssumption == NoTenant \notin Int

VARIABLES
    registry,   \* platform.tenants: the tenant of a subdomain
    adminLogin,   \* external: email -> the tenant its login is claimed for, or its absence
    seeded,     \* tenants whose rows in `public` were written
    invited,    \* tenants whose admin was sent the invite
    stranded,   \* emails whose login could not be removed: "rollback incomplete"
    crashed     \* a call was lost half-way

provVars == <<registry, adminLogin, seeded, invited, stranded, crashed>>

NoLogin == 0          \* tenant ids are positive
Unclaimed == -1
TenantIds == {registry[s] : s \in Subdomains} \ {NoTenant}

ProvInit ==
    /\ registry = [s \in Subdomains |-> NoTenant]
    /\ adminLogin = [e \in AdminEmails |-> NoLogin]
    /\ seeded = {} /\ invited = {} /\ stranded = {} /\ crashed = FALSE

At(h, pc) == calls[h].pc = pc
GoTo(h, pc) == Continue(h, [calls[h] EXCEPT !.pc = pc])

(* createTenant(): refused for a subdomain in use; the unique index refuses  *)
(* it again.                                                                 *)
CreateTenantRead(h, s, e) ==
    /\ registry[s] = NoTenant
    /\ Begin(h, [pc |-> "row", sub |-> s, email |-> e, id |-> made + 1])
    /\ UNCHANGED provVars
CreateTenantRow(h) ==
    /\ At(h, "row")
    /\ IF registry[calls[h].sub] # NoTenant THEN Finish(h) /\ UNCHANGED registry
       ELSE /\ registry' = [registry EXCEPT ![calls[h].sub] = calls[h].id]
            /\ GoTo(h, "login")
    /\ UNCHANGED <<adminLogin, seeded, invited, stranded, crashed>>

(* createAdminLogin(): an email with a login is refused, and Firebase may    *)
(* fail; then the claims, whose failure discards the login.                  *)
CreateAdminLogin(h) ==
    /\ At(h, "login")
    /\ \/ adminLogin[calls[h].email] = NoLogin
          /\ adminLogin' = [adminLogin EXCEPT ![calls[h].email] = Unclaimed]
          /\ GoTo(h, "claims")
       \/ GoTo(h, "undo") /\ UNCHANGED adminLogin
    /\ UNCHANGED <<registry, seeded, invited, stranded, crashed>>

(* Mutant of ClaimAdmin: the invite goes out before the rows are there. *)
ClaimAdminInviting(h) ==
    /\ At(h, "claims")
    /\ \/ adminLogin' = [adminLogin EXCEPT ![calls[h].email] = calls[h].id] /\ GoTo(h, "seed")
       \/ GoTo(h, "discard") /\ UNCHANGED adminLogin
    /\ invited' = invited \cup {calls[h].id}
    /\ UNCHANGED <<registry, seeded, stranded, crashed>>

ClaimAdmin(h) ==
    /\ At(h, "claims")
    /\ \/ adminLogin' = [adminLogin EXCEPT ![calls[h].email] = calls[h].id] /\ GoTo(h, "seed")
       \/ GoTo(h, "discard") /\ UNCHANGED adminLogin
    /\ UNCHANGED <<registry, seeded, invited, stranded, crashed>>

(* seedTenantRows(): one transaction. *)
SeedTenantRows(h) ==
    /\ At(h, "seed")
    /\ \/ seeded' = seeded \cup {calls[h].id} /\ GoTo(h, "invite")
       \/ GoTo(h, "discard") /\ UNCHANGED seeded
    /\ UNCHANGED <<registry, adminLogin, invited, stranded, crashed>>

(* discardFirebaseUser(): best effort, logged when Firebase refuses. *)
DiscardFirebaseUser(h) ==
    /\ At(h, "discard")
    /\ \/ adminLogin' = [adminLogin EXCEPT ![calls[h].email] = NoLogin] /\ UNCHANGED stranded
       \/ stranded' = stranded \cup {calls[h].email} /\ UNCHANGED adminLogin
    /\ GoTo(h, "undo")
    /\ UNCHANGED <<registry, seeded, invited, crashed>>

(* The rollback of the tenant row. *)
UndoTenant(h) ==
    /\ At(h, "undo")
    /\ registry' = [registry EXCEPT ![calls[h].sub] = NoTenant]
    /\ Finish(h)
    /\ UNCHANGED <<adminLogin, seeded, invited, stranded, crashed>>

(* sendAdminInvite() and resendAdminReset(): the email may fail, the tenant  *)
(* stays.                                                                    *)
SendAdminInvite(h) ==
    /\ At(h, "invite")
    /\ invited' \in {invited, invited \cup {calls[h].id}}
    /\ Finish(h)
    /\ UNCHANGED <<registry, adminLogin, seeded, stranded, crashed>>
ResendAdminReset ==
    /\ \E t \in seeded \cap TenantIds : invited' = invited \cup {t}
    /\ AtOnce
    /\ UNCHANGED <<registry, adminLogin, seeded, stranded, crashed>>

ProvLose(h) ==
    Lose(h) /\ crashed' = TRUE /\ UNCHANGED <<registry, adminLogin, seeded, invited, stranded>>

ProvNext ==
    \/ ResendAdminReset
    \/ \E h \in Handlers :
         \/ \E s \in Subdomains, e \in AdminEmails : CreateTenantRead(h, s, e)
         \/ CreateTenantRow(h) \/ CreateAdminLogin(h) \/ ClaimAdmin(h) \/ SeedTenantRows(h)
         \/ DiscardFirebaseUser(h) \/ UndoTenant(h) \/ SendAdminInvite(h) \/ ProvLose(h)
=============================================================================
