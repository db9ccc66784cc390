--------------------------- MODULE WorkspaceProofs ---------------------------
(***************************************************************************)
(* Proofs about workspaces, for any number of calls that overlap, fail at  *)
(* any step and are lost half-way.                                         *)
(***************************************************************************)
EXTENDS WorkspaceProperties, FiniteSetTheorems, TLAPS

-----------------------------------------------------------------------------
(* Onboarding.                                                              *)
OnboardingSpec ==
    CallsInit /\ ProvInit /\ [][ProvNext]_<<callVars, provVars>>

(* A call in one of these states owns the login of its email. *)
Owning == {"claims", "seed", "discard", "invite"}
OnboardingPcs == {"row", "login", "undo"} \cup Owning
OnboardingCalls ==
    [pc: OnboardingPcs, sub: Subdomains, email: AdminEmails, id: Nat \ {0}]

OnboardingTypes ==
    /\ made \in 0..MaxCalls /\ crashed \in BOOLEAN
    /\ calls \in [Handlers -> {Idle} \cup OnboardingCalls]
    /\ registry \in [Subdomains -> {NoTenant} \cup 1..made]
    /\ adminLogin \in [AdminEmails -> {NoLogin, Unclaimed} \cup 1..made]
    /\ seeded \subseteq 1..made /\ invited \subseteq seeded

(* Where a call stands with its tenant and its login. *)
OnboardingCallOK(c) ==
    /\ c.id <= made
    /\ IF c.pc = "row" THEN \A s \in Subdomains : registry[s] # c.id ELSE registry[c.sub] = c.id
    /\ c.id \in seeded <=> c.pc = "invite"
    /\ c.pc = "claims" => adminLogin[c.email] = Unclaimed
    /\ c.pc \in {"seed", "invite"} => adminLogin[c.email] = c.id
    /\ c.pc = "discard" => adminLogin[c.email] \in {Unclaimed, c.id}

(* No two calls create the same tenant or own the same login. *)
Apart(c, d) ==
    c # Idle /\ d # Idle =>
      c.id # d.id /\ (c.pc \in Owning /\ d.pc \in Owning => c.email # d.email)

OnboardingCallsOK ==
    \A h \in Handlers :
      /\ \A c \in OnboardingCalls : c = calls[h] => OnboardingCallOK(c)
      /\ \A g \in Handlers \ {h} : Apart(calls[h], calls[g])

(* A tenant with rows has its registry entry and its admin's login. *)
SeededIsWhole ==
    \A t \in seeded : /\ \E s \in Subdomains : registry[s] = t
                      /\ \E e \in AdminEmails : adminLogin[e] = t

(* As long as no call was lost, one that is not finished yet answers for    *)
(* every tenant without rows and for every login without a tenant.          *)
Answered ==
    ~crashed =>
      /\ \A s \in Subdomains :
           \/ registry[s] \in seeded \cup {NoTenant}
           \/ \E h \in Handlers : calls[h].pc \in OnboardingPcs \ {"row"} /\ calls[h].sub = s
      /\ \A e \in AdminEmails :
           \/ adminLogin[e] \in seeded \cup {NoLogin} \/ e \in stranded
           \/ \E h \in Handlers : calls[h].pc \in Owning /\ calls[h].email = e

OnboardingInv == OnboardingTypes /\ OnboardingCallsOK /\ SeededIsWhole /\ Answered

LEMMA OnboardingStarts == ASSUME CallsInit, ProvInit PROVE OnboardingInv
<1>1. Idle \notin OnboardingCalls
  BY DEF Idle, OnboardingCalls, OnboardingPcs, Owning
<1>2. OnboardingTypes
  <2>1. made \in 0..MaxCalls /\ calls \in [Handlers -> {Idle} \cup OnboardingCalls]
    BY CallsAssumption DEF CallsInit
  <2> QED BY <2>1 DEF ProvInit, OnboardingTypes
<1>3. OnboardingCallsOK
  BY <1>1 DEF CallsInit, OnboardingCallsOK, Apart
<1>4. SeededIsWhole /\ Answered
  BY DEF CallsInit, ProvInit, SeededIsWhole, Answered
<1> QED BY <1>2, <1>3, <1>4 DEF OnboardingInv

LEMMA OnboardingIsWholeThen == ASSUME OnboardingInv PROVE OnboardingIsWhole
<1>1. OnboardingTypes /\ SeededIsWhole /\ Answered
  BY DEF OnboardingInv
<1>2. \A t : t \in seeded => t # NoTenant
  BY <1>1, ProvisioningAssumption DEF OnboardingTypes
<1>3. seeded \subseteq TenantIds
  BY <1>1, <1>2 DEF SeededIsWhole, TenantIds
<1>4. InvitedToAWorkspace
  BY <1>1, <1>3 DEF InvitedToAWorkspace, OnboardingTypes, SeededIsWhole
<1>5. ASSUME Quiet, ~crashed
      PROVE  /\ \A t \in TenantIds : t \in seeded /\ \E e \in AdminEmails : adminLogin[e] = t
             /\ \A e \in AdminEmails : adminLogin[e] \in TenantIds \cup {NoLogin} \/ e \in stranded
  <2>1. \A h \in Handlers : calls[h].pc = "idle"
    BY <1>5 DEF Quiet, Running, Idle
  <2>2. "idle" \notin OnboardingPcs
    BY DEF OnboardingPcs, Owning
  <2>3. \A s \in Subdomains : registry[s] \in seeded \cup {NoTenant}
    BY <1>1, <1>5, <2>1, <2>2 DEF Answered
  <2>4. \A e \in AdminEmails : adminLogin[e] \in seeded \cup {NoLogin} \/ e \in stranded
    BY <1>1, <1>5, <2>1, <2>2 DEF Answered, OnboardingPcs
  <2>5. \A t \in TenantIds : t \in seeded
    BY <2>3 DEF TenantIds
  <2> QED BY <1>1, <1>3, <2>4, <2>5 DEF SeededIsWhole
<1>6. RegistryTypeOK
  BY <1>1, CallsAssumption DEF OnboardingTypes, RegistryTypeOK
<1> QED BY <1>4, <1>5, <1>6 DEF OnboardingIsWhole, WholeOrNothing

(* A call that stands at h goes on as d (Idle when it ends).                *)
LEMMA OnboardingMoves ==
  ASSUME OnboardingTypes, OnboardingCallsOK, NEW h \in Handlers, NEW d \in {Idle} \cup OnboardingCalls,
         calls' = [calls EXCEPT ![h] = d],
         d \in OnboardingCalls => OnboardingCallOK(d)',
         \A g \in Handlers \ {h} : Apart(d, calls[g]),
         \A g \in Handlers \ {h} : \A e \in OnboardingCalls :
           e = calls[g] /\ OnboardingCallOK(e) => OnboardingCallOK(e)'
  PROVE  OnboardingCallsOK' /\ calls' \in [Handlers -> {Idle} \cup OnboardingCalls]
<1>1. \A g \in Handlers : calls'[g] = IF g = h THEN d ELSE calls[g]
  BY DEF OnboardingTypes
<1>2. calls' \in [Handlers -> {Idle} \cup OnboardingCalls]
  BY DEF OnboardingTypes
<1>3. ASSUME NEW g \in Handlers, NEW e \in OnboardingCalls, e = calls'[g] PROVE OnboardingCallOK(e)'
  BY <1>1, <1>3 DEF OnboardingCallsOK
<1>4. ASSUME NEW g \in Handlers, NEW f \in Handlers \ {g} PROVE Apart(calls'[g], calls'[f])
  <2>1. Apart(calls[g], calls[f])
    BY DEF OnboardingCallsOK
  <2>2. \A a, b : Apart(a, b) => Apart(b, a)
    BY DEF Apart
  <2> QED BY <1>1, <2>1, <2>2
<1> QED BY <1>2, <1>3, <1>4 DEF OnboardingCallsOK, Apart

LEMMA TenantReadStep ==
  ASSUME OnboardingInv, NEW h \in Handlers, NEW s \in Subdomains, NEW e \in AdminEmails, CreateTenantRead(h, s, e)
  PROVE  OnboardingInv'
<1>0. PICK d : d = [pc |-> "row", sub |-> s, email |-> e, id |-> made + 1]
  OBVIOUS
<1>1. OnboardingTypes /\ OnboardingCallsOK /\ SeededIsWhole /\ Answered
  BY DEF OnboardingInv
<1>2. /\ calls[h] = Idle /\ calls' = [calls EXCEPT ![h] = d] /\ made' = made + 1 /\ made < MaxCalls
      /\ UNCHANGED provVars
  BY <1>0 DEF CreateTenantRead, Begin, Counted
<1>3. /\ d \in OnboardingCalls /\ d.pc = "row" /\ d.id = made + 1 /\ d.email = e
  BY <1>0, <1>1 DEF OnboardingTypes, OnboardingCalls, OnboardingPcs
<1>4. OnboardingCallOK(d)'
  BY <1>1, <1>2, <1>3, ProvisioningAssumption DEF OnboardingCallOK, OnboardingTypes, provVars
<1>5. \A g \in Handlers \ {h} : Apart(d, calls[g])
  BY <1>1, <1>3 DEF Apart, OnboardingCallsOK, OnboardingCallOK, OnboardingTypes, Owning
<1>6. \A g \in Handlers \ {h} : \A c \in OnboardingCalls :
        c = calls[g] /\ OnboardingCallOK(c) => OnboardingCallOK(c)'
  BY <1>1, <1>2 DEF OnboardingCallOK, OnboardingTypes, provVars, OnboardingCalls
<1>7. OnboardingCallsOK' /\ calls' \in [Handlers -> {Idle} \cup OnboardingCalls]
  BY <1>1, <1>2, <1>3, <1>4, <1>5, <1>6, OnboardingMoves
<1>8. OnboardingTypes'
  <2>1. made' \in 0..MaxCalls /\ 1..made \subseteq 1..made'
    BY <1>1, <1>2, CallsAssumption DEF OnboardingTypes
  <2> QED BY <1>1, <1>2, <1>7, <2>1 DEF OnboardingTypes, provVars
<1>9. SeededIsWhole'
  BY <1>1, <1>2 DEF SeededIsWhole, provVars
<1>10. \A g \in Handlers : calls[g].pc \in OnboardingPcs => calls'[g] = calls[g]
  BY <1>1, <1>2 DEF OnboardingTypes, Idle, OnboardingPcs, Owning
<1>11. Answered'
  BY <1>1, <1>2, <1>10 DEF Answered, provVars, OnboardingPcs
<1> QED BY <1>7, <1>8, <1>9, <1>11 DEF OnboardingInv

LEMMA TenantRowStep ==
  ASSUME OnboardingInv, NEW h \in Handlers, CreateTenantRow(h)
  PROVE  OnboardingInv'
<1>0. PICK c : c = calls[h]
  OBVIOUS
<1>1. OnboardingTypes /\ OnboardingCallsOK /\ SeededIsWhole /\ Answered
  BY DEF OnboardingInv
<1>2. c \in OnboardingCalls /\ c.pc = "row" /\ OnboardingCallOK(c) /\ \A g \in Handlers \ {h} : Apart(c, calls[g])
  BY <1>0, <1>1 DEF CreateTenantRow, At, OnboardingTypes, Idle, OnboardingCallsOK
<1>3. /\ UNCHANGED <<made, adminLogin, seeded, invited, stranded, crashed>>
      /\ \/ calls' = [calls EXCEPT ![h] = Idle] /\ registry' = registry
         \/ /\ registry[c.sub] = NoTenant /\ registry' = [registry EXCEPT ![c.sub] = c.id]
            /\ calls' = [calls EXCEPT ![h] = [c EXCEPT !.pc = "login"]]
  BY <1>0 DEF CreateTenantRow, Finish, Continue, GoTo
<1>4. CASE calls' = [calls EXCEPT ![h] = Idle] /\ registry' = registry
  <2>1. OnboardingCallsOK' /\ calls' \in [Handlers -> {Idle} \cup OnboardingCalls]
    <3>1. Idle \notin OnboardingCalls
      BY DEF Idle, OnboardingCalls, OnboardingPcs, Owning
    <3>2. \A g \in Handlers \ {h} : Apart(Idle, calls[g])
      BY DEF Apart
    <3>3. \A e \in OnboardingCalls : OnboardingCallOK(e) => OnboardingCallOK(e)'
      BY <1>3, <1>4 DEF OnboardingCallOK
    <3> QED BY <1>1, <1>4, <3>1, <3>2, <3>3, OnboardingMoves
  <2>2. OnboardingTypes' /\ SeededIsWhole'
    BY <1>1, <1>3, <1>4, <2>1 DEF OnboardingTypes, SeededIsWhole
  <2>3. \A g \in Handlers : calls[g].pc \in OnboardingPcs \ {"row"} => calls'[g] = calls[g]
    BY <1>0, <1>1, <1>2, <1>4 DEF OnboardingTypes
  <2>4. Answered'
    BY <1>1, <1>3, <1>4, <2>3 DEF Answered, OnboardingPcs, Owning
  <2> QED BY <2>1, <2>2, <2>4 DEF OnboardingInv
<1>5. CASE /\ registry[c.sub] = NoTenant /\ registry' = [registry EXCEPT ![c.sub] = c.id]
           /\ calls' = [calls EXCEPT ![h] = [c EXCEPT !.pc = "login"]]
  <2>0. PICK d : d = [c EXCEPT !.pc = "login"]
    OBVIOUS
  <2>1. /\ d \in OnboardingCalls /\ d.pc = "login" /\ d.id = c.id /\ d.sub = c.sub /\ d.email = c.email
        /\ calls' = [calls EXCEPT ![h] = d]
    BY <1>2, <1>5, <2>0 DEF OnboardingCalls, OnboardingPcs
  <2>2. \A s \in Subdomains : registry'[s] = IF s = c.sub THEN c.id ELSE registry[s]
    BY <1>1, <1>5 DEF OnboardingTypes
  <2>3. OnboardingCallOK(d)'
    BY <1>2, <1>3, <2>1, <2>2 DEF OnboardingCallOK, OnboardingCalls
  <2>4. \A g \in Handlers \ {h} : Apart(d, calls[g])
    BY <1>2, <2>1 DEF Apart, Owning, Idle
  <2>5. ASSUME NEW g \in Handlers \ {h}, NEW e \in OnboardingCalls, e = calls[g], OnboardingCallOK(e)
        PROVE  OnboardingCallOK(e)'
    <3>1. e.id # c.id /\ e.id \in Int
      BY <1>2, <2>5 DEF Apart, Idle, OnboardingCalls, OnboardingPcs, Owning
    <3>2. e.pc # "row" => e.sub # c.sub
      BY <1>5, <2>5, <3>1, ProvisioningAssumption DEF OnboardingCallOK
    <3> QED BY <1>3, <2>2, <2>5, <3>1, <3>2 DEF OnboardingCallOK, OnboardingCalls
  <2>6. OnboardingCallsOK' /\ calls' \in [Handlers -> {Idle} \cup OnboardingCalls]
    BY <1>1, <2>1, <2>3, <2>4, <2>5, OnboardingMoves
  <2>7. OnboardingTypes'
    BY <1>1, <1>2, <1>3, <1>5, <2>6 DEF OnboardingTypes, OnboardingCalls, OnboardingCallOK
  <2>8. SeededIsWhole'
    <3>1. \A t \in seeded : t # NoTenant
      BY <1>1, ProvisioningAssumption DEF OnboardingTypes
    <3> QED BY <1>1, <1>3, <1>5, <2>2, <3>1 DEF SeededIsWhole
  <2>9. \A g \in Handlers : calls'[g] = IF g = h THEN d ELSE calls[g]
    BY <1>1, <2>1 DEF OnboardingTypes
  <2>10. Answered'
    BY <1>0, <1>1, <1>2, <1>3, <2>1, <2>2, <2>9 DEF Answered, OnboardingPcs, Owning
  <2> QED BY <2>6, <2>7, <2>8, <2>10 DEF OnboardingInv
<1> QED BY <1>3, <1>4, <1>5

(* What a step finds at the call that takes it. *)
LEMMA StandsAt ==
  ASSUME OnboardingInv, NEW h \in Handlers, NEW pc \in OnboardingPcs, At(h, pc), NEW c, c = calls[h]
  PROVE  /\ c \in OnboardingCalls /\ c.pc = pc /\ OnboardingCallOK(c)
         /\ \A g \in Handlers \ {h} : Apart(c, calls[g])
BY DEF At, OnboardingInv, OnboardingTypes, Idle, OnboardingCallsOK, OnboardingPcs, Owning

(* The call at h goes on at pc: what remains to be shown of the step. *)
LEMMA GoesOn ==
  ASSUME OnboardingInv, NEW h \in Handlers, NEW pc \in OnboardingPcs, NEW c, c = calls[h],
         c \in OnboardingCalls, GoTo(h, pc)
  PROVE  \E d \in OnboardingCalls :
           /\ d.pc = pc /\ d.id = c.id /\ d.sub = c.sub /\ d.email = c.email
           /\ calls' = [calls EXCEPT ![h] = d]
           /\ \A g \in Handlers : calls'[g] = IF g = h THEN d ELSE calls[g]
           /\ made' = made
<1>1. PICK d : d = [c EXCEPT !.pc = pc]
  OBVIOUS
<1>2. d \in OnboardingCalls /\ d.pc = pc /\ d.id = c.id /\ d.sub = c.sub /\ d.email = c.email
  BY <1>1 DEF OnboardingCalls
<1>3. calls' = [calls EXCEPT ![h] = d] /\ made' = made
  BY <1>1 DEF GoTo, Continue
<1>4. \A g \in Handlers : calls'[g] = IF g = h THEN d ELSE calls[g]
  BY <1>3 DEF OnboardingInv, OnboardingTypes
<1> QED BY <1>2, <1>3, <1>4

(* The login is created, or the email has one already, or Firebase fails. *)
LEMMA AdminLoginStep ==
  ASSUME OnboardingInv, NEW h \in Handlers, CreateAdminLogin(h)
  PROVE  OnboardingInv'
<1>0. PICK c : c = calls[h]
  OBVIOUS
<1>1. OnboardingTypes /\ OnboardingCallsOK /\ SeededIsWhole /\ Answered
  BY DEF OnboardingInv
<1>2. c \in OnboardingCalls /\ c.pc = "login" /\ OnboardingCallOK(c) /\ \A g \in Handlers \ {h} : Apart(c, calls[g])
  BY <1>0, StandsAt DEF CreateAdminLogin, OnboardingPcs
<1>3. UNCHANGED <<registry, seeded, invited, stranded, crashed>>
  BY DEF CreateAdminLogin
<1>4. CASE adminLogin[c.email] = NoLogin /\ adminLogin' = [adminLogin EXCEPT ![c.email] = Unclaimed] /\ GoTo(h, "claims")
  <2>1. PICK d \in OnboardingCalls :
           /\ d.pc = "claims" /\ d.id = c.id /\ d.sub = c.sub /\ d.email = c.email
           /\ calls' = [calls EXCEPT ![h] = d]
           /\ \A g \in Handlers : calls'[g] = IF g = h THEN d ELSE calls[g]
           /\ made' = made
    BY <1>0, <1>2, <1>4, GoesOn DEF OnboardingPcs, Owning
  <2>2. \A e \in AdminEmails : adminLogin'[e] = IF e = c.email THEN Unclaimed ELSE adminLogin[e]
    BY <1>1, <1>4 DEF OnboardingTypes
  <2>3. OnboardingCallOK(d)'
    BY <1>2, <1>3, <2>1, <2>2 DEF OnboardingCallOK, OnboardingCalls
  <2>4. ASSUME NEW g \in Handlers \ {h}, NEW e \in OnboardingCalls, e = calls[g]
        PROVE  OnboardingCallOK(e) /\ e.id # c.id /\ e.id > 0 /\ (e.pc \in Owning => e.email # c.email)
    <3>1. OnboardingCallOK(e) /\ e.id # c.id /\ e.id > 0
      BY <1>1, <1>2, <2>4 DEF OnboardingCallsOK, Apart, Idle, OnboardingCalls, OnboardingPcs, Owning
    <3>2. e.pc \in Owning => adminLogin[e.email] # NoLogin
      BY <3>1 DEF OnboardingCallOK, Owning, NoLogin, Unclaimed
    <3> QED BY <1>4, <3>1, <3>2
  <2>5. \A g \in Handlers \ {h} : Apart(d, calls[g])
    BY <1>1, <2>1, <2>4 DEF Apart, OnboardingTypes
  <2>6. \A g \in Handlers \ {h} : \A e \in OnboardingCalls :
          e = calls[g] /\ OnboardingCallOK(e) => OnboardingCallOK(e)'
    BY <1>3, <2>1, <2>2, <2>4 DEF OnboardingCallOK, OnboardingCalls, Owning
  <2>7. OnboardingCallsOK' /\ calls' \in [Handlers -> {Idle} \cup OnboardingCalls]
    BY <1>1, <2>1, <2>3, <2>5, <2>6, OnboardingMoves
  <2>8. OnboardingTypes'
    BY <1>1, <1>3, <1>4, <2>1, <2>7 DEF OnboardingTypes
  <2>9. SeededIsWhole'
    <3>1. \A t \in seeded : t # adminLogin[c.email]
      BY <1>1, <1>4 DEF OnboardingTypes, NoLogin
    <3> QED BY <1>1, <1>3, <2>2, <3>1 DEF SeededIsWhole
  <2>10. Answered'
    BY <1>0, <1>1, <1>2, <1>3, <2>1, <2>2 DEF Answered, OnboardingPcs, Owning
  <2> QED BY <2>7, <2>8, <2>9, <2>10 DEF OnboardingInv
<1>5. CASE GoTo(h, "undo") /\ adminLogin' = adminLogin
  <2>1. PICK d \in OnboardingCalls :
           /\ d.pc = "undo" /\ d.id = c.id /\ d.sub = c.sub /\ d.email = c.email
           /\ calls' = [calls EXCEPT ![h] = d]
           /\ \A g \in Handlers : calls'[g] = IF g = h THEN d ELSE calls[g]
           /\ made' = made
    BY <1>0, <1>2, <1>5, GoesOn DEF OnboardingPcs, Owning
  <2>2. OnboardingCallOK(d)'
    BY <1>2, <1>3, <2>1 DEF OnboardingCallOK, OnboardingCalls
  <2>3. \A g \in Handlers \ {h} : Apart(d, calls[g])
    BY <1>2, <2>1 DEF Apart, Owning, Idle
  <2>4. \A e \in OnboardingCalls : OnboardingCallOK(e) => OnboardingCallOK(e)'
    BY <1>3, <1>5, <2>1 DEF OnboardingCallOK
  <2>5. OnboardingCallsOK' /\ calls' \in [Handlers -> {Idle} \cup OnboardingCalls]
    BY <1>1, <2>1, <2>2, <2>3, <2>4, OnboardingMoves
  <2>6. OnboardingTypes' /\ SeededIsWhole'
    BY <1>1, <1>3, <1>5, <2>1, <2>5 DEF OnboardingTypes, SeededIsWhole
  <2>7. Answered'
    BY <1>0, <1>1, <1>2, <1>3, <1>5, <2>1 DEF Answered, OnboardingPcs, Owning
  <2> QED BY <2>5, <2>6, <2>7 DEF OnboardingInv
<1> QED BY <1>0, <1>4, <1>5 DEF CreateAdminLogin

(* The claims are set, or the login is discarded. *)
LEMMA ClaimsStep ==
  ASSUME OnboardingInv, NEW h \in Handlers, ClaimAdmin(h)
  PROVE  OnboardingInv'
<1>0. PICK c : c = calls[h]
  OBVIOUS
<1>1. OnboardingTypes /\ OnboardingCallsOK /\ SeededIsWhole /\ Answered
  BY DEF OnboardingInv
<1>2. c \in OnboardingCalls /\ c.pc = "claims" /\ OnboardingCallOK(c) /\ \A g \in Handlers \ {h} : Apart(c, calls[g])
  BY <1>0, StandsAt DEF ClaimAdmin, OnboardingPcs, Owning
<1>3. UNCHANGED <<registry, seeded, invited, stranded, crashed>>
  BY DEF ClaimAdmin
<1>4. ASSUME NEW g \in Handlers \ {h}, NEW e \in OnboardingCalls, e = calls[g]
      PROVE  OnboardingCallOK(e) /\ e.id # c.id /\ (e.pc \in Owning => e.email # c.email)
  BY <1>1, <1>2, <1>4 DEF OnboardingCallsOK, Apart, Idle, OnboardingCalls, OnboardingPcs, Owning
<1>5. CASE adminLogin' = [adminLogin EXCEPT ![c.email] = c.id] /\ GoTo(h, "seed")
  <2>1. PICK d \in OnboardingCalls :
           /\ d.pc = "seed" /\ d.id = c.id /\ d.sub = c.sub /\ d.email = c.email
           /\ calls' = [calls EXCEPT ![h] = d]
           /\ \A g \in Handlers : calls'[g] = IF g = h THEN d ELSE calls[g]
           /\ made' = made
    BY <1>0, <1>2, <1>5, GoesOn DEF OnboardingPcs, Owning
  <2>2. \A e \in AdminEmails : adminLogin'[e] = IF e = c.email THEN c.id ELSE adminLogin[e]
    BY <1>1, <1>5 DEF OnboardingTypes
  <2>3. OnboardingCallOK(d)'
    BY <1>2, <1>3, <2>1, <2>2 DEF OnboardingCallOK, OnboardingCalls
  <2>4. \A g \in Handlers \ {h} : Apart(d, calls[g])
    BY <1>1, <1>4, <2>1 DEF Apart, OnboardingTypes
  <2>5. \A g \in Handlers \ {h} : \A e \in OnboardingCalls :
          e = calls[g] /\ OnboardingCallOK(e) => OnboardingCallOK(e)'
    BY <1>3, <1>4, <2>1, <2>2 DEF OnboardingCallOK, OnboardingCalls, Owning
  <2>6. OnboardingCallsOK' /\ calls' \in [Handlers -> {Idle} \cup OnboardingCalls]
    BY <1>1, <2>1, <2>3, <2>4, <2>5, OnboardingMoves
  <2>7. OnboardingTypes'
    BY <1>1, <1>2, <1>3, <1>5, <2>1, <2>6 DEF OnboardingTypes, OnboardingCalls, OnboardingCallOK
  <2>8. SeededIsWhole'
    <3>1. \A t \in seeded : t # adminLogin[c.email]
      BY <1>1, <1>2 DEF OnboardingTypes, OnboardingCallOK, Unclaimed
    <3> QED BY <1>1, <1>3, <2>2, <3>1 DEF SeededIsWhole
  <2>9. Answered'
    BY <1>0, <1>1, <1>2, <1>3, <2>1, <2>2 DEF Answered, OnboardingPcs, Owning
  <2> QED BY <2>6, <2>7, <2>8, <2>9 DEF OnboardingInv
<1>6. CASE GoTo(h, "discard") /\ adminLogin' = adminLogin
  <2>1. PICK d \in OnboardingCalls :
           /\ d.pc = "discard" /\ d.id = c.id /\ d.sub = c.sub /\ d.email = c.email
           /\ calls' = [calls EXCEPT ![h] = d]
           /\ \A g \in Handlers : calls'[g] = IF g = h THEN d ELSE calls[g]
           /\ made' = made
    BY <1>0, <1>2, <1>6, GoesOn DEF OnboardingPcs, Owning
  <2>2. OnboardingCallOK(d)'
    BY <1>2, <1>3, <1>6, <2>1 DEF OnboardingCallOK, OnboardingCalls
  <2>3. \A g \in Handlers \ {h} : Apart(d, calls[g])
    BY <1>1, <1>4, <2>1 DEF Apart, OnboardingTypes
  <2>4. \A e \in OnboardingCalls : OnboardingCallOK(e) => OnboardingCallOK(e)'
    BY <1>3, <1>6, <2>1 DEF OnboardingCallOK
  <2>5. OnboardingCallsOK' /\ calls' \in [Handlers -> {Idle} \cup OnboardingCalls]
    BY <1>1, <2>1, <2>2, <2>3, <2>4, OnboardingMoves
  <2>6. OnboardingTypes' /\ SeededIsWhole'
    BY <1>1, <1>3, <1>6, <2>1, <2>5 DEF OnboardingTypes, SeededIsWhole
  <2>7. Answered'
    BY <1>0, <1>1, <1>2, <1>3, <1>6, <2>1 DEF Answered, OnboardingPcs, Owning
  <2> QED BY <2>5, <2>6, <2>7 DEF OnboardingInv
<1> QED BY <1>0, <1>5, <1>6 DEF ClaimAdmin

(* The tenant's rows are written, or the login is discarded. *)
LEMMA SeedStep ==
  ASSUME OnboardingInv, NEW h \in Handlers, SeedTenantRows(h)
  PROVE  OnboardingInv'
<1>0. PICK c : c = calls[h]
  OBVIOUS
<1>1. OnboardingTypes /\ OnboardingCallsOK /\ SeededIsWhole /\ Answered
  BY DEF OnboardingInv
<1>2. c \in OnboardingCalls /\ c.pc = "seed" /\ OnboardingCallOK(c) /\ \A g \in Handlers \ {h} : Apart(c, calls[g])
  BY <1>0, StandsAt DEF SeedTenantRows, OnboardingPcs, Owning
<1>3. UNCHANGED <<registry, adminLogin, invited, stranded, crashed>>
  BY DEF SeedTenantRows
<1>4. ASSUME NEW g \in Handlers \ {h}, NEW e \in OnboardingCalls, e = calls[g]
      PROVE  OnboardingCallOK(e) /\ e.id # c.id /\ (e.pc \in Owning => e.email # c.email)
  BY <1>1, <1>2, <1>4 DEF OnboardingCallsOK, Apart, Idle, OnboardingCalls, OnboardingPcs, Owning
<1>5. CASE seeded' = seeded \cup {c.id} /\ GoTo(h, "invite")
  <2>1. PICK d \in OnboardingCalls :
           /\ d.pc = "invite" /\ d.id = c.id /\ d.sub = c.sub /\ d.email = c.email
           /\ calls' = [calls EXCEPT ![h] = d]
           /\ \A g \in Handlers : calls'[g] = IF g = h THEN d ELSE calls[g]
           /\ made' = made
    BY <1>0, <1>2, <1>5, GoesOn DEF OnboardingPcs, Owning
  <2>3. OnboardingCallOK(d)'
    BY <1>2, <1>3, <1>5, <2>1 DEF OnboardingCallOK, OnboardingCalls
  <2>4. \A g \in Handlers \ {h} : Apart(d, calls[g])
    BY <1>1, <1>4, <2>1 DEF Apart, OnboardingTypes
  <2>5. \A g \in Handlers \ {h} : \A e \in OnboardingCalls :
          e = calls[g] /\ OnboardingCallOK(e) => OnboardingCallOK(e)'
    BY <1>3, <1>4, <1>5, <2>1 DEF OnboardingCallOK, OnboardingCalls, Owning
  <2>6. OnboardingCallsOK' /\ calls' \in [Handlers -> {Idle} \cup OnboardingCalls]
    BY <1>1, <2>1, <2>3, <2>4, <2>5, OnboardingMoves
  <2>7. OnboardingTypes'
    <3>1. c.id \in 1..made
      BY <1>1, <1>2 DEF OnboardingTypes, OnboardingCalls, OnboardingCallOK
    <3>2. seeded' \subseteq 1..made /\ invited' \subseteq seeded'
      BY <1>1, <1>3, <1>5, <3>1 DEF OnboardingTypes
    <3> QED BY <1>1, <1>3, <2>1, <2>6, <3>2 DEF OnboardingTypes
  <2>8. SeededIsWhole'
    BY <1>1, <1>2, <1>3, <1>5, <2>1 DEF SeededIsWhole, OnboardingCallOK, OnboardingCalls
  <2>9. Answered'
    BY <1>0, <1>1, <1>2, <1>3, <1>5, <2>1 DEF Answered, OnboardingPcs, Owning
  <2> QED BY <2>6, <2>7, <2>8, <2>9 DEF OnboardingInv
<1>6. CASE GoTo(h, "discard") /\ seeded' = seeded
  <2>1. PICK d \in OnboardingCalls :
           /\ d.pc = "discard" /\ d.id = c.id /\ d.sub = c.sub /\ d.email = c.email
           /\ calls' = [calls EXCEPT ![h] = d]
           /\ \A g \in Handlers : calls'[g] = IF g = h THEN d ELSE calls[g]
           /\ made' = made
    BY <1>0, <1>2, <1>6, GoesOn DEF OnboardingPcs, Owning
  <2>2. OnboardingCallOK(d)'
    BY <1>2, <1>3, <1>6, <2>1 DEF OnboardingCallOK, OnboardingCalls
  <2>3. \A g \in Handlers \ {h} : Apart(d, calls[g])
    BY <1>1, <1>4, <2>1 DEF Apart, OnboardingTypes
  <2>4. \A e \in OnboardingCalls : OnboardingCallOK(e) => OnboardingCallOK(e)'
    BY <1>3, <1>6, <2>1 DEF OnboardingCallOK
  <2>5. OnboardingCallsOK' /\ calls' \in [Handlers -> {Idle} \cup OnboardingCalls]
    BY <1>1, <2>1, <2>2, <2>3, <2>4, OnboardingMoves
  <2>6. OnboardingTypes' /\ SeededIsWhole'
    BY <1>1, <1>3, <1>6, <2>1, <2>5 DEF OnboardingTypes, SeededIsWhole
  <2>7. Answered'
    BY <1>0, <1>1, <1>2, <1>3, <1>6, <2>1 DEF Answered, OnboardingPcs, Owning
  <2> QED BY <2>5, <2>6, <2>7 DEF OnboardingInv
<1> QED BY <1>0, <1>5, <1>6 DEF SeedTenantRows

(* The login is removed, or reported as left behind. *)
LEMMA DiscardStep ==
  ASSUME OnboardingInv, NEW h \in Handlers, DiscardFirebaseUser(h)
  PROVE  OnboardingInv'
<1>0. PICK c : c = calls[h]
  OBVIOUS
<1>1. OnboardingTypes /\ OnboardingCallsOK /\ SeededIsWhole /\ Answered
  BY DEF OnboardingInv
<1>2. c \in OnboardingCalls /\ c.pc = "discard" /\ OnboardingCallOK(c) /\ \A g \in Handlers \ {h} : Apart(c, calls[g])
  BY <1>0, StandsAt DEF DiscardFirebaseUser, OnboardingPcs, Owning
<1>3. UNCHANGED <<registry, seeded, invited, crashed>> /\ GoTo(h, "undo")
  BY DEF DiscardFirebaseUser
<1>4. ASSUME NEW g \in Handlers \ {h}, NEW e \in OnboardingCalls, e = calls[g]
      PROVE  OnboardingCallOK(e) /\ e.id # c.id /\ (e.pc \in Owning => e.email # c.email)
  BY <1>1, <1>2, <1>4 DEF OnboardingCallsOK, Apart, Idle, OnboardingCalls, OnboardingPcs, Owning
<1>5. PICK d \in OnboardingCalls :
         /\ d.pc = "undo" /\ d.id = c.id /\ d.sub = c.sub /\ d.email = c.email
         /\ calls' = [calls EXCEPT ![h] = d]
         /\ \A g \in Handlers : calls'[g] = IF g = h THEN d ELSE calls[g]
         /\ made' = made
  BY <1>0, <1>2, <1>3, GoesOn DEF OnboardingPcs, Owning
<1>6. \/ adminLogin' = [adminLogin EXCEPT ![c.email] = NoLogin] /\ stranded' = stranded
      \/ adminLogin' = adminLogin /\ stranded' = stranded \cup {c.email}
  BY <1>0 DEF DiscardFirebaseUser
<1>7. \A e \in AdminEmails : \/ adminLogin'[e] = adminLogin[e]
                             \/ e = c.email /\ adminLogin'[e] = NoLogin
  <2>1. CASE adminLogin' = [adminLogin EXCEPT ![c.email] = NoLogin]
    BY <1>1, <2>1 DEF OnboardingTypes
  <2>2. CASE adminLogin' = adminLogin
    BY <2>2
  <2> QED BY <1>6, <2>1, <2>2
<1>8. OnboardingCallOK(d)'
  BY <1>2, <1>3, <1>5 DEF OnboardingCallOK, OnboardingCalls
<1>9. \A g \in Handlers \ {h} : Apart(d, calls[g])
  BY <1>1, <1>4, <1>5 DEF Apart, OnboardingTypes, Owning
<1>10. \A g \in Handlers \ {h} : \A e \in OnboardingCalls :
         e = calls[g] /\ OnboardingCallOK(e) => OnboardingCallOK(e)'
  BY <1>3, <1>4, <1>5, <1>7 DEF OnboardingCallOK, OnboardingCalls, Owning
<1>11. OnboardingCallsOK' /\ calls' \in [Handlers -> {Idle} \cup OnboardingCalls]
  BY <1>1, <1>5, <1>8, <1>9, <1>10, OnboardingMoves
<1>12. OnboardingTypes'
  BY <1>1, <1>3, <1>5, <1>6, <1>11 DEF OnboardingTypes
<1>13. SeededIsWhole'
  <2>1. \A t \in seeded : t # adminLogin[c.email]
    BY <1>1, <1>2 DEF OnboardingTypes, OnboardingCallOK, Unclaimed
  <2> QED BY <1>1, <1>3, <1>7, <2>1 DEF SeededIsWhole
<1>14. Answered'
  <2>1. SUFFICES ASSUME ~crashed
                 PROVE  /\ \A s \in Subdomains : (\/ registry[s] \in seeded \cup {NoTenant}
                             \/ \E g \in Handlers : calls[g].pc \in OnboardingPcs \ {"row"} /\ calls[g].sub = s)'
                        /\ \A e \in AdminEmails : (\/ adminLogin[e] \in seeded \cup {NoLogin} \/ e \in stranded
                             \/ \E g \in Handlers : calls[g].pc \in Owning /\ calls[g].email = e)'
    BY <1>3 DEF Answered
  <2>2. \A s \in Subdomains : (\/ registry[s] \in seeded \cup {NoTenant}
           \/ \E g \in Handlers : calls[g].pc \in OnboardingPcs \ {"row"} /\ calls[g].sub = s)'
    BY <1>0, <1>1, <1>2, <1>3, <1>5, <2>1 DEF Answered, OnboardingPcs, Owning
  <2>3. ASSUME NEW e \in AdminEmails
        PROVE  (\/ adminLogin[e] \in seeded \cup {NoLogin} \/ e \in stranded
                \/ \E g \in Handlers : calls[g].pc \in Owning /\ calls[g].email = e)'
    <3>1. e = c.email => adminLogin'[e] = NoLogin \/ e \in stranded'
      BY <1>1, <1>2, <1>6 DEF OnboardingTypes
    <3>2. e # c.email => adminLogin'[e] = adminLogin[e] /\ (e \in stranded => e \in stranded')
      BY <1>1, <1>6 DEF OnboardingTypes
    <3>3. \A g \in Handlers : calls[g].pc \in Owning /\ calls[g].email = e /\ e # c.email => calls'[g] = calls[g]
      BY <1>0, <1>5
    <3> QED BY <1>1, <1>3, <2>1, <3>1, <3>2, <3>3 DEF Answered
  <2> QED BY <2>2, <2>3
<1> QED BY <1>11, <1>12, <1>13, <1>14 DEF OnboardingInv

(* A call that ends. *)
LEMMA Ends ==
  ASSUME OnboardingTypes, OnboardingCallsOK, NEW h \in Handlers, calls' = [calls EXCEPT ![h] = Idle],
         \A g \in Handlers \ {h} : \A e \in OnboardingCalls :
           e = calls[g] /\ OnboardingCallOK(e) => OnboardingCallOK(e)'
  PROVE  /\ OnboardingCallsOK' /\ calls' \in [Handlers -> {Idle} \cup OnboardingCalls]
         /\ \A g \in Handlers : calls'[g] = IF g = h THEN Idle ELSE calls[g]
<1>1. Idle \notin OnboardingCalls
  BY DEF Idle, OnboardingCalls, OnboardingPcs, Owning
<1>2. \A g \in Handlers \ {h} : Apart(Idle, calls[g])
  BY DEF Apart
<1>3. OnboardingCallsOK' /\ calls' \in [Handlers -> {Idle} \cup OnboardingCalls]
  BY <1>1, <1>2, OnboardingMoves
<1> QED BY <1>3 DEF OnboardingTypes

(* The tenant row is rolled back. *)
LEMMA UndoStep ==
  ASSUME OnboardingInv, NEW h \in Handlers, UndoTenant(h)
  PROVE  OnboardingInv'
<1>0. PICK c : c = calls[h]
  OBVIOUS
<1>1. OnboardingTypes /\ OnboardingCallsOK /\ SeededIsWhole /\ Answered
  BY DEF OnboardingInv
<1>2. c \in OnboardingCalls /\ c.pc = "undo" /\ OnboardingCallOK(c) /\ \A g \in Handlers \ {h} : Apart(c, calls[g])
  BY <1>0, StandsAt DEF UndoTenant, OnboardingPcs, Owning
<1>3. /\ registry' = [registry EXCEPT ![c.sub] = NoTenant] /\ calls' = [calls EXCEPT ![h] = Idle]
      /\ UNCHANGED <<made, adminLogin, seeded, invited, stranded, crashed>>
  BY <1>0 DEF UndoTenant, Finish, Continue
<1>4. \A s \in Subdomains : registry'[s] = IF s = c.sub THEN NoTenant ELSE registry[s]
  BY <1>1, <1>3 DEF OnboardingTypes
<1>5. ASSUME NEW g \in Handlers \ {h}, NEW e \in OnboardingCalls, e = calls[g], OnboardingCallOK(e)
      PROVE  OnboardingCallOK(e)'
  <2>1. e.id # c.id /\ e.id # NoTenant
    BY <1>2, <1>5, ProvisioningAssumption DEF Apart, Idle, OnboardingCalls, OnboardingPcs, Owning
  <2>2. e.pc # "row" => e.sub # c.sub
    BY <1>2, <1>5, <2>1 DEF OnboardingCallOK
  <2> QED BY <1>3, <1>4, <1>5, <2>1, <2>2 DEF OnboardingCallOK, OnboardingCalls
<1>6. /\ OnboardingCallsOK' /\ calls' \in [Handlers -> {Idle} \cup OnboardingCalls]
      /\ \A g \in Handlers : calls'[g] = IF g = h THEN Idle ELSE calls[g]
  BY <1>1, <1>3, <1>5, Ends
<1>7. OnboardingTypes'
  BY <1>1, <1>3, <1>6 DEF OnboardingTypes
<1>8. SeededIsWhole'
  <2>1. \A t \in seeded : t # registry[c.sub]
    BY <1>2 DEF OnboardingCallOK
  <2> QED BY <1>1, <1>3, <1>4, <2>1 DEF SeededIsWhole
<1>9. Answered'
  BY <1>0, <1>1, <1>2, <1>3, <1>4, <1>6 DEF Answered, OnboardingPcs, Owning
<1> QED BY <1>6, <1>7, <1>8, <1>9 DEF OnboardingInv

(* The invite goes out or fails: the tenant is whole. *)
LEMMA InviteStep ==
  ASSUME OnboardingInv, NEW h \in Handlers, SendAdminInvite(h)
  PROVE  OnboardingInv'
<1>0. PICK c : c = calls[h]
  OBVIOUS
<1>1. OnboardingTypes /\ OnboardingCallsOK /\ SeededIsWhole /\ Answered
  BY DEF OnboardingInv
<1>2. c \in OnboardingCalls /\ c.pc = "invite" /\ OnboardingCallOK(c) /\ \A g \in Handlers \ {h} : Apart(c, calls[g])
  BY <1>0, StandsAt DEF SendAdminInvite, OnboardingPcs, Owning
<1>3. /\ invited' \in {invited, invited \cup {c.id}} /\ calls' = [calls EXCEPT ![h] = Idle]
      /\ UNCHANGED <<made, registry, adminLogin, seeded, stranded, crashed>>
  BY <1>0 DEF SendAdminInvite, Finish, Continue
<1>4. c.id \in seeded /\ registry[c.sub] = c.id /\ adminLogin[c.email] = c.id
  BY <1>2 DEF OnboardingCallOK
<1>5. \A e \in OnboardingCalls : OnboardingCallOK(e) => OnboardingCallOK(e)'
  BY <1>3 DEF OnboardingCallOK
<1>6. /\ OnboardingCallsOK' /\ calls' \in [Handlers -> {Idle} \cup OnboardingCalls]
      /\ \A g \in Handlers : calls'[g] = IF g = h THEN Idle ELSE calls[g]
  BY <1>1, <1>3, <1>5, Ends
<1>7. invited' \subseteq seeded'
  BY <1>1, <1>3, <1>4 DEF OnboardingTypes
<1>8. OnboardingTypes' /\ SeededIsWhole'
  BY <1>1, <1>3, <1>6, <1>7 DEF OnboardingTypes, SeededIsWhole
<1>9. Answered'
  BY <1>0, <1>1, <1>3, <1>4, <1>6 DEF Answered
<1> QED BY <1>6, <1>8, <1>9 DEF OnboardingInv

(* The invite is sent again. *)
LEMMA ResendStep == ASSUME OnboardingInv, ResendAdminReset PROVE OnboardingInv'
<1>1. OnboardingTypes /\ OnboardingCallsOK /\ SeededIsWhole /\ Answered
  BY DEF OnboardingInv
<1>2. /\ made' = made + 1 /\ made < MaxCalls /\ UNCHANGED <<calls, registry, adminLogin, seeded, stranded, crashed>>
      /\ invited' \subseteq seeded
  BY <1>1 DEF ResendAdminReset, AtOnce, Counted, OnboardingTypes
<1>3. OnboardingTypes'
  <2>1. made' \in 0..MaxCalls /\ 1..made \subseteq 1..made'
    BY <1>1, <1>2, CallsAssumption DEF OnboardingTypes
  <2> QED BY <1>1, <1>2, <2>1 DEF OnboardingTypes
<1>4. \A e \in OnboardingCalls : OnboardingCallOK(e) => OnboardingCallOK(e)'
  BY <1>1, <1>2 DEF OnboardingCallOK, OnboardingCalls, OnboardingTypes
<1>5. OnboardingCallsOK'
  BY <1>1, <1>2, <1>4 DEF OnboardingCallsOK, Apart
<1>6. SeededIsWhole' /\ Answered'
  BY <1>1, <1>2 DEF SeededIsWhole, Answered
<1> QED BY <1>3, <1>5, <1>6 DEF OnboardingInv

(* A call is lost half-way: nobody answers for what it left. *)
LEMMA LoseStep == ASSUME OnboardingInv, NEW h \in Handlers, ProvLose(h) PROVE OnboardingInv'
<1>1. OnboardingTypes /\ OnboardingCallsOK /\ SeededIsWhole
  BY DEF OnboardingInv
<1>2. /\ calls' = [calls EXCEPT ![h] = Idle] /\ crashed' = TRUE
      /\ UNCHANGED <<made, registry, adminLogin, seeded, invited, stranded>>
  BY DEF ProvLose, Lose
<1>3. \A e \in OnboardingCalls : OnboardingCallOK(e) => OnboardingCallOK(e)'
  BY <1>2 DEF OnboardingCallOK
<1>4. OnboardingCallsOK' /\ calls' \in [Handlers -> {Idle} \cup OnboardingCalls]
  BY <1>1, <1>2, <1>3, Ends
<1>5. OnboardingTypes' /\ SeededIsWhole' /\ Answered'
  BY <1>1, <1>2, <1>4 DEF OnboardingTypes, SeededIsWhole, Answered
<1> QED BY <1>4, <1>5 DEF OnboardingInv

LEMMA OnboardingStep == ASSUME OnboardingInv, [ProvNext]_<<callVars, provVars>> PROVE OnboardingInv'
<1>1. CASE ResendAdminReset
  BY <1>1, ResendStep
<1>2. CASE \E h \in Handlers :
             \/ \E s \in Subdomains, e \in AdminEmails : CreateTenantRead(h, s, e)
             \/ CreateTenantRow(h) \/ CreateAdminLogin(h) \/ ClaimAdmin(h) \/ SeedTenantRows(h)
             \/ DiscardFirebaseUser(h) \/ UndoTenant(h) \/ SendAdminInvite(h) \/ ProvLose(h)
  BY <1>2, TenantReadStep, TenantRowStep, AdminLoginStep, ClaimsStep, SeedStep, DiscardStep, UndoStep,
     InviteStep, LoseStep
<1>3. CASE UNCHANGED <<callVars, provVars>>
  BY <1>3 DEF OnboardingInv, OnboardingTypes, OnboardingCallsOK, OnboardingCallOK, Apart, SeededIsWhole,
     Answered, callVars, provVars
<1> QED BY <1>1, <1>2, <1>3 DEF ProvNext

(* Onboarding leaves a whole tenant or nothing, whichever step of a         *)
(* createTenant() fails and however many of them overlap on a subdomain or  *)
(* an email; and even when a process is lost, nobody is invited to a        *)
(* workspace that does not exist or whose admin cannot sign in.             *)
THEOREM OnboardingLeavesWholeTenants == OnboardingSpec => []OnboardingIsWhole
<1>1. CallsInit /\ ProvInit => OnboardingInv
  BY OnboardingStarts
<1>2. OnboardingInv /\ [ProvNext]_<<callVars, provVars>> => OnboardingInv'
  BY OnboardingStep
<1>3. OnboardingInv => OnboardingIsWhole
  BY OnboardingIsWholeThen
<1> QED BY <1>1, <1>2, <1>3, PTL DEF OnboardingSpec

-----------------------------------------------------------------------------
(* The identity cache.                                                      *)
IdSpec == CallsInit /\ IdInit /\ [][IdNext]_<<callVars, idVars>>

(* The keys a request has looked up when it stands at another. *)
Before == [tenant |-> {}, user |-> {"tenant"}, setup |-> {"tenant", "user"}, decide |-> Keys]

(* A value of k that was the row's at time t or later. *)
TrueSince(k, v, t) == v \in Values[k] /\ lastTrue[k][v] >= t

IdTypes ==
    /\ clock \in Nat /\ turn \in BOOLEAN
    /\ row = [k \in Keys |-> row[k]] /\ lastTrue = [k \in Keys |-> lastTrue[k]]
    /\ \A k \in Keys : row[k] \in Values[k] /\ lastTrue[k] \in [Values[k] -> Int]
    /\ cache = [i \in Instances |-> [k \in Keys |-> cache[i][k]]]
    /\ calls = [h \in Handlers |-> calls[h]]

(* No value was the row's later than now; the one it has is. *)
TimesOK ==
    \A k \in Keys :
      /\ lastTrue[k][row[k]] = clock
      /\ \A v \in Values[k] : lastTrue[k][v] <= clock

(* An entry was read at most Latency before it was filled in, TTL before    *)
(* it runs out.                                                             *)
CacheOK ==
    \A i \in Instances, k \in Keys :
      cache[i][k] # Nobody => /\ cache[i][k].until \in Int
                              /\ TrueSince(k, cache[i][k].val, cache[i][k].until - TTL - Latency)

(* Where a request stands: what it has looked up was the row's no longer    *)
(* before it came than an entry may be old when it is hit.                  *)
RequestOK(c) ==
    /\ "since" \in DOMAIN c /\ c.since \in Nat
    /\ c.since <= clock /\ clock <= c.since + Latency
    /\ c.on \in Instances /\ c.vals = [k \in Keys |-> c.vals[k]]
    /\ c.key \in Keys \cup {"decide"}
    /\ \A k \in Before[c.key] : TrueSince(k, c.vals[k], c.since + 1 - TTL - Latency)
    /\ c.pc = "look" => c.key \in Keys
    /\ c.pc = "fill" => c.key \in Keys /\ TrueSince(c.key, c.val, c.since)
    /\ c.pc = "decide" => c.key = "decide"
IdCallOK(c) ==
    \/ c = Idle
    \/ c.pc \in {"look", "fill", "decide"} /\ RequestOK(c)
    \/ c.pc = "clear" /\ c.on \in Instances /\ c.key \in Keys
    \/ c.pc = "commit" /\ c.on \in Instances /\ c.key \in Keys /\ c.val \in Values[c.key]

IdInv == IdTypes /\ TimesOK /\ CacheOK /\ \A h \in Handlers : IdCallOK(calls[h])

LEMMA IdStarts == ASSUME CallsInit, IdInit PROVE IdInv /\ Promise!RecentInit
<1>1. Slack \in Int
  BY IdentityAssumption DEF Slack
<1>2. \A k \in Keys : row[k] \in Values[k]
  BY DEF IdInit, Keys, Values
<1>3. row = [k \in Keys |-> row[k]]
  BY DEF IdInit, Keys
<1>4. \A k \in Keys : lastTrue[k] = [v \in Values[k] |-> IF v = row[k] THEN 0 ELSE -1 - Slack]
  BY DEF IdInit
<1>5. PICK z \in Int : z = -1 - Slack /\ z <= 0
  BY IdentityAssumption DEF Slack
<1>5a. \A k \in Keys : lastTrue[k] = [v \in Values[k] |-> IF v = row[k] THEN 0 ELSE z]
  BY <1>4, <1>5
<1>6. clock = 0 /\ turn = TRUE /\ served = row
  BY DEF IdInit
<1>7. \A k \in Keys : lastTrue[k] \in [Values[k] -> Int]
  <2>1. TAKE k \in Keys
  <2>2. lastTrue[k] = [v \in Values[k] |-> IF v = row[k] THEN 0 ELSE z]
    BY <1>5a
  <2>3. \A v \in Values[k] : (IF v = row[k] THEN 0 ELSE z) \in Int
    BY <1>5
  <2> QED BY <2>2, <2>3
<1>8. lastTrue = [k \in Keys |-> lastTrue[k]] /\ cache = [i \in Instances |-> [k \in Keys |-> cache[i][k]]]
  BY DEF IdInit
<1>9. \A i \in Instances, k \in Keys : cache[i][k] = Nobody
  BY DEF IdInit
<1>10. calls = [h \in Handlers |-> calls[h]] /\ \A h \in Handlers : calls[h] = Idle
  BY DEF CallsInit
<1>11. IdTypes
  BY <1>2, <1>3, <1>6, <1>7, <1>8, <1>10 DEF IdTypes
<1>12. TimesOK
  <2>1. \A k \in Keys : \A v \in Values[k] : lastTrue[k][v] = IF v = row[k] THEN 0 ELSE z
    <3> TAKE k \in Keys
    <3>1. lastTrue[k] = [v \in Values[k] |-> IF v = row[k] THEN 0 ELSE z]
      BY <1>5a
    <3> QED BY <3>1
  <2> QED BY <1>2, <1>5, <1>6, <2>1 DEF TimesOK
<1>13. CacheOK /\ \A h \in Handlers : IdCallOK(calls[h])
  <2>1. CacheOK
    BY <1>9 DEF CacheOK
  <2>2. IdCallOK(Idle)
    BY DEF IdCallOK, Idle
  <2> QED BY <1>10, <2>1, <2>2
<1>14. Promise!RecentInit
  <2>1. ASSUME NEW k \in Keys, NEW v \in DOMAIN lastTrue[k]
        PROVE  lastTrue[k][v] = IF v = row[k] THEN 0 ELSE -1 - Slack
    <3>1. PICK f : f = lastTrue[k]
      OBVIOUS
    <3>2. f = [w \in Values[k] |-> IF w = row[k] THEN 0 ELSE -1 - Slack]
      BY <1>4, <3>1
    <3> QED BY <3>1, <3>2
  <2> QED BY <1>6, <2>1 DEF Promise!RecentInit
<1> QED BY <1>11, <1>12, <1>13, <1>14 DEF IdInv

(* Times only grow: what was recent enough stays so while no time passes.   *)
TimesGrow == \A k \in Keys : \A v \in Values[k] : lastTrue'[k][v] >= lastTrue[k][v]

LEMMA RequestStays ==
  ASSUME IdTypes, IdTypes', TimesGrow, clock' = clock, NEW c, IdCallOK(c)
  PROVE  IdCallOK(c)'
<1>1. \A k \in Keys : \A v, t : t \in Int /\ TrueSince(k, v, t) => TrueSince(k, v, t)'
  <2>1. \A k \in Keys : \A v \in Values[k] : lastTrue[k][v] \in Int /\ lastTrue'[k][v] \in Int
    BY DEF IdTypes
  <2> QED BY <2>1 DEF TrueSince, TimesGrow
<1>2. CASE c.pc \in {"look", "fill", "decide"} /\ RequestOK(c)
  <2>1. c.since \in Int /\ c.since + 1 - TTL - Latency \in Int
    BY <1>2, IdentityAssumption DEF RequestOK
  <2>2. \A k \in Before[c.key] : k \in Keys
    BY <1>2 DEF RequestOK, Before, Keys
  <2> QED BY <1>1, <1>2, <2>1, <2>2 DEF IdCallOK, RequestOK
<1>3. CASE ~(c.pc \in {"look", "fill", "decide"} /\ RequestOK(c))
  BY <1>3 DEF IdCallOK
<1> QED BY <1>2, <1>3

LEMMA CacheStays ==
  ASSUME IdTypes, IdTypes', TimesGrow, CacheOK, cache' = cache
  PROVE  CacheOK'
<1>1. \A k \in Keys : \A v, t : t \in Int /\ TrueSince(k, v, t) => TrueSince(k, v, t)'
  <2>1. \A k \in Keys : \A v \in Values[k] : lastTrue[k][v] \in Int /\ lastTrue'[k][v] \in Int
    BY DEF IdTypes
  <2> QED BY <2>1 DEF TrueSince, TimesGrow
<1> QED BY <1>1, IdentityAssumption DEF CacheOK

(* Looking up adds a value that is recent enough. *)
LEMMA GotStep ==
  ASSUME NEW c, RequestOK(c), c.pc \in {"look", "fill"}, NEW v, NEW d,
         TrueSince(c.key, v, c.since + 1 - TTL - Latency), c.key \in Keys,
         d = [pc |-> IF c.key = "setup" THEN "decide" ELSE "look", key |-> After[c.key],
              on |-> c.on, route |-> c.route, since |-> c.since,
              vals |-> [c.vals EXCEPT ![c.key] = v]]
  PROVE  RequestOK(d) /\ d.pc \in {"look", "decide"}
<1>1. d.vals = [k \in Keys |-> IF k = c.key THEN v ELSE c.vals[k]]
  BY DEF RequestOK
<1>2. d.key \in Keys \cup {"decide"} /\ Before[d.key] = Before[c.key] \cup {c.key}
  BY DEF After, Before, Keys
<1>3. \A k \in Before[d.key] : k \in Keys
  BY <1>2 DEF Before, Keys
<1>4. \A k \in Before[d.key] : TrueSince(k, d.vals[k], c.since + 1 - TTL - Latency)
  BY <1>1, <1>2, <1>3 DEF RequestOK
<1>5. d.pc = "look" => d.key \in Keys
  BY DEF After, Keys
<1>6. d.pc = "decide" => d.key = "decide"
  BY DEF After, Keys
<1>7. d.since = c.since /\ d.on = c.on /\ "since" \in DOMAIN d /\ d.pc \in {"look", "decide"}
  OBVIOUS
<1>8. d.vals = [k \in Keys |-> d.vals[k]]
  BY <1>1
<1> QED BY <1>2, <1>4, <1>5, <1>6, <1>7, <1>8 DEF RequestOK

(* A step that changes one call, and no row and no time. *)
LEMMA CallMoves ==
  ASSUME IdInv, NEW h \in Handlers, NEW d, calls' = [calls EXCEPT ![h] = d], IdCallOK(d),
         UNCHANGED <<clock, row, lastTrue, turn>>
  PROVE  /\ TimesOK' /\ \A g \in Handlers : IdCallOK(calls[g])'
         /\ calls' = [g \in Handlers |-> calls'[g]]
<1>1. \A g \in Handlers : calls'[g] = IF g = h THEN d ELSE calls[g]
  BY DEF IdInv, IdTypes
<1>2. \A c : IdCallOK(c) => IdCallOK(c)'
  BY DEF IdCallOK, RequestOK, TrueSince
<1>3. \A g \in Handlers : IdCallOK(calls'[g])
  BY <1>1 DEF IdInv
<1>4. ASSUME NEW g \in Handlers PROVE IdCallOK(calls[g])'
  <2>1. PICK c : c = calls'[g]
    OBVIOUS
  <2> QED BY <1>2, <1>3, <2>1
<1>5. TimesOK'
  BY DEF IdInv, TimesOK
<1>6. calls' = [g \in Handlers |-> calls'[g]]
  BY DEF IdInv, IdTypes
<1> QED BY <1>4, <1>5, <1>6

LEMMA ArriveStep ==
  ASSUME IdInv, NEW h \in Handlers, NEW i \in Instances, NEW route \in Routes, Arrive(h, i, route)
  PROVE  IdInv' /\ UNCHANGED Promise!recentVars
<1>1. PICK d : d = [pc |-> "look", key |-> "tenant", on |-> i, route |-> route,
                    since |-> clock, vals |-> [k \in Keys |-> Nobody]]
  OBVIOUS
<1>2. calls' = [calls EXCEPT ![h] = d] /\ UNCHANGED idVars
  BY <1>1 DEF Arrive, Begin
<1>3. d.pc = "look" /\ d.key = "tenant" /\ d.on = i /\ d.since = clock /\ "since" \in DOMAIN d
  BY <1>1
<1>4. d.vals = [k \in Keys |-> d.vals[k]]
  BY <1>1
<1>5. RequestOK(d)
  BY <1>3, <1>4, IdentityAssumption DEF RequestOK, IdInv, IdTypes, Keys, Before
<1>6. IdCallOK(d)
  BY <1>3, <1>5 DEF IdCallOK
<1>7. /\ TimesOK' /\ \A g \in Handlers : IdCallOK(calls[g])'
      /\ calls' = [g \in Handlers |-> calls'[g]]
  BY <1>2, <1>6, CallMoves DEF idVars
<1>8. IdTypes' /\ CacheOK'
  BY <1>2, <1>7 DEF IdInv, IdTypes, CacheOK, TrueSince, idVars
<1> QED BY <1>2, <1>7, <1>8 DEF IdInv, idVars, Promise!recentVars

LEMMA LookUpStep ==
  ASSUME IdInv, NEW h \in Handlers, LookUp(h)
  PROVE  IdInv' /\ UNCHANGED Promise!recentVars
<1>0. PICK c : c = calls[h]
  OBVIOUS
<1>1. c.pc = "look" /\ UNCHANGED idVars
  BY <1>0 DEF LookUp
<1>2. RequestOK(c) /\ c.key \in Keys /\ c.on \in Instances
  BY <1>0, <1>1 DEF IdInv, IdCallOK, RequestOK, Idle
<1>3. \E d : calls' = [calls EXCEPT ![h] = d] /\ IdCallOK(d)
  <2>1. CASE Hit(c.on, c.key)
    <3>1. PICK e : e = cache[c.on][c.key]
      OBVIOUS
    <3>2. PICK d : d = [pc |-> IF c.key = "setup" THEN "decide" ELSE "look", key |-> After[c.key],
                        on |-> c.on, route |-> c.route, since |-> c.since,
                        vals |-> [c.vals EXCEPT ![c.key] = e.val]]
      OBVIOUS
    <3>3. calls' = [calls EXCEPT ![h] = d]
      BY <1>0, <1>1, <2>1, <3>1, <3>2 DEF LookUp, GotValue, Continue
    <3>4. e.until \in Int /\ TrueSince(c.key, e.val, e.until - TTL - Latency) /\ clock < e.until
      BY <1>2, <2>1, <3>1 DEF Hit, IdInv, CacheOK
    <3>5. lastTrue[c.key][e.val] \in Int /\ clock \in Int /\ c.since \in Int /\ c.since <= clock
      BY <1>2, <3>4 DEF IdInv, IdTypes, TrueSince, RequestOK
    <3>6. TrueSince(c.key, e.val, c.since + 1 - TTL - Latency)
      BY <3>4, <3>5, IdentityAssumption DEF TrueSince
    <3>7. RequestOK(d) /\ d.pc \in {"look", "decide"}
      BY <1>1, <1>2, <3>2, <3>6, GotStep
    <3> QED BY <3>3, <3>7 DEF IdCallOK
  <2>2. CASE ~Hit(c.on, c.key)
    <3>2. PICK d : d = [pc |-> "fill", key |-> c.key, on |-> c.on, route |-> c.route,
                        since |-> c.since, vals |-> c.vals, val |-> row[c.key]]
      OBVIOUS
    <3>3. calls' = [calls EXCEPT ![h] = d]
      BY <1>0, <1>1, <2>2, <3>2 DEF LookUp, Continue
    <3>4. /\ d.pc = "fill" /\ d.key = c.key /\ d.on = c.on /\ d.since = c.since /\ d.vals = c.vals
          /\ d.val = row[c.key] /\ "since" \in DOMAIN d
      BY <3>2
    <3>5. TrueSince(c.key, row[c.key], c.since)
      BY <1>2 DEF TrueSince, IdInv, IdTypes, TimesOK, RequestOK
    <3>6. RequestOK(d)
      BY <1>2, <3>4, <3>5 DEF RequestOK
    <3> QED BY <3>3, <3>4, <3>6 DEF IdCallOK
  <2> QED BY <2>1, <2>2
<1>7. /\ TimesOK' /\ \A g \in Handlers : IdCallOK(calls[g])'
      /\ calls' = [g \in Handlers |-> calls'[g]]
  BY <1>1, <1>3, CallMoves DEF idVars
<1>8. IdTypes' /\ CacheOK'
  BY <1>1, <1>7 DEF IdInv, IdTypes, CacheOK, TrueSince, idVars
<1> QED BY <1>1, <1>7, <1>8 DEF IdInv, idVars, Promise!recentVars

LEMMA FillStep ==
  ASSUME IdInv, NEW h \in Handlers, Fill(h)
  PROVE  IdInv' /\ UNCHANGED Promise!recentVars
<1>0. PICK c : c = calls[h]
  OBVIOUS
<1>1. /\ c.pc = "fill" /\ GotValue(h, c.val) /\ CacheSet(c.on, c.key, c.val)
      /\ UNCHANGED <<clock, row, lastTrue, wroteOn, served, servedOn, turn, refused>>
  BY <1>0 DEF Fill
<1>2. RequestOK(c) /\ c.key \in Keys /\ c.on \in Instances /\ TrueSince(c.key, c.val, c.since)
  BY <1>0, <1>1 DEF IdInv, IdCallOK, RequestOK, Idle
<1>3. PICK d : d = [pc |-> IF c.key = "setup" THEN "decide" ELSE "look", key |-> After[c.key],
                    on |-> c.on, route |-> c.route, since |-> c.since,
                    vals |-> [c.vals EXCEPT ![c.key] = c.val]]
  OBVIOUS
<1>4. calls' = [calls EXCEPT ![h] = d]
  BY <1>0, <1>1, <1>3 DEF GotValue, Continue
<1>5. /\ lastTrue[c.key][c.val] \in Int /\ clock \in Int /\ c.since \in Int /\ c.since <= clock
      /\ clock <= c.since + Latency
  BY <1>2 DEF IdInv, IdTypes, TrueSince, RequestOK
<1>6. TrueSince(c.key, c.val, c.since + 1 - TTL - Latency)
  BY <1>2, <1>5, IdentityAssumption DEF TrueSince
<1>7. IdCallOK(d)
  BY <1>1, <1>2, <1>3, <1>6, GotStep DEF IdCallOK
<1>8. /\ TimesOK' /\ \A g \in Handlers : IdCallOK(calls[g])'
      /\ calls' = [g \in Handlers |-> calls'[g]]
  BY <1>1, <1>4, <1>7, CallMoves
<1>9. PICK e : e = [val |-> c.val, until |-> clock + TTL]
  OBVIOUS
<1>10. e.until \in Int /\ TrueSince(c.key, e.val, e.until - TTL - Latency)
  BY <1>2, <1>5, <1>9, IdentityAssumption DEF TrueSince
<1>11. cache' = cache \/ cache' = [cache EXCEPT ![c.on][c.key] = e]
  BY <1>1, <1>9 DEF CacheSet
<1>12. /\ cache' = [i \in Instances |-> [k \in Keys |-> cache'[i][k]]]
       /\ \A i \in Instances, k \in Keys :
            cache'[i][k] = cache[i][k] \/ (k = c.key /\ cache'[i][k] = e)
  <2>1. CASE cache' = cache
    BY <2>1 DEF IdInv, IdTypes
  <2>2. CASE cache' = [cache EXCEPT ![c.on][c.key] = e]
    <3>1. \A i \in Instances : cache[i] = [k \in Keys |-> cache[i][k]]
      BY DEF IdInv, IdTypes
    <3>2. \A i \in Instances : cache'[i] = IF i = c.on THEN [cache[i] EXCEPT ![c.key] = e] ELSE cache[i]
      BY <1>2, <2>2 DEF IdInv, IdTypes
    <3>3. \A i \in Instances, k \in Keys :
            cache'[i][k] = IF i = c.on /\ k = c.key THEN e ELSE cache[i][k]
      BY <1>2, <3>1, <3>2
    <3>4. cache' = [i \in Instances |-> cache'[i]]
      BY <2>2 DEF IdInv, IdTypes
    <3>5. \A i \in Instances : cache'[i] = [k \in Keys |-> cache'[i][k]]
      BY <3>1, <3>2
    <3> QED BY <3>3, <3>4, <3>5
  <2> QED BY <1>11, <2>1, <2>2
<1>13. CacheOK'
  BY <1>1, <1>10, <1>12 DEF IdInv, CacheOK, TrueSince
<1>14. IdTypes'
  BY <1>1, <1>8, <1>12 DEF IdInv, IdTypes
<1> QED BY <1>1, <1>8, <1>13, <1>14 DEF IdInv, Promise!recentVars

(* A request is decided on values that are recent. *)
LEMMA DecideStep ==
  ASSUME IdInv, NEW h \in Handlers, Decide(h)
  PROVE  IdInv' /\ (Promise!RecentServe \/ UNCHANGED Promise!recentVars)
<1>0. PICK c : c = calls[h]
  OBVIOUS
<1>1. /\ c.pc = "decide" /\ calls' = [calls EXCEPT ![h] = Idle]
      /\ UNCHANGED <<clock, row, lastTrue, cache, wroteOn>>
  BY <1>0 DEF Decide, Finish, Continue
<1>2. RequestOK(c) /\ c.key = "decide"
  BY <1>0, <1>1 DEF IdInv, IdCallOK, RequestOK, Idle
<1>3. \A k \in Keys : TrueSince(k, c.vals[k], c.since + 1 - TTL - Latency)
  BY <1>2 DEF RequestOK, Before
<1>4. ASSUME NEW k \in Keys PROVE lastTrue[k][c.vals[k]] >= clock - Slack
  <2>1. TrueSince(k, c.vals[k], c.since + 1 - TTL - Latency)
    BY <1>3
  <2>2. lastTrue[k][c.vals[k]] \in Int /\ clock \in Int /\ c.since \in Int /\ clock <= c.since + Latency
    BY <1>2, <2>1 DEF IdInv, IdTypes, TrueSince, RequestOK
  <2> QED BY <2>1, <2>2, IdentityAssumption DEF TrueSince, Slack
<1>5. Promise!RecentServe \/ UNCHANGED <<served, turn>>
  <2>1. CASE served' = c.vals /\ turn' = ~turn
    <3>1. Promise!Recent(served')
      BY <1>4, <2>1 DEF Promise!Recent
    <3> QED BY <1>1, <2>1, <3>1 DEF Promise!RecentServe
  <2> QED BY <1>0, <2>1 DEF Decide
<1>6. turn' \in BOOLEAN
  BY <1>5 DEF IdInv, IdTypes, Promise!RecentServe
<1>7. \A g \in Handlers : calls'[g] = IF g = h THEN Idle ELSE calls[g]
  BY <1>1 DEF IdInv, IdTypes
<1>8. \A e : IdCallOK(e) => IdCallOK(e)'
  BY <1>1 DEF IdCallOK, RequestOK, TrueSince
<1>9. ASSUME NEW g \in Handlers PROVE IdCallOK(calls[g])'
  <2>1. PICK e : e = calls'[g]
    OBVIOUS
  <2>2. IdCallOK(e)
    BY <1>7, <2>1 DEF IdInv, IdCallOK
  <2> QED BY <1>8, <2>1, <2>2
<1>10. calls' = [g \in Handlers |-> calls'[g]]
  BY <1>1 DEF IdInv, IdTypes
<1>11. IdTypes' /\ TimesOK' /\ CacheOK'
  BY <1>1, <1>6, <1>10 DEF IdInv, IdTypes, TimesOK, CacheOK, TrueSince
<1> QED BY <1>1, <1>5, <1>9, <1>11 DEF IdInv, Promise!recentVars

(* A value cleared from a cache. *)
LEMMA ClearedStays ==
  ASSUME IdInv, NEW i \in Instances, NEW k \in Keys, CacheClear(i, k), UNCHANGED <<clock, lastTrue>>
  PROVE  CacheOK' /\ cache' = [j \in Instances |-> [l \in Keys |-> cache'[j][l]]]
<1>1. \A j \in Instances, l \in Keys : cache'[j][l] = IF j = i /\ l = k THEN Nobody ELSE cache[j][l]
  BY DEF CacheClear, IdInv, IdTypes
<1>2. cache' = [j \in Instances |-> [l \in Keys |-> cache'[j][l]]]
  BY DEF CacheClear, IdInv, IdTypes
<1> QED BY <1>1, <1>2 DEF IdInv, CacheOK, TrueSince

LEMMA EvictStep ==
  ASSUME IdInv, NEW i \in Instances, NEW k \in Keys, Evict(i, k)
  PROVE  IdInv' /\ UNCHANGED Promise!recentVars
<1>1. CacheClear(i, k) /\ UNCHANGED <<callVars, clock, row, lastTrue, wroteOn, served, servedOn, turn, refused>>
  BY DEF Evict
<1>2. CacheOK' /\ cache' = [j \in Instances |-> [l \in Keys |-> cache'[j][l]]]
  BY <1>1, ClearedStays
<1>3. IdTypes' /\ TimesOK'
  BY <1>1, <1>2 DEF IdInv, IdTypes, TimesOK, callVars
<1>4. \A h \in Handlers : IdCallOK(calls[h])'
  BY <1>1 DEF IdInv, IdCallOK, RequestOK, TrueSince, callVars
<1> QED BY <1>1, <1>2, <1>3, <1>4 DEF IdInv, Promise!recentVars

LEMMA ClearStep ==
  ASSUME IdInv, NEW h \in Handlers, WriteClear(h)
  PROVE  IdInv' /\ UNCHANGED Promise!recentVars
<1>0. PICK c : c = calls[h]
  OBVIOUS
<1>1. /\ c.pc = "clear" /\ CacheClear(c.on, c.key) /\ calls' = [calls EXCEPT ![h] = Idle]
      /\ UNCHANGED <<clock, row, lastTrue, wroteOn, served, servedOn, turn, refused>>
  BY <1>0 DEF WriteClear, Finish, Continue
<1>2. c.on \in Instances /\ c.key \in Keys
  BY <1>0, <1>1 DEF IdInv, IdCallOK, Idle
<1>3. CacheOK' /\ cache' = [j \in Instances |-> [l \in Keys |-> cache'[j][l]]]
  BY <1>1, <1>2, ClearedStays
<1>4. IdCallOK(Idle)
  BY DEF IdCallOK
<1>5. /\ TimesOK' /\ \A g \in Handlers : IdCallOK(calls[g])'
      /\ calls' = [g \in Handlers |-> calls'[g]]
  BY <1>1, <1>4, CallMoves
<1>6. IdTypes'
  BY <1>1, <1>3, <1>5 DEF IdInv, IdTypes
<1> QED BY <1>1, <1>3, <1>5, <1>6 DEF IdInv, Promise!recentVars

LEMMA TransactionClearStep ==
  ASSUME IdInv, NEW h \in Handlers, NEW i \in Instances, NEW k \in Keys, NEW v \in Values[k],
         TransactionClear(h, i, k, v)
  PROVE  IdInv' /\ UNCHANGED Promise!recentVars
<1>0. PICK d : d = [pc |-> "commit", on |-> i, key |-> k, val |-> v]
  OBVIOUS
<1>1. /\ CacheClear(i, k) /\ calls' = [calls EXCEPT ![h] = d]
      /\ UNCHANGED <<clock, row, lastTrue, wroteOn, served, servedOn, turn, refused>>
  BY <1>0 DEF TransactionClear, Begin
<1>2. CacheOK' /\ cache' = [j \in Instances |-> [l \in Keys |-> cache'[j][l]]]
  BY <1>1, ClearedStays
<1>3. IdCallOK(d)
  BY <1>0 DEF IdCallOK
<1>4. /\ TimesOK' /\ \A g \in Handlers : IdCallOK(calls[g])'
      /\ calls' = [g \in Handlers |-> calls'[g]]
  BY <1>1, <1>3, CallMoves
<1>5. IdTypes'
  BY <1>1, <1>2, <1>4 DEF IdInv, IdTypes
<1> QED BY <1>1, <1>2, <1>4, <1>5 DEF IdInv, Promise!recentVars

(* A row is committed: its new value is true now, the others as before.     *)
LEMMA CommitStep ==
  ASSUME IdInv, NEW h \in Handlers, NEW i, NEW k \in Keys, NEW v \in Values[k], CommitRow(i, k, v),
         NEW d, calls' = [calls EXCEPT ![h] = d], IdCallOK(d), cache' = cache
  PROVE  IdInv' /\ Promise!RecentWrite(k)
<1>1. /\ row' = [row EXCEPT ![k] = v] /\ lastTrue' = [lastTrue EXCEPT ![k][v] = clock]
      /\ UNCHANGED <<clock, served, servedOn, turn, refused>>
  BY DEF CommitRow
<1>2. IdTypes /\ TimesOK /\ CacheOK /\ \A g \in Handlers : IdCallOK(calls[g])
  BY DEF IdInv
<1>3. \A l \in Keys : row'[l] = IF l = k THEN v ELSE row[l]
  BY <1>1, <1>2 DEF IdTypes
<1>4. \A l \in Keys : lastTrue'[l] = IF l = k THEN [lastTrue[k] EXCEPT ![v] = clock] ELSE lastTrue[l]
  BY <1>1, <1>2 DEF IdTypes
<1>5. row' = [l \in Keys |-> row'[l]] /\ lastTrue' = [l \in Keys |-> lastTrue'[l]]
  BY <1>1, <1>2 DEF IdTypes
<1>6. \A l \in Keys : row'[l] \in Values[l] /\ lastTrue'[l] \in [Values[l] -> Int]
  BY <1>2, <1>3, <1>4 DEF IdTypes
<1>7. calls' = [g \in Handlers |-> calls'[g]] /\ \A g \in Handlers : calls'[g] = IF g = h THEN d ELSE calls[g]
  BY <1>2 DEF IdTypes
<1>8. IdTypes'
  <2>1. clock' \in Nat /\ turn' \in BOOLEAN
    BY <1>1, <1>2 DEF IdTypes
  <2>2. cache' = [j \in Instances |-> [l \in Keys |-> cache'[j][l]]]
    BY <1>2 DEF IdTypes
  <2> QED BY <1>5, <1>6, <1>7, <2>1, <2>2 DEF IdTypes
<1>9. \A l \in Keys : \A w \in Values[l] : lastTrue'[l][w] = IF l = k /\ w = v THEN clock ELSE lastTrue[l][w]
  BY <1>2, <1>4 DEF IdTypes
<1>10. TimesOK' /\ TimesGrow
  <2>1. clock \in Int /\ \A l \in Keys : \A w \in Values[l] : lastTrue[l][w] \in Int
    BY <1>2 DEF IdTypes
  <2>2. \A l \in Keys : \A w \in Values[l] : lastTrue'[l][w] <= clock /\ lastTrue'[l][w] >= lastTrue[l][w]
    BY <1>2, <1>9, <2>1 DEF TimesOK
  <2>3. ASSUME NEW l \in Keys PROVE lastTrue'[l][row'[l]] = clock
    BY <1>2, <1>3, <1>6, <1>9 DEF TimesOK
  <2> QED BY <1>1, <2>2, <2>3 DEF TimesOK, TimesGrow
<1>11. CacheOK'
  BY <1>2, <1>8, <1>10, CacheStays
<1>12. ASSUME NEW g \in Handlers PROVE IdCallOK(calls[g])'
  <2>1. PICK e : e = calls'[g]
    OBVIOUS
  <2>2. IdCallOK(e)
    BY <1>2, <1>7, <2>1
  <2>3. IdCallOK(e)'
    BY <1>1, <1>2, <1>8, <1>10, <2>2, RequestStays
  <2> QED BY <2>1, <2>3
<1>13. Promise!RecentWrite(k)
  <2>1. v \in DOMAIN lastTrue[k]
    BY <1>2 DEF IdTypes
  <2> QED BY <1>1, <2>1 DEF Promise!RecentWrite
<1> QED BY <1>8, <1>10, <1>11, <1>12, <1>13 DEF IdInv

LEMMA WriteStep ==
  ASSUME IdInv, NEW h \in Handlers, NEW i \in Instances, NEW k \in Keys, NEW v \in Values[k],
         WriteCommit(h, i, k, v)
  PROVE  IdInv' /\ Promise!RecentWrite(k)
<1>1. PICK d : d = [pc |-> "clear", on |-> i, key |-> k]
  OBVIOUS
<1>2. CommitRow(i, k, v) /\ calls' = [calls EXCEPT ![h] = d] /\ cache' = cache
  BY <1>1 DEF WriteCommit, Begin
<1>3. IdCallOK(d)
  BY <1>1 DEF IdCallOK
<1> QED BY <1>2, <1>3, CommitStep

LEMMA TransactionCommitStep ==
  ASSUME IdInv, NEW h \in Handlers, TransactionCommit(h)
  PROVE  IdInv' /\ \E k \in Keys : Promise!RecentWrite(k)
<1>0. PICK c : c = calls[h]
  OBVIOUS
<1>1. c.pc = "commit" /\ CommitRow(c.on, c.key, c.val) /\ calls' = [calls EXCEPT ![h] = Idle] /\ cache' = cache
  BY <1>0 DEF TransactionCommit, Finish, Continue
<1>2. c.on \in Instances /\ c.key \in Keys /\ c.val \in Values[c.key]
  BY <1>0, <1>1 DEF IdInv, IdCallOK, Idle
<1>3. IdCallOK(Idle)
  BY DEF IdCallOK
<1>4. IdInv' /\ Promise!RecentWrite(c.key)
  BY <1>1, <1>2, <1>3, CommitStep
<1> QED BY <1>2, <1>4

(* Time passes for no request that has taken as long as one may take.       *)
LEMMA ElapseStep == ASSUME IdInv, Elapse PROVE IdInv' /\ Promise!RecentTick
<1>1. /\ clock < Horizon /\ clock' = clock + 1
      /\ \A h \in Running : "since" \in DOMAIN calls[h] => clock < calls[h].since + Latency
      /\ lastTrue' = [k \in Keys |-> [lastTrue[k] EXCEPT ![row[k]] = clock + 1]]
      /\ UNCHANGED <<calls, row, cache, wroteOn, served, servedOn, turn, refused>>
  BY DEF Elapse, callVars
<1>2. IdTypes /\ TimesOK /\ CacheOK /\ \A g \in Handlers : IdCallOK(calls[g])
  BY DEF IdInv
<1>3. clock \in Int /\ \A k \in Keys : row[k] \in Values[k] /\ \A v \in Values[k] : lastTrue[k][v] \in Int
  BY <1>2 DEF IdTypes
<1>4. \A k \in Keys : lastTrue'[k] = [lastTrue[k] EXCEPT ![row[k]] = clock + 1]
  BY <1>1
<1>5. \A k \in Keys : \A v \in Values[k] : lastTrue'[k][v] = IF v = row[k] THEN clock + 1 ELSE lastTrue[k][v]
  BY <1>2, <1>4 DEF IdTypes
<1>6. \A k \in Keys : lastTrue'[k] \in [Values[k] -> Int]
  <2>1. TAKE k \in Keys
  <2>2. lastTrue[k] \in [Values[k] -> Int] /\ clock + 1 \in Int
    BY <1>2 DEF IdTypes
  <2> QED BY <1>4, <2>2
<1>7. lastTrue' = [k \in Keys |-> lastTrue'[k]]
  BY <1>1
<1>8. IdTypes'
  <2>1. clock' \in Nat /\ turn' \in BOOLEAN
    BY <1>1, <1>2 DEF IdTypes
  <2>2. row' = [k \in Keys |-> row'[k]] /\ \A k \in Keys : row'[k] \in Values[k]
    BY <1>1, <1>2 DEF IdTypes
  <2>3. /\ cache' = [i \in Instances |-> [k \in Keys |-> cache'[i][k]]]
        /\ calls' = [h \in Handlers |-> calls'[h]]
    BY <1>1, <1>2 DEF IdTypes
  <2> QED BY <1>6, <1>7, <2>1, <2>2, <2>3 DEF IdTypes
<1>9. \A k \in Keys : \A v \in Values[k] : lastTrue'[k][v] >= lastTrue[k][v] /\ lastTrue'[k][v] <= clock + 1
  BY <1>2, <1>3, <1>5 DEF TimesOK
<1>10. TimesOK'
  BY <1>1, <1>3, <1>5, <1>9 DEF TimesOK
<1>11. TimesGrow
  BY <1>9 DEF TimesGrow
<1>12. CacheOK'
  BY <1>1, <1>2, <1>8, <1>11, CacheStays
<1>13. ASSUME NEW g \in Handlers PROVE IdCallOK(calls[g])'
  <2>1. PICK c : c = calls[g]
    OBVIOUS
  <2>2. calls'[g] = c /\ IdCallOK(c)
    BY <1>1, <1>2, <2>1
  <2>3. CASE c.pc \in {"look", "fill", "decide"} /\ RequestOK(c)
    <3>1. g \in Running
      BY <2>1, <2>3 DEF Running, Idle
    <3>2. c.since \in Nat /\ clock < c.since + Latency /\ c.since <= clock
      BY <1>1, <2>1, <2>3, <3>1 DEF RequestOK
    <3>3. c.since <= clock' /\ clock' <= c.since + Latency
      BY <1>1, <1>3, <3>2, IdentityAssumption
    <3>4. \A k \in Keys : \A v, t : t \in Int /\ TrueSince(k, v, t) => TrueSince(k, v, t)'
      <4>1. \A k \in Keys : \A v \in Values[k] : lastTrue[k][v] \in Int /\ lastTrue'[k][v] \in Int
        BY <1>3, <1>6
      <4> QED BY <1>9, <4>1 DEF TrueSince
    <3>5. c.since + 1 - TTL - Latency \in Int
      BY <3>2, IdentityAssumption
    <3>6. \A k \in Before[c.key] : k \in Keys
      BY <2>3 DEF RequestOK, Before, Keys
    <3>7. RequestOK(c)'
      BY <2>3, <3>2, <3>3, <3>4, <3>5, <3>6 DEF RequestOK
    <3> QED BY <2>2, <2>3, <3>7 DEF IdCallOK
  <2>4. CASE ~(c.pc \in {"look", "fill", "decide"} /\ RequestOK(c))
    BY <2>2, <2>4 DEF IdCallOK
  <2> QED BY <2>3, <2>4
<1>14. Promise!RecentTick
  BY <1>1 DEF Promise!RecentTick
<1> QED BY <1>8, <1>10, <1>12, <1>13, <1>14 DEF IdInv

LEMMA IdStep ==
  ASSUME IdInv, [IdNext]_<<callVars, idVars>>
  PROVE  IdInv' /\ [Promise!RecentNext]_(Promise!recentVars)
<1>1. CASE Elapse
  BY <1>1, ElapseStep DEF Promise!RecentNext
<1>2. ASSUME NEW i \in Instances, NEW k \in Keys, Evict(i, k)
      PROVE  IdInv' /\ [Promise!RecentNext]_(Promise!recentVars)
  BY <1>2, EvictStep
<1>3. ASSUME NEW h \in Handlers, NEW i \in Instances, NEW route \in Routes, Arrive(h, i, route)
      PROVE  IdInv' /\ [Promise!RecentNext]_(Promise!recentVars)
  BY <1>3, ArriveStep
<1>4. ASSUME NEW h \in Handlers, LookUp(h) \/ Fill(h) \/ WriteClear(h)
      PROVE  IdInv' /\ [Promise!RecentNext]_(Promise!recentVars)
  BY <1>4, LookUpStep, FillStep, ClearStep
<1>5. ASSUME NEW h \in Handlers, Decide(h)
      PROVE  IdInv' /\ [Promise!RecentNext]_(Promise!recentVars)
  BY <1>5, DecideStep DEF Promise!RecentNext
<1>6. ASSUME NEW h \in Handlers, TransactionCommit(h)
      PROVE  IdInv' /\ [Promise!RecentNext]_(Promise!recentVars)
  BY <1>6, TransactionCommitStep DEF Promise!RecentNext
<1>7. ASSUME NEW h \in Handlers, NEW i \in Instances, NEW k \in Keys, NEW v \in Values[k],
             WriteCommit(h, i, k, v) \/ TransactionClear(h, i, k, v)
      PROVE  IdInv' /\ [Promise!RecentNext]_(Promise!recentVars)
  BY <1>7, WriteStep, TransactionClearStep DEF Promise!RecentNext
<1>8. CASE UNCHANGED <<callVars, idVars>>
  <2>1. UNCHANGED Promise!recentVars
    BY <1>8 DEF idVars, Promise!recentVars
  <2>2. IdTypes' /\ TimesOK' /\ CacheOK'
    BY <1>8 DEF IdInv, IdTypes, TimesOK, CacheOK, TrueSince, callVars, idVars
  <2>3. \A h \in Handlers : IdCallOK(calls[h])'
    BY <1>8 DEF IdInv, IdCallOK, RequestOK, TrueSince, callVars, idVars
  <2> QED BY <2>1, <2>2, <2>3 DEF IdInv
<1> QED BY <1>1, <1>2, <1>3, <1>4, <1>5, <1>6, <1>7, <1>8 DEF IdNext

(* The guards with their caches implement RecentReads: whatever instances   *)
(* serve and write, and however a lookup, a write and the clearing of a     *)
(* cache fall between one another, no decision rests on a value that was    *)
(* the row's longer ago than an entry lives and two requests take.          *)
THEOREM GuardsDecideOnRecentRows == IdSpec => DecidesOnRecentRows
<1>1. CallsInit /\ IdInit => IdInv /\ Promise!RecentInit
  BY IdStarts
<1>2. IdInv /\ [IdNext]_<<callVars, idVars>> => IdInv' /\ [Promise!RecentNext]_(Promise!recentVars)
  BY IdStep
<1> QED BY <1>1, <1>2, PTL DEF IdSpec, DecidesOnRecentRows, Promise!RecentSpec

(* Writes bite at once where they were made, as long as no request          *)
(* overlapped them, and a setup that is done opens everything at once.      *)
AtMostOne == calm => \A h, g \in Handlers : calls[h] # Idle /\ calls[g] # Idle => h = g

(* A cached setup is a finished one; and, without overlaps, what an         *)
(* instance has cached of a row it was the last to write is the row, except *)
(* between the write and the clearing.                                      *)
SetupKept == \A i \in Instances : cache[i]["setup"] # Nobody => cache[i]["setup"].val # "OPEN"
Clearing(k) == \E h \in Handlers : calls[h].pc = "clear" /\ calls[h].key = k
CopiesOK ==
    calm => \A i \in Instances, k \in Keys :
      wroteOn[k] \in {Nobody, i} /\ ~Clearing(k) => cache[i][k] = Nobody \/ cache[i][k].val = row[k]

FreshCallOK(c) ==
    /\ c.pc \in {"look", "fill", "decide"} =>
         /\ c.key = "decide" /\ c.vals["setup"] = "OPEN" => lastTrue["setup"]["OPEN"] >= c.since
         /\ calm => \A k \in Before[c.key] : wroteOn[k] \in {Nobody, c.on} => c.vals[k] = row[k]
         /\ calm /\ c.pc = "fill" => c.val = row[c.key]
    /\ calm /\ c.pc = "clear" => wroteOn[c.key] = c.on
    /\ calm /\ c.pc = "commit" => cache[c.on][c.key] = Nobody

FreshInv ==
    /\ calm \in BOOLEAN /\ wroteOn = [k \in Keys |-> wroteOn[k]]
    /\ LookupsTypeOK /\ SetupOpensAtOnce
    /\ AtMostOne /\ SetupKept /\ CopiesOK
    /\ \A h \in Handlers : FreshCallOK(calls[h])

LEMMA FreshStarts == ASSUME CallsInit, IdInit PROVE FreshInv
<1>1. \A h \in Handlers : calls[h] = Idle /\ FreshCallOK(calls[h])
  BY DEF CallsInit, Idle, FreshCallOK
<1>2. \A k \in Keys : row[k] \in Values[k] /\ served[k] \in Values[k]
  BY DEF IdInit, Keys, Values
<1>3. \A i \in Instances, k \in Keys : cache[i][k] = Nobody
  BY DEF IdInit
<1>4. AtMostOne /\ SetupKept /\ CopiesOK
  BY <1>1, <1>3 DEF AtMostOne, SetupKept, CopiesOK, Keys
<1>5. wroteOn = [k \in Keys |-> wroteOn[k]] /\ calm = TRUE /\ ~refused
  BY DEF IdInit, CallsInit
<1> QED BY <1>1, <1>2, <1>4, <1>5 DEF FreshInv, LookupsTypeOK, SetupOpensAtOnce

(* A step of the call at h, which no other overlaps as long as it is calm.  *)
LEMMA FreshMoves ==
  ASSUME IdInv, IdInv', TimesGrow, \A g \in Handlers : FreshCallOK(calls[g]), NEW h \in Handlers, NEW d,
         calls' = [calls EXCEPT ![h] = d], FreshCallOK(d)',
         calm' => \A g \in Handlers \ {h} : calls[g] = Idle
  PROVE  AtMostOne' /\ \A g \in Handlers : FreshCallOK(calls[g])'
<1>1. \A g \in Handlers : calls'[g] = IF g = h THEN d ELSE calls[g]
  BY DEF IdInv, IdTypes
<1>2. AtMostOne'
  BY <1>1 DEF AtMostOne
<1>3. \A v \in Values["setup"] : lastTrue["setup"][v] \in Int /\ lastTrue'["setup"][v] \in Int
  BY DEF IdInv, IdTypes, Keys
<1>4. "OPEN" \in Values["setup"] /\ "setup" \in Keys
  BY DEF Values, Keys
<1>5. ASSUME NEW g \in Handlers PROVE FreshCallOK(calls[g])'
  <2>1. CASE g = h
    <3>1. calls'[g] = d
      BY <1>1, <2>1
    <3> QED BY <3>1 DEF FreshCallOK
  <2>2. CASE g # h
    <3>1. PICK c : c = calls[g]
      OBVIOUS
    <3>2. calls'[g] = c /\ FreshCallOK(c) /\ IdCallOK(c)
      BY <1>1, <2>2, <3>1 DEF IdInv
    <3>3. CASE calm'
      <4>1. c = Idle
        BY <2>2, <3>1, <3>3
      <4> QED BY <3>2, <4>1 DEF FreshCallOK, Idle
    <3>4. CASE ~calm'
      <4>1. CASE c.pc \in {"look", "fill", "decide"} /\ c.key = "decide" /\ c.vals["setup"] = "OPEN"
        <5>1. c.since \in Nat /\ lastTrue["setup"]["OPEN"] >= c.since
          BY <3>2, <4>1 DEF FreshCallOK, IdCallOK, RequestOK, Idle
        <5>2. lastTrue'["setup"]["OPEN"] >= lastTrue["setup"]["OPEN"]
          BY <1>4 DEF TimesGrow
        <5>3. lastTrue'["setup"]["OPEN"] >= c.since
          BY <1>3, <1>4, <5>1, <5>2
        <5> QED BY <3>2, <3>4, <4>1, <5>3 DEF FreshCallOK
      <4>2. CASE ~(c.pc \in {"look", "fill", "decide"} /\ c.key = "decide" /\ c.vals["setup"] = "OPEN")
        BY <3>2, <3>4, <4>2 DEF FreshCallOK
      <4> QED BY <4>1, <4>2
    <3> QED BY <3>3, <3>4
  <2> QED BY <2>1, <2>2
<1> QED BY <1>2, <1>5

(* When a call begins or goes on, what overlaps it is known.                *)
LEMMA BegunAlone ==
  ASSUME NEW h \in Handlers, NEW d, Begin(h, d)
  PROVE  /\ calls' = [calls EXCEPT ![h] = d]
         /\ calm' => calm /\ \A g \in Handlers : calls[g] = Idle
         /\ calm' = (calm /\ Quiet) /\ calls[h] = Idle
BY DEF Begin, Counted, Quiet, Running

LEMMA GoneOnAlone ==
  ASSUME AtMostOne, NEW h \in Handlers, NEW d, Continue(h, d), calls[h] # Idle
  PROVE  /\ calls' = [calls EXCEPT ![h] = d] /\ calm' = calm
         /\ calm' => \A g \in Handlers \ {h} : calls[g] = Idle
BY DEF AtMostOne, Continue

LEMMA FreshArrive ==
  ASSUME IdInv, IdInv', FreshInv, NEW h \in Handlers, NEW i \in Instances, NEW route \in Routes, Arrive(h, i, route)
  PROVE  FreshInv'
<1>1. PICK d : d = [pc |-> "look", key |-> "tenant", on |-> i, route |-> route,
                    since |-> clock, vals |-> [k \in Keys |-> Nobody]]
  OBVIOUS
<1>2. Begin(h, d) /\ UNCHANGED idVars
  BY <1>1 DEF Arrive
<1>3. /\ calls' = [calls EXCEPT ![h] = d]
      /\ calm' => calm /\ \A g \in Handlers : calls[g] = Idle
      /\ calm' = (calm /\ Quiet)
  BY <1>2, BegunAlone
<1>4. d.pc = "look" /\ d.key = "tenant"
  BY <1>1
<1>5. FreshCallOK(d)'
  BY <1>4 DEF FreshCallOK, Before
<1>6. TimesGrow
  BY <1>2 DEF TimesGrow, idVars, IdInv, IdTypes
<1>7. AtMostOne' /\ \A g \in Handlers : FreshCallOK(calls[g])'
  BY <1>2, <1>3, <1>5, <1>6, FreshMoves DEF FreshInv
<1>8. \A k \in Keys : calm' /\ Clearing(k) => Clearing(k)'
  BY <1>3 DEF Clearing, Idle
<1>9. SetupKept' /\ CopiesOK'
  BY <1>2, <1>3, <1>8 DEF FreshInv, SetupKept, CopiesOK, idVars
<1>10. /\ calm' \in BOOLEAN /\ wroteOn' = [k \in Keys |-> wroteOn'[k]]
       /\ LookupsTypeOK' /\ SetupOpensAtOnce'
  BY <1>2, <1>3 DEF FreshInv, LookupsTypeOK, SetupOpensAtOnce, idVars
<1> QED BY <1>7, <1>9, <1>10 DEF FreshInv

LEMMA FreshGot ==
  ASSUME NEW c, RequestOK(c), FreshCallOK(c), c.pc \in {"look", "fill"}, c.key \in Keys, NEW v, NEW d,
         d = [pc |-> IF c.key = "setup" THEN "decide" ELSE "look", key |-> After[c.key],
              on |-> c.on, route |-> c.route, since |-> c.since,
              vals |-> [c.vals EXCEPT ![c.key] = v]],
         c.key = "setup" /\ v = "OPEN" => lastTrue["setup"]["OPEN"] >= c.since,
         calm /\ wroteOn[c.key] \in {Nobody, c.on} => v = row[c.key],
         UNCHANGED <<calm, row, lastTrue, wroteOn>>
  PROVE  FreshCallOK(d)'
<1>1. d.vals = [k \in Keys |-> IF k = c.key THEN v ELSE c.vals[k]]
  BY DEF RequestOK
<1>2. /\ d.key = After[c.key] /\ d.on = c.on /\ d.since = c.since /\ d.pc \in {"look", "decide"}
  OBVIOUS
<1>3. Before[d.key] = Before[c.key] \cup {c.key} /\ \A k \in Before[d.key] : k \in Keys
  BY <1>2 DEF After, Before, Keys
<1>4. d.key = "decide" => c.key = "setup" /\ d.vals["setup"] = v
  BY <1>1, <1>2 DEF After, Keys
<1>5. d.key = "decide" /\ d.vals["setup"] = "OPEN" => lastTrue["setup"]["OPEN"] >= d.since
  BY <1>2, <1>4
<1>6. ASSUME calm, NEW k \in Before[d.key], wroteOn[k] \in {Nobody, d.on} PROVE d.vals[k] = row[k]
  BY <1>1, <1>2, <1>3, <1>6 DEF FreshCallOK
<1> QED BY <1>2, <1>5, <1>6 DEF FreshCallOK

LEMMA FreshLookUp ==
  ASSUME IdInv, IdInv', FreshInv, NEW h \in Handlers, LookUp(h)
  PROVE  FreshInv'
<1>0. PICK c : c = calls[h]
  OBVIOUS
<1>1. c.pc = "look" /\ UNCHANGED idVars
  BY <1>0 DEF LookUp
<1>2. c # Idle /\ RequestOK(c) /\ c.key \in Keys /\ c.on \in Instances /\ FreshCallOK(c)
  BY <1>0, <1>1 DEF IdInv, IdCallOK, RequestOK, Idle, FreshInv
<1>3. \E d : Continue(h, d) /\ d.pc # "clear" /\ FreshCallOK(d)'
  <2>1. CASE Hit(c.on, c.key)
    <3>1. PICK e : e = cache[c.on][c.key]
      OBVIOUS
    <3>2. PICK d : d = [pc |-> IF c.key = "setup" THEN "decide" ELSE "look", key |-> After[c.key],
                        on |-> c.on, route |-> c.route, since |-> c.since,
                        vals |-> [c.vals EXCEPT ![c.key] = e.val]]
      OBVIOUS
    <3>3. Continue(h, d) /\ d.pc \in {"look", "decide"}
      BY <1>0, <1>1, <2>1, <3>1, <3>2 DEF LookUp, GotValue
    <3>4. e # Nobody /\ (c.key = "setup" => e.val # "OPEN")
      BY <1>2, <2>1, <3>1 DEF Hit, FreshInv, SetupKept
    <3>5. ASSUME calm, wroteOn[c.key] \in {Nobody, c.on} PROVE e.val = row[c.key]
      <4>1. ~Clearing(c.key)
        BY <1>0, <1>1, <1>2, <3>5 DEF Clearing, FreshInv, AtMostOne, Idle
      <4> QED BY <1>2, <3>1, <3>4, <3>5, <4>1 DEF FreshInv, CopiesOK
    <3>6. UNCHANGED <<calm, row, lastTrue, wroteOn>>
      BY <1>1, <3>3 DEF Continue, idVars
    <3>7. FreshCallOK(d)'
      BY <1>1, <1>2, <3>2, <3>4, <3>5, <3>6, FreshGot
    <3> QED BY <3>3, <3>7
  <2>2. CASE ~Hit(c.on, c.key)
    <3>1. PICK d : d = [pc |-> "fill", key |-> c.key, on |-> c.on, route |-> c.route,
                        since |-> c.since, vals |-> c.vals, val |-> row[c.key]]
      OBVIOUS
    <3>2. Continue(h, d)
      BY <1>0, <1>1, <2>2, <3>1 DEF LookUp
    <3>3. d.pc = "fill" /\ d.key = c.key /\ d.on = c.on /\ d.vals = c.vals /\ d.val = row[c.key]
      BY <3>1
    <3>4. c.key # "decide"
      BY <1>2 DEF Keys
    <3>5. UNCHANGED <<calm, row, lastTrue, wroteOn>>
      BY <1>1, <3>2 DEF Continue, idVars
    <3>6. FreshCallOK(d)'
      BY <1>1, <1>2, <3>3, <3>4, <3>5 DEF FreshCallOK
    <3> QED BY <3>2, <3>3, <3>6
  <2> QED BY <2>1, <2>2
<1>4. PICK d : Continue(h, d) /\ d.pc # "clear" /\ FreshCallOK(d)'
  BY <1>3
<1>5. /\ calls' = [calls EXCEPT ![h] = d] /\ calm' = calm
      /\ calm' => \A g \in Handlers \ {h} : calls[g] = Idle
  BY <1>0, <1>2, <1>4, GoneOnAlone DEF FreshInv
<1>6. TimesGrow
  BY <1>1 DEF TimesGrow, idVars, IdInv, IdTypes
<1>7. AtMostOne' /\ \A g \in Handlers : FreshCallOK(calls[g])'
  BY <1>4, <1>5, <1>6, FreshMoves DEF FreshInv
<1>8. \A k \in Keys : Clearing(k) => Clearing(k)'
  BY <1>0, <1>1, <1>5 DEF Clearing, IdInv, IdTypes
<1>9. SetupKept' /\ CopiesOK'
  BY <1>1, <1>5, <1>8 DEF FreshInv, SetupKept, CopiesOK, idVars
<1>10. /\ calm' \in BOOLEAN /\ wroteOn' = [k \in Keys |-> wroteOn'[k]]
       /\ LookupsTypeOK' /\ SetupOpensAtOnce'
  BY <1>1, <1>5 DEF FreshInv, LookupsTypeOK, SetupOpensAtOnce, idVars
<1> QED BY <1>7, <1>9, <1>10 DEF FreshInv

LEMMA FreshFill ==
  ASSUME IdInv, IdInv', FreshInv, NEW h \in Handlers, Fill(h)
  PROVE  FreshInv'
<1>0. PICK c : c = calls[h]
  OBVIOUS
<1>1. /\ c.pc = "fill" /\ GotValue(h, c.val) /\ CacheSet(c.on, c.key, c.val)
      /\ UNCHANGED <<clock, row, lastTrue, wroteOn, served, servedOn, turn, refused>>
  BY <1>0 DEF Fill
<1>2. /\ c # Idle /\ RequestOK(c) /\ c.key \in Keys /\ c.on \in Instances /\ TrueSince(c.key, c.val, c.since)
      /\ FreshCallOK(c)
  BY <1>0, <1>1 DEF IdInv, IdCallOK, RequestOK, Idle, FreshInv
<1>3. PICK d : d = [pc |-> IF c.key = "setup" THEN "decide" ELSE "look", key |-> After[c.key],
                    on |-> c.on, route |-> c.route, since |-> c.since,
                    vals |-> [c.vals EXCEPT ![c.key] = c.val]]
  OBVIOUS
<1>4. Continue(h, d) /\ d.pc # "clear"
  BY <1>0, <1>1, <1>3 DEF GotValue
<1>5. /\ calls' = [calls EXCEPT ![h] = d] /\ calm' = calm
      /\ calm' => \A g \in Handlers \ {h} : calls[g] = Idle
  BY <1>0, <1>2, <1>4, GoneOnAlone DEF FreshInv
<1>6. /\ c.key = "setup" /\ c.val = "OPEN" => lastTrue["setup"]["OPEN"] >= c.since
      /\ calm => c.val = row[c.key]
  BY <1>1, <1>2 DEF TrueSince, FreshCallOK
<1>7. FreshCallOK(d)'
  BY <1>1, <1>2, <1>3, <1>5, <1>6, FreshGot
<1>8. TimesGrow
  BY <1>1 DEF TimesGrow, IdInv, IdTypes
<1>9. AtMostOne' /\ \A g \in Handlers : FreshCallOK(calls[g])'
  BY <1>5, <1>7, <1>8, FreshMoves DEF FreshInv
<1>10. \A k \in Keys : Clearing(k) => Clearing(k)'
  BY <1>0, <1>1, <1>4, <1>5 DEF Clearing, IdInv, IdTypes
<1>11. PICK e : e = [val |-> c.val, until |-> clock + TTL]
  OBVIOUS
<1>12. \/ cache' = cache
       \/ cache' = [cache EXCEPT ![c.on][c.key] = e] /\ (c.key = "setup" => e.val # "OPEN")
  BY <1>1, <1>11 DEF CacheSet
<1>13. /\ e.val = c.val
       /\ \A i \in Instances, k \in Keys :
            \/ cache'[i][k] = cache[i][k]
            \/ k = c.key /\ cache'[i][k] = e /\ (c.key = "setup" => e.val # "OPEN")
  <2>1. CASE cache' = cache
    BY <1>11, <2>1
  <2>2. CASE cache' = [cache EXCEPT ![c.on][c.key] = e] /\ (c.key = "setup" => e.val # "OPEN")
    <3>1. \A i \in Instances : cache[i] = [k \in Keys |-> cache[i][k]]
      BY DEF IdInv, IdTypes
    <3>2. \A i \in Instances : cache'[i] = IF i = c.on THEN [cache[i] EXCEPT ![c.key] = e] ELSE cache[i]
      BY <1>2, <2>2 DEF IdInv, IdTypes
    <3>3. \A i \in Instances, k \in Keys :
            cache'[i][k] = IF i = c.on /\ k = c.key THEN e ELSE cache[i][k]
      BY <1>2, <3>1, <3>2
    <3> QED BY <1>11, <2>2, <3>3
  <2> QED BY <1>12, <2>1, <2>2
<1>14. SetupKept'
  BY <1>13 DEF FreshInv, SetupKept, Keys
<1>15. CopiesOK'
  BY <1>1, <1>5, <1>6, <1>10, <1>13 DEF FreshInv, CopiesOK
<1>16. /\ calm' \in BOOLEAN /\ wroteOn' = [k \in Keys |-> wroteOn'[k]]
       /\ LookupsTypeOK' /\ SetupOpensAtOnce'
  BY <1>1, <1>5 DEF FreshInv, LookupsTypeOK, SetupOpensAtOnce
<1> QED BY <1>9, <1>14, <1>15, <1>16 DEF FreshInv

(* The decision itself. *)
WriteBites ==
    calm' /\ turn' # turn => \A k \in Keys : wroteOn[k] \in {Nobody, servedOn'} => served'[k] = row[k]

LEMMA FreshDecide ==
  ASSUME IdInv, IdInv', FreshInv, NEW h \in Handlers, Decide(h)
  PROVE  FreshInv' /\ WriteBites
<1>0. PICK c : c = calls[h]
  OBVIOUS
<1>1. /\ c.pc = "decide" /\ Continue(h, Idle)
      /\ UNCHANGED <<clock, row, lastTrue, cache, wroteOn>>
  BY <1>0 DEF Decide, Finish
<1>2. c # Idle /\ RequestOK(c) /\ c.key = "decide" /\ FreshCallOK(c)
  BY <1>0, <1>1 DEF IdInv, IdCallOK, RequestOK, Idle, FreshInv
<1>3. \/ served' = c.vals /\ servedOn' = c.on /\ refused' = refused
      \/ /\ UNCHANGED <<served, servedOn, turn>>
         /\ refused' = (refused \/ (c.vals.setup = "OPEN" /\ lastTrue["setup"]["OPEN"] < c.since))
  BY <1>0 DEF Decide
<1>4. ~(c.vals.setup = "OPEN" /\ lastTrue["setup"]["OPEN"] < c.since)
  <2>1. lastTrue["setup"]["OPEN"] \in Int /\ c.since \in Int
    BY <1>2 DEF IdInv, IdTypes, RequestOK, Keys, Values
  <2> QED BY <1>1, <1>2, <2>1 DEF FreshCallOK
<1>5. SetupOpensAtOnce'
  BY <1>3, <1>4 DEF FreshInv, SetupOpensAtOnce
<1>6. \A k \in Keys : c.vals[k] \in Values[k]
  BY <1>2 DEF RequestOK, Before, TrueSince
<1>7. LookupsTypeOK'
  BY <1>1, <1>3, <1>6 DEF FreshInv, LookupsTypeOK
<1>8. /\ calls' = [calls EXCEPT ![h] = Idle] /\ calm' = calm
      /\ calm' => \A g \in Handlers \ {h} : calls[g] = Idle
  BY <1>0, <1>1, <1>2, GoneOnAlone DEF FreshInv
<1>9. FreshCallOK(Idle)'
  BY DEF FreshCallOK, Idle
<1>10. TimesGrow
  BY <1>1 DEF TimesGrow, IdInv, IdTypes
<1>11. AtMostOne' /\ \A g \in Handlers : FreshCallOK(calls[g])'
  BY <1>8, <1>9, <1>10, FreshMoves DEF FreshInv
<1>12. \A k \in Keys : Clearing(k) => Clearing(k)'
  BY <1>0, <1>1, <1>8 DEF Clearing, IdInv, IdTypes
<1>13. SetupKept' /\ CopiesOK'
  BY <1>1, <1>8, <1>12 DEF FreshInv, SetupKept, CopiesOK
<1>14. calm' \in BOOLEAN /\ wroteOn' = [k \in Keys |-> wroteOn'[k]]
  BY <1>1, <1>8 DEF FreshInv
<1>15. WriteBites
  BY <1>1, <1>2, <1>3, <1>8 DEF WriteBites, FreshCallOK, Before
<1> QED BY <1>5, <1>7, <1>11, <1>13, <1>14, <1>15 DEF FreshInv

LEMMA FreshEvict ==
  ASSUME IdInv, FreshInv, NEW i \in Instances, NEW k \in Keys, Evict(i, k)
  PROVE  FreshInv'
<1>1. \A j \in Instances, l \in Keys : cache'[j][l] = IF j = i /\ l = k THEN Nobody ELSE cache[j][l]
  BY DEF Evict, CacheClear, IdInv, IdTypes
<1>2. UNCHANGED <<calls, calm, clock, row, lastTrue, wroteOn, served, servedOn, turn, refused>>
  BY DEF Evict, callVars
<1>3. ASSUME NEW h \in Handlers PROVE FreshCallOK(calls[h])'
  <2>1. PICK c : c = calls[h]
    OBVIOUS
  <2>2. calls'[h] = c /\ FreshCallOK(c) /\ IdCallOK(c)
    BY <1>2, <2>1 DEF FreshInv, IdInv
  <2>3. c.pc = "commit" => c.on \in Instances /\ c.key \in Keys
    BY <2>2 DEF IdCallOK, Idle
  <2> QED BY <1>1, <1>2, <2>2, <2>3 DEF FreshCallOK
<1>4. AtMostOne' /\ SetupKept' /\ CopiesOK'
  BY <1>1, <1>2 DEF FreshInv, AtMostOne, SetupKept, CopiesOK, Clearing, Keys
<1>5. /\ calm' \in BOOLEAN /\ wroteOn' = [l \in Keys |-> wroteOn'[l]]
      /\ LookupsTypeOK' /\ SetupOpensAtOnce'
  BY <1>2 DEF FreshInv, LookupsTypeOK, SetupOpensAtOnce
<1> QED BY <1>3, <1>4, <1>5 DEF FreshInv

LEMMA FreshElapse ==
  ASSUME IdInv, IdInv', FreshInv, Elapse
  PROVE  FreshInv'
<1>1. /\ lastTrue' = [k \in Keys |-> [lastTrue[k] EXCEPT ![row[k]] = clock + 1]]
      /\ UNCHANGED <<calls, calm, row, cache, wroteOn, served, servedOn, turn, refused>>
  BY DEF Elapse, callVars
<1>2. /\ lastTrue'["setup"]["OPEN"] >= lastTrue["setup"]["OPEN"]
      /\ lastTrue["setup"]["OPEN"] \in Int /\ lastTrue'["setup"]["OPEN"] \in Int
  <2>1. "setup" \in Keys /\ "OPEN" \in Values["setup"]
    BY DEF Keys, Values
  <2>2. lastTrue'["setup"] = [lastTrue["setup"] EXCEPT ![row["setup"]] = clock + 1]
    BY <1>1, <2>1
  <2>3. /\ lastTrue["setup"] \in [Values["setup"] -> Int] /\ lastTrue'["setup"] \in [Values["setup"] -> Int]
        /\ clock \in Nat /\ lastTrue["setup"]["OPEN"] <= clock
    BY <2>1 DEF IdInv, IdTypes, TimesOK
  <2> QED BY <2>1, <2>2, <2>3
<1>3. ASSUME NEW h \in Handlers PROVE FreshCallOK(calls[h])'
  <2>1. PICK c : c = calls[h]
    OBVIOUS
  <2>2. calls'[h] = c /\ FreshCallOK(c) /\ IdCallOK(c)
    BY <1>1, <2>1 DEF FreshInv, IdInv
  <2>3. CASE c.pc \in {"look", "fill", "decide"}
    <3>1. c.since \in Int
      BY <2>2, <2>3 DEF IdCallOK, RequestOK, Idle
    <3> QED BY <1>1, <1>2, <2>2, <2>3, <3>1 DEF FreshCallOK
  <2>4. CASE c.pc \notin {"look", "fill", "decide"}
    BY <1>1, <2>2, <2>4 DEF FreshCallOK
  <2> QED BY <2>3, <2>4
<1>4. AtMostOne' /\ SetupKept' /\ CopiesOK'
  BY <1>1 DEF FreshInv, AtMostOne, SetupKept, CopiesOK, Clearing
<1>5. /\ calm' \in BOOLEAN /\ wroteOn' = [k \in Keys |-> wroteOn'[k]]
      /\ LookupsTypeOK' /\ SetupOpensAtOnce'
  BY <1>1 DEF FreshInv, LookupsTypeOK, SetupOpensAtOnce
<1> QED BY <1>3, <1>4, <1>5 DEF FreshInv

LEMMA FreshClear ==
  ASSUME IdInv, IdInv', FreshInv, NEW h \in Handlers, WriteClear(h)
  PROVE  FreshInv'
<1>0. PICK c : c = calls[h]
  OBVIOUS
<1>1. /\ c.pc = "clear" /\ CacheClear(c.on, c.key) /\ Continue(h, Idle)
      /\ UNCHANGED <<clock, row, lastTrue, wroteOn, served, servedOn, turn, refused>>
  BY <1>0 DEF WriteClear, Finish
<1>2. c # Idle /\ c.on \in Instances /\ c.key \in Keys /\ FreshCallOK(c)
  BY <1>0, <1>1 DEF IdInv, IdCallOK, Idle, FreshInv
<1>3. \A j \in Instances, l \in Keys : cache'[j][l] = IF j = c.on /\ l = c.key THEN Nobody ELSE cache[j][l]
  BY <1>1, <1>2 DEF CacheClear, IdInv, IdTypes
<1>4. /\ calls' = [calls EXCEPT ![h] = Idle] /\ calm' = calm
      /\ calm' => \A g \in Handlers \ {h} : calls[g] = Idle
  BY <1>0, <1>1, <1>2, GoneOnAlone DEF FreshInv
<1>5. FreshCallOK(Idle)'
  BY DEF FreshCallOK, Idle
<1>6. TimesGrow
  BY <1>1 DEF TimesGrow, IdInv, IdTypes
<1>7. AtMostOne' /\ \A g \in Handlers : FreshCallOK(calls[g])'
  BY <1>4, <1>5, <1>6, FreshMoves DEF FreshInv
<1>8. \A k \in Keys \ {c.key} : Clearing(k) => Clearing(k)'
  BY <1>0, <1>4 DEF Clearing, IdInv, IdTypes
<1>9. SetupKept'
  BY <1>3 DEF FreshInv, SetupKept, Keys
<1>10. CopiesOK'
  <2>1. ASSUME calm, NEW i \in Instances, NEW k \in Keys, wroteOn[k] \in {Nobody, i}, ~Clearing(k)'
        PROVE  cache'[i][k] = Nobody \/ cache'[i][k].val = row[k]
    <3>1. CASE k = c.key
      <4>1. wroteOn[k] = c.on /\ c.on # Nobody
        BY <1>1, <1>2, <2>1, <3>1, IdentityAssumption DEF FreshCallOK
      <4> QED BY <1>2, <1>3, <2>1, <3>1, <4>1
    <3>2. CASE k # c.key
      BY <1>3, <1>8, <2>1, <3>2 DEF FreshInv, CopiesOK
    <3> QED BY <3>1, <3>2
  <2> QED BY <1>1, <1>4, <2>1 DEF CopiesOK
<1>11. /\ calm' \in BOOLEAN /\ wroteOn' = [k \in Keys |-> wroteOn'[k]]
       /\ LookupsTypeOK' /\ SetupOpensAtOnce'
  BY <1>1, <1>4 DEF FreshInv, LookupsTypeOK, SetupOpensAtOnce
<1> QED BY <1>7, <1>9, <1>10, <1>11 DEF FreshInv

LEMMA FreshTransactionClear ==
  ASSUME IdInv, IdInv', FreshInv, NEW h \in Handlers, NEW i \in Instances, NEW k \in Keys, NEW v \in Values[k],
         TransactionClear(h, i, k, v)
  PROVE  FreshInv'
<1>0. PICK d : d = [pc |-> "commit", on |-> i, key |-> k, val |-> v]
  OBVIOUS
<1>1. /\ Begin(h, d) /\ CacheClear(i, k)
      /\ UNCHANGED <<clock, row, lastTrue, wroteOn, served, servedOn, turn, refused>>
  BY <1>0 DEF TransactionClear
<1>2. \A j \in Instances, l \in Keys : cache'[j][l] = IF j = i /\ l = k THEN Nobody ELSE cache[j][l]
  BY <1>1 DEF CacheClear, IdInv, IdTypes
<1>3. /\ calls' = [calls EXCEPT ![h] = d]
      /\ calm' => calm /\ \A g \in Handlers : calls[g] = Idle
      /\ calm' = (calm /\ Quiet)
  BY <1>1, BegunAlone
<1>4. FreshCallOK(d)'
  BY <1>0, <1>2 DEF FreshCallOK
<1>5. TimesGrow
  BY <1>1 DEF TimesGrow, IdInv, IdTypes
<1>6. AtMostOne' /\ \A g \in Handlers : FreshCallOK(calls[g])'
  BY <1>3, <1>4, <1>5, FreshMoves DEF FreshInv
<1>7. \A l \in Keys : calm' /\ Clearing(l) => Clearing(l)'
  BY <1>3 DEF Clearing, Idle
<1>8. SetupKept' /\ CopiesOK'
  BY <1>1, <1>2, <1>3, <1>7 DEF FreshInv, SetupKept, CopiesOK, Keys
<1>9. /\ calm' \in BOOLEAN /\ wroteOn' = [l \in Keys |-> wroteOn'[l]]
      /\ LookupsTypeOK' /\ SetupOpensAtOnce'
  BY <1>1, <1>3 DEF FreshInv, LookupsTypeOK, SetupOpensAtOnce
<1> QED BY <1>6, <1>8, <1>9 DEF FreshInv

(* A row is committed on i, and cached there no more or not yet cleared.    *)
LEMMA FreshCommit ==
  ASSUME IdInv, IdInv', FreshInv, NEW h \in Handlers, NEW i \in Instances, NEW k \in Keys, NEW v \in Values[k],
         CommitRow(i, k, v), cache' = cache, NEW d, calls' = [calls EXCEPT ![h] = d], FreshCallOK(d)',
         calm' \in BOOLEAN, calm' => calm, calm' => \A g \in Handlers \ {h} : calls[g] = Idle,
         (d.pc = "clear" /\ d.key = k) \/ (d = Idle /\ (calm' => cache[i][k] = Nobody)),
         calls[h].pc # "clear"
  PROVE  FreshInv'
<1>1. /\ row' = [row EXCEPT ![k] = v] /\ lastTrue' = [lastTrue EXCEPT ![k][v] = clock]
      /\ wroteOn' = [wroteOn EXCEPT ![k] = i]
      /\ UNCHANGED <<clock, served, servedOn, turn, refused>>
  BY DEF CommitRow
<1>2. \A l \in Keys : row'[l] = IF l = k THEN v ELSE row[l]
  BY <1>1 DEF IdInv, IdTypes
<1>3. \A l \in Keys : wroteOn'[l] = IF l = k THEN i ELSE wroteOn[l]
  BY <1>1 DEF FreshInv
<1>4. wroteOn' = [l \in Keys |-> wroteOn'[l]]
  BY <1>1 DEF FreshInv
<1>5. TimesGrow
  <2>1. \A l \in Keys : lastTrue'[l] = IF l = k THEN [lastTrue[k] EXCEPT ![v] = clock] ELSE lastTrue[l]
    BY <1>1 DEF IdInv, IdTypes
  <2>2. ASSUME NEW l \in Keys, NEW w \in Values[l] PROVE lastTrue'[l][w] >= lastTrue[l][w]
    <3>1. lastTrue[l] \in [Values[l] -> Int] /\ clock \in Nat /\ lastTrue[l][w] <= clock
      BY DEF IdInv, IdTypes, TimesOK
    <3> QED BY <2>1, <3>1
  <2> QED BY <2>2 DEF TimesGrow
<1>6. AtMostOne' /\ \A g \in Handlers : FreshCallOK(calls[g])'
  BY <1>5, FreshMoves DEF FreshInv
<1>7. \A l \in Keys : Clearing(l) => Clearing(l)'
  BY DEF Clearing, IdInv, IdTypes
<1>8. CopiesOK'
  <2>1. ASSUME calm', NEW j \in Instances, NEW l \in Keys, wroteOn'[l] \in {Nobody, j}, ~Clearing(l)'
        PROVE  cache'[j][l] = Nobody \/ cache'[j][l].val = row'[l]
    <3>1. CASE l = k
      <4>1. j = i
        BY <1>3, <2>1, <3>1, IdentityAssumption
      <4>2. ~(d.pc = "clear" /\ d.key = k)
        BY <2>1, <3>1 DEF Clearing, IdInv, IdTypes
      <4> QED BY <2>1, <3>1, <4>1, <4>2
    <3>2. CASE l # k
      BY <1>2, <1>3, <1>7, <2>1, <3>2 DEF FreshInv, CopiesOK
    <3> QED BY <3>1, <3>2
  <2> QED BY <2>1 DEF CopiesOK
<1>9. SetupKept' /\ SetupOpensAtOnce'
  BY <1>1 DEF FreshInv, SetupKept, SetupOpensAtOnce
<1>10. LookupsTypeOK'
  BY <1>1, <1>2 DEF FreshInv, LookupsTypeOK
<1> QED BY <1>4, <1>6, <1>8, <1>9, <1>10 DEF FreshInv

LEMMA FreshWrite ==
  ASSUME IdInv, IdInv', FreshInv, NEW h \in Handlers, NEW i \in Instances, NEW k \in Keys, NEW v \in Values[k],
         WriteCommit(h, i, k, v)
  PROVE  FreshInv'
<1>1. PICK d : d = [pc |-> "clear", on |-> i, key |-> k]
  OBVIOUS
<1>2. CommitRow(i, k, v) /\ Begin(h, d) /\ cache' = cache
  BY <1>1 DEF WriteCommit
<1>3. /\ calls' = [calls EXCEPT ![h] = d]
      /\ calm' => calm /\ \A g \in Handlers : calls[g] = Idle
      /\ calm' = (calm /\ Quiet) /\ calls[h] = Idle
  BY <1>2, BegunAlone
<1>4. wroteOn'[k] = i
  BY <1>2 DEF CommitRow, FreshInv
<1>5. d.pc = "clear" /\ d.key = k /\ FreshCallOK(d)'
  BY <1>1, <1>4 DEF FreshCallOK
<1>6. calm' \in BOOLEAN /\ calls[h].pc # "clear"
  BY <1>3 DEF FreshInv, Idle
<1> QED BY <1>2, <1>3, <1>5, <1>6, FreshCommit

LEMMA FreshTransactionCommit ==
  ASSUME IdInv, IdInv', FreshInv, NEW h \in Handlers, TransactionCommit(h)
  PROVE  FreshInv'
<1>0. PICK c : c = calls[h]
  OBVIOUS
<1>1. c.pc = "commit" /\ CommitRow(c.on, c.key, c.val) /\ Continue(h, Idle) /\ cache' = cache
  BY <1>0 DEF TransactionCommit, Finish
<1>2. c # Idle /\ c.on \in Instances /\ c.key \in Keys /\ c.val \in Values[c.key] /\ FreshCallOK(c)
  BY <1>0, <1>1 DEF IdInv, IdCallOK, Idle, FreshInv
<1>3. /\ calls' = [calls EXCEPT ![h] = Idle] /\ calm' = calm
      /\ calm' => \A g \in Handlers \ {h} : calls[g] = Idle
  BY <1>0, <1>1, <1>2, GoneOnAlone DEF FreshInv
<1>4. FreshCallOK(Idle)'
  BY DEF FreshCallOK, Idle
<1>5. calm' => cache[c.on][c.key] = Nobody
  BY <1>1, <1>2, <1>3 DEF FreshCallOK
<1>6. calm' \in BOOLEAN /\ calls[h].pc # "clear"
  BY <1>0, <1>1, <1>3 DEF FreshInv
<1> QED BY <1>1, <1>2, <1>3, <1>4, <1>5, <1>6, FreshCommit

LEMMA FreshStep ==
  ASSUME IdInv, IdInv', FreshInv, [IdNext]_<<callVars, idVars>>
  PROVE  FreshInv' /\ [WriteBites]_idVars
<1>1. WriteBites \/ \E h \in Handlers : Decide(h)
  <2>1. CASE UNCHANGED turn
    BY <2>1 DEF WriteBites
  <2>2. CASE \E h \in Handlers : Decide(h)
    BY <2>2
  <2>3. ASSUME NEW h \in Handlers,
               \/ \E i \in Instances, route \in Routes : Arrive(h, i, route)
               \/ LookUp(h) \/ Fill(h) \/ WriteClear(h)
        PROVE  UNCHANGED turn
    <3>1. CASE \E i \in Instances, route \in Routes : Arrive(h, i, route)
      BY <3>1 DEF Arrive, idVars
    <3>2. CASE LookUp(h)
      BY <3>2 DEF LookUp, idVars
    <3>3. CASE Fill(h)
      BY <3>3 DEF Fill
    <3>4. CASE WriteClear(h)
      BY <3>4 DEF WriteClear
    <3> QED BY <2>3, <3>1, <3>2, <3>3, <3>4
  <2>4. ASSUME NEW h \in Handlers, TransactionCommit(h) PROVE UNCHANGED turn
    BY <2>4 DEF TransactionCommit, CommitRow
  <2>5. ASSUME NEW h \in Handlers, NEW i \in Instances, NEW k \in Keys, NEW v \in Values[k],
               WriteCommit(h, i, k, v) \/ TransactionClear(h, i, k, v)
        PROVE  UNCHANGED turn
    BY <2>5 DEF WriteCommit, TransactionClear, CommitRow
  <2>6. ASSUME Elapse \/ \E i \in Instances, k \in Keys : Evict(i, k) PROVE UNCHANGED turn
    BY <2>6 DEF Elapse, Evict
  <2>7. CASE UNCHANGED <<callVars, idVars>>
    BY <2>1, <2>7 DEF idVars
  <2> QED BY <2>1, <2>2, <2>3, <2>4, <2>5, <2>6, <2>7 DEF IdNext
<1>2. ASSUME NEW h \in Handlers, Decide(h) PROVE FreshInv' /\ WriteBites
  BY <1>2, FreshDecide
<1>3. ASSUME Elapse PROVE FreshInv'
  BY <1>3, FreshElapse
<1>4. ASSUME NEW i \in Instances, NEW k \in Keys, Evict(i, k) PROVE FreshInv'
  BY <1>4, FreshEvict
<1>5. ASSUME NEW h \in Handlers, NEW i \in Instances, NEW route \in Routes, Arrive(h, i, route) PROVE FreshInv'
  BY <1>5, FreshArrive
<1>6. ASSUME NEW h \in Handlers, LookUp(h) \/ Fill(h) \/ WriteClear(h) \/ TransactionCommit(h) PROVE FreshInv'
  BY <1>6, FreshLookUp, FreshFill, FreshClear, FreshTransactionCommit
<1>7. ASSUME NEW h \in Handlers, NEW i \in Instances, NEW k \in Keys, NEW v \in Values[k],
             WriteCommit(h, i, k, v) \/ TransactionClear(h, i, k, v)
      PROVE  FreshInv'
  BY <1>7, FreshWrite, FreshTransactionClear
<1>8. CASE UNCHANGED <<callVars, idVars>>
  BY <1>8 DEF FreshInv, LookupsTypeOK, SetupOpensAtOnce, AtMostOne, SetupKept, CopiesOK, Clearing, FreshCallOK,
     callVars, idVars
<1>9. FreshInv'
  BY <1>2, <1>3, <1>4, <1>5, <1>6, <1>7, <1>8 DEF IdNext
<1> QED BY <1>1, <1>2, <1>9

(* As long as no request overlaps the write of a row, the instance that     *)
(* wrote it decides on what was written from then on, whichever of its      *)
(* caches held the old row (invalidateOnIdentityWrites()); and, overlaps or *)
(* not, nobody is turned away for a setup that was finished when they came. *)
THEOREM WritesBiteAtOnce == IdSpec => WriteBitesAtOnce /\ []SetupOpensAtOnce /\ []LookupsTypeOK
<1>1. CallsInit /\ IdInit => IdInv /\ FreshInv
  BY IdStarts, FreshStarts
<1>2. IdInv /\ [IdNext]_<<callVars, idVars>> => IdInv'
  BY IdStep
<1>3. IdInv /\ IdInv' /\ FreshInv /\ [IdNext]_<<callVars, idVars>> => FreshInv' /\ [WriteBites]_idVars
  BY FreshStep
<1>4. FreshInv => SetupOpensAtOnce /\ LookupsTypeOK
  BY DEF FreshInv
<1>5. [WriteBites]_idVars => [calm' /\ turn' # turn
         => \A k \in Keys : wroteOn[k] \in {Nobody, servedOn'} => served'[k] = row[k]]_idVars
  BY DEF WriteBites
<1> QED BY <1>1, <1>2, <1>3, <1>4, <1>5, PTL DEF IdSpec, WriteBitesAtOnce
-----------------------------------------------------------------------------
(* A tenant: its lifecycle, its billing, its terms and the support grants.  *)
TenancyNext ==
    \/ Tick
    \/ \E s \in {"ACTIVE", "SUSPENDED", "TRIAL"} : UpdateTenantStatus(s)
    \/ \E p \in Plans, d \in Definitions : UpdatePlan(p, d)
    \/ \E h \in Handlers : LifecycleNext(h) \/ TermsNext(h) \/ GrantsNext(h)
TenancySpec == CallsInit /\ TenantsInit /\ [][TenancyNext]_<<callVars, tenantVars>>

Fields == {"status", "trialEnds", "graceEnds", "renews", "sub", "plan", "modules", "seats", "rate"}
Dates == {None} \cup Nat
Granted == [status : {"ACTIVE", "REVOKED", "EXPIRED"}, expires : Nat]

RowTypes ==
    /\ tenant = [f \in Fields |-> tenant[f]]
    /\ tenant.status \in Statuses /\ tenant.plan \in Plans /\ tenant.rate \in Nat /\ tenant.seats \in Nat
    /\ tenant.trialEnds \in Dates /\ tenant.graceEnds \in Dates /\ tenant.renews \in Dates /\ tenant.sub \in Dates
OtherTypes ==
    /\ now \in Nat /\ remote \in Nat /\ catalog \in [Plans -> Definitions]
    /\ events \in Seq(Good \cup Bad) /\ payments \in [Charges -> Nat] /\ ChargeRecordedOnce
    /\ grants \in Seq(Granted)

(* What a call has read, whatever overlaps it. *)
TenCallOK(c) ==
    \/ c.pc \in {"idle", "convert", "restrict", "subscribe", "grant"}
    \/ c.pc = "trialEnd" /\ c.reopening \in BOOLEAN
    \/ c.pc = "plan" /\ c.to \in Plans /\ c.convert \in BOOLEAN
    \/ /\ c.pc = "renew" /\ c.renews \in Nat
       /\ DOMAIN c.change = {"plan", "modules", "seats", "rate"}
       /\ c.change = [f \in {"plan", "modules", "seats", "rate"} |-> c.change[f]]
       /\ c.change.plan \in Plans /\ c.change.seats \in Nat /\ c.change.rate \in Nat
    \/ c.pc = "price" /\ c.rate \in Nat /\ c.seats \in Nat
    \/ c.pc = "store" /\ c.sub \in Nat
    \/ c.pc = "webhook" /\ c.event \in Good \cup Bad
    \/ c.pc = "close" /\ c.grant \in DOMAIN grants /\ c.as \in {"REVOKED", "EXPIRED"}

(* What still holds of it when it writes, as long as nothing overlaps. *)
Unsold(status) == status \in {"TRIAL", "READ_ONLY"}
CalmCallOK(c) ==
    /\ c.pc = "trialEnd" => Unsold(tenant.status) /\ (c.reopening <=> tenant.status = "READ_ONLY")
    /\ c.pc = "plan" => (c.convert => Unsold(tenant.status))
    /\ c.pc = "convert" => Unsold(tenant.status)
    /\ c.pc = "renew" =>
         /\ c.change.plan = tenant.plan /\ c.change.modules[1] = tenant.plan
         /\ c.change.seats = tenant.seats /\ c.change.rate = tenant.rate
    /\ c.pc = "restrict" =>
         tenant.status \in {"TRIAL", "ACTIVE"} /\ (Past(tenant.trialEnds) \/ Past(tenant.graceEnds))
    /\ c.pc = "subscribe" => tenant.sub = None /\ remote = 0
    /\ c.pc = "store" => tenant.sub = None /\ remote = 1 /\ c.sub = 1
    /\ c.pc = "webhook" => c.seen.status = tenant.status /\ c.seen.graceEnds = tenant.graceEnds
    /\ c.pc = "grant" => ~\E i \in DOMAIN grants : Live(grants[i])
    /\ c.pc = "close" => grants[c.grant].status = "ACTIVE"

HasReason ==
    tenant.status = "READ_ONLY" =>
        \/ Past(tenant.trialEnds) \/ Past(tenant.graceEnds)
        \/ \E i \in DOMAIN events :
             Restricting(i) /\ \A j \in i + 1 .. Len(events) : ~Settling(j)
OneLive == \A i, j \in DOMAIN grants : Live(grants[i]) /\ Live(grants[j]) => i = j
Subscribed == remote = IF tenant.sub = None THEN 0 ELSE 1
Storing == \E h \in Handlers : calls[h].pc = "store"
CalmRows ==
    HasReason /\ tenant.modules[1] = tenant.plan /\ OneLive /\ (~Storing => Subscribed)

TenInv ==
    /\ calls = [h \in Handlers |-> calls[h]] /\ calm \in BOOLEAN
    /\ RowTypes /\ OtherTypes /\ AtMostOne
    /\ \A h \in Handlers : TenCallOK(calls[h])
    /\ calm => CalmRows /\ \A h \in Handlers : CalmCallOK(calls[h])

LEMMA TenStarts == ASSUME CallsInit, TenantsInit PROVE TenInv
<1>1. /\ calls = [h \in Handlers |-> calls[h]] /\ calm = TRUE /\ \A h \in Handlers : calls[h] = Idle
  BY DEF CallsInit
<1>2. PICK p \in Plans :
         tenant = With([status |-> "TRIAL", trialEnds |-> 1, graceEnds |-> None,
                        renews |-> None, sub |-> None, plan |-> p, modules |-> None,
                        seats |-> None, rate |-> None], SnapshotFor(p, None, None))
  BY DEF TenantsInit
<1>3. PICK r : r = SnapshotFor(p, None, None)
  OBVIOUS
<1>4. /\ DOMAIN r = {"plan", "modules", "seats", "rate"} /\ r.plan = p /\ r.modules = <<p, catalog[p].modules>>
      /\ r.seats = catalog[p].seats /\ r.rate = catalog[p].price
  BY <1>3 DEF SnapshotFor
<1>5. catalog[p].seats \in Nat /\ catalog[p].price \in Nat
  BY TenantsAssumption DEF TenantsInit
<1>6. /\ tenant = [f \in Fields |-> tenant[f]] /\ tenant.status = "TRIAL" /\ tenant.trialEnds = 1
      /\ tenant.graceEnds = None /\ tenant.renews = None /\ tenant.sub = None
      /\ tenant.plan = r.plan /\ tenant.modules = r.modules /\ tenant.seats = r.seats /\ tenant.rate = r.rate
  BY <1>2, <1>3, <1>4 DEF With, Fields
<1>7. RowTypes /\ tenant.modules[1] = tenant.plan
  BY <1>4, <1>5, <1>6 DEF RowTypes, Statuses, Dates
<1>8. now = 0 /\ remote = 0 /\ events = <<>> /\ grants = <<>> /\ payments = [c \in Charges |-> 0]
      /\ catalog \in [Plans -> Definitions]
  BY DEF TenantsInit
<1>9. DOMAIN events = {} /\ DOMAIN grants = {}
  BY <1>8
<1>10. ChargeRecordedOnce
  BY <1>8, <1>9 DEF ChargeRecordedOnce
<1>11. OtherTypes
  BY <1>8, <1>10 DEF OtherTypes
<1>12. \A h \in Handlers : TenCallOK(calls[h]) /\ CalmCallOK(calls[h])
  BY <1>1 DEF TenCallOK, CalmCallOK, Idle
<1>13. AtMostOne /\ CalmRows
  BY <1>1, <1>6, <1>7, <1>8, <1>9 DEF AtMostOne, CalmRows, HasReason, OneLive, Subscribed
<1> QED BY <1>1, <1>7, <1>11, <1>12, <1>13 DEF TenInv

(* A call moves on: of the others only what they have read remains, unless  *)
(* there is none.                                                           *)
LEMMA TenMoves ==
  ASSUME TenInv, NEW h \in Handlers, NEW d, calls' = [calls EXCEPT ![h] = d],
         TenCallOK(d)', DOMAIN grants \subseteq DOMAIN grants',
         calm' => \A g \in Handlers \ {h} : calls[g] = Idle,
         calm' => CalmCallOK(d)'
  PROVE  /\ calls' = [g \in Handlers |-> calls'[g]] /\ AtMostOne'
         /\ \A g \in Handlers : calls'[g] = IF g = h THEN d ELSE calls[g]
         /\ \A g \in Handlers : TenCallOK(calls[g])'
         /\ calm' => \A g \in Handlers : CalmCallOK(calls[g])'
<1>1. calls' = [g \in Handlers |-> calls'[g]] /\ \A g \in Handlers : calls'[g] = IF g = h THEN d ELSE calls[g]
  BY DEF TenInv
<1>2. AtMostOne'
  BY <1>1 DEF AtMostOne
<1>3. ASSUME NEW g \in Handlers PROVE TenCallOK(calls[g])'
  <2>1. PICK c : c = calls[g]
    OBVIOUS
  <2>2. CASE g = h
    <3>1. calls'[g] = d
      BY <1>1, <2>2
    <3> QED BY <3>1 DEF TenCallOK
  <2>3. CASE g # h
    <3>1. calls'[g] = c /\ TenCallOK(c)
      BY <1>1, <2>1, <2>3 DEF TenInv
    <3> QED BY <3>1 DEF TenCallOK
  <2> QED BY <2>2, <2>3
<1>4. ASSUME calm', NEW g \in Handlers PROVE CalmCallOK(calls[g])'
  <2>2. CASE g = h
    <3>1. calls'[g] = d
      BY <1>1, <2>2
    <3> QED BY <1>4, <3>1 DEF CalmCallOK
  <2>3. CASE g # h
    <3>1. calls'[g] = Idle
      BY <1>1, <1>4, <2>3
    <3> QED BY <3>1 DEF CalmCallOK, Idle
  <2> QED BY <2>2, <2>3
<1> QED BY <1>1, <1>2, <1>3, <1>4

(* A call that begins with reads. *)
LEMMA TenReads ==
  ASSUME TenInv, NEW h \in Handlers, NEW d, Begin(h, d), UNCHANGED tenantVars,
         d.pc # "store", TenCallOK(d), calm /\ Quiet => CalmCallOK(d)
  PROVE  TenInv'
<1>1. /\ calls' = [calls EXCEPT ![h] = d]
      /\ calm' => calm /\ \A g \in Handlers : calls[g] = Idle
      /\ calm' = (calm /\ Quiet) /\ calls[h] = Idle
  BY BegunAlone
<1>2. UNCHANGED <<now, tenant, catalog, remote, events, payments, grants>>
  BY DEF tenantVars
<1>3. RowTypes' /\ OtherTypes'
  BY <1>2 DEF TenInv, RowTypes, OtherTypes, ChargeRecordedOnce
<1>4. TenCallOK(d)' /\ (calm' => CalmCallOK(d)')
  <2>1. TenCallOK(d)'
    BY <1>2 DEF TenCallOK
  <2>2. CalmCallOK(d) => CalmCallOK(d)'
    BY <1>2 DEF CalmCallOK, Past, Live
  <2> QED BY <1>1, <2>1, <2>2
<1>5. /\ calls' = [g \in Handlers |-> calls'[g]] /\ AtMostOne'
      /\ \A g \in Handlers : calls'[g] = IF g = h THEN d ELSE calls[g]
      /\ \A g \in Handlers : TenCallOK(calls[g])'
      /\ calm' => \A g \in Handlers : CalmCallOK(calls[g])'
  BY <1>1, <1>2, <1>4, TenMoves
<1>6. calm' => CalmRows'
  <2>1. calm' => ~Storing /\ CalmRows
    BY <1>1 DEF Storing, Idle, TenInv
  <2>2. HasReason => HasReason'
    BY <1>2 DEF HasReason, Past, Restricting, Settling
  <2>3. OneLive => OneLive'
    BY <1>2 DEF OneLive, Live
  <2> QED BY <1>2, <2>1, <2>2, <2>3 DEF CalmRows, Subscribed
<1> QED BY <1>1, <1>3, <1>5, <1>6 DEF TenInv

(* A call that writes and ends or goes on. *)
LEMMA TenWrites ==
  ASSUME TenInv, NEW h \in Handlers, calls[h] # Idle, NEW d, Continue(h, d),
         RowTypes', OtherTypes', DOMAIN grants \subseteq DOMAIN grants', TenCallOK(d)',
         calm => CalmCallOK(d)',
         calm => HasReason' /\ tenant'.modules[1] = tenant'.plan /\ OneLive',
         calm => d.pc = "store" \/ Subscribed'
  PROVE  TenInv'
<1>1. /\ calls' = [calls EXCEPT ![h] = d] /\ calm' = calm
      /\ calm' => \A g \in Handlers \ {h} : calls[g] = Idle
  BY GoneOnAlone DEF TenInv
<1>2. /\ calls' = [g \in Handlers |-> calls'[g]] /\ AtMostOne'
      /\ \A g \in Handlers : calls'[g] = IF g = h THEN d ELSE calls[g]
      /\ \A g \in Handlers : TenCallOK(calls[g])'
      /\ calm' => \A g \in Handlers : CalmCallOK(calls[g])'
  BY <1>1, TenMoves
<1>3. d.pc = "store" => Storing'
  BY <1>2 DEF Storing
<1>4. calm' => CalmRows'
  BY <1>1, <1>3 DEF CalmRows
<1>5. calm' \in BOOLEAN
  BY <1>1 DEF TenInv
<1> QED BY <1>2, <1>4, <1>5 DEF TenInv

LEMMA SetTrialEndReadStep == ASSUME TenInv, NEW h \in Handlers, SetTrialEndRead(h) PROVE TenInv'
<1>1. PICK d : d = [pc |-> "trialEnd", reopening |-> tenant.status = "READ_ONLY"]
  OBVIOUS
<1>2. Begin(h, d) /\ UNCHANGED tenantVars
  BY <1>1 DEF SetTrialEndRead
<1>3. TenCallOK(d) /\ CalmCallOK(d) /\ d.pc # "store"
  BY <1>1 DEF SetTrialEndRead, TenCallOK, CalmCallOK, Unsold, TenInv, RowTypes, Statuses
<1> QED BY <1>2, <1>3, TenReads

LEMMA ChangePlanReadStep == ASSUME TenInv, NEW h \in Handlers, ChangePlanRead(h) PROVE TenInv'
<1>1. PICK p \in Plans : Begin(h, [pc |-> "plan", to |-> p, convert |-> FALSE]) /\ UNCHANGED tenantVars
  BY DEF ChangePlanRead
<1>2. PICK d : d = [pc |-> "plan", to |-> p, convert |-> FALSE]
  OBVIOUS
<1>3. TenCallOK(d) /\ CalmCallOK(d) /\ d.pc # "store"
  BY <1>2 DEF TenCallOK, CalmCallOK
<1> QED BY <1>1, <1>2, <1>3, TenReads

LEMMA ConvertReadStep == ASSUME TenInv, NEW h \in Handlers, ConvertRead(h) PROVE TenInv'
<1>1. PICK p \in Plans :
         Begin(h, IF p = tenant.plan THEN [pc |-> "convert"] ELSE [pc |-> "plan", to |-> p, convert |-> TRUE])
  BY DEF ConvertRead
<1>2. PICK d : d = IF p = tenant.plan THEN [pc |-> "convert"] ELSE [pc |-> "plan", to |-> p, convert |-> TRUE]
  OBVIOUS
<1>3. Unsold(tenant.status) /\ UNCHANGED tenantVars
  BY DEF ConvertRead, Unsold, TenInv, RowTypes, Statuses
<1>4. CASE p = tenant.plan
  <2>1. d = [pc |-> "convert"]
    BY <1>2, <1>4
  <2>2. TenCallOK(d) /\ CalmCallOK(d) /\ d.pc # "store"
    BY <1>3, <2>1 DEF TenCallOK, CalmCallOK
  <2> QED BY <1>1, <1>2, <1>3, <2>2, TenReads
<1>5. CASE p # tenant.plan
  <2>1. d = [pc |-> "plan", to |-> p, convert |-> TRUE]
    BY <1>2, <1>5
  <2>2. TenCallOK(d) /\ CalmCallOK(d) /\ d.pc # "store"
    BY <1>3, <2>1 DEF TenCallOK, CalmCallOK
  <2> QED BY <1>1, <1>2, <1>3, <2>2, TenReads
<1> QED BY <1>4, <1>5

LEMMA RenewReadStep == ASSUME TenInv, NEW h \in Handlers, RenewRead(h) PROVE TenInv'
<1>1. PICK s : s = SnapshotFor(tenant.plan, tenant.seats, tenant.rate)
  OBVIOUS
<1>2. PICK d : d = [pc |-> "renew", change |-> s,
                    renews |-> (IF tenant.renews = None THEN now ELSE tenant.renews) + Year]
  OBVIOUS
<1>3. Begin(h, d) /\ UNCHANGED tenantVars
  BY <1>1, <1>2 DEF RenewRead
<1>4. tenant.seats # None /\ tenant.rate # None
  BY TenantsAssumption DEF TenInv, RowTypes
<1>5. /\ DOMAIN s = {"plan", "modules", "seats", "rate"}
      /\ s = [f \in {"plan", "modules", "seats", "rate"} |-> s[f]]
      /\ s.plan = tenant.plan /\ s.modules[1] = tenant.plan /\ s.seats = tenant.seats /\ s.rate = tenant.rate
  BY <1>1, <1>4 DEF SnapshotFor
<1>6. d.renews \in Nat
  <2>1. now \in Nat /\ Year \in Nat /\ (tenant.renews # None => tenant.renews \in Nat)
    BY TenantsAssumption DEF TenInv, RowTypes, OtherTypes, Dates
  <2> QED BY <1>2, <2>1
<1>7. TenCallOK(d) /\ CalmCallOK(d) /\ d.pc # "store"
  BY <1>2, <1>5, <1>6 DEF TenCallOK, CalmCallOK, TenInv, RowTypes
<1> QED BY <1>3, <1>7, TenReads

LEMMA AdjustReadStep == ASSUME TenInv, NEW h \in Handlers, AdjustRead(h) PROVE TenInv'
<1>1. PICK rate \in Rates \cup {tenant.rate}, seats \in SeatCounts \cup {tenant.seats} :
         Begin(h, [pc |-> "price", rate |-> rate, seats |-> seats]) /\ UNCHANGED tenantVars
  BY DEF AdjustRead
<1>2. PICK d : d = [pc |-> "price", rate |-> rate, seats |-> seats]
  OBVIOUS
<1>3. TenCallOK(d) /\ CalmCallOK(d) /\ d.pc # "store"
  BY <1>2, TenantsAssumption DEF TenCallOK, CalmCallOK, TenInv, RowTypes
<1> QED BY <1>1, <1>2, <1>3, TenReads

LEMMA RestrictReadStep ==
  ASSUME TenInv, NEW h \in Handlers, ExpireTrialsRead(h) \/ EnforceGraceRead(h)
  PROVE  TenInv'
<1>1. PICK d : d = [pc |-> "restrict"]
  OBVIOUS
<1>2. Begin(h, d) /\ UNCHANGED tenantVars
  BY <1>1 DEF ExpireTrialsRead, EnforceGraceRead
<1>3. TenCallOK(d) /\ CalmCallOK(d) /\ d.pc # "store"
  BY <1>1 DEF ExpireTrialsRead, EnforceGraceRead, TenCallOK, CalmCallOK
<1> QED BY <1>2, <1>3, TenReads

LEMMA SubscribeReadStep == ASSUME TenInv, NEW h \in Handlers, SubscribeRead(h) PROVE TenInv'
<1>1. PICK d : d = [pc |-> "subscribe"]
  OBVIOUS
<1>2. Begin(h, d) /\ UNCHANGED tenantVars /\ tenant.sub = None
  BY <1>1 DEF SubscribeRead
<1>3. calm /\ Quiet => remote = 0
  BY <1>2 DEF TenInv, CalmRows, Storing, Subscribed, Quiet, Running, Idle
<1>4. TenCallOK(d) /\ (calm /\ Quiet => CalmCallOK(d)) /\ d.pc # "store"
  BY <1>1, <1>2, <1>3 DEF TenCallOK, CalmCallOK
<1> QED BY <1>2, <1>4, TenReads

LEMMA WebhookReadStep ==
  ASSUME TenInv, NEW h \in Handlers, NEW event \in Good \cup Bad, WebhookRead(h, event)
  PROVE  TenInv'
<1>1. PICK d : d = [pc |-> "webhook", event |-> event,
                    seen |-> [status |-> tenant.status, graceEnds |-> tenant.graceEnds]]
  OBVIOUS
<1>2. Begin(h, d) /\ UNCHANGED tenantVars
  BY <1>1 DEF WebhookRead
<1>3. TenCallOK(d) /\ CalmCallOK(d) /\ d.pc # "store"
  BY <1>1 DEF TenCallOK, CalmCallOK
<1> QED BY <1>2, <1>3, TenReads

LEMMA RequestReadStep == ASSUME TenInv, NEW h \in Handlers, RequestRead(h) PROVE TenInv'
<1>1. PICK d : d = [pc |-> "grant"]
  OBVIOUS
<1>2. Begin(h, d) /\ UNCHANGED tenantVars
  BY <1>1 DEF RequestRead
<1>3. TenCallOK(d) /\ CalmCallOK(d) /\ d.pc # "store"
  BY <1>1 DEF RequestRead, TenCallOK, CalmCallOK
<1> QED BY <1>2, <1>3, TenReads

LEMMA CloseReadStep ==
  ASSUME TenInv, NEW h \in Handlers, RevokeRead(h) \/ ExpireGrantsRead(h)
  PROVE  TenInv'
<1>1. PICK i \in DOMAIN grants, as \in {"REVOKED", "EXPIRED"} :
         /\ grants[i].status = "ACTIVE" /\ Begin(h, [pc |-> "close", grant |-> i, as |-> as])
         /\ UNCHANGED tenantVars
  BY DEF RevokeRead, ExpireGrantsRead
<1>2. PICK d : d = [pc |-> "close", grant |-> i, as |-> as]
  OBVIOUS
<1>3. TenCallOK(d) /\ CalmCallOK(d) /\ d.pc # "store"
  BY <1>1, <1>2 DEF TenCallOK, CalmCallOK
<1> QED BY <1>1, <1>2, <1>3, TenReads

LEMMA Updated ==
  ASSUME RowTypes, NEW change, Update(change)
  PROVE  tenant' = [f \in Fields |-> IF f \in DOMAIN change THEN change[f] ELSE tenant[f]]
<1>1. DOMAIN tenant = Fields
  BY DEF RowTypes
<1> QED BY <1>1 DEF Update, With

(* Only the tenant's row changes; and when its status and dates do not, the *)
(* reason stays.                                                            *)
LEMMA RowWritten ==
  ASSUME TenInv, OnlyTenant
  PROVE  /\ OtherTypes' /\ (OneLive => OneLive')
         /\ tenant'.status = tenant.status /\ tenant'.trialEnds = tenant.trialEnds
            /\ tenant'.graceEnds = tenant.graceEnds => (HasReason => HasReason')
         /\ tenant'.sub = tenant.sub => (Subscribed => Subscribed')
         /\ tenant'.status # "READ_ONLY" => HasReason'
<1>1. UNCHANGED <<now, catalog, remote, events, payments, grants>>
  BY DEF OnlyTenant, billingVars
<1>2. OtherTypes'
  BY <1>1 DEF TenInv, OtherTypes, ChargeRecordedOnce
<1>3. OneLive => OneLive'
  BY <1>1 DEF OneLive, Live
<1>4. tenant'.status = tenant.status /\ tenant'.trialEnds = tenant.trialEnds
            /\ tenant'.graceEnds = tenant.graceEnds => (HasReason => HasReason')
  BY <1>1 DEF HasReason, Past, Restricting, Settling
<1>5. tenant'.sub = tenant.sub => (Subscribed => Subscribed')
  BY <1>1 DEF Subscribed
<1>6. tenant'.status # "READ_ONLY" => HasReason'
  BY DEF HasReason
<1> QED BY <1>2, <1>3, <1>4, <1>5, <1>6

(* A write to the row that ends its call. *)
LEMMA RowEnds ==
  ASSUME TenInv, NEW h \in Handlers, calls[h] # Idle, calls[h].pc # "store", Finish(h), OnlyTenant, RowTypes',
         tenant'.sub = tenant.sub, calm => HasReason' /\ tenant'.modules[1] = tenant'.plan
  PROVE  TenInv'
<1>1. OtherTypes' /\ (OneLive => OneLive') /\ (Subscribed => Subscribed')
  BY RowWritten
<1>2. DOMAIN grants \subseteq DOMAIN grants'
  BY DEF OnlyTenant
<1>3. TenCallOK(Idle)' /\ CalmCallOK(Idle)'
  BY DEF TenCallOK, CalmCallOK, Idle
<1>4. calm => OneLive' /\ Subscribed'
  <2>1. calm => ~Storing
    BY DEF Storing, TenInv, AtMostOne, Idle
  <2> QED BY <1>1, <2>1 DEF TenInv, CalmRows
<1> QED BY <1>1, <1>2, <1>3, <1>4, TenWrites DEF Finish

LEMMA SetTrialEndStep == ASSUME TenInv, NEW h \in Handlers, SetTrialEndWrite(h) PROVE TenInv'
<1>0. PICK c : c = calls[h]
  OBVIOUS
<1>1. PICK date \in now + 1 .. LastTick + 1 :
         Update(IF c.reopening THEN [trialEnds |-> date, status |-> "TRIAL"] ELSE [trialEnds |-> date])
  BY <1>0 DEF SetTrialEndWrite
<1>2. c.pc = "trialEnd" /\ Finish(h) /\ OnlyTenant /\ c # Idle /\ (calm => CalmCallOK(c) /\ CalmRows)
  BY <1>0 DEF SetTrialEndWrite, Idle, TenInv
<1>3. date \in Nat
  BY TenantsAssumption DEF TenInv, OtherTypes
<1>4. /\ tenant' = [f \in Fields |-> tenant'[f]] /\ tenant'.trialEnds = date
      /\ tenant'.status = (IF c.reopening THEN "TRIAL" ELSE tenant.status)
      /\ tenant'.graceEnds = tenant.graceEnds /\ tenant'.renews = tenant.renews /\ tenant'.sub = tenant.sub
      /\ tenant'.plan = tenant.plan /\ tenant'.modules = tenant.modules
      /\ tenant'.seats = tenant.seats /\ tenant'.rate = tenant.rate
  <2>1. CASE c.reopening
    <3>1. Update([trialEnds |-> date, status |-> "TRIAL"])
      BY <1>1, <2>1
    <3> QED BY <2>1, <3>1, Updated DEF Fields, TenInv
  <2>2. CASE ~c.reopening
    <3>1. Update([trialEnds |-> date])
      BY <1>1, <2>2
    <3> QED BY <2>2, <3>1, Updated DEF Fields, TenInv
  <2> QED BY <2>1, <2>2
<1>5. RowTypes'
  BY <1>3, <1>4 DEF TenInv, RowTypes, Statuses, Dates
<1>6. calm => tenant'.status # "READ_ONLY"
  BY <1>2, <1>4 DEF CalmCallOK
<1>7. calm => HasReason' /\ tenant'.modules[1] = tenant'.plan
  BY <1>2, <1>4, <1>6, RowWritten DEF CalmRows
<1> QED BY <1>0, <1>2, <1>4, <1>5, <1>7, RowEnds

(* The plan's snapshot, or a part of the terms, is written. *)
LEMMA TermsWritten ==
  ASSUME TenInv, NEW r, DOMAIN r \subseteq {"plan", "modules", "seats", "rate", "renews"}, OnlyTenant,
         tenant' = [f \in Fields |-> IF f \in DOMAIN r THEN r[f] ELSE tenant[f]],
         "plan" \in DOMAIN r => r.plan \in Plans, "seats" \in DOMAIN r => r.seats \in Nat,
         "rate" \in DOMAIN r => r.rate \in Nat, "renews" \in DOMAIN r => r.renews \in Nat
  PROVE  /\ RowTypes' /\ (HasReason => HasReason')
         /\ tenant'.sub = tenant.sub /\ tenant'.status = tenant.status
         /\ tenant'.trialEnds = tenant.trialEnds /\ tenant'.graceEnds = tenant.graceEnds
         /\ tenant'.plan = IF "plan" \in DOMAIN r THEN r.plan ELSE tenant.plan
         /\ tenant'.modules = IF "modules" \in DOMAIN r THEN r.modules ELSE tenant.modules
         /\ tenant'.seats = IF "seats" \in DOMAIN r THEN r.seats ELSE tenant.seats
         /\ tenant'.rate = IF "rate" \in DOMAIN r THEN r.rate ELSE tenant.rate
<1>1. /\ tenant'.sub = tenant.sub /\ tenant'.status = tenant.status
      /\ tenant'.trialEnds = tenant.trialEnds /\ tenant'.graceEnds = tenant.graceEnds
      /\ tenant'.plan = (IF "plan" \in DOMAIN r THEN r.plan ELSE tenant.plan)
      /\ tenant'.modules = (IF "modules" \in DOMAIN r THEN r.modules ELSE tenant.modules)
      /\ tenant'.seats = (IF "seats" \in DOMAIN r THEN r.seats ELSE tenant.seats)
      /\ tenant'.rate = (IF "rate" \in DOMAIN r THEN r.rate ELSE tenant.rate)
      /\ tenant'.renews = (IF "renews" \in DOMAIN r THEN r.renews ELSE tenant.renews)
      /\ tenant' = [f \in Fields |-> tenant'[f]]
  BY DEF Fields
<1>2. RowTypes'
  BY <1>1 DEF TenInv, RowTypes, Dates
<1>3. HasReason => HasReason'
  BY <1>1, RowWritten
<1> QED BY <1>1, <1>2, <1>3

LEMMA ChangePlanStep == ASSUME TenInv, NEW h \in Handlers, ChangePlanWrite(h) PROVE TenInv'
<1>0. PICK c : c = calls[h]
  OBVIOUS
<1>1. PICK r : r = SnapshotFor(c.to, None, None)
  OBVIOUS
<1>2. /\ c.pc = "plan" /\ Update(r) /\ OnlyTenant /\ c # Idle /\ (calm => CalmCallOK(c) /\ CalmRows)
      /\ c.to \in Plans /\ c.convert \in BOOLEAN
      /\ Continue(h, IF c.convert THEN [pc |-> "convert"] ELSE Idle)
  <2>1. c.pc = "plan" /\ Update(r) /\ OnlyTenant
    BY <1>0, <1>1 DEF ChangePlanWrite
  <2>2. c # Idle /\ (calm => CalmCallOK(c) /\ CalmRows) /\ TenCallOK(c)
    BY <1>0, <2>1 DEF Idle, TenInv
  <2>3. Continue(h, IF c.convert THEN [pc |-> "convert"] ELSE Idle)
    BY <1>0 DEF ChangePlanWrite, Finish
  <2> QED BY <2>1, <2>2, <2>3 DEF TenCallOK
<1>3. /\ DOMAIN r = {"plan", "modules", "seats", "rate"} /\ r.plan = c.to /\ r.modules[1] = c.to
      /\ r.seats \in Nat /\ r.rate \in Nat
  <2>1. catalog[c.to].seats \in Nat /\ catalog[c.to].price \in Nat
    BY <1>2, TenantsAssumption DEF TenInv, OtherTypes
  <2> QED BY <1>1, <2>1 DEF SnapshotFor
<1>4. tenant' = [f \in Fields |-> IF f \in DOMAIN r THEN r[f] ELSE tenant[f]]
  BY <1>2, Updated DEF TenInv
<1>5. /\ RowTypes' /\ (HasReason => HasReason') /\ tenant'.sub = tenant.sub /\ tenant'.status = tenant.status
      /\ tenant'.modules[1] = tenant'.plan
  BY <1>2, <1>3, <1>4, TermsWritten
<1>6. OtherTypes' /\ (OneLive => OneLive') /\ (Subscribed => Subscribed')
  BY <1>2, <1>5, RowWritten
<1>7. PICK d : d = IF c.convert THEN [pc |-> "convert"] ELSE Idle
  OBVIOUS
<1>8. TenCallOK(d)' /\ d.pc # "store" /\ (calm => CalmCallOK(d)')
  <2>1. CASE c.convert
    <3>1. d = [pc |-> "convert"]
      BY <1>7, <2>1
    <3>2. calm => Unsold(tenant'.status)
      BY <1>2, <1>5, <2>1 DEF CalmCallOK
    <3> QED BY <3>1, <3>2 DEF TenCallOK, CalmCallOK
  <2>2. CASE ~c.convert
    <3>1. d = Idle
      BY <1>7, <2>2
    <3> QED BY <3>1 DEF TenCallOK, CalmCallOK, Idle
  <2> QED BY <2>1, <2>2
<1>9. DOMAIN grants \subseteq DOMAIN grants'
  BY <1>2 DEF OnlyTenant
<1>10. calm => HasReason' /\ OneLive' /\ Subscribed'
  <2>1. calm => ~Storing
    BY <1>0, <1>2 DEF Storing, TenInv, AtMostOne, Idle
  <2> QED BY <1>2, <1>5, <1>6, <2>1 DEF CalmRows
<1>11. Continue(h, d)
  BY <1>2, <1>7
<1> QED BY <1>0, <1>2, <1>5, <1>6, <1>8, <1>9, <1>10, <1>11, TenWrites

LEMMA ConvertStep == ASSUME TenInv, NEW h \in Handlers, ConvertWrite(h) PROVE TenInv'
<1>0. PICK c : c = calls[h]
  OBVIOUS
<1>1. /\ c.pc = "convert" /\ Finish(h) /\ OnlyTenant /\ c # Idle /\ (calm => CalmRows)
      /\ Update([status |-> "ACTIVE", trialEnds |-> None, renews |-> now + Year])
  BY <1>0 DEF ConvertWrite, Idle, TenInv
<1>2. now + Year \in Nat
  BY TenantsAssumption DEF TenInv, OtherTypes
<1>3. /\ tenant' = [f \in Fields |-> tenant'[f]] /\ tenant'.trialEnds = None /\ tenant'.status = "ACTIVE"
      /\ tenant'.graceEnds = tenant.graceEnds /\ tenant'.renews = now + Year /\ tenant'.sub = tenant.sub
      /\ tenant'.plan = tenant.plan /\ tenant'.modules = tenant.modules
      /\ tenant'.seats = tenant.seats /\ tenant'.rate = tenant.rate
  BY <1>1, Updated DEF Fields, TenInv
<1>4. RowTypes'
  BY <1>2, <1>3 DEF TenInv, RowTypes, Statuses, Dates
<1>5. calm => HasReason' /\ tenant'.modules[1] = tenant'.plan
  BY <1>1, <1>3, RowWritten DEF CalmRows
<1> QED BY <1>0, <1>1, <1>3, <1>4, <1>5, RowEnds

LEMMA RenewStep ==
  ASSUME TenInv, NEW h \in Handlers, RenewWrite(h)
  PROVE  TenInv' /\ (calm => tenant'.rate = tenant.rate /\ tenant'.seats = tenant.seats)
<1>0. PICK c : c = calls[h]
  OBVIOUS
<1>1. /\ c.pc = "renew" /\ Finish(h) /\ OnlyTenant
      /\ tenant' = With(With(tenant, [c.change EXCEPT !.plan = tenant.plan]), [renews |-> c.renews])
  BY <1>0 DEF RenewWrite
<1>2. c # Idle /\ (calm => CalmRows /\ CalmCallOK(c)) /\ TenCallOK(c)
  BY <1>0, <1>1 DEF Idle, TenInv
<1>3. PICK s : s = [c.change EXCEPT !.plan = tenant.plan]
  OBVIOUS
<1>4. /\ DOMAIN s = {"plan", "modules", "seats", "rate"} /\ s.plan = tenant.plan /\ s.modules = c.change.modules
      /\ s.seats = c.change.seats /\ s.rate = c.change.rate /\ s.seats \in Nat /\ s.rate \in Nat /\ c.renews \in Nat
  BY <1>1, <1>2, <1>3 DEF TenCallOK
<1>5. PICK t : t = With(tenant, s)
  OBVIOUS
<1>6. t = [f \in Fields |-> IF f \in DOMAIN s THEN s[f] ELSE tenant[f]]
  <2>1. DOMAIN tenant = Fields
    BY DEF TenInv, RowTypes
  <2> QED BY <1>5, <2>1 DEF With
<1>7. tenant' = [f \in Fields |-> IF f = "renews" THEN c.renews ELSE t[f]]
  <2>1. DOMAIN t = Fields
    BY <1>6
  <2>2. tenant' = With(t, [renews |-> c.renews])
    BY <1>1, <1>3, <1>5
  <2> QED BY <2>1, <2>2 DEF With
<1>8. PICK r : r = [f \in {"plan", "modules", "seats", "rate", "renews"} |-> IF f = "renews" THEN c.renews ELSE s[f]]
  OBVIOUS
<1>9. /\ DOMAIN r = {"plan", "modules", "seats", "rate", "renews"} /\ r.plan = tenant.plan
      /\ r.modules = c.change.modules /\ r.seats = c.change.seats /\ r.rate = c.change.rate /\ r.renews = c.renews
  BY <1>4, <1>8
<1>10. tenant' = [f \in Fields |-> IF f \in DOMAIN r THEN r[f] ELSE tenant[f]]
  <2>1. ASSUME NEW f \in Fields
        PROVE  (IF f = "renews" THEN c.renews ELSE t[f]) = (IF f \in DOMAIN r THEN r[f] ELSE tenant[f])
    BY <1>4, <1>6, <1>8 DEF Fields
  <2> QED BY <1>7, <2>1
<1>11. tenant.plan \in Plans
  BY DEF TenInv, RowTypes
<1>12. /\ RowTypes' /\ (HasReason => HasReason') /\ tenant'.sub = tenant.sub
       /\ tenant'.plan = tenant.plan /\ tenant'.modules = c.change.modules
       /\ tenant'.seats = c.change.seats /\ tenant'.rate = c.change.rate
  BY <1>1, <1>4, <1>9, <1>10, <1>11, TermsWritten
<1>13. calm => HasReason' /\ tenant'.modules[1] = tenant'.plan
  BY <1>1, <1>2, <1>12 DEF CalmRows, CalmCallOK
<1>14. TenInv'
  BY <1>0, <1>1, <1>2, <1>12, <1>13, RowEnds
<1>15. calm => tenant'.rate = tenant.rate /\ tenant'.seats = tenant.seats
  BY <1>1, <1>2, <1>12 DEF CalmCallOK
<1> QED BY <1>14, <1>15

LEMMA AdjustStep == ASSUME TenInv, NEW h \in Handlers, AdjustWrite(h) PROVE TenInv'
<1>0. PICK c : c = calls[h]
  OBVIOUS
<1>1. PICK r : r = [rate |-> c.rate, seats |-> c.seats]
  OBVIOUS
<1>2. c.pc = "price" /\ Finish(h) /\ OnlyTenant /\ Update(r)
  BY <1>0, <1>1 DEF AdjustWrite
<1>3. c # Idle /\ (calm => CalmRows) /\ TenCallOK(c)
  BY <1>0, <1>2 DEF Idle, TenInv
<1>4. DOMAIN r = {"rate", "seats"} /\ r.rate \in Nat /\ r.seats \in Nat
  BY <1>1, <1>2, <1>3 DEF TenCallOK
<1>5. tenant' = [f \in Fields |-> IF f \in DOMAIN r THEN r[f] ELSE tenant[f]]
  BY <1>2, Updated DEF TenInv
<1>6. /\ RowTypes' /\ (HasReason => HasReason') /\ tenant'.sub = tenant.sub
      /\ tenant'.plan = tenant.plan /\ tenant'.modules = tenant.modules
  BY <1>2, <1>4, <1>5, TermsWritten
<1>7. calm => HasReason' /\ tenant'.modules[1] = tenant'.plan
  BY <1>3, <1>6 DEF CalmRows
<1> QED BY <1>0, <1>2, <1>3, <1>6, <1>7, RowEnds

LEMMA RestrictStep == ASSUME TenInv, NEW h \in Handlers, RestrictWrite(h) PROVE TenInv'
<1>0. PICK c : c = calls[h]
  OBVIOUS
<1>1. c.pc = "restrict" /\ Finish(h) /\ OnlyTenant /\ Update([status |-> "READ_ONLY"])
  BY <1>0 DEF RestrictWrite
<1>2. c # Idle /\ (calm => CalmRows /\ CalmCallOK(c))
  BY <1>0, <1>1 DEF Idle, TenInv
<1>3. /\ tenant' = [f \in Fields |-> tenant'[f]] /\ tenant'.status = "READ_ONLY"
      /\ \A f \in Fields : f # "status" => tenant'[f] = tenant[f]
  BY <1>1, Updated DEF Fields, TenInv
<1>4. /\ tenant'.graceEnds = tenant.graceEnds /\ tenant'.renews = tenant.renews /\ tenant'.sub = tenant.sub
      /\ tenant'.plan = tenant.plan /\ tenant'.modules = tenant.modules
      /\ tenant'.seats = tenant.seats /\ tenant'.rate = tenant.rate /\ tenant'.trialEnds = tenant.trialEnds
  BY <1>3 DEF Fields
<1>5. RowTypes'
  BY <1>3, <1>4 DEF TenInv, RowTypes, Statuses
<1>6. calm => HasReason' /\ tenant'.modules[1] = tenant'.plan
  BY <1>1, <1>2, <1>4 DEF CalmRows, CalmCallOK, HasReason, Past, OnlyTenant
<1> QED BY <1>0, <1>1, <1>2, <1>4, <1>5, <1>6, RowEnds

LEMMA SubscribeCreateStep == ASSUME TenInv, NEW h \in Handlers, SubscribeCreate(h) PROVE TenInv'
<1>1. PICK d : d = [pc |-> "store", sub |-> remote + 1]
  OBVIOUS
<1>2. /\ calls[h].pc = "subscribe" /\ Continue(h, d) /\ remote' = remote + 1 /\ calls[h] # Idle
      /\ UNCHANGED <<now, tenant, catalog, events, payments, grants>>
  BY <1>1 DEF SubscribeCreate, Idle
<1>3. RowTypes' /\ OtherTypes'
  BY <1>2 DEF TenInv, RowTypes, OtherTypes, ChargeRecordedOnce
<1>4. TenCallOK(d)' /\ (calm => CalmCallOK(d)')
  <2>1. calm => tenant.sub = None /\ remote = 0
    BY <1>2 DEF TenInv, CalmCallOK
  <2>2. d.pc = "store" /\ d.sub = remote + 1 /\ d.sub \in Nat
    BY <1>1 DEF TenInv, OtherTypes
  <2> QED BY <1>2, <2>1, <2>2 DEF TenCallOK, CalmCallOK
<1>5. calm => HasReason' /\ tenant'.modules[1] = tenant'.plan /\ OneLive'
  BY <1>2 DEF TenInv, CalmRows, HasReason, Past, Restricting, Settling, OneLive, Live
<1>6. d.pc = "store" /\ DOMAIN grants \subseteq DOMAIN grants'
  BY <1>1, <1>2
<1> QED BY <1>2, <1>3, <1>4, <1>5, <1>6, TenWrites

LEMMA SubscribeStoreStep == ASSUME TenInv, NEW h \in Handlers, SubscribeStore(h) PROVE TenInv'
<1>0. PICK c : c = calls[h]
  OBVIOUS
<1>1. c.pc = "store" /\ Finish(h) /\ OnlyTenant /\ Update([sub |-> c.sub])
  BY <1>0 DEF SubscribeStore
<1>2. c # Idle /\ (calm => CalmRows /\ CalmCallOK(c)) /\ c.sub \in Nat
  <2>1. c # Idle /\ (calm => CalmRows /\ CalmCallOK(c)) /\ TenCallOK(c)
    BY <1>0, <1>1 DEF Idle, TenInv
  <2> QED BY <1>1, <2>1 DEF TenCallOK
<1>3. /\ tenant' = [f \in Fields |-> tenant'[f]] /\ tenant'.sub = c.sub
      /\ \A f \in Fields : f # "sub" => tenant'[f] = tenant[f]
  BY <1>1, Updated DEF Fields, TenInv
<1>4. /\ tenant'.graceEnds = tenant.graceEnds /\ tenant'.renews = tenant.renews /\ tenant'.status = tenant.status
      /\ tenant'.plan = tenant.plan /\ tenant'.modules = tenant.modules
      /\ tenant'.seats = tenant.seats /\ tenant'.rate = tenant.rate /\ tenant'.trialEnds = tenant.trialEnds
  BY <1>3 DEF Fields
<1>5. RowTypes'
  BY <1>2, <1>3, <1>4 DEF TenInv, RowTypes, Dates
<1>6. OtherTypes' /\ (OneLive => OneLive') /\ (HasReason => HasReason')
  BY <1>1, <1>4, RowWritten
<1>7. calm => Subscribed'
  <2>1. remote' = remote
    BY <1>1 DEF OnlyTenant, billingVars
  <2> QED BY <1>1, <1>2, <1>3, <2>1, TenantsAssumption DEF CalmCallOK, Subscribed
<1>8. calm => HasReason' /\ tenant'.modules[1] = tenant'.plan /\ OneLive'
  BY <1>2, <1>4, <1>6 DEF CalmRows
<1>9. TenCallOK(Idle)' /\ CalmCallOK(Idle)' /\ DOMAIN grants \subseteq DOMAIN grants'
  BY <1>1 DEF TenCallOK, CalmCallOK, Idle, OnlyTenant
<1> QED BY <1>0, <1>1, <1>2, <1>5, <1>6, <1>7, <1>8, <1>9, TenWrites DEF Finish

(* What an event writes, by its type. *)
LEMMA EventWritten ==
  ASSUME TenInv, NEW e \in Good \cup Bad, NEW seen, Update(EventEffect(e.type, seen))
  PROVE  /\ tenant' = [f \in Fields |-> tenant'[f]]
         /\ tenant'.sub = tenant.sub /\ tenant'.plan = tenant.plan /\ tenant'.modules = tenant.modules
         /\ tenant'.seats = tenant.seats /\ tenant'.rate = tenant.rate
         /\ e.type \in {"activated", "charged"} =>
              /\ tenant'.trialEnds = None /\ tenant'.graceEnds = None /\ tenant'.renews = now + 1
              /\ tenant'.status = IF CanReactivate(seen.status) THEN "ACTIVE" ELSE tenant.status
         /\ e.type \notin {"activated", "charged"} =>
              /\ tenant'.trialEnds = tenant.trialEnds /\ tenant'.renews = tenant.renews
              /\ tenant'.graceEnds = IF e.type = "pending" /\ seen.graceEnds = None
                                     THEN now + 1 ELSE tenant.graceEnds
              /\ tenant'.status = IF e.type \in {"halted", "cancelled"} /\ CanRestrict(seen.status)
                                  THEN "READ_ONLY" ELSE tenant.status
<1>1. e.type \in {"activated", "charged", "pending", "halted", "cancelled", "other"}
  BY DEF Good, Bad
<1>2. PICK r : r = EventEffect(e.type, seen)
  OBVIOUS
<1>3. tenant' = [f \in Fields |-> IF f \in DOMAIN r THEN r[f] ELSE tenant[f]]
  BY <1>2, Updated DEF TenInv
<1>4. tenant' = [f \in Fields |-> tenant'[f]]
  BY <1>3
<1>5. CASE e.type \in {"activated", "charged"}
  <2>1. r = [trialEnds |-> None, graceEnds |-> None, renews |-> now + 1,
             status |-> IF CanReactivate(seen.status) THEN "ACTIVE" ELSE tenant.status]
    BY <1>2, <1>5 DEF EventEffect
  <2> QED BY <1>3, <1>4, <1>5, <2>1 DEF Fields
<1>6. CASE e.type = "pending"
  <2>1. r = [graceEnds |-> IF seen.graceEnds = None THEN now + 1 ELSE tenant.graceEnds]
    BY <1>2, <1>6 DEF EventEffect
  <2> QED BY <1>3, <1>4, <1>6, <2>1 DEF Fields
<1>7. CASE e.type \in {"halted", "cancelled"}
  <2>1. r = [status |-> IF CanRestrict(seen.status) THEN "READ_ONLY" ELSE tenant.status]
    BY <1>2, <1>7 DEF EventEffect
  <2> QED BY <1>3, <1>4, <1>7, <2>1 DEF Fields
<1>8. CASE e.type = "other"
  <2>1. DOMAIN r = {}
    BY <1>2, <1>8 DEF EventEffect
  <2> QED BY <1>3, <1>4, <1>8, <2>1 DEF Fields
<1> QED BY <1>1, <1>5, <1>6, <1>7, <1>8

(* One payment row per charge, also when the next event is entered. *)
LEMMA ChargeEntered ==
  ASSUME OtherTypes, NEW e \in Good \cup Bad, ~Recorded(e), events' = Append(events, e),
         payments' = IF e.type = "charged" THEN [payments EXCEPT ![e.id] = @ + 1] ELSE payments
  PROVE  /\ events' \in Seq(Good \cup Bad) /\ payments' \in [Charges -> Nat] /\ ChargeRecordedOnce'
         /\ DOMAIN events' = DOMAIN events \cup {Len(events) + 1} /\ Len(events') = Len(events) + 1
         /\ events'[Len(events) + 1] = e /\ \A i \in DOMAIN events : events'[i] = events[i]
<1>1. /\ events' \in Seq(Good \cup Bad)
      /\ DOMAIN events' = DOMAIN events \cup {Len(events) + 1} /\ Len(events') = Len(events) + 1
      /\ events'[Len(events) + 1] = e /\ \A i \in DOMAIN events : events'[i] = events[i]
  BY DEF OtherTypes
<1>2. e.type = "charged" => e.id \in Charges /\ e = [type |-> "charged", id |-> e.id]
  BY DEF Good, Bad
<1>3. payments' \in [Charges -> Nat]
  BY <1>2 DEF OtherTypes
<1>4. ASSUME NEW x \in Charges
      PROVE  payments'[x] = IF \E i \in DOMAIN events' : events'[i] = [type |-> "charged", id |-> x]
                            THEN 1 ELSE 0
  <2>1. PICK w : w = [type |-> "charged", id |-> x]
    OBVIOUS
  <2>2. w.type = "charged" /\ w.id = x
    BY <2>1
  <2>3. payments[x] = IF \E i \in DOMAIN events : events[i] = w THEN 1 ELSE 0
    BY <2>1 DEF OtherTypes, ChargeRecordedOnce
  <2>4. (\E i \in DOMAIN events' : events'[i] = w) <=> e = w \/ \E i \in DOMAIN events : events[i] = w
    BY <1>1
  <2>5. CASE e = w
    <3>1. ~\E i \in DOMAIN events : events[i] = w
      BY <2>5 DEF Recorded
    <3>2. payments'[x] = payments[x] + 1
      BY <2>2, <2>5 DEF OtherTypes
    <3> QED BY <2>1, <2>3, <2>4, <2>5, <3>1, <3>2
  <2>6. CASE e # w
    <3>1. payments'[x] = payments[x]
      BY <1>2, <2>1, <2>6 DEF OtherTypes
    <3> QED BY <2>1, <2>3, <2>4, <2>6, <3>1
  <2> QED BY <2>5, <2>6
<1> QED BY <1>1, <1>3, <1>4 DEF ChargeRecordedOnce

(* An event that is entered gives or keeps the reason, read status and all. *)
LEMMA ReasonEntered ==
  ASSUME TenInv, NEW e \in Good \cup Bad, NEW seen, Update(EventEffect(e.type, seen)),
         events \in Seq(Good \cup Bad), events' = Append(events, e), now' = now, HasReason,
         seen.status = tenant.status, seen.graceEnds = tenant.graceEnds
  PROVE  HasReason'
<1>1. /\ Len(events') = Len(events) + 1 /\ DOMAIN events' = 1..Len(events)+1 /\ DOMAIN events = 1..Len(events)
      /\ Len(events) \in Nat
      /\ events'[Len(events) + 1] = e /\ \A i \in DOMAIN events : events'[i] = events[i]
  OBVIOUS
<1>2. CASE e.type \in {"activated", "charged"}
  BY <1>2, EventWritten DEF HasReason, CanReactivate
<1>3. CASE e.type \in {"halted", "cancelled"}
  <2>0. PICK n : n = Len(events) + 1
    OBVIOUS
  <2>1. Restricting(n)' /\ n \in DOMAIN events'
    BY <1>1, <1>3, <2>0 DEF Restricting
  <2>2. \A j \in n + 1 .. Len(events') : FALSE
    BY <1>1, <2>0
  <2> QED BY <2>1, <2>2 DEF HasReason
<1>4. CASE e.type \notin {"activated", "charged", "halted", "cancelled"}
  <2>1. /\ tenant'.status = tenant.status /\ tenant'.trialEnds = tenant.trialEnds
        /\ tenant.graceEnds # None => tenant'.graceEnds = tenant.graceEnds
    BY <1>4, EventWritten
  <2>2. ASSUME NEW i \in DOMAIN events, Restricting(i), \A j \in i + 1 .. Len(events) : ~Settling(j)
        PROVE  i \in DOMAIN events' /\ Restricting(i)' /\ \A j \in i + 1 .. Len(events') : ~Settling(j)'
    <3>1. i \in DOMAIN events' /\ Restricting(i)'
      BY <1>1, <2>2 DEF Restricting
    <3>2. ASSUME NEW j \in i + 1 .. Len(events') PROVE ~Settling(j)'
      <4>1. CASE j = Len(events) + 1
        BY <1>1, <1>4, <4>1 DEF Settling
      <4>2. CASE j # Len(events) + 1
        <5>1. j \in i + 1 .. Len(events) /\ j \in DOMAIN events
          BY <1>1, <4>2
        <5> QED BY <1>1, <2>2, <5>1 DEF Settling
      <4> QED BY <4>1, <4>2
    <3> QED BY <3>1, <3>2
  <2>3. (Past(tenant.trialEnds) => Past(tenant.trialEnds)') /\ (Past(tenant.graceEnds) => Past(tenant.graceEnds)')
    BY <2>1 DEF Past
  <2> QED BY <2>1, <2>2, <2>3 DEF HasReason
<1> QED BY <1>2, <1>3, <1>4

LEMMA WebhookStep == ASSUME TenInv, NEW h \in Handlers, WebhookCommit(h) PROVE TenInv'
<1>0. PICK c : c = calls[h]
  OBVIOUS
<1>1. /\ c.pc = "webhook" /\ Finish(h) /\ UNCHANGED <<now, catalog, remote, grants>>
      /\ IF Recorded(c.event) THEN UNCHANGED <<tenant, events, payments>>
         ELSE /\ Update(EventEffect(c.event.type, c.seen))
              /\ events' = Append(events, c.event)
              /\ payments' = IF c.event.type = "charged"
                             THEN [payments EXCEPT ![c.event.id] = @ + 1] ELSE payments
  BY <1>0 DEF WebhookCommit
<1>2. c # Idle /\ (calm => CalmRows /\ CalmCallOK(c) /\ ~Storing) /\ c.event \in Good \cup Bad
  <2>1. c # Idle /\ (calm => CalmRows /\ CalmCallOK(c)) /\ TenCallOK(c)
    BY <1>0, <1>1 DEF Idle, TenInv
  <2>2. calm => ~Storing
    BY <1>0, <1>1, <2>1 DEF Storing, TenInv, AtMostOne, Idle
  <2> QED BY <1>1, <2>1, <2>2 DEF TenCallOK
<1>3. RowTypes /\ OtherTypes
  BY DEF TenInv
<1>4. CASE Recorded(c.event)
  <2>1. UNCHANGED <<tenant, events, payments>>
    BY <1>1, <1>4
  <2>2. RowTypes' /\ OtherTypes'
    BY <1>1, <1>3, <2>1 DEF RowTypes, OtherTypes, ChargeRecordedOnce
  <2>3. calm => HasReason' /\ tenant'.modules[1] = tenant'.plan /\ OneLive' /\ Subscribed'
    BY <1>1, <1>2, <2>1 DEF CalmRows, HasReason, Past, Restricting, Settling, OneLive, Live, Subscribed
  <2>4. TenCallOK(Idle)' /\ CalmCallOK(Idle)' /\ DOMAIN grants \subseteq DOMAIN grants'
    BY <1>1 DEF TenCallOK, CalmCallOK, Idle
  <2> QED BY <1>0, <1>1, <1>2, <2>2, <2>3, <2>4, TenWrites DEF Finish
<1>5. CASE ~Recorded(c.event)
  <2>0. PICK e \in Good \cup Bad : e = c.event
    BY <1>2
  <2>1. PICK seen : e = c.event /\ seen = c.seen
    BY <2>0
  <2>2. /\ Update(EventEffect(e.type, seen)) /\ events' = Append(events, e) /\ ~Recorded(e)
        /\ payments' = IF e.type = "charged" THEN [payments EXCEPT ![e.id] = @ + 1] ELSE payments
    BY <1>1, <1>5, <2>1
  <2>3. events' \in Seq(Good \cup Bad) /\ payments' \in [Charges -> Nat] /\ ChargeRecordedOnce'
    BY <1>3, <2>2, ChargeEntered
  <2>4. OtherTypes'
    BY <1>1, <1>3, <2>3 DEF OtherTypes
  <2>5. /\ tenant' = [f \in Fields |-> tenant'[f]]
        /\ tenant'.sub = tenant.sub /\ tenant'.plan = tenant.plan /\ tenant'.modules = tenant.modules
        /\ tenant'.seats = tenant.seats /\ tenant'.rate = tenant.rate
        /\ tenant'.status \in {tenant.status, "ACTIVE", "READ_ONLY"}
        /\ tenant'.trialEnds \in {None, tenant.trialEnds} /\ tenant'.renews \in {tenant.renews, now + 1}
        /\ tenant'.graceEnds \in {None, tenant.graceEnds, now + 1}
    <3>1. CASE e.type \in {"activated", "charged"}
      BY <2>2, <3>1, EventWritten
    <3>2. CASE e.type \notin {"activated", "charged"}
      BY <2>2, <3>2, EventWritten
    <3> QED BY <3>1, <3>2
  <2>6. RowTypes'
    BY <1>3, <2>5 DEF RowTypes, OtherTypes, Statuses, Dates
  <2>7. calm => HasReason'
    <3>1. calm => seen.status = tenant.status /\ seen.graceEnds = tenant.graceEnds /\ HasReason
      BY <1>1, <1>2, <2>1 DEF CalmCallOK, CalmRows
    <3> QED BY <1>1, <1>3, <2>2, <3>1, ReasonEntered DEF OtherTypes
  <2>8. calm => tenant'.modules[1] = tenant'.plan /\ OneLive' /\ Subscribed'
    BY <1>1, <1>2, <2>5 DEF CalmRows, OneLive, Live, Subscribed
  <2>9. TenCallOK(Idle)' /\ CalmCallOK(Idle)' /\ DOMAIN grants \subseteq DOMAIN grants'
    BY <1>1 DEF TenCallOK, CalmCallOK, Idle
  <2> QED BY <1>0, <1>1, <1>2, <2>4, <2>6, <2>7, <2>8, <2>9, TenWrites DEF Finish
<1> QED BY <1>4, <1>5

(* Only the grants change. *)
LEMMA GrantsWritten ==
  ASSUME TenInv, NEW h \in Handlers, calls[h] # Idle, calls[h].pc # "store", Finish(h), OnlyGrants,
         grants' \in Seq(Granted), DOMAIN grants \subseteq DOMAIN grants', calm => OneLive'
  PROVE  TenInv'
<1>1. UNCHANGED <<now, tenant, catalog, remote, events, payments>>
  BY DEF OnlyGrants, billingVars
<1>2. RowTypes' /\ OtherTypes'
  BY <1>1 DEF TenInv, RowTypes, OtherTypes, ChargeRecordedOnce
<1>3. TenCallOK(Idle)' /\ CalmCallOK(Idle)'
  BY DEF TenCallOK, CalmCallOK, Idle
<1>4. calm => HasReason' /\ tenant'.modules[1] = tenant'.plan /\ Subscribed'
  <2>1. calm => ~Storing
    BY DEF Storing, TenInv, AtMostOne, Idle
  <2> QED BY <1>1, <2>1 DEF TenInv, CalmRows, HasReason, Past, Restricting, Settling, Subscribed
<1> QED BY <1>2, <1>3, <1>4, TenWrites DEF Finish

LEMMA RequestStep == ASSUME TenInv, NEW h \in Handlers, RequestCreate(h) PROVE TenInv'
<1>1. PICK g : g = [status |-> "ACTIVE", expires |-> now + 1]
  OBVIOUS
<1>2. /\ calls[h].pc = "grant" /\ calls[h] # Idle /\ grants' = Append(grants, g) /\ Finish(h) /\ OnlyGrants
  BY <1>1 DEF RequestCreate, Idle
<1>3. grants \in Seq(Granted) /\ g \in Granted
  BY <1>1 DEF TenInv, OtherTypes, Granted
<1>4. /\ grants' \in Seq(Granted) /\ DOMAIN grants' = DOMAIN grants \cup {Len(grants) + 1}
      /\ \A i \in DOMAIN grants : grants'[i] = grants[i]
  BY <1>2, <1>3
<1>5. calm => \A i \in DOMAIN grants : ~Live(grants[i])
  BY <1>2 DEF TenInv, CalmCallOK
<1>6. ASSUME calm, NEW i \in DOMAIN grants', NEW j \in DOMAIN grants', Live(grants[i])', Live(grants[j])'
      PROVE  i = j
  <2>1. ASSUME NEW k \in DOMAIN grants, Live(grants[k])' PROVE FALSE
    BY <1>2, <1>4, <1>5, <1>6, <2>1 DEF Live, OnlyGrants
  <2> QED BY <1>4, <1>6, <2>1
<1> QED BY <1>2, <1>4, <1>6, GrantsWritten DEF OneLive

LEMMA CloseStep == ASSUME TenInv, NEW h \in Handlers, CloseGrant(h) PROVE TenInv'
<1>0. PICK c : c = calls[h]
  OBVIOUS
<1>1. /\ c.pc = "close" /\ grants' = [grants EXCEPT ![c.grant].status = c.as] /\ Finish(h) /\ OnlyGrants
  BY <1>0 DEF CloseGrant
<1>2. c # Idle /\ c.grant \in DOMAIN grants /\ c.as \in {"REVOKED", "EXPIRED"}
  <2>1. c # Idle /\ TenCallOK(c)
    BY <1>0, <1>1 DEF Idle, TenInv
  <2> QED BY <1>1, <2>1 DEF TenCallOK
<1>3. PICK g : g = [grants[c.grant] EXCEPT !.status = c.as]
  OBVIOUS
<1>4. grants' = [grants EXCEPT ![c.grant] = g] /\ grants \in Seq(Granted)
  BY <1>1, <1>3 DEF TenInv, OtherTypes
<1>5. g \in Granted /\ g.status = c.as
  <2>1. grants[c.grant] \in Granted
    BY <1>2, <1>4
  <2> QED BY <1>2, <1>3, <2>1 DEF Granted
<1>6. /\ grants' \in Seq(Granted) /\ DOMAIN grants' = DOMAIN grants
      /\ \A i \in DOMAIN grants : grants'[i] = IF i = c.grant THEN g ELSE grants[i]
  BY <1>2, <1>4, <1>5
<1>7. ASSUME NEW i \in DOMAIN grants, Live(grants[i])' PROVE Live(grants[i])
  BY <1>1, <1>2, <1>5, <1>6, <1>7 DEF Live, OnlyGrants
<1>8. OneLive => OneLive'
  BY <1>6, <1>7 DEF OneLive
<1> QED BY <1>0, <1>1, <1>2, <1>6, <1>8, GrantsWritten DEF TenInv, CalmRows

(* A call of one statement. *)
LEMMA TenAtOnce ==
  ASSUME TenInv, AtOnce, RowTypes', OtherTypes', grants' = grants,
         calm /\ Quiet => HasReason' /\ tenant'.modules[1] = tenant'.plan /\ OneLive' /\ Subscribed'
  PROVE  TenInv'
<1>1. /\ calls' = calls /\ calm' = (calm /\ Quiet) /\ calm' \in BOOLEAN
      /\ calm' => \A g \in Handlers : calls[g] = Idle
  BY DEF AtOnce, Counted, Quiet, Running, TenInv
<1>2. AtMostOne'
  BY <1>1 DEF AtMostOne
<1>3. ASSUME NEW g \in Handlers PROVE TenCallOK(calls[g])' /\ (calm' => CalmCallOK(calls[g])')
  <2>1. PICK c : c = calls[g]
    OBVIOUS
  <2>2. TenCallOK(c) /\ calls'[g] = c
    BY <1>1, <2>1 DEF TenInv
  <2>3. TenCallOK(calls[g])'
    BY <2>2 DEF TenCallOK
  <2>4. calm' => c = Idle
    BY <1>1, <2>1
  <2> QED BY <2>2, <2>3, <2>4 DEF CalmCallOK, Idle
<1>4. calls' = [g \in Handlers |-> calls'[g]]
  BY <1>1 DEF TenInv
<1>5. calm' => CalmRows'
  BY <1>1 DEF CalmRows
<1> QED BY <1>1, <1>2, <1>3, <1>4, <1>5 DEF TenInv

LEMMA QuietRows ==
  ASSUME TenInv, calm, Quiet
  PROVE  HasReason /\ tenant.modules[1] = tenant.plan /\ OneLive /\ Subscribed
BY DEF TenInv, CalmRows, Storing, Quiet, Running, Idle

LEMMA UpdateTenantStatusStep ==
  ASSUME TenInv, NEW s \in {"ACTIVE", "SUSPENDED", "TRIAL"}, UpdateTenantStatus(s)
  PROVE  TenInv'
<1>1. AtOnce /\ OnlyTenant /\ Update([status |-> s]) /\ grants' = grants
  BY DEF UpdateTenantStatus, OnlyTenant
<1>2. /\ tenant' = [f \in Fields |-> tenant'[f]] /\ tenant'.status = s
      /\ \A f \in Fields : f # "status" => tenant'[f] = tenant[f]
  BY <1>1, Updated DEF Fields, TenInv
<1>3. /\ tenant'.graceEnds = tenant.graceEnds /\ tenant'.renews = tenant.renews /\ tenant'.sub = tenant.sub
      /\ tenant'.plan = tenant.plan /\ tenant'.modules = tenant.modules
      /\ tenant'.seats = tenant.seats /\ tenant'.rate = tenant.rate /\ tenant'.trialEnds = tenant.trialEnds
  BY <1>2 DEF Fields
<1>4. RowTypes'
  BY <1>2, <1>3 DEF TenInv, RowTypes, Statuses
<1>5. OtherTypes' /\ (OneLive => OneLive') /\ (Subscribed => Subscribed') /\ HasReason'
  BY <1>1, <1>2, <1>3, RowWritten
<1> QED BY <1>1, <1>3, <1>4, <1>5, QuietRows, TenAtOnce

LEMMA UpdatePlanStep ==
  ASSUME TenInv, NEW p \in Plans, NEW d \in Definitions, UpdatePlan(p, d)
  PROVE  TenInv'
<1>1. AtOnce /\ catalog' = [catalog EXCEPT ![p] = d] /\ UNCHANGED <<now, tenant, remote, events, payments, grants>>
  BY DEF UpdatePlan, billingVars
<1>2. RowTypes' /\ OtherTypes'
  BY <1>1 DEF TenInv, RowTypes, OtherTypes, ChargeRecordedOnce
<1>3. /\ HasReason => HasReason'
      /\ OneLive => OneLive'
      /\ Subscribed => Subscribed'
  BY <1>1 DEF HasReason, Past, Restricting, Settling, OneLive, Live, Subscribed
<1> QED BY <1>1, <1>2, <1>3, QuietRows, TenAtOnce

(* As time passes, dates stay past and a live grant may only end. *)
LEMMA TickStep == ASSUME TenInv, Tick PROVE TenInv'
<1>1. /\ now' = now + 1 /\ now \in Nat
      /\ UNCHANGED <<calls, calm, tenant, catalog, remote, events, payments, grants>>
  BY DEF Tick, callVars, billingVars, TenInv, OtherTypes
<1>2. RowTypes' /\ OtherTypes'
  BY <1>1 DEF TenInv, RowTypes, OtherTypes, ChargeRecordedOnce
<1>3. ASSUME NEW date \in Dates, Past(date) PROVE date <= now'
  BY <1>1, <1>3, TenantsAssumption DEF Past, Dates
<1>4. /\ Past(tenant.trialEnds) => Past(tenant.trialEnds)'
      /\ Past(tenant.graceEnds) => Past(tenant.graceEnds)'
  BY <1>1, <1>3 DEF Past, TenInv, RowTypes
<1>5. ASSUME NEW i \in DOMAIN grants, Live(grants[i])' PROVE Live(grants[i])
  <2>1. grants[i] \in Granted
    BY DEF TenInv, OtherTypes
  <2> QED BY <1>1, <1>5, <2>1 DEF Live, Granted
<1>6. ASSUME NEW h \in Handlers PROVE TenCallOK(calls[h])' /\ (calm => CalmCallOK(calls[h])')
  <2>1. PICK c : c = calls[h]
    OBVIOUS
  <2>2. TenCallOK(c) /\ calls'[h] = c /\ (calm => CalmCallOK(c))
    BY <1>1, <2>1 DEF TenInv
  <2>3. TenCallOK(calls[h])'
    BY <1>1, <2>2 DEF TenCallOK
  <2>4. ASSUME CalmCallOK(c) PROVE CalmCallOK(c)'
    <3>1. c.pc = "grant" => ~\E i \in DOMAIN grants' : Live(grants[i])'
      BY <1>1, <1>5, <2>4 DEF CalmCallOK
    <3> QED BY <1>1, <1>4, <2>4, <3>1 DEF CalmCallOK
  <2> QED BY <2>2, <2>3, <2>4
<1>7. /\ HasReason => HasReason'
      /\ OneLive => OneLive'
      /\ Subscribed => Subscribed'
      /\ Storing' => Storing
      /\ Storing => Storing'
  BY <1>1, <1>4, <1>5 DEF HasReason, Restricting, Settling, OneLive, Subscribed, Storing
<1>8. calm' => CalmRows'
  BY <1>1, <1>7 DEF TenInv, CalmRows
<1> QED BY <1>1, <1>2, <1>6, <1>8 DEF TenInv, AtMostOne

LEMMA TenantsLoseStep == ASSUME TenInv, NEW h \in Handlers, TenantsLose(h) PROVE TenInv'
<1>1. calls' = [calls EXCEPT ![h] = Idle] /\ calm' = FALSE /\ UNCHANGED tenantVars
  BY DEF TenantsLose, Lose
<1>2. UNCHANGED <<now, tenant, catalog, remote, events, payments, grants>>
  BY <1>1 DEF tenantVars
<1>3. RowTypes' /\ OtherTypes'
  BY <1>2 DEF TenInv, RowTypes, OtherTypes, ChargeRecordedOnce
<1>4. TenCallOK(Idle)'
  BY DEF TenCallOK, Idle
<1>5. /\ calls' = [g \in Handlers |-> calls'[g]] /\ AtMostOne'
      /\ \A g \in Handlers : TenCallOK(calls[g])'
  BY <1>1, <1>2, <1>4, TenMoves
<1> QED BY <1>1, <1>3, <1>5 DEF TenInv

LEMMA TenNext == ASSUME TenInv, TenancyNext PROVE TenInv'
<1>1. ASSUME Tick PROVE TenInv'
  BY <1>1, TickStep
<1>2. ASSUME NEW s \in {"ACTIVE", "SUSPENDED", "TRIAL"}, UpdateTenantStatus(s) PROVE TenInv'
  BY <1>2, UpdateTenantStatusStep
<1>3. ASSUME NEW p \in Plans, NEW d \in Definitions, UpdatePlan(p, d) PROVE TenInv'
  BY <1>3, UpdatePlanStep
<1>4. ASSUME NEW h \in Handlers, LifecycleNext(h) PROVE TenInv'
  BY <1>4, SetTrialEndReadStep, SetTrialEndStep, ConvertReadStep, ChangePlanStep, ConvertStep, RestrictReadStep,
     RestrictStep, SubscribeReadStep, SubscribeCreateStep, SubscribeStoreStep, WebhookReadStep, WebhookStep,
     TenantsLoseStep DEF LifecycleNext
<1>5. ASSUME NEW h \in Handlers, TermsNext(h) PROVE TenInv'
  BY <1>5, ChangePlanReadStep, ChangePlanStep, ConvertReadStep, ConvertStep, RenewReadStep, RenewStep,
     AdjustReadStep, AdjustStep, TenantsLoseStep DEF TermsNext, RunRenewals
<1>6. ASSUME NEW h \in Handlers, GrantsNext(h) PROVE TenInv'
  BY <1>6, RequestReadStep, RequestStep, CloseReadStep, CloseStep, TenantsLoseStep DEF GrantsNext
<1> QED BY <1>1, <1>2, <1>3, <1>4, <1>5, <1>6 DEF TenancyNext

LEMMA TenStep == ASSUME TenInv, [TenancyNext]_<<callVars, tenantVars>> PROVE TenInv'
<1>1. CASE UNCHANGED <<callVars, tenantVars>>
  <2>1. UNCHANGED <<calls, calm, now, tenant, catalog, remote, events, payments, grants>>
    BY <1>1 DEF callVars, tenantVars
  <2>2. /\ calls' = [h \in Handlers |-> calls'[h]] /\ calm' \in BOOLEAN
        /\ RowTypes' /\ OtherTypes' /\ AtMostOne'
    BY <2>1 DEF TenInv, RowTypes, OtherTypes, ChargeRecordedOnce, AtMostOne
  <2>3. ASSUME NEW h \in Handlers PROVE TenCallOK(calls[h])'
    BY <2>1 DEF TenInv, TenCallOK
  <2>4. calm' => CalmRows'
    BY <2>1 DEF TenInv, CalmRows, HasReason, Past, Restricting, Settling, OneLive, Live, Subscribed, Storing
  <2>5. ASSUME calm', NEW h \in Handlers PROVE CalmCallOK(calls[h])'
    <3>1. CalmCallOK(calls[h])
      BY <2>1, <2>5 DEF TenInv
    <3> QED BY <2>1, <3>1 DEF CalmCallOK, HasReason, Past, Restricting, Settling, OneLive, Live, Subscribed, Storing
  <2> QED BY <2>2, <2>3, <2>4, <2>5 DEF TenInv
<1> QED BY <1>1, TenNext

LEMMA FewLive == ASSUME OneLive PROVE Cardinality({i \in DOMAIN grants : Live(grants[i])}) <= 1
<1>1. PICK S : S = {i \in DOMAIN grants : Live(grants[i])}
  OBVIOUS
<1>2. CASE S = {}
  BY <1>1, <1>2, FS_EmptySet
<1>3. CASE S # {}
  <2>1. PICK i : i \in S
    BY <1>3
  <2>2. S = {i}
    BY <1>1, <2>1 DEF OneLive
  <2>3. Cardinality({i}) = 1
    BY FS_Singleton
  <2> QED BY <1>1, <2>2, <2>3
<1> QED BY <1>2, <1>3

LEMMA TenancyHolds == TenInv => TenancyAddsUp /\ RestrictedForReason
<1> SUFFICES ASSUME TenInv PROVE TenancyAddsUp /\ RestrictedForReason
  OBVIOUS
<1>1. TenancyTypeOK
  <2>1. \A i \in DOMAIN events : events[i] \in Good \cup Bad
    BY DEF TenInv, OtherTypes
  <2> QED BY <2>1 DEF TenInv, RowTypes, OtherTypes, TenancyTypeOK, Dates
<1>2. ChargeRecordedOnce /\ ModulesAreThePlans
  BY DEF TenInv, OtherTypes, CalmRows, ModulesAreThePlans
<1>3. OneSubscription
  BY QuietRows DEF OneSubscription, Subscribed
<1>4. OneLiveGrant
  BY FewLive DEF OneLiveGrant, TenInv, CalmRows
<1>5. RestrictedForReason
  BY DEF RestrictedForReason, TenInv, CalmRows, HasReason
<1> QED BY <1>1, <1>2, <1>3, <1>4, <1>5 DEF TenancyAddsUp

(* What the platform does to a tenant's life, billing, terms and support    *)
(* grants, one call after another, lost calls apart, leaves one payment row *)
(* per charge, one subscription, the modules of the plan it is on and at    *)
(* most one live grant; the payment rows whatever overlaps                  *)
(* (handleWebhook(), subscribeTenant(), changeTenantPlan(),                 *)
(* requestBreakGlass()).                                                    *)
THEOREM TenancyStaysWhole == TenancySpec => []TenancyAddsUp
<1>1. CallsInit /\ TenantsInit => TenInv
  BY TenStarts
<1>2. TenInv /\ [TenancyNext]_<<callVars, tenantVars>> => TenInv'
  BY TenStep
<1>3. TenInv => TenancyAddsUp
  BY TenancyHolds
<1> QED BY <1>1, <1>2, <1>3, PTL DEF TenancySpec

(* A workspace is read-only only while its trial or grace is over, or the   *)
(* subscription stopped and no payment came since (expireTrials(),          *)
(* enforceGrace(), handleWebhook()).                                        *)
THEOREM ReadOnlyHasAReason == TenancySpec => []RestrictedForReason
<1>1. CallsInit /\ TenantsInit => TenInv
  BY TenStarts
<1>2. TenInv /\ [TenancyNext]_<<callVars, tenantVars>> => TenInv'
  BY TenStep
<1>3. TenInv => RestrictedForReason
  BY TenancyHolds
<1> QED BY <1>1, <1>2, <1>3, PTL DEF TenancySpec

-----------------------------------------------------------------------------
(* What no step does, one call after another. *)
Stands == calm' /\ tenant.status = "SUSPENDED" /\ tenant'.status # "SUSPENDED" => calls' = calls /\ events' = events
KeepsTerms ==
    calm' /\ (\E h \in Handlers : calls[h].pc = "renew" /\ calls'[h] = Idle)
      => tenant'.rate = tenant.rate /\ tenant'.seats = tenant.seats
StaysRevoked ==
    calm' => \A i \in DOMAIN grants : grants[i].status = "REVOKED" => grants'[i].status = "REVOKED"

(* A write moves one call, and a renewal ends only where one was. *)
LEMMA NoRenewal ==
  ASSUME TenInv, NEW h \in Handlers, NEW d, calls' = [calls EXCEPT ![h] = d], calls[h].pc # "renew"
  PROVE  ~\E g \in Handlers : calls[g].pc = "renew" /\ calls'[g] = Idle
BY DEF TenInv, Idle

LEMMA ReadsKeep ==
  ASSUME TenInv, UNCHANGED tenantVars
  PROVE  Stands /\ KeepsTerms /\ StaysRevoked
BY DEF tenantVars, Stands, KeepsTerms, StaysRevoked

(* A write of the row that is not a renewal, and leaves a suspension. *)
LEMMA RowKeeps ==
  ASSUME TenInv, NEW h \in Handlers, NEW d, Continue(h, d), calls[h].pc # "renew", grants' = grants,
         calm /\ tenant.status = "SUSPENDED" => tenant'.status = "SUSPENDED"
  PROVE  Stands /\ KeepsTerms /\ StaysRevoked
BY NoRenewal DEF Continue, Stands, KeepsTerms, StaysRevoked

LEMMA StatusKept ==
  ASSUME TenInv, NEW change, Update(change), "status" \notin DOMAIN change
  PROVE  tenant'.status = tenant.status
BY Updated DEF TenInv, Fields

LEMMA LifecycleKeeps ==
  ASSUME TenInv, NEW h \in Handlers, LifecycleNext(h)
  PROVE  Stands /\ KeepsTerms /\ StaysRevoked
<1>0. PICK c : c = calls[h]
  OBVIOUS
<1>1. calm => CalmCallOK(c)
  BY <1>0 DEF TenInv
<1>2. ASSUME UNCHANGED tenantVars PROVE Stands /\ KeepsTerms /\ StaysRevoked
  BY <1>2, ReadsKeep
<1>3. ASSUME SetTrialEndWrite(h) \/ ConvertWrite(h) \/ RestrictWrite(h)
      PROVE  Stands /\ KeepsTerms /\ StaysRevoked
  <2>1. Continue(h, Idle) /\ c.pc \in {"trialEnd", "convert", "restrict"} /\ grants' = grants
    BY <1>0, <1>3 DEF SetTrialEndWrite, ConvertWrite, RestrictWrite, Finish, OnlyTenant
  <2>2. calm => tenant.status # "SUSPENDED"
    BY <1>1, <2>1 DEF CalmCallOK, Unsold
  <2> QED BY <1>0, <2>1, <2>2, RowKeeps
<1>4. ASSUME ChangePlanWrite(h) PROVE Stands /\ KeepsTerms /\ StaysRevoked
  <2>1. PICK d : Continue(h, d) /\ c.pc = "plan" /\ grants' = grants
    BY <1>0, <1>4 DEF ChangePlanWrite, Finish, OnlyTenant
  <2>2. PICK r : r = SnapshotFor(c.to, None, None)
    OBVIOUS
  <2>3. Update(r) /\ "status" \notin DOMAIN r
    BY <1>0, <1>4, <2>2 DEF ChangePlanWrite, SnapshotFor
  <2> QED BY <1>0, <2>1, <2>3, StatusKept, RowKeeps
<1>5. ASSUME SubscribeCreate(h) PROVE Stands /\ KeepsTerms /\ StaysRevoked
  <2>1. PICK d : Continue(h, d) /\ c.pc = "subscribe" /\ grants' = grants /\ tenant' = tenant
    BY <1>0, <1>5 DEF SubscribeCreate
  <2> QED BY <1>0, <2>1, RowKeeps
<1>6. ASSUME SubscribeStore(h) PROVE Stands /\ KeepsTerms /\ StaysRevoked
  <2>1. Continue(h, Idle) /\ c.pc = "store" /\ grants' = grants /\ Update([sub |-> c.sub])
    BY <1>0, <1>6 DEF SubscribeStore, Finish, OnlyTenant
  <2> QED BY <1>0, <2>1, StatusKept, RowKeeps
<1>7. ASSUME WebhookCommit(h) PROVE Stands /\ KeepsTerms /\ StaysRevoked
  <2>1. /\ Continue(h, Idle) /\ c.pc = "webhook" /\ grants' = grants
        /\ tenant' = tenant \/ Update(EventEffect(c.event.type, c.seen))
    BY <1>0, <1>7 DEF WebhookCommit, Finish
  <2>2. c.event \in Good \cup Bad
    BY <1>0, <2>1 DEF TenInv, TenCallOK
  <2>3. calm => c.seen.status = tenant.status
    BY <1>1, <2>1 DEF CalmCallOK
  <2>0. PICK e \in Good \cup Bad : e = c.event
    BY <2>2
  <2>4. PICK seen : e = c.event /\ seen = c.seen
    BY <2>0
  <2>5. ASSUME Update(EventEffect(e.type, seen)), seen.status = "SUSPENDED", tenant.status = "SUSPENDED"
        PROVE  tenant'.status = "SUSPENDED"
    BY <2>5, EventWritten DEF CanReactivate, CanRestrict
  <2>6. calm /\ tenant.status = "SUSPENDED" => tenant'.status = "SUSPENDED"
    BY <2>1, <2>3, <2>4, <2>5
  <2> QED BY <1>0, <2>1, <2>6, RowKeeps
<1> QED BY <1>2, <1>3, <1>4, <1>5, <1>6, <1>7 DEF LifecycleNext, SetTrialEndRead, ConvertRead, ExpireTrialsRead,
     EnforceGraceRead, SubscribeRead, WebhookRead, TenantsLose

LEMMA TermsKeep ==
  ASSUME TenInv, NEW h \in Handlers, TermsNext(h)
  PROVE  Stands /\ KeepsTerms /\ StaysRevoked
<1>0. PICK c : c = calls[h]
  OBVIOUS
<1>1. ASSUME LifecycleNext(h) PROVE Stands /\ KeepsTerms /\ StaysRevoked
  BY <1>1, LifecycleKeeps
<1>2. ASSUME UNCHANGED tenantVars PROVE Stands /\ KeepsTerms /\ StaysRevoked
  BY <1>2, ReadsKeep
<1>3. ASSUME RenewWrite(h) PROVE Stands /\ KeepsTerms /\ StaysRevoked
  <2>1. calm' = calm /\ grants' = grants
    BY <1>3 DEF RenewWrite, Finish, Continue, OnlyTenant
  <2>2. calm => tenant'.rate = tenant.rate /\ tenant'.seats = tenant.seats
    BY <1>3, RenewStep
  <2>3. tenant'.status = tenant.status
    <3>1. TenCallOK(c) /\ c.pc = "renew"
      BY <1>0, <1>3 DEF RenewWrite, TenInv
    <3>2. PICK s : s = [c.change EXCEPT !.plan = tenant.plan]
      OBVIOUS
    <3>3. DOMAIN s = {"plan", "modules", "seats", "rate"}
      BY <3>1, <3>2 DEF TenCallOK
    <3>4. PICK t : t = With(tenant, s)
      OBVIOUS
    <3>5. DOMAIN t = Fields /\ t.status = tenant.status
      BY <3>3, <3>4 DEF With, TenInv, RowTypes, Fields
    <3>6. tenant' = With(t, [renews |-> c.renews])
      BY <1>0, <1>3, <3>2, <3>4 DEF RenewWrite
    <3> QED BY <3>5, <3>6 DEF With, Fields
  <2> QED BY <2>1, <2>2, <2>3 DEF Stands, KeepsTerms, StaysRevoked
<1>4. ASSUME AdjustWrite(h) PROVE Stands /\ KeepsTerms /\ StaysRevoked
  <2>1. Continue(h, Idle) /\ c.pc = "price" /\ grants' = grants /\ Update([rate |-> c.rate, seats |-> c.seats])
    BY <1>0, <1>4 DEF AdjustWrite, Finish, OnlyTenant
  <2> QED BY <1>0, <2>1, StatusKept, RowKeeps
<1> QED BY <1>1, <1>2, <1>3, <1>4 DEF TermsNext, LifecycleNext, ChangePlanRead, RenewRead, RunRenewals, AdjustRead

LEMMA GrantsKeep ==
  ASSUME TenInv, NEW h \in Handlers, GrantsNext(h)
  PROVE  Stands /\ KeepsTerms /\ StaysRevoked
<1>0. PICK c : c = calls[h]
  OBVIOUS
<1>1. ASSUME UNCHANGED tenantVars PROVE Stands /\ KeepsTerms /\ StaysRevoked
  BY <1>1, ReadsKeep
<1>2. ASSUME RequestCreate(h) PROVE Stands /\ KeepsTerms /\ StaysRevoked
  <2>1. tenant' = tenant /\ \E g : grants' = Append(grants, g)
    BY <1>2 DEF RequestCreate, OnlyGrants
  <2> QED BY <2>1 DEF TenInv, OtherTypes, Stands, KeepsTerms, StaysRevoked
<1>3. ASSUME CloseGrant(h) PROVE Stands /\ KeepsTerms /\ StaysRevoked
  <2>1. /\ c.pc = "close" /\ grants' = [grants EXCEPT ![c.grant].status = c.as] /\ tenant' = tenant
        /\ calm' = calm
    BY <1>0, <1>3 DEF CloseGrant, OnlyGrants, Finish, Continue
  <2>2. calm => grants[c.grant].status = "ACTIVE"
    BY <1>0, <2>1 DEF TenInv, CalmCallOK
  <2> QED BY <2>1, <2>2 DEF TenInv, OtherTypes, Stands, KeepsTerms, StaysRevoked
<1> QED BY <1>1, <1>2, <1>3 DEF GrantsNext, RequestRead, RevokeRead, ExpireGrantsRead, TenantsLose

LEMMA TenKeeps ==
  ASSUME TenInv, TenancyNext
  PROVE  Stands /\ KeepsTerms /\ StaysRevoked
<1>1. ASSUME Tick PROVE Stands /\ KeepsTerms /\ StaysRevoked
  BY <1>1 DEF Tick, Stands, KeepsTerms, StaysRevoked
<1>2. ASSUME NEW s \in {"ACTIVE", "SUSPENDED", "TRIAL"}, UpdateTenantStatus(s)
      PROVE  Stands /\ KeepsTerms /\ StaysRevoked
  <2>1. calls' = calls /\ events' = events /\ grants' = grants
    BY <1>2 DEF UpdateTenantStatus, AtOnce, OnlyTenant, billingVars
  <2> QED BY <2>1 DEF Stands, KeepsTerms, StaysRevoked, Idle
<1>3. ASSUME NEW p \in Plans, NEW d \in Definitions, UpdatePlan(p, d)
      PROVE  Stands /\ KeepsTerms /\ StaysRevoked
  BY <1>3 DEF UpdatePlan, Stands, KeepsTerms, StaysRevoked
<1> QED BY <1>1, <1>2, <1>3, LifecycleKeeps, TermsKeep, GrantsKeep DEF TenancyNext

(* One call after another, only the operator lifts a suspension, a renewal  *)
(* keeps the negotiated terms, and what was revoked stays so                *)
(* (updateTenantStatus(), renewSubscription(),                              *)
(* expireOverdueBreakGlassGrants()).                                        *)
THEOREM OperatorsDecisionsStand == TenancySpec => SuspensionStands /\ RenewalKeepsTerms /\ RevokedStays
<1>1. CallsInit /\ TenantsInit => TenInv
  BY TenStarts
<1>2. TenInv /\ [TenancyNext]_<<callVars, tenantVars>> => TenInv'
  BY TenStep
<1>3. TenInv /\ [TenancyNext]_<<callVars, tenantVars>> => [Stands /\ KeepsTerms /\ StaysRevoked]_tenantVars
  BY TenKeeps
<1>4. [Stands /\ KeepsTerms /\ StaysRevoked]_tenantVars =>
         /\ [calm' /\ tenant.status = "SUSPENDED" /\ tenant'.status # "SUSPENDED"
              => calls' = calls /\ events' = events]_tenantVars
         /\ [calm' /\ (\E h \in Handlers : calls[h].pc = "renew" /\ calls'[h] = Idle)
              => tenant'.rate = tenant.rate /\ tenant'.seats = tenant.seats]_tenantVars
         /\ [calm' => \A i \in DOMAIN grants :
              grants[i].status = "REVOKED" => grants'[i].status = "REVOKED"]_tenantVars
  BY DEF Stands, KeepsTerms, StaysRevoked
<1> QED BY <1>1, <1>2, <1>3, <1>4, PTL DEF TenancySpec, SuspensionStands, RenewalKeepsTerms, RevokedStays

-----------------------------------------------------------------------------
(* The platform's side: a behaviour is about one tenant's life or about the *)
(* requests and the caches in front of its rows.                            *)
PlatformSpec ==
    \/ TenancySpec /\ IdInit /\ [][FALSE]_idVars
    \/ IdSpec /\ TenantsInit /\ [][FALSE]_tenantVars

(* What an operator or an admin writes stands, whatever jobs, webhooks and  *)
(* renewals do, and bites at the next request: both halves together.        *)
THEOREM OperatorsWordIsKept == PlatformSpec => OperatorsWordStands
<1>1. IdInit => SetupOpensAtOnce /\ LookupsTypeOK
  BY DEF IdInit, SetupOpensAtOnce, LookupsTypeOK, Keys, Values
<1>2. SetupOpensAtOnce /\ LookupsTypeOK /\ [FALSE]_idVars => SetupOpensAtOnce' /\ LookupsTypeOK'
  BY DEF idVars, SetupOpensAtOnce, LookupsTypeOK
<1>3. [FALSE]_idVars => [calm' /\ turn' # turn
         => \A k \in Keys : wroteOn[k] \in {Nobody, servedOn'} => served'[k] = row[k]]_idVars
  OBVIOUS
<1>4. [FALSE]_tenantVars =>
         /\ [calm' /\ tenant.status = "SUSPENDED" /\ tenant'.status # "SUSPENDED"
              => calls' = calls /\ events' = events]_tenantVars
         /\ [calm' /\ (\E h \in Handlers : calls[h].pc = "renew" /\ calls'[h] = Idle)
              => tenant'.rate = tenant.rate /\ tenant'.seats = tenant.seats]_tenantVars
         /\ [calm' => \A i \in DOMAIN grants :
              grants[i].status = "REVOKED" => grants'[i].status = "REVOKED"]_tenantVars
  OBVIOUS
<1> QED BY <1>1, <1>2, <1>3, <1>4, OperatorsDecisionsStand, WritesBiteAtOnce, PTL
     DEF PlatformSpec, OperatorsWordStands, WriteBitesAtOnce, SuspensionStands, RenewalKeepsTerms, RevokedStays
-----------------------------------------------------------------------------
(* Logins: roles and statuses, employees' logins, separations, all of them  *)
(* together.                                                                *)
LoginsNext == \E h \in Handlers : AccessNext(h) \/ AccountsNext(h)
LoginsSpec == CallsInit /\ LoginsInit /\ [][LoginsNext]_<<callVars, loginVars>>

LoginTypes ==
    /\ firebase \in [Accounts -> FirebaseRows \cup {Nothing}]
    /\ users \in [Accounts -> UserRows \cup {Nothing}]
    /\ staff \in [Staff -> StaffRows \cup {Nothing}]

(* A call that made an account has it for itself until a row names it. *)
Owns(c) == c.pc \in {"claims", "attach", "undo"} \/ (c.pc = "insert" /\ c.mail # Nothing)
OfALogin(c) == c.pc \in {"claim", "role", "flag", "status", "link", "move", "moved", "disable", "deactivate"}
OfOneEmployed(c) ==
    \/ c.pc \in {"attach", "link", "move", "moved", "edit", "disable", "deactivate", "state"}
    \/ c.pc \in {"account", "claims"} /\ c.then = "attach"

LoginCall(c) ==
    /\ c.pc \in {"idle", "claim", "role", "flag", "status", "insert", "account", "claims", "attach", "undo",
                 "link", "move", "moved", "edit", "disable", "deactivate", "state"}
    /\ c # Idle => c.pc # "idle"
    /\ "pc" \in DOMAIN c
    /\ Owns(c) \/ OfALogin(c) => c.u \in Accounts /\ "u" \in DOMAIN c
    /\ OfOneEmployed(c) \/ c.pc \in {"insert", "account", "claims"} => c.e \in Staff
    /\ c.pc \in {"claim", "role", "account", "claims", "attach"} \/ (c.pc = "insert" /\ c.mail # Nothing)
         => c.r \in Roles
    /\ c.pc \in {"flag", "status"} => c.on \in BOOLEAN
    /\ c.pc \in {"account", "claims", "attach", "move", "moved", "edit"} => c.mail \in Emails
    /\ c.pc \in {"move", "moved"} => c.old \in Emails /\ c.edit \in BOOLEAN
    /\ c.pc = "insert" => /\ c.mail \in Emails \cup {Nothing}
                          /\ c.mail = Nothing => c.u \in Accounts \cup {Nothing}
    /\ c.pc \in {"account", "claims"} => c.then \in {"insert", "attach"}
    /\ c.pc \in {"disable", "deactivate", "state"} => c.to \in DOMAIN Transitions
    /\ c.pc \in {"disable", "deactivate"} => c.to = "SEPARATED"

(* The rows a call works on, whatever overlaps it. *)
LoginRows(c) ==
    /\ OfALogin(c) => Known(c.u)
    /\ c.pc = "insert" /\ c.mail = Nothing => c.u = Nothing \/ Known(c.u)
    /\ OfOneEmployed(c) => staff[c.e] # Nothing
    /\ Owns(c) =>
         /\ ~Known(c.u) /\ firebase[c.u] # Nothing
         /\ c.pc # "undo" => firebase[c.u].email = c.mail /\ ~firebase[c.u].disabled
         /\ c.pc \in {"insert", "attach"} => firebase[c.u].role = c.r

(* As long as nothing overlaps: what it has changed in one place only, and  *)
(* what still holds of what it read.                                        *)
Others(u) == \E v \in Accounts \ {u} : IsAdmin(v)
InStepBut(c) ==
    \A u \in Accounts : Known(u) =>
      /\ (c.pc = "role" /\ c.u = u) \/ firebase[u].role = users[u].role
      /\ (c.pc = "moved" /\ c.u = u) \/ firebase[u].email = users[u].email
      /\ (c.pc = "status" /\ c.u = u) \/ users[u].active \/ firebase[u].disabled
CalmLogin(c) ==
    /\ InStepBut(c)
    /\ c.pc \in {"claim", "role"} \/ (c.pc \in {"flag", "status"} /\ ~c.on) => (IsAdmin(c.u) => Others(c.u))
    /\ c.pc = "role" => firebase[c.u].role = c.r
    /\ c.pc = "status" => c.on \/ firebase[c.u].disabled
    /\ c.pc \in {"link", "attach"} \/ (c.pc \in {"account", "claims"} /\ c.then = "attach")
         => staff[c.e].state # "SEPARATED"
    /\ c.pc = "move" => firebase[c.u].email # c.mail
    /\ c.pc = "moved" =>
         /\ firebase[c.u].email = c.mail
         /\ \A v \in Accounts \ {c.u} : Known(v) => users[v].email # c.mail
    /\ c.pc = "deactivate" => firebase[c.u].disabled
    /\ c.pc \in {"disable", "deactivate"} => staff[c.e].login = c.u
    /\ c.pc \in {"disable", "deactivate", "state"} => c.to \in Transitions[staff[c.e].state]
    /\ c.pc = "state" /\ c.to = "SEPARATED" /\ staff[c.e].login # Nothing => ~users[staff[c.e].login].active

OutWhenSeparated ==
    \A e \in Staff :
      staff[e] # Nothing /\ staff[e].state = "SEPARATED" /\ staff[e].login # Nothing =>
        ~users[staff[e].login].active \/ staff[e].login \in readmitted
SomeAdmin == adminLeft \/ ActiveAdmins # {}
NoneStray ==
    \A u \in Accounts : firebase[u] # Nothing /\ ~Known(u) =>
      u \in stray \/ \E h \in Handlers : Owns(calls[h]) /\ calls[h].u = u
OwnersApart ==
    \A g, h \in Handlers : g # h /\ Owns(calls[g]) /\ Owns(calls[h]) => calls[g].u # calls[h].u

LoginInv ==
    /\ calls = [h \in Handlers |-> calls[h]] /\ calm \in BOOLEAN /\ AtMostOne
    /\ LoginTypes /\ LoginsTypeOK /\ NoneStray /\ OwnersApart
    /\ \A h \in Handlers : LoginCall(calls[h]) /\ LoginRows(calls[h])
    /\ calm => /\ OutWhenSeparated /\ SomeAdmin /\ (Quiet => InStepBut(Idle))
               /\ \A h \in Handlers : calls[h] # Idle => CalmLogin(calls[h])

LEMMA LoginStarts == ASSUME CallsInit, LoginsInit PROVE LoginInv
<1>1. /\ calls = [h \in Handlers |-> calls[h]] /\ calm = TRUE /\ \A h \in Handlers : calls[h] = Idle
  BY DEF CallsInit
<1>2. PICK w \in Workspaces : users = w.users /\ staff = w.staff
  BY DEF LoginsInit
<1>3. /\ users \in [Accounts -> UserRows \cup {Nothing}] /\ staff \in [Staff -> StaffRows \cup {Nothing}]
      /\ \A u, v \in Accounts : u # v /\ Known(u) /\ Known(v) => users[u].email # users[v].email
      /\ \A e \in Staff : staff[e] # Nothing =>
           staff[e].state # "SEPARATED" /\ (staff[e].login # Nothing => Known(staff[e].login))
      /\ \A e, f \in Staff :
              e # f /\ staff[e] # Nothing /\ staff[f] # Nothing /\ staff[e].login # Nothing
                => staff[e].login # staff[f].login
      /\ \A u \in Accounts : Known(u) => users[u].active
      /\ \E u \in Accounts : Known(u) /\ users[u].role = "COMPANY_ADMIN"
  BY <1>2, LoginsAssumption DEF Known
<1>4. firebase = [u \in Accounts |->
         IF Known(u) THEN [email |-> users[u].email, role |-> users[u].role, disabled |-> FALSE] ELSE Nothing]
  BY DEF LoginsInit
<1>5. ASSUME NEW u \in Accounts
      PROVE  /\ firebase[u] \in FirebaseRows \cup {Nothing} /\ (~Known(u) => firebase[u] = Nothing)
             /\ Known(u) => firebase[u] # Nothing /\ firebase[u].email = users[u].email
                            /\ firebase[u].role = users[u].role
  <2>1. CASE Known(u)
    <3>1. users[u] \in UserRows
      BY <1>3, <2>1 DEF Known
    <3>2. PICK r : r = [email |-> users[u].email, role |-> users[u].role, disabled |-> FALSE]
      OBVIOUS
    <3>3. r \in FirebaseRows
      BY <3>1, <3>2 DEF FirebaseRows, UserRows
    <3>4. firebase[u] = r
      BY <1>4, <2>1, <3>2
    <3>5. Nothing \notin FirebaseRows
      BY LoginsAssumption
    <3>6. r # Nothing /\ r.email = users[u].email /\ r.role = users[u].role
      BY <3>2, <3>3, <3>5
    <3> QED BY <2>1, <3>3, <3>4, <3>6
  <2>2. CASE ~Known(u)
    BY <1>4, <2>2
  <2> QED BY <2>1, <2>2
<1>6. LoginTypes
  BY <1>3, <1>4, <1>5 DEF LoginTypes
<1>7. \A e \in Staff : staff[e] # Nothing => staff[e].state \in DOMAIN Transitions
  BY <1>3 DEF StaffRows, Transitions
<1>8. LoginsTypeOK
  BY <1>3, <1>5, <1>7 DEF LoginsTypeOK
<1>9. NoneStray /\ OwnersApart
  BY <1>1, <1>5 DEF NoneStray, OwnersApart, Owns, Idle
<1>10. \A h \in Handlers : LoginCall(calls[h]) /\ LoginRows(calls[h])
  BY <1>1 DEF LoginCall, LoginRows, Owns, OfALogin, OfOneEmployed, Idle
<1>11. OutWhenSeparated /\ SomeAdmin /\ InStepBut(Idle)
  BY <1>3, <1>5 DEF OutWhenSeparated, SomeAdmin, ActiveAdmins, IsAdmin, InStepBut
<1> QED BY <1>1, <1>6, <1>8, <1>9, <1>10, <1>11 DEF LoginInv, AtMostOne

(* The tables only grow, and what other calls own is left alone. *)
Grows ==
    /\ \A u \in Accounts : Known(u) => Known(u)'
    /\ \A e \in Staff : staff[e] # Nothing => staff'[e] # Nothing
LeavesAlone(h) ==
    \A g \in Handlers \ {h} : Owns(calls[g]) =>
      firebase'[calls[g].u] = firebase[calls[g].u] /\ users'[calls[g].u] = users[calls[g].u]
StrayMoves(h, d) ==
    /\ stray \subseteq stray'
    /\ \A u \in Accounts : firebase'[u] # Nothing /\ ~Known(u)' =>
         \/ u \in stray' \/ (Owns(d) /\ d.u = u)
         \/ firebase[u] # Nothing /\ ~Known(u) /\ ~(Owns(calls[h]) /\ calls[h].u = u)

(* A call moves on, whatever the others are. *)
LEMMA LoginMoves ==
  ASSUME LoginInv, NEW h \in Handlers, NEW d, calls' = [calls EXCEPT ![h] = d],
         LoginCall(d), LoginRows(d)', Grows, LeavesAlone(h), StrayMoves(h, d),
         Owns(d) => \A g \in Handlers \ {h} : Owns(calls[g]) => calls[g].u # d.u
  PROVE  /\ calls' = [g \in Handlers |-> calls'[g]]
         /\ \A g \in Handlers : calls'[g] = IF g = h THEN d ELSE calls[g]
         /\ NoneStray' /\ OwnersApart'
         /\ \A g \in Handlers : LoginCall(calls[g])' /\ LoginRows(calls[g])'
<1>1. calls' = [g \in Handlers |-> calls'[g]] /\ \A g \in Handlers : calls'[g] = IF g = h THEN d ELSE calls[g]
  BY DEF LoginInv
<1>2. NoneStray'
  <2>1. ASSUME NEW u \in Accounts, firebase'[u] # Nothing, ~Known(u)', u \notin stray'
        PROVE  \E g \in Handlers : Owns(calls'[g]) /\ calls'[g].u = u
    <3>1. CASE Owns(d) /\ d.u = u
      BY <1>1, <3>1
    <3>2. CASE ~(Owns(d) /\ d.u = u)
      <4>1. firebase[u] # Nothing /\ ~Known(u) /\ ~(Owns(calls[h]) /\ calls[h].u = u) /\ u \notin stray
        BY <2>1, <3>2 DEF StrayMoves
      <4>2. PICK g \in Handlers : Owns(calls[g]) /\ calls[g].u = u
        BY <4>1 DEF LoginInv, NoneStray
      <4>3. calls'[g] = calls[g]
        BY <1>1, <4>1, <4>2
      <4> QED BY <4>2, <4>3
    <3> QED BY <3>1, <3>2
  <2> QED BY <2>1 DEF NoneStray, Owns
<1>3. OwnersApart'
  <2>1. ASSUME NEW f \in Handlers, NEW g \in Handlers, f # g, Owns(calls'[f]), Owns(calls'[g])
        PROVE  calls'[f].u # calls'[g].u
    <3>1. CASE f = h
      BY <1>1, <2>1, <3>1
    <3>2. CASE g = h
      BY <1>1, <2>1, <3>2
    <3>3. CASE f # h /\ g # h
      BY <1>1, <2>1, <3>3 DEF LoginInv, OwnersApart
    <3> QED BY <3>1, <3>2, <3>3
  <2> QED BY <2>1 DEF OwnersApart, Owns
<1>4. ASSUME NEW g \in Handlers PROVE LoginCall(calls[g])' /\ LoginRows(calls[g])'
  <2>1. CASE g = h
    <3>1. calls'[g] = d
      BY <1>1, <2>1
    <3> QED BY <3>1 DEF LoginCall, LoginRows, Owns, OfALogin, OfOneEmployed
  <2>2. CASE g # h
    <3>1. PICK c : c = calls[g]
      OBVIOUS
    <3>2. calls'[g] = c /\ LoginCall(c) /\ LoginRows(c)
      BY <1>1, <2>2, <3>1 DEF LoginInv
    <3>3. Owns(c) => firebase'[c.u] = firebase[c.u] /\ users'[c.u] = users[c.u]
      BY <2>2, <3>1 DEF LeavesAlone
    <3>4. LoginCall(c)'
      BY <3>2 DEF LoginCall, Owns, OfALogin, OfOneEmployed
    <3>5. LoginRows(c)'
      <4>1. OfALogin(c) => Known(c.u)'
        BY <3>2 DEF LoginRows, LoginCall, Grows
      <4>2. c.pc = "insert" /\ c.mail = Nothing => c.u = Nothing \/ Known(c.u)'
        BY <3>2 DEF LoginRows, LoginCall, Grows
      <4>3. OfOneEmployed(c) => staff'[c.e] # Nothing
        BY <3>2 DEF LoginRows, LoginCall, Grows
      <4>4. Owns(c) =>
              /\ ~Known(c.u)' /\ firebase'[c.u] # Nothing
              /\ c.pc # "undo" => firebase'[c.u].email = c.mail /\ ~firebase'[c.u].disabled
              /\ c.pc \in {"insert", "attach"} => firebase'[c.u].role = c.r
        BY <3>2, <3>3 DEF LoginRows, Known
      <4> QED BY <4>1, <4>2, <4>3, <4>4 DEF LoginRows, OfALogin, OfOneEmployed, Owns
    <3> QED BY <3>2, <3>4, <3>5
  <2> QED BY <2>1, <2>2
<1> QED BY <1>1, <1>2, <1>3, <1>4

(* A call that begins with reads. *)
LEMMA LoginReads ==
  ASSUME LoginInv, NEW h \in Handlers, NEW d, Begin(h, d), UNCHANGED loginVars, d # Idle,
         LoginCall(d), LoginRows(d), ~Owns(d), calm /\ InStepBut(Idle) => CalmLogin(d)
  PROVE  LoginInv'
<1>1. /\ calls' = [calls EXCEPT ![h] = d] /\ calm' = (calm /\ Quiet) /\ calls[h] = Idle
      /\ calm' => calm /\ \A g \in Handlers : calls[g] = Idle
  BY BegunAlone
<1>2. UNCHANGED <<firebase, users, staff, stray, readmitted, adminLeft>>
  BY DEF loginVars
<1>3. LoginRows(d)' /\ Grows /\ LeavesAlone(h) /\ StrayMoves(h, d)
  BY <1>1, <1>2 DEF LoginRows, Grows, LeavesAlone, StrayMoves, Known, Owns, OfALogin, OfOneEmployed, Idle
<1>4. /\ calls' = [g \in Handlers |-> calls'[g]]
      /\ \A g \in Handlers : calls'[g] = IF g = h THEN d ELSE calls[g]
      /\ NoneStray' /\ OwnersApart'
      /\ \A g \in Handlers : LoginCall(calls[g])' /\ LoginRows(calls[g])'
  BY <1>1, <1>3, LoginMoves
<1>5. LoginTypes' /\ LoginsTypeOK'
  BY <1>2 DEF LoginInv, LoginTypes, LoginsTypeOK, Known
<1>6. ASSUME calm' PROVE CalmLogin(d)' /\ OutWhenSeparated' /\ SomeAdmin' /\ ~Quiet'
  <2>1. calm /\ Quiet /\ CalmLogin(d)
    BY <1>1, <1>6 DEF LoginInv
  <2>2. CalmLogin(d)'
    BY <1>2, <2>1 DEF CalmLogin, InStepBut, Others, IsAdmin, Known
  <2>3. OutWhenSeparated' /\ SomeAdmin'
    BY <1>2, <2>1 DEF LoginInv, OutWhenSeparated, SomeAdmin, ActiveAdmins, IsAdmin, Known
  <2>4. ~Quiet'
    BY <1>4 DEF Quiet, Running
  <2> QED BY <2>2, <2>3, <2>4
<1>7. ASSUME calm', NEW g \in Handlers, calls'[g] # Idle PROVE CalmLogin(calls[g])'
  <2>1. calls'[g] = d
    BY <1>1, <1>4, <1>7
  <2> QED BY <1>6, <1>7, <2>1 DEF CalmLogin, InStepBut
<1>8. AtMostOne'
  BY <1>1, <1>4 DEF AtMostOne
<1>9. calm' \in BOOLEAN
  BY <1>1 DEF LoginInv
<1> QED BY <1>4, <1>5, <1>6, <1>7, <1>8, <1>9 DEF LoginInv

(* A call that writes and goes on or ends. *)
LEMMA LoginWrites ==
  ASSUME LoginInv, NEW h \in Handlers, NEW d, calls[h] # Idle, Continue(h, d),
         LoginCall(d), LoginRows(d)', Grows, LeavesAlone(h), StrayMoves(h, d),
         Owns(d) => \A g \in Handlers \ {h} : Owns(calls[g]) => calls[g].u # d.u,
         LoginTypes', LoginsTypeOK', calm => CalmLogin(d)' /\ OutWhenSeparated' /\ SomeAdmin'
  PROVE  LoginInv'
<1>1. /\ calls' = [calls EXCEPT ![h] = d] /\ calm' = calm
      /\ calm' => \A g \in Handlers \ {h} : calls[g] = Idle
  BY GoneOnAlone DEF LoginInv
<1>2. /\ calls' = [g \in Handlers |-> calls'[g]]
      /\ \A g \in Handlers : calls'[g] = IF g = h THEN d ELSE calls[g]
      /\ NoneStray' /\ OwnersApart'
      /\ \A g \in Handlers : LoginCall(calls[g])' /\ LoginRows(calls[g])'
  BY <1>1, LoginMoves
<1>3. calm' /\ Quiet' => InStepBut(Idle)'
  <2>1. Quiet' => d = Idle
    BY <1>2 DEF Quiet, Running
  <2>2. calm' => InStepBut(d)'
    BY <1>1 DEF CalmLogin
  <2> QED BY <2>1, <2>2 DEF InStepBut
<1>4. ASSUME calm', NEW g \in Handlers, calls'[g] # Idle PROVE CalmLogin(calls[g])'
  <2>1. calls'[g] = d /\ CalmLogin(d)'
    BY <1>1, <1>2, <1>4
  <2> QED BY <2>1 DEF CalmLogin, InStepBut
<1>5. AtMostOne'
  BY <1>1, <1>2 DEF AtMostOne
<1>6. calm' \in BOOLEAN
  BY <1>1 DEF LoginInv
<1> QED BY <1>1, <1>2, <1>3, <1>4, <1>5, <1>6 DEF LoginInv

----------------------------------------------------------------------------
(* The calls that begin. *)
LEMMA AccessReadStep ==
  ASSUME LoginInv, NEW h \in Handlers, NEW a \in Accounts,
         \/ \E u \in Accounts, r \in Roles : ChangeRoleRead(h, a, u, r)
         \/ \E u \in Accounts, on \in BOOLEAN : SetStatusRead(h, a, u, on)
  PROVE  LoginInv'
<1>1. ASSUME NEW u \in Accounts, ~LastAdmin(u), IsAdmin(u) PROVE Others(u)
  <2>1. PICK S : S = ActiveAdmins
    OBVIOUS
  <2>2. u \in S /\ ~(Cardinality(S) <= 1)
    BY <1>1, <2>1 DEF LastAdmin, ActiveAdmins
  <2>3. S # {u}
    <3>1. Cardinality({u}) = 1
      BY FS_Singleton
    <3> QED BY <2>2, <3>1
  <2> QED BY <2>1, <2>2, <2>3 DEF ActiveAdmins, Others
<1>2. ASSUME NEW u \in Accounts, NEW r \in Roles, ChangeRoleRead(h, a, u, r) PROVE LoginInv'
  <2>1. PICK d : d = [pc |-> "claim", u |-> u, r |-> r]
    OBVIOUS
  <2>2. Begin(h, d) /\ UNCHANGED loginVars /\ Known(u) /\ ~LastAdmin(u)
    BY <1>2, <2>1 DEF ChangeRoleRead
  <2>3. LoginCall(d) /\ LoginRows(d) /\ ~Owns(d) /\ d # Idle
    BY <2>1, <2>2 DEF LoginCall, LoginRows, Owns, OfALogin, OfOneEmployed, Idle
  <2>4. IsAdmin(u) => Others(u)
    BY <1>1, <2>2
  <2>5. InStepBut(Idle) => CalmLogin(d)
    BY <2>1, <2>4 DEF CalmLogin, InStepBut, Idle
  <2> QED BY <2>2, <2>3, <2>5, LoginReads
<1>3. ASSUME NEW u \in Accounts, NEW on \in BOOLEAN, SetStatusRead(h, a, u, on) PROVE LoginInv'
  <2>1. PICK d : d = [pc |-> "flag", u |-> u, on |-> on]
    OBVIOUS
  <2>2. Begin(h, d) /\ UNCHANGED loginVars /\ Known(u) /\ (~on => ~LastAdmin(u))
    BY <1>3, <2>1 DEF SetStatusRead
  <2>3. LoginCall(d) /\ LoginRows(d) /\ ~Owns(d) /\ d # Idle
    BY <2>1, <2>2 DEF LoginCall, LoginRows, Owns, OfALogin, OfOneEmployed, Idle
  <2>4. ~on => (IsAdmin(u) => Others(u))
    BY <1>1, <2>2
  <2>5. InStepBut(Idle) => CalmLogin(d)
    BY <2>1, <2>4 DEF CalmLogin, InStepBut, Idle
  <2> QED BY <2>2, <2>3, <2>5, LoginReads
<1> QED BY <1>2, <1>3

LEMMA TransitionReadStep ==
  ASSUME LoginInv, NEW h \in Handlers, NEW a \in Accounts, NEW e \in Staff, NEW to \in DOMAIN Transitions,
         TransitionRead(h, a, e, to)
  PROVE  LoginInv'
<1>1. PICK u : u = staff[e].login
  OBVIOUS
<1>2. PICK cascade \in BOOLEAN :
        cascade = (to = "SEPARATED" /\ u # Nothing /\ (IF u = Nothing THEN FALSE ELSE users[u].active))
  OBVIOUS
<1>3. PICK d : d = [pc |-> IF cascade THEN "disable" ELSE "state", e |-> e, u |-> u, to |-> to]
  OBVIOUS
<1>4. Begin(h, d) /\ UNCHANGED loginVars /\ staff[e] # Nothing /\ to \in Transitions[staff[e].state]
  BY <1>1, <1>2, <1>3 DEF TransitionRead
<1>5. staff[e] \in StaffRows /\ u \in Accounts \cup {Nothing} /\ (u # Nothing => Known(u))
  BY <1>1, <1>4 DEF LoginInv, LoginTypes, LoginsTypeOK, StaffRows
<1>6. CASE cascade
  <2>1. d.pc = "disable" /\ d.e = e /\ d.u = u /\ d.to = "SEPARATED" /\ u \in Accounts /\ Known(u) /\ "u" \in DOMAIN d
        /\ to = "SEPARATED" /\ "pc" \in DOMAIN d
    BY <1>2, <1>3, <1>5, <1>6
  <2>2. LoginCall(d) /\ LoginRows(d) /\ ~Owns(d) /\ d # Idle
    BY <1>4, <2>1 DEF LoginCall, LoginRows, Owns, OfALogin, OfOneEmployed, Idle
  <2>3. InStepBut(Idle) => CalmLogin(d)
    BY <1>1, <1>4, <2>1 DEF CalmLogin, InStepBut, Idle
  <2> QED BY <1>4, <2>2, <2>3, LoginReads
<1>7. CASE ~cascade
  <2>1. d.pc = "state" /\ "pc" \in DOMAIN d /\ d.e = e /\ d.to = to /\ (to = "SEPARATED" /\ u # Nothing => ~users[u].active)
    BY <1>2, <1>3, <1>7
  <2>2. LoginCall(d) /\ LoginRows(d) /\ ~Owns(d) /\ d # Idle
    BY <1>4, <2>1 DEF LoginCall, LoginRows, Owns, OfALogin, OfOneEmployed, Idle
  <2>3. InStepBut(Idle) => CalmLogin(d)
    BY <1>1, <1>4, <2>1 DEF CalmLogin, InStepBut, Idle
  <2> QED BY <1>4, <2>2, <2>3, LoginReads
<1> QED BY <1>6, <1>7

LEMMA AccountsReadStep ==
  ASSUME LoginInv, NEW h \in Handlers, NEW a \in Accounts, NEW e \in Staff,
         \/ \E u \in Accounts \cup {Nothing} : CreateRead(h, a, e, u)
         \/ \E mail \in Emails, r \in Roles : CreateNewRead(h, a, e, mail, r) \/ CreateLoginRead(h, a, e, mail, r)
         \/ \E u \in Accounts : LinkRead(h, a, e, u)
  PROVE  LoginInv'
<1>1. ASSUME NEW u \in Accounts \cup {Nothing}, CreateRead(h, a, e, u) PROVE LoginInv'
  <2>1. PICK d : d = [pc |-> "insert", e |-> e, u |-> u, mail |-> Nothing, r |-> Nothing]
    OBVIOUS
  <2>2. Begin(h, d) /\ UNCHANGED loginVars /\ (u # Nothing => Known(u))
    BY <1>1, <2>1 DEF CreateRead, Linkable
  <2>3. LoginCall(d) /\ LoginRows(d) /\ ~Owns(d) /\ d # Idle
    BY <2>1, <2>2 DEF LoginCall, LoginRows, Owns, OfALogin, OfOneEmployed, Idle
  <2>4. InStepBut(Idle) => CalmLogin(d)
    BY <2>1 DEF CalmLogin, InStepBut, Idle
  <2> QED BY <2>2, <2>3, <2>4, LoginReads
<1>2. ASSUME NEW mail \in Emails, NEW r \in Roles, CreateNewRead(h, a, e, mail, r) PROVE LoginInv'
  <2>1. PICK d : d = [pc |-> "account", e |-> e, mail |-> mail, r |-> r, then |-> "insert"]
    OBVIOUS
  <2>2. Begin(h, d) /\ UNCHANGED loginVars
    BY <1>2, <2>1 DEF CreateNewRead
  <2>3. LoginCall(d) /\ LoginRows(d) /\ ~Owns(d) /\ d # Idle
    BY <2>1, <2>2 DEF LoginCall, LoginRows, Owns, OfALogin, OfOneEmployed, Idle
  <2>4. InStepBut(Idle) => CalmLogin(d)
    BY <2>1 DEF CalmLogin, InStepBut, Idle
  <2> QED BY <2>2, <2>3, <2>4, LoginReads
<1>3. ASSUME NEW mail \in Emails, NEW r \in Roles, CreateLoginRead(h, a, e, mail, r) PROVE LoginInv'
  <2>1. PICK d : d = [pc |-> "account", e |-> e, mail |-> mail, r |-> r, then |-> "attach"]
    OBVIOUS
  <2>2. Begin(h, d) /\ UNCHANGED loginVars /\ staff[e] # Nothing /\ staff[e].state # "SEPARATED"
    BY <1>3, <2>1 DEF CreateLoginRead, CanHaveLogin
  <2>3. LoginCall(d) /\ LoginRows(d) /\ ~Owns(d) /\ d # Idle
    BY <2>1, <2>2 DEF LoginCall, LoginRows, Owns, OfALogin, OfOneEmployed, Idle
  <2>4. InStepBut(Idle) => CalmLogin(d)
    BY <2>1, <2>2 DEF CalmLogin, InStepBut, Idle
  <2> QED BY <2>2, <2>3, <2>4, LoginReads
<1>4. ASSUME NEW u \in Accounts, LinkRead(h, a, e, u) PROVE LoginInv'
  <2>1. PICK d : d = [pc |-> "link", e |-> e, u |-> u]
    OBVIOUS
  <2>2. Begin(h, d) /\ UNCHANGED loginVars /\ staff[e] # Nothing /\ staff[e].state # "SEPARATED" /\ Known(u)
    BY <1>4, <2>1 DEF LinkRead, CanHaveLogin, Linkable
  <2>3. LoginCall(d) /\ LoginRows(d) /\ ~Owns(d) /\ d # Idle
    BY <2>1, <2>2 DEF LoginCall, LoginRows, Owns, OfALogin, OfOneEmployed, Idle
  <2>4. InStepBut(Idle) => CalmLogin(d)
    BY <2>1, <2>2 DEF CalmLogin, InStepBut, Idle
  <2> QED BY <2>2, <2>3, <2>4, LoginReads
<1> QED BY <1>1, <1>2, <1>3, <1>4

LEMMA EmailReadStep ==
  ASSUME LoginInv, NEW h \in Handlers, NEW a \in Accounts, NEW e \in Staff,
         SyncRead(h, a, e) \/ \E mail \in Emails : UpdateEmailRead(h, a, e, mail)
  PROVE  LoginInv'
<1>1. ASSUME NEW u \in Accounts, NEW mail \in Emails, NEW edit \in BOOLEAN, Known(u), users[u].email # mail,
             staff[e] # Nothing, UNCHANGED loginVars,
             Begin(h, [pc |-> "move", e |-> e, u |-> u, mail |-> mail, old |-> users[u].email, edit |-> edit])
      PROVE  LoginInv'
  <2>1. PICK d : d = [pc |-> "move", e |-> e, u |-> u, mail |-> mail, old |-> users[u].email, edit |-> edit]
    OBVIOUS
  <2>2. users[u].email \in Emails
    BY <1>1 DEF LoginInv, LoginTypes, UserRows, Known
  <2>3. LoginCall(d) /\ LoginRows(d) /\ ~Owns(d) /\ d # Idle
    BY <1>1, <2>1, <2>2 DEF LoginCall, LoginRows, Owns, OfALogin, OfOneEmployed, Idle
  <2>4. InStepBut(Idle) => firebase[u].email # mail
    BY <1>1 DEF InStepBut, Idle
  <2>5. InStepBut(Idle) => CalmLogin(d)
    BY <2>1, <2>4 DEF CalmLogin, InStepBut, Idle
  <2> QED BY <1>1, <2>1, <2>3, <2>5, LoginReads
<1>2. staff[e] # Nothing =>
        /\ staff[e].login \in Accounts \cup {Nothing} /\ staff[e].email \in Emails \cup {Nothing}
        /\ staff[e].login # Nothing => Known(staff[e].login)
  BY DEF LoginInv, LoginTypes, LoginsTypeOK, StaffRows
<1>3. ASSUME SyncRead(h, a, e) PROVE LoginInv'
  <2>1. PICK u, mail : u = staff[e].login /\ mail = staff[e].email
    OBVIOUS
  <2>2. /\ u \in Accounts /\ mail \in Emails /\ Known(u) /\ users[u].email # mail /\ staff[e] # Nothing
        /\ UNCHANGED loginVars
        /\ Begin(h, [pc |-> "move", e |-> e, u |-> u, mail |-> mail, old |-> users[u].email, edit |-> FALSE])
    BY <1>2, <1>3, <2>1 DEF SyncRead
  <2> QED BY <1>1, <2>2
<1>4. ASSUME NEW mail \in Emails, UpdateEmailRead(h, a, e, mail) PROVE LoginInv'
  <2>1. PICK u : u = staff[e].login
    OBVIOUS
  <2>2. CASE u # Nothing /\ users[u].email # mail
    <3>1. /\ u \in Accounts /\ Known(u) /\ staff[e] # Nothing /\ UNCHANGED loginVars
          /\ Begin(h, [pc |-> "move", e |-> e, u |-> u, mail |-> mail, old |-> users[u].email, edit |-> TRUE])
      BY <1>2, <1>4, <2>1, <2>2 DEF UpdateEmailRead
    <3> QED BY <1>1, <2>2, <3>1
  <2>3. CASE ~(u # Nothing /\ users[u].email # mail)
    <3>1. PICK d : d = [pc |-> "edit", e |-> e, mail |-> mail]
      OBVIOUS
    <3>2. Begin(h, d) /\ UNCHANGED loginVars /\ staff[e] # Nothing
      BY <1>4, <2>1, <2>3, <3>1 DEF UpdateEmailRead
    <3>3. LoginCall(d) /\ LoginRows(d) /\ ~Owns(d) /\ d # Idle
      BY <3>1, <3>2 DEF LoginCall, LoginRows, Owns, OfALogin, OfOneEmployed, Idle
    <3>4. InStepBut(Idle) => CalmLogin(d)
      BY <3>1 DEF CalmLogin, InStepBut, Idle
    <3> QED BY <3>2, <3>3, <3>4, LoginReads
  <2> QED BY <2>2, <2>3
<1> QED BY <1>3, <1>4

----------------------------------------------------------------------------
(* One row is written, by a call that made no account. *)
Plain(h) ==
    /\ LoginTypes' /\ LoginsTypeOK' /\ Grows /\ LeavesAlone(h) /\ stray' = stray
    /\ \A u \in Accounts : firebase'[u] # Nothing /\ ~Known(u)' => firebase[u] # Nothing /\ ~Known(u)

LEMMA PlainWrites ==
  ASSUME LoginInv, NEW h \in Handlers, NEW d, calls[h] # Idle, Continue(h, d), ~Owns(calls[h]), ~Owns(d),
         LoginCall(d), LoginRows(d)', Plain(h), calm => CalmLogin(d)' /\ OutWhenSeparated' /\ SomeAdmin'
  PROVE  LoginInv'
<1>1. StrayMoves(h, d)
  BY DEF Plain, StrayMoves
<1> QED BY <1>1, LoginWrites DEF Plain

LEMMA NothingWritten ==
  ASSUME LoginInv, NEW h \in Handlers, UNCHANGED <<firebase, users, staff, stray>>
  PROVE  Plain(h)
BY DEF LoginInv, Plain, LoginTypes, LoginsTypeOK, Grows, LeavesAlone, Known

LEMMA AccountWritten ==
  ASSUME LoginInv, NEW h \in Handlers, NEW u \in Accounts, Known(u), NEW x \in FirebaseRows,
         firebase' = [firebase EXCEPT ![u] = x], UNCHANGED <<users, staff, stray>>
  PROVE  Plain(h) /\ firebase'[u] = x /\ \A v \in Accounts \ {u} : firebase'[v] = firebase[v]
<1>1. firebase'[u] = x /\ \A v \in Accounts \ {u} : firebase'[v] = firebase[v]
  BY DEF LoginInv, LoginTypes
<1>2. LoginTypes'
  BY DEF LoginInv, LoginTypes
<1>3. x # Nothing
  BY LoginsAssumption
<1>4. LoginsTypeOK'
  BY <1>1, <1>3 DEF LoginInv, LoginsTypeOK, Known
<1>5. Grows
  BY DEF Grows, Known
<1>6. LeavesAlone(h)
  <2>1. ASSUME NEW g \in Handlers, Owns(calls[g]) PROVE calls[g].u \in Accounts \ {u}
    BY <2>1 DEF LoginInv, LoginCall, LoginRows
  <2> QED BY <1>1, <2>1 DEF LeavesAlone
<1>7. \A v \in Accounts : firebase'[v] # Nothing /\ ~Known(v)' => firebase[v] # Nothing /\ ~Known(v)
  BY <1>1 DEF Known
<1> QED BY <1>1, <1>2, <1>4, <1>5, <1>6, <1>7 DEF Plain

LEMMA UserWritten ==
  ASSUME LoginInv, NEW h \in Handlers, NEW u \in Accounts, Known(u), NEW x \in UserRows,
         \A v \in Accounts \ {u} : Known(v) => users[v].email # x.email,
         users' = [users EXCEPT ![u] = x], UNCHANGED <<firebase, staff, stray>>
  PROVE  /\ Plain(h) /\ users'[u] = x /\ \A v \in Accounts \ {u} : users'[v] = users[v]
         /\ \A v \in Accounts : Known(v)' <=> Known(v)
<1>1. users'[u] = x /\ \A v \in Accounts \ {u} : users'[v] = users[v]
  BY DEF LoginInv, LoginTypes
<1>2. LoginTypes'
  BY DEF LoginInv, LoginTypes
<1>3. x # Nothing
  BY LoginsAssumption
<1>4. \A v \in Accounts : Known(v)' <=> Known(v)
  BY <1>1, <1>3 DEF Known
<1>5. LoginsTypeOK'
  <2>1. \A v \in Accounts : Known(v)' => firebase'[v] # Nothing
    BY <1>4 DEF LoginInv, LoginsTypeOK
  <2>2. \A v, w \in Accounts : v # w /\ Known(v)' /\ Known(w)' => users'[v].email # users'[w].email
    BY <1>1, <1>4 DEF LoginInv, LoginsTypeOK
  <2>3. \A e \in Staff : staff'[e] # Nothing =>
         /\ staff'[e].state \in DOMAIN Transitions
         /\ staff'[e].login # Nothing => Known(staff[e].login)'
    <3>1. \A e \in Staff : staff[e] # Nothing => staff[e].login \in Accounts \cup {Nothing}
      BY DEF LoginInv, LoginTypes, StaffRows
    <3> QED BY <1>4, <3>1 DEF LoginInv, LoginsTypeOK
  <2> QED BY <2>1, <2>2, <2>3 DEF LoginInv, LoginsTypeOK
<1>6. Grows
  BY <1>4 DEF Grows
<1>7. LeavesAlone(h)
  <2>1. ASSUME NEW g \in Handlers, Owns(calls[g]) PROVE calls[g].u \in Accounts \ {u}
    BY <2>1 DEF LoginInv, LoginCall, LoginRows
  <2> QED BY <1>1, <2>1 DEF LeavesAlone
<1>8. \A v \in Accounts : firebase'[v] # Nothing /\ ~Known(v)' => firebase[v] # Nothing /\ ~Known(v)
  BY <1>4
<1> QED BY <1>1, <1>2, <1>4, <1>5, <1>6, <1>7, <1>8 DEF Plain

LEMMA StaffWritten ==
  ASSUME LoginInv, NEW h \in Handlers, NEW e \in Staff, staff[e] # Nothing, NEW x \in StaffRows,
         \/ x.login = staff[e].login
         \/ x.login \in Accounts /\ Known(x.login) /\ ~Linked(x.login),
         staff' = [staff EXCEPT ![e] = x], UNCHANGED <<firebase, users, stray>>
  PROVE  Plain(h) /\ staff'[e] = x /\ \A f \in Staff \ {e} : staff'[f] = staff[f]
<1>1. staff'[e] = x /\ \A f \in Staff \ {e} : staff'[f] = staff[f]
  BY DEF LoginInv, LoginTypes
<1>2. LoginTypes'
  BY DEF LoginInv, LoginTypes
<1>3. x # Nothing /\ x.state \in DOMAIN Transitions
  BY LoginsAssumption DEF StaffRows, Transitions
<1>4. LoginsTypeOK'
  <2>1. \A f \in Staff : staff'[f] # Nothing =>
         /\ staff'[f].state \in DOMAIN Transitions
         /\ staff'[f].login # Nothing => Known(staff'[f].login)
    BY <1>1, <1>3 DEF LoginInv, LoginsTypeOK
  <2>2. \A f \in Staff \ {e} : staff[f] # Nothing /\ x.login # Nothing => staff[f].login # x.login
    BY DEF LoginInv, LoginsTypeOK, Linked
  <2>3. \A f, g \in Staff : f # g /\ staff'[f] # Nothing /\ staff'[g] # Nothing /\ staff'[f].login # Nothing
          => staff'[f].login # staff'[g].login
    BY <1>1, <2>2 DEF LoginInv, LoginsTypeOK
  <2> QED BY <2>1, <2>3 DEF LoginInv, LoginsTypeOK, Known
<1>5. Grows
  BY <1>1, <1>3 DEF Grows, Known
<1>6. LeavesAlone(h)
  BY DEF LeavesAlone
<1>7. \A v \in Accounts : firebase'[v] # Nothing /\ ~Known(v)' => firebase[v] # Nothing /\ ~Known(v)
  BY DEF Known
<1> QED BY <1>1, <1>2, <1>4, <1>5, <1>6, <1>7 DEF Plain

(* A call that ends without a further write. *)
LEMMA LoginEnds ==
  ASSUME LoginInv, NEW h \in Handlers, calls[h] # Idle, Finish(h), ~Owns(calls[h]), Plain(h),
         calm => InStepBut(Idle)' /\ OutWhenSeparated' /\ SomeAdmin'
  PROVE  LoginInv'
<1>1. ~Owns(Idle) /\ LoginCall(Idle) /\ LoginRows(Idle)'
  BY DEF Owns, LoginCall, LoginRows, OfALogin, OfOneEmployed, Idle
<1>2. InStepBut(Idle)' => CalmLogin(Idle)'
  BY DEF CalmLogin, InStepBut, Idle
<1> QED BY <1>1, <1>2, PlainWrites DEF Finish

(* Nothing is written: Firebase refused, say. *)
LEMMA LoginGivesUp ==
  ASSUME LoginInv, NEW h \in Handlers, calls[h] # Idle, Finish(h), ~Owns(calls[h]), UNCHANGED loginVars,
         calls[h].pc \notin {"role", "moved", "status"}
  PROVE  LoginInv'
<1>1. UNCHANGED <<firebase, users, staff, stray, readmitted, adminLeft>>
  BY DEF loginVars
<1>2. InStepBut(calls[h]) => InStepBut(Idle)'
  BY <1>1 DEF InStepBut, Known
<1>3. calm => InStepBut(calls[h])
  BY DEF LoginInv, CalmLogin
<1>4. calm => OutWhenSeparated' /\ SomeAdmin'
  BY <1>1 DEF LoginInv, OutWhenSeparated, SomeAdmin, ActiveAdmins, IsAdmin, Known
<1> QED BY <1>1, <1>2, <1>3, <1>4, NothingWritten, LoginEnds

LEMMA ChangeRoleClaimStep == ASSUME LoginInv, NEW h \in Handlers, ChangeRoleClaim(h) PROVE LoginInv'
<1>0. PICK c : c = calls[h]
  OBVIOUS
<1>1. /\ c.pc = "claim" /\ UNCHANGED <<users, staff, stray, readmitted, adminLeft>>
      /\ \/ /\ firebase' = [firebase EXCEPT ![c.u].role = c.r]
            /\ Continue(h, [pc |-> "role", u |-> c.u, r |-> c.r])
         \/ Finish(h) /\ UNCHANGED firebase
  BY <1>0 DEF ChangeRoleClaim
<1>2. c # Idle /\ LoginCall(c) /\ LoginRows(c) /\ (calm => CalmLogin(c) /\ OutWhenSeparated /\ SomeAdmin)
  BY <1>0, <1>1 DEF Idle, LoginInv
<1>3. c.u \in Accounts /\ c.r \in Roles /\ Known(c.u) /\ ~Owns(c)
  BY <1>1, <1>2 DEF LoginCall, LoginRows, OfALogin, Owns
<1>4. CASE Finish(h) /\ UNCHANGED firebase
  BY <1>0, <1>1, <1>2, <1>3, <1>4, LoginGivesUp DEF loginVars
<1>5. CASE /\ firebase' = [firebase EXCEPT ![c.u].role = c.r]
           /\ Continue(h, [pc |-> "role", u |-> c.u, r |-> c.r])
  <2>1. PICK d : d = [pc |-> "role", u |-> c.u, r |-> c.r]
    OBVIOUS
  <2>2. PICK x : x = [firebase[c.u] EXCEPT !.role = c.r]
    OBVIOUS
  <2>3. firebase[c.u] \in FirebaseRows
    BY <1>3 DEF LoginInv, LoginTypes, LoginsTypeOK
  <2>4. x \in FirebaseRows /\ x.role = c.r /\ x.email = firebase[c.u].email /\ x.disabled = firebase[c.u].disabled
    BY <1>3, <2>2, <2>3 DEF FirebaseRows
  <2>5. firebase' = [firebase EXCEPT ![c.u] = x]
    BY <1>5, <2>2
  <2>6. Plain(h) /\ firebase'[c.u] = x /\ \A v \in Accounts \ {c.u} : firebase'[v] = firebase[v]
    BY <1>1, <1>3, <2>4, <2>5, AccountWritten
  <2>7. ~Owns(d) /\ LoginCall(d) /\ LoginRows(d)'
    BY <1>1, <1>3, <2>1 DEF Owns, LoginCall, LoginRows, OfALogin, OfOneEmployed, Idle, Known
  <2>8. ASSUME calm PROVE CalmLogin(d)' /\ OutWhenSeparated' /\ SomeAdmin'
    <3>1. InStepBut(d)'
      BY <1>1, <1>2, <2>1, <2>4, <2>6, <2>8 DEF CalmLogin, InStepBut, Known
    <3>2. IsAdmin(c.u) => Others(c.u)
      BY <1>1, <1>2, <2>8 DEF CalmLogin
    <3>3. (IsAdmin(d.u) => Others(d.u))'
      BY <1>1, <2>1, <3>2 DEF Others, IsAdmin, Known
    <3>4. CalmLogin(d)'
      BY <2>1, <2>4, <2>6, <3>1, <3>3 DEF CalmLogin
    <3> QED BY <1>1, <1>2, <2>8, <3>4 DEF OutWhenSeparated, SomeAdmin, ActiveAdmins, IsAdmin, Known
  <2> QED BY <1>0, <1>2, <1>3, <1>5, <2>1, <2>6, <2>7, <2>8, PlainWrites
<1> QED BY <1>1, <1>4, <1>5

LEMMA AnotherAdmin ==
  ASSUME NEW u \in Accounts, IsAdmin(u) => Others(u), SomeAdmin, adminLeft' = adminLeft,
         \A v \in Accounts \ {u} : users'[v] = users[v]
  PROVE  SomeAdmin'
<1>1. CASE adminLeft
  BY <1>1 DEF SomeAdmin
<1>2. CASE ~adminLeft
  <2>1. PICK v \in Accounts : IsAdmin(v)
    BY <1>2 DEF SomeAdmin, ActiveAdmins
  <2>2. PICK w \in Accounts \ {u} : IsAdmin(w)
    BY <2>1 DEF Others
  <2>3. IsAdmin(w)'
    BY <2>2 DEF IsAdmin, Known
  <2> QED BY <2>3 DEF SomeAdmin, ActiveAdmins
<1> QED BY <1>1, <1>2

LEMMA ChangeRoleWriteStep == ASSUME LoginInv, NEW h \in Handlers, ChangeRoleWrite(h) PROVE LoginInv'
<1>0. PICK c : c = calls[h]
  OBVIOUS
<1>1. /\ c.pc = "role" /\ UNCHANGED <<firebase, staff, stray, readmitted, adminLeft>>
      /\ users' = [users EXCEPT ![c.u].role = c.r] /\ Finish(h)
  BY <1>0 DEF ChangeRoleWrite
<1>2. c # Idle /\ LoginCall(c) /\ LoginRows(c) /\ (calm => CalmLogin(c) /\ OutWhenSeparated /\ SomeAdmin)
  BY <1>0, <1>1 DEF Idle, LoginInv
<1>3. c.u \in Accounts /\ c.r \in Roles /\ Known(c.u) /\ ~Owns(c)
  BY <1>1, <1>2 DEF LoginCall, LoginRows, OfALogin, Owns
<1>4. PICK x : x = [users[c.u] EXCEPT !.role = c.r]
  OBVIOUS
<1>5. users[c.u] \in UserRows
  BY <1>3 DEF LoginInv, LoginTypes, Known
<1>6. x \in UserRows /\ x.role = c.r /\ x.email = users[c.u].email /\ x.active = users[c.u].active
  BY <1>3, <1>4, <1>5 DEF UserRows
<1>7. \A v \in Accounts \ {c.u} : Known(v) => users[v].email # x.email
  BY <1>3, <1>6 DEF LoginInv, LoginsTypeOK
<1>8. users' = [users EXCEPT ![c.u] = x]
  BY <1>1, <1>4
<1>9. /\ Plain(h) /\ users'[c.u] = x /\ \A v \in Accounts \ {c.u} : users'[v] = users[v]
      /\ \A v \in Accounts : Known(v)' <=> Known(v)
  BY <1>1, <1>3, <1>6, <1>7, <1>8, UserWritten
<1>10. ASSUME calm PROVE InStepBut(Idle)' /\ OutWhenSeparated' /\ SomeAdmin'
  <2>1. InStepBut(Idle)'
    BY <1>1, <1>2, <1>6, <1>9, <1>10 DEF CalmLogin, InStepBut
  <2>2. OutWhenSeparated'
    <3>1. \A e \in Staff : staff[e] # Nothing => staff[e].login \in Accounts \cup {Nothing}
      BY DEF LoginInv, LoginTypes, StaffRows
    <3> QED BY <1>1, <1>2, <1>6, <1>9, <1>10, <3>1 DEF OutWhenSeparated
  <2>3. SomeAdmin'
    BY <1>1, <1>2, <1>3, <1>9, <1>10, AnotherAdmin DEF CalmLogin
  <2> QED BY <2>1, <2>2, <2>3
<1> QED BY <1>0, <1>1, <1>2, <1>3, <1>9, <1>10, LoginEnds

LEMMA SetStatusFirebaseStep == ASSUME LoginInv, NEW h \in Handlers, SetStatusFirebase(h) PROVE LoginInv'
<1>0. PICK c : c = calls[h]
  OBVIOUS
<1>1. /\ c.pc = "flag" /\ UNCHANGED <<users, staff, stray, readmitted, adminLeft>>
      /\ \/ /\ firebase' = [firebase EXCEPT ![c.u].disabled = ~c.on]
            /\ \/ Continue(h, [pc |-> "status", u |-> c.u, on |-> c.on])
               \/ ~c.on /\ Finish(h)
         \/ Finish(h) /\ UNCHANGED firebase
  BY <1>0 DEF SetStatusFirebase
<1>2. c # Idle /\ LoginCall(c) /\ LoginRows(c) /\ (calm => CalmLogin(c) /\ OutWhenSeparated /\ SomeAdmin)
  BY <1>0, <1>1 DEF Idle, LoginInv
<1>3. c.u \in Accounts /\ c.on \in BOOLEAN /\ Known(c.u) /\ ~Owns(c)
  BY <1>1, <1>2 DEF LoginCall, LoginRows, OfALogin, Owns
<1>4. CASE Finish(h) /\ UNCHANGED firebase
  BY <1>0, <1>1, <1>2, <1>3, <1>4, LoginGivesUp DEF loginVars
<1>5. CASE /\ firebase' = [firebase EXCEPT ![c.u].disabled = ~c.on]
           /\ \/ Continue(h, [pc |-> "status", u |-> c.u, on |-> c.on])
              \/ ~c.on /\ Finish(h)
  <2>1. PICK d : d = [pc |-> "status", u |-> c.u, on |-> c.on]
    OBVIOUS
  <2>2. PICK x : x = [firebase[c.u] EXCEPT !.disabled = ~c.on]
    OBVIOUS
  <2>3. firebase[c.u] \in FirebaseRows
    BY <1>3 DEF LoginInv, LoginTypes, LoginsTypeOK
  <2>4. x \in FirebaseRows /\ x.role = firebase[c.u].role /\ x.email = firebase[c.u].email /\ x.disabled = ~c.on
    BY <1>3, <2>2, <2>3 DEF FirebaseRows
  <2>5. firebase' = [firebase EXCEPT ![c.u] = x]
    BY <1>5, <2>2
  <2>6. Plain(h) /\ firebase'[c.u] = x /\ \A v \in Accounts \ {c.u} : firebase'[v] = firebase[v]
    BY <1>1, <1>3, <2>4, <2>5, AccountWritten
  <2>7. calm => OutWhenSeparated' /\ SomeAdmin'
    BY <1>1, <1>2 DEF OutWhenSeparated, SomeAdmin, ActiveAdmins, IsAdmin, Known
  <2>8. CASE Continue(h, [pc |-> "status", u |-> c.u, on |-> c.on])
    <3>1. ~Owns(d) /\ LoginCall(d) /\ LoginRows(d)'
      BY <1>1, <1>3, <2>1 DEF Owns, LoginCall, LoginRows, OfALogin, OfOneEmployed, Idle, Known
    <3>2. ASSUME calm PROVE CalmLogin(d)'
      <4>1. InStepBut(d)'
        BY <1>1, <1>2, <2>1, <2>4, <2>6, <3>2 DEF CalmLogin, InStepBut, Known
      <4>2. ~c.on => (IsAdmin(c.u) => Others(c.u))
        BY <1>1, <1>2, <3>2 DEF CalmLogin
      <4>3. ~d.on => (IsAdmin(d.u) => Others(d.u))'
        BY <1>1, <2>1, <4>2 DEF Others, IsAdmin, Known
      <4> QED BY <2>1, <2>4, <2>6, <4>1, <4>3 DEF CalmLogin
    <3> QED BY <1>0, <1>2, <1>3, <2>1, <2>6, <2>7, <2>8, <3>1, <3>2, PlainWrites
  <2>9. CASE ~c.on /\ Finish(h)
    <3>1. ASSUME calm PROVE InStepBut(Idle)'
      <4>1. \A u \in Accounts : Known(u) =>
              /\ firebase[u].role = users[u].role /\ firebase[u].email = users[u].email
              /\ users[u].active \/ firebase[u].disabled
        BY <1>1, <1>2, <3>1 DEF CalmLogin, InStepBut
      <4>2. \A u \in Accounts : firebase'[u].role = firebase[u].role
                                /\ firebase'[u].email = firebase[u].email
                                /\ (firebase[u].disabled => firebase'[u].disabled)
        BY <2>4, <2>6, <2>9
      <4>3. \A u \in Accounts : Known(u)' => Known(u)
        BY <1>1 DEF Known
      <4> QED BY <1>1, <4>1, <4>2, <4>3 DEF InStepBut
    <3>2. calls[h] # Idle /\ ~Owns(calls[h]) /\ Finish(h) /\ Plain(h)
      <4>1. c # Idle /\ ~Owns(c)
        BY <1>2, <1>3
      <4>2. calls[h] # Idle /\ ~Owns(calls[h])
        BY <1>0, <4>1
      <4> QED BY <2>6, <2>9, <4>2
    <3>3. calm => InStepBut(Idle)' /\ OutWhenSeparated' /\ SomeAdmin'
      BY <2>7, <3>1
    <3> QED BY <3>2, <3>3, LoginEnds
  <2> QED BY <1>5, <2>8, <2>9
<1> QED BY <1>1, <1>4, <1>5

LEMMA SetStatusWriteStep == ASSUME LoginInv, NEW h \in Handlers, SetStatusWrite(h) PROVE LoginInv'
<1>0. PICK c : c = calls[h]
  OBVIOUS
<1>1. /\ c.pc = "status" /\ UNCHANGED <<firebase, staff, stray, adminLeft>>
      /\ users' = [users EXCEPT ![c.u].active = c.on] /\ Finish(h)
      /\ readmitted' = IF c.on THEN readmitted \cup {c.u} ELSE readmitted
  BY <1>0 DEF SetStatusWrite
<1>2. c # Idle /\ LoginCall(c) /\ LoginRows(c) /\ (calm => CalmLogin(c) /\ OutWhenSeparated /\ SomeAdmin)
  BY <1>0, <1>1 DEF Idle, LoginInv
<1>3. c.u \in Accounts /\ c.on \in BOOLEAN /\ Known(c.u) /\ ~Owns(c)
  BY <1>1, <1>2 DEF LoginCall, LoginRows, OfALogin, Owns
<1>4. PICK x : x = [users[c.u] EXCEPT !.active = c.on]
  OBVIOUS
<1>5. users[c.u] \in UserRows
  BY <1>3 DEF LoginInv, LoginTypes, Known
<1>6. x \in UserRows /\ x.role = users[c.u].role /\ x.email = users[c.u].email /\ x.active = c.on
  BY <1>3, <1>4, <1>5 DEF UserRows
<1>7. \A v \in Accounts \ {c.u} : Known(v) => users[v].email # x.email
  BY <1>3, <1>6 DEF LoginInv, LoginsTypeOK
<1>8. users' = [users EXCEPT ![c.u] = x]
  BY <1>1, <1>4
<1>9. /\ Plain(h) /\ users'[c.u] = x /\ \A v \in Accounts \ {c.u} : users'[v] = users[v]
      /\ \A v \in Accounts : Known(v)' <=> Known(v)
  BY <1>1, <1>3, <1>6, <1>7, <1>8, UserWritten
<1>10. ASSUME calm PROVE InStepBut(Idle)' /\ OutWhenSeparated' /\ SomeAdmin'
  <2>1. InStepBut(Idle)'
    <3>1. c.on \/ firebase[c.u].disabled
      BY <1>1, <1>2, <1>10 DEF CalmLogin
    <3> QED BY <1>1, <1>2, <1>6, <1>9, <1>10, <3>1 DEF CalmLogin, InStepBut
  <2>2. OutWhenSeparated'
    <3>1. \A e \in Staff : staff[e] # Nothing => staff[e].login \in Accounts \cup {Nothing}
      BY DEF LoginInv, LoginTypes, StaffRows
    <3>2. readmitted \subseteq readmitted' /\ (c.on => c.u \in readmitted')
      BY <1>1
    <3> QED BY <1>1, <1>2, <1>6, <1>9, <1>10, <3>1, <3>2 DEF OutWhenSeparated
  <2>3. SomeAdmin'
    <3>1. CASE c.on
      <4>1. \A v \in Accounts : IsAdmin(v) => IsAdmin(v)'
        BY <1>6, <1>9, <3>1 DEF IsAdmin
      <4> QED BY <1>1, <1>2, <1>10, <4>1 DEF SomeAdmin, ActiveAdmins
    <3>2. CASE ~c.on
      BY <1>1, <1>2, <1>3, <1>9, <1>10, <3>2, AnotherAdmin DEF CalmLogin
    <3> QED BY <3>1, <3>2
  <2> QED BY <2>1, <2>2, <2>3
<1> QED BY <1>0, <1>1, <1>2, <1>3, <1>9, <1>10, LoginEnds

LEMMA MoveEmailFirebaseStep == ASSUME LoginInv, NEW h \in Handlers, MoveEmailFirebase(h) PROVE LoginInv'
<1>0. PICK c : c = calls[h]
  OBVIOUS
<1>1. /\ c.pc = "move" /\ UNCHANGED <<users, staff, stray, readmitted, adminLeft>>
      /\ \/ /\ firebase[c.u].email = c.mail \/ ~FirebaseHas(c.mail)
            /\ firebase' = [firebase EXCEPT ![c.u].email = c.mail]
            /\ Continue(h, [c EXCEPT !.pc = "moved"])
         \/ Finish(h) /\ UNCHANGED firebase
  BY <1>0 DEF MoveEmailFirebase
<1>2. c # Idle /\ LoginCall(c) /\ LoginRows(c) /\ (calm => CalmLogin(c) /\ OutWhenSeparated /\ SomeAdmin)
  BY <1>0, <1>1 DEF Idle, LoginInv
<1>3. c.u \in Accounts /\ c.mail \in Emails /\ Known(c.u) /\ ~Owns(c) /\ c.e \in Staff /\ staff[c.e] # Nothing
      /\ c.old \in Emails /\ c.edit \in BOOLEAN /\ "u" \in DOMAIN c
  BY <1>1, <1>2 DEF LoginCall, LoginRows, OfALogin, OfOneEmployed, Owns
<1>4. CASE Finish(h) /\ UNCHANGED firebase
  BY <1>0, <1>1, <1>2, <1>3, <1>4, LoginGivesUp DEF loginVars
<1>5. CASE /\ firebase[c.u].email = c.mail \/ ~FirebaseHas(c.mail)
           /\ firebase' = [firebase EXCEPT ![c.u].email = c.mail]
           /\ Continue(h, [c EXCEPT !.pc = "moved"])
  <2>1. PICK d : d = [c EXCEPT !.pc = "moved"]
    OBVIOUS
  <2>2. PICK x : x = [firebase[c.u] EXCEPT !.email = c.mail]
    OBVIOUS
  <2>3. firebase[c.u] \in FirebaseRows
    BY <1>3 DEF LoginInv, LoginTypes, LoginsTypeOK
  <2>4. x \in FirebaseRows /\ x.role = firebase[c.u].role /\ x.email = c.mail /\ x.disabled = firebase[c.u].disabled
    BY <1>3, <2>2, <2>3 DEF FirebaseRows
  <2>5. firebase' = [firebase EXCEPT ![c.u] = x]
    BY <1>5, <2>2
  <2>6. Plain(h) /\ firebase'[c.u] = x /\ \A v \in Accounts \ {c.u} : firebase'[v] = firebase[v]
    BY <1>1, <1>3, <2>4, <2>5, AccountWritten
  <2>7. /\ d.u = c.u /\ d.mail = c.mail /\ d.e = c.e /\ d.old = c.old /\ d.edit = c.edit /\ DOMAIN d = DOMAIN c
        /\ "pc" \in DOMAIN c => d.pc = "moved"
    BY <2>1
  <2>8. "pc" \in DOMAIN c
    BY <1>1, <1>2 DEF LoginCall
  <2>9. ~Owns(d) /\ LoginCall(d) /\ LoginRows(d)'
    BY <1>1, <1>3, <2>7, <2>8 DEF Owns, LoginCall, LoginRows, OfALogin, OfOneEmployed, Idle, Known
  <2>10. ASSUME calm PROVE CalmLogin(d)' /\ OutWhenSeparated' /\ SomeAdmin'
    <3>1. InStepBut(d)'
      BY <1>1, <1>2, <2>7, <2>8, <2>4, <2>6, <2>10 DEF CalmLogin, InStepBut, Known
    <3>2. ~FirebaseHas(c.mail)
      BY <1>1, <1>2, <1>5, <2>10 DEF CalmLogin
    <3>3. ASSUME NEW v \in Accounts \ {c.u}, Known(v) PROVE users[v].email # c.mail
      <4>1. firebase[v].email = users[v].email
        BY <1>1, <1>2, <2>10, <3>3 DEF CalmLogin, InStepBut
      <4>2. firebase[v] # Nothing
        BY <3>3 DEF LoginInv, LoginsTypeOK
      <4> QED BY <3>2, <4>1, <4>2 DEF FirebaseHas
    <3>4. CalmLogin(d)'
      BY <1>1, <2>7, <2>8, <2>4, <2>6, <3>1, <3>3 DEF CalmLogin, Known
    <3> QED BY <1>1, <1>2, <2>10, <3>4 DEF OutWhenSeparated, SomeAdmin, ActiveAdmins, IsAdmin, Known
  <2> QED BY <1>0, <1>2, <1>3, <1>5, <2>1, <2>6, <2>9, <2>10, PlainWrites
<1> QED BY <1>1, <1>4, <1>5

LEMMA MoveEmailWriteStep == ASSUME LoginInv, NEW h \in Handlers, MoveEmailWrite(h) PROVE LoginInv'
<1>0. PICK c : c = calls[h]
  OBVIOUS
<1>1. /\ c.pc = "moved" /\ UNCHANGED <<staff, stray, readmitted, adminLeft>>
      /\ IF \E v \in Accounts \ {c.u} : Known(v) /\ users[v].email = c.mail
         THEN /\ \/ firebase' = [firebase EXCEPT ![c.u].email = c.old]
                 \/ UNCHANGED firebase
              /\ Finish(h) /\ UNCHANGED users
         ELSE /\ users' = [users EXCEPT ![c.u].email = c.mail]
              /\ IF c.edit THEN Continue(h, [pc |-> "edit", e |-> c.e, mail |-> c.mail]) ELSE Finish(h)
              /\ UNCHANGED firebase
  BY <1>0 DEF MoveEmailWrite
<1>2. c # Idle /\ LoginCall(c) /\ LoginRows(c) /\ (calm => CalmLogin(c) /\ OutWhenSeparated /\ SomeAdmin)
  BY <1>0, <1>1 DEF Idle, LoginInv
<1>3. c.u \in Accounts /\ c.mail \in Emails /\ Known(c.u) /\ ~Owns(c) /\ c.e \in Staff /\ staff[c.e] # Nothing
      /\ c.old \in Emails /\ c.edit \in BOOLEAN
  BY <1>1, <1>2 DEF LoginCall, LoginRows, OfALogin, OfOneEmployed, Owns
<1>4. CASE \E v \in Accounts \ {c.u} : Known(v) /\ users[v].email = c.mail
  <2>1. ~calm
    BY <1>1, <1>2, <1>4 DEF CalmLogin
  <2>2. Plain(h)
    <3>1. CASE UNCHANGED firebase
      BY <1>1, <1>4, <3>1, NothingWritten
    <3>2. CASE firebase' = [firebase EXCEPT ![c.u].email = c.old]
      <4>1. PICK x : x = [firebase[c.u] EXCEPT !.email = c.old]
        OBVIOUS
      <4>2. firebase[c.u] \in FirebaseRows
        BY <1>3 DEF LoginInv, LoginTypes, LoginsTypeOK
      <4>3. x \in FirebaseRows /\ firebase' = [firebase EXCEPT ![c.u] = x]
        BY <1>3, <3>2, <4>1, <4>2 DEF FirebaseRows
      <4> QED BY <1>1, <1>3, <1>4, <4>3, AccountWritten
    <3> QED BY <1>1, <1>4, <3>1, <3>2
  <2> QED BY <1>0, <1>1, <1>2, <1>3, <1>4, <2>1, <2>2, LoginEnds
<1>5. CASE ~\E v \in Accounts \ {c.u} : Known(v) /\ users[v].email = c.mail
  <2>1. PICK x : x = [users[c.u] EXCEPT !.email = c.mail]
    OBVIOUS
  <2>2. users[c.u] \in UserRows
    BY <1>3 DEF LoginInv, LoginTypes, Known
  <2>3. x \in UserRows /\ x.role = users[c.u].role /\ x.email = c.mail /\ x.active = users[c.u].active
    BY <1>3, <2>1, <2>2 DEF UserRows
  <2>4. \A v \in Accounts \ {c.u} : Known(v) => users[v].email # x.email
    BY <1>5, <2>3
  <2>5. users' = [users EXCEPT ![c.u] = x] /\ UNCHANGED firebase
    BY <1>1, <1>5, <2>1
  <2>6. /\ Plain(h) /\ users'[c.u] = x /\ \A v \in Accounts \ {c.u} : users'[v] = users[v]
        /\ \A v \in Accounts : Known(v)' <=> Known(v)
    BY <1>1, <1>3, <2>3, <2>4, <2>5, UserWritten
  <2>7. PICK d : d = IF c.edit THEN [pc |-> "edit", e |-> c.e, mail |-> c.mail] ELSE Idle
    OBVIOUS
  <2>8. Continue(h, d)
    BY <1>1, <1>5, <2>7 DEF Finish
  <2>9. d = Idle \/ (d = [pc |-> "edit", e |-> c.e, mail |-> c.mail])
    BY <2>7
  <2>10. ~Owns(d) /\ LoginCall(d) /\ LoginRows(d)'
    BY <1>1, <1>3, <2>9 DEF Owns, LoginCall, LoginRows, OfALogin, OfOneEmployed, Idle
  <2>11. ASSUME calm PROVE CalmLogin(d)' /\ OutWhenSeparated' /\ SomeAdmin'
    <3>1. InStepBut(Idle)'
      BY <1>1, <1>2, <2>3, <2>5, <2>6, <2>11 DEF CalmLogin, InStepBut
    <3>2. CalmLogin(d)'
      BY <2>9, <3>1 DEF CalmLogin, InStepBut, Idle
    <3>3. OutWhenSeparated'
      <4>1. \A e \in Staff : staff[e] # Nothing => staff[e].login \in Accounts \cup {Nothing}
        BY DEF LoginInv, LoginTypes, StaffRows
      <4> QED BY <1>1, <1>2, <2>3, <2>6, <2>11, <4>1 DEF OutWhenSeparated
    <3>4. \A v \in Accounts : IsAdmin(v) => IsAdmin(v)'
      BY <2>3, <2>6 DEF IsAdmin
    <3> QED BY <1>1, <1>2, <2>11, <3>2, <3>3, <3>4 DEF SomeAdmin, ActiveAdmins
  <2> QED BY <1>0, <1>2, <1>3, <2>6, <2>8, <2>10, <2>11, PlainWrites
<1> QED BY <1>4, <1>5

(* What a write of one employee leaves: the tables are in step as before. *)
LEMMA StaffLeaves ==
  ASSUME LoginInv, NEW h \in Handlers, NEW c, c = calls[h], c # Idle, c.pc \notin {"role", "moved", "status"}, calm,
         UNCHANGED <<firebase, users, readmitted, adminLeft>>
  PROVE  InStepBut(Idle)' /\ SomeAdmin'
<1>1. InStepBut(c) /\ SomeAdmin
  BY DEF LoginInv, CalmLogin
<1> QED BY <1>1 DEF InStepBut, SomeAdmin, ActiveAdmins, IsAdmin, Known

LEMMA EditEmailStep == ASSUME LoginInv, NEW h \in Handlers, EditEmail(h) PROVE LoginInv'
<1>0. PICK c : c = calls[h]
  OBVIOUS
<1>1. /\ c.pc = "edit" /\ UNCHANGED <<firebase, users, stray, readmitted, adminLeft>>
      /\ staff' = [staff EXCEPT ![c.e].email = c.mail] /\ Finish(h)
  BY <1>0 DEF EditEmail
<1>2. c # Idle /\ LoginCall(c) /\ LoginRows(c) /\ (calm => CalmLogin(c) /\ OutWhenSeparated)
  BY <1>0, <1>1 DEF Idle, LoginInv
<1>3. c.e \in Staff /\ staff[c.e] # Nothing /\ c.mail \in Emails /\ ~Owns(c)
  BY <1>1, <1>2 DEF LoginCall, LoginRows, OfOneEmployed, Owns
<1>4. PICK x : x = [staff[c.e] EXCEPT !.email = c.mail]
  OBVIOUS
<1>5. staff[c.e] \in StaffRows
  BY <1>3 DEF LoginInv, LoginTypes
<1>6. x \in StaffRows /\ x.state = staff[c.e].state /\ x.login = staff[c.e].login
  BY <1>3, <1>4, <1>5 DEF StaffRows
<1>7. staff' = [staff EXCEPT ![c.e] = x]
  BY <1>1, <1>4
<1>8. Plain(h) /\ staff'[c.e] = x /\ \A f \in Staff \ {c.e} : staff'[f] = staff[f]
  BY <1>1, <1>3, <1>6, <1>7, StaffWritten
<1>9. calm => OutWhenSeparated'
  BY <1>1, <1>2, <1>3, <1>6, <1>8 DEF OutWhenSeparated
<1> QED BY <1>0, <1>1, <1>2, <1>3, <1>8, <1>9, StaffLeaves, LoginEnds

LEMMA WriteStateStep == ASSUME LoginInv, NEW h \in Handlers, WriteState(h) PROVE LoginInv'
<1>0. PICK c : c = calls[h]
  OBVIOUS
<1>1. /\ c.pc = "state" /\ UNCHANGED <<firebase, users, stray, readmitted, adminLeft>>
      /\ staff' = [staff EXCEPT ![c.e].state = c.to] /\ Finish(h)
  BY <1>0 DEF WriteState
<1>2. c # Idle /\ LoginCall(c) /\ LoginRows(c) /\ (calm => CalmLogin(c) /\ OutWhenSeparated)
  BY <1>0, <1>1 DEF Idle, LoginInv
<1>3. c.e \in Staff /\ staff[c.e] # Nothing /\ c.to \in DOMAIN Transitions /\ ~Owns(c)
  BY <1>1, <1>2 DEF LoginCall, LoginRows, OfOneEmployed, Owns
<1>4. PICK x : x = [staff[c.e] EXCEPT !.state = c.to]
  OBVIOUS
<1>5. staff[c.e] \in StaffRows
  BY <1>3 DEF LoginInv, LoginTypes
<1>6. x \in StaffRows /\ x.state = c.to /\ x.login = staff[c.e].login
  BY <1>3, <1>4, <1>5 DEF StaffRows, Transitions
<1>7. staff' = [staff EXCEPT ![c.e] = x]
  BY <1>1, <1>4
<1>8. Plain(h) /\ staff'[c.e] = x /\ \A f \in Staff \ {c.e} : staff'[f] = staff[f]
  <2>1. UNCHANGED <<firebase, users, stray>> /\ c.e \in Staff /\ staff[c.e] # Nothing /\ x.login = staff[c.e].login
    BY <1>1, <1>3, <1>6
  <2> QED BY <1>6, <1>7, <2>1, StaffWritten
<1>9. ASSUME calm PROVE OutWhenSeparated'
  <2>1. c.to = "SEPARATED" /\ staff[c.e].login # Nothing => ~users[staff[c.e].login].active
    BY <1>1, <1>2, <1>9 DEF CalmLogin
  <2> QED BY <1>1, <1>2, <1>3, <1>6, <1>8, <1>9, <2>1 DEF OutWhenSeparated
<1> QED BY <1>0, <1>1, <1>2, <1>3, <1>8, <1>9, StaffLeaves, LoginEnds

LEMMA LinkWriteStep == ASSUME LoginInv, NEW h \in Handlers, LinkWrite(h) PROVE LoginInv'
<1>0. PICK c : c = calls[h]
  OBVIOUS
<1>1. /\ c.pc = "link" /\ UNCHANGED <<firebase, users, stray, readmitted, adminLeft>> /\ Finish(h)
      /\ staff' = IF staff[c.e].login = Nothing /\ ~Linked(c.u) THEN [staff EXCEPT ![c.e].login = c.u] ELSE staff
  BY <1>0 DEF LinkWrite
<1>2. c # Idle /\ LoginCall(c) /\ LoginRows(c) /\ (calm => CalmLogin(c) /\ OutWhenSeparated)
  BY <1>0, <1>1 DEF Idle, LoginInv
<1>3. c.e \in Staff /\ staff[c.e] # Nothing /\ c.u \in Accounts /\ Known(c.u) /\ ~Owns(c)
  BY <1>1, <1>2 DEF LoginCall, LoginRows, OfALogin, OfOneEmployed, Owns
<1>4. CASE ~(staff[c.e].login = Nothing /\ ~Linked(c.u))
  <2>1. staff' = staff
    BY <1>1, <1>4
  <2> QED BY <1>0, <1>1, <1>2, <1>3, <2>1, LoginGivesUp DEF loginVars
<1>5. CASE staff[c.e].login = Nothing /\ ~Linked(c.u)
  <2>1. PICK x : x = [staff[c.e] EXCEPT !.login = c.u]
    OBVIOUS
  <2>2. staff[c.e] \in StaffRows
    BY <1>3 DEF LoginInv, LoginTypes
  <2>3. x \in StaffRows /\ x.state = staff[c.e].state /\ x.login = c.u
    BY <1>3, <2>1, <2>2 DEF StaffRows
  <2>4. staff' = [staff EXCEPT ![c.e] = x]
    BY <1>1, <1>5, <2>1
  <2>5. Plain(h) /\ staff'[c.e] = x /\ \A f \in Staff \ {c.e} : staff'[f] = staff[f]
    BY <1>1, <1>3, <1>5, <2>3, <2>4, StaffWritten
  <2>6. ASSUME calm PROVE OutWhenSeparated'
    <3>1. staff[c.e].state # "SEPARATED"
      BY <1>1, <1>2, <2>6 DEF CalmLogin
    <3> QED BY <1>1, <1>2, <1>3, <2>3, <2>5, <2>6, <3>1 DEF OutWhenSeparated
  <2> QED BY <1>0, <1>1, <1>2, <1>3, <2>5, <2>6, StaffLeaves, LoginEnds
<1> QED BY <1>4, <1>5

LEMMA DisableFirebaseStep == ASSUME LoginInv, NEW h \in Handlers, DisableFirebase(h) PROVE LoginInv'
<1>0. PICK c : c = calls[h]
  OBVIOUS
<1>1. /\ c.pc = "disable" /\ UNCHANGED <<users, staff, stray, readmitted, adminLeft>>
      /\ \/ /\ firebase' = [firebase EXCEPT ![c.u].disabled = TRUE]
            /\ Finish(h) \/ Continue(h, [c EXCEPT !.pc = "deactivate"])
         \/ Finish(h) /\ UNCHANGED firebase
  BY <1>0 DEF DisableFirebase
<1>2. c # Idle /\ LoginCall(c) /\ LoginRows(c) /\ (calm => CalmLogin(c) /\ OutWhenSeparated /\ SomeAdmin)
  BY <1>0, <1>1 DEF Idle, LoginInv
<1>3. c.u \in Accounts /\ Known(c.u) /\ ~Owns(c) /\ c.e \in Staff /\ staff[c.e] # Nothing
      /\ c.to = "SEPARATED" /\ c.to \in DOMAIN Transitions /\ "u" \in DOMAIN c /\ "pc" \in DOMAIN c
  BY <1>1, <1>2 DEF LoginCall, LoginRows, OfALogin, OfOneEmployed, Owns
<1>4. CASE Finish(h) /\ UNCHANGED firebase
  BY <1>0, <1>1, <1>2, <1>3, <1>4, LoginGivesUp DEF loginVars
<1>5. CASE /\ firebase' = [firebase EXCEPT ![c.u].disabled = TRUE]
           /\ Finish(h) \/ Continue(h, [c EXCEPT !.pc = "deactivate"])
  <2>1. PICK d : d = [c EXCEPT !.pc = "deactivate"]
    OBVIOUS
  <2>2. PICK x : x = [firebase[c.u] EXCEPT !.disabled = TRUE]
    OBVIOUS
  <2>3. firebase[c.u] \in FirebaseRows
    BY <1>3 DEF LoginInv, LoginTypes, LoginsTypeOK
  <2>4. x \in FirebaseRows /\ x.role = firebase[c.u].role /\ x.email = firebase[c.u].email /\ x.disabled
    BY <2>2, <2>3 DEF FirebaseRows
  <2>5. firebase' = [firebase EXCEPT ![c.u] = x]
    BY <1>5, <2>2
  <2>6. Plain(h) /\ firebase'[c.u] = x /\ \A v \in Accounts \ {c.u} : firebase'[v] = firebase[v]
    BY <1>1, <1>3, <2>4, <2>5, AccountWritten
  <2>7. calm => OutWhenSeparated' /\ SomeAdmin'
    BY <1>1, <1>2 DEF OutWhenSeparated, SomeAdmin, ActiveAdmins, IsAdmin, Known
  <2>8. calm => InStepBut(Idle)'
    BY <1>1, <1>2, <2>4, <2>6 DEF CalmLogin, InStepBut, Known
  <2>9. CASE Continue(h, [c EXCEPT !.pc = "deactivate"])
    <3>1. /\ d.u = c.u /\ d.e = c.e /\ d.to = c.to /\ DOMAIN d = DOMAIN c /\ d.pc = "deactivate"
      BY <1>3, <2>1
    <3>2. ~Owns(d) /\ LoginCall(d) /\ LoginRows(d)'
      BY <1>1, <1>3, <3>1 DEF Owns, LoginCall, LoginRows, OfALogin, OfOneEmployed, Idle, Known
    <3>3. ASSUME calm PROVE CalmLogin(d)'
      <4>1. InStepBut(d)'
        BY <2>8, <3>1, <3>3 DEF InStepBut, Idle
      <4>2. staff'[c.e].login = c.u /\ c.to \in Transitions[staff'[c.e].state]
        BY <1>1, <1>2, <3>3 DEF CalmLogin
      <4> QED BY <2>4, <2>6, <3>1, <4>1, <4>2 DEF CalmLogin
    <3> QED BY <1>0, <1>2, <1>3, <2>1, <2>6, <2>7, <2>9, <3>2, <3>3, PlainWrites
  <2>10. CASE Finish(h)
    BY <1>0, <1>2, <1>3, <2>6, <2>7, <2>8, <2>10, LoginEnds
  <2> QED BY <1>5, <2>9, <2>10
<1> QED BY <1>1, <1>4, <1>5

LEMMA DeactivateLoginStep == ASSUME LoginInv, NEW h \in Handlers, DeactivateLogin(h) PROVE LoginInv'
<1>0. PICK c : c = calls[h]
  OBVIOUS
<1>1. /\ c.pc = "deactivate" /\ UNCHANGED <<firebase, staff, stray>>
      /\ users' = [users EXCEPT ![c.u].active = FALSE] /\ Continue(h, [c EXCEPT !.pc = "state"])
      /\ adminLeft' = (adminLeft \/ IsAdmin(c.u)) /\ readmitted' = readmitted \ {c.u}
  BY <1>0 DEF DeactivateLogin
<1>2. c # Idle /\ LoginCall(c) /\ LoginRows(c) /\ (calm => CalmLogin(c) /\ OutWhenSeparated /\ SomeAdmin)
  BY <1>0, <1>1 DEF Idle, LoginInv
<1>3. c.u \in Accounts /\ Known(c.u) /\ ~Owns(c) /\ c.e \in Staff /\ staff[c.e] # Nothing
      /\ c.to \in DOMAIN Transitions /\ "pc" \in DOMAIN c
  BY <1>1, <1>2 DEF LoginCall, LoginRows, OfALogin, OfOneEmployed, Owns
<1>4. PICK x : x = [users[c.u] EXCEPT !.active = FALSE]
  OBVIOUS
<1>5. users[c.u] \in UserRows
  BY <1>3 DEF LoginInv, LoginTypes, Known
<1>6. x \in UserRows /\ x.role = users[c.u].role /\ x.email = users[c.u].email /\ ~x.active
  BY <1>3, <1>4, <1>5 DEF UserRows
<1>7. \A v \in Accounts \ {c.u} : Known(v) => users[v].email # x.email
  BY <1>3, <1>6 DEF LoginInv, LoginsTypeOK
<1>8. users' = [users EXCEPT ![c.u] = x]
  BY <1>1, <1>4
<1>9. /\ Plain(h) /\ users'[c.u] = x /\ \A v \in Accounts \ {c.u} : users'[v] = users[v]
      /\ \A v \in Accounts : Known(v)' <=> Known(v)
  BY <1>1, <1>3, <1>6, <1>7, <1>8, UserWritten
<1>10. PICK d : d = [c EXCEPT !.pc = "state"]
  OBVIOUS
<1>11. d.e = c.e /\ d.to = c.to /\ DOMAIN d = DOMAIN c /\ d.pc = "state"
  BY <1>3, <1>10
<1>12. ~Owns(d) /\ LoginCall(d) /\ LoginRows(d)'
  BY <1>1, <1>3, <1>11 DEF Owns, LoginCall, LoginRows, OfALogin, OfOneEmployed, Idle
<1>13. ASSUME calm PROVE CalmLogin(d)' /\ OutWhenSeparated' /\ SomeAdmin'
  <2>1. InStepBut(d)'
    BY <1>1, <1>2, <1>6, <1>9, <1>11, <1>13 DEF CalmLogin, InStepBut
  <2>2. staff[c.e].login = c.u /\ c.to \in Transitions[staff[c.e].state]
    BY <1>1, <1>2, <1>13 DEF CalmLogin
  <2>3. CalmLogin(d)'
    BY <1>1, <1>6, <1>9, <1>11, <2>1, <2>2 DEF CalmLogin
  <2>4. OutWhenSeparated'
    <3>1. \A e \in Staff : staff[e] # Nothing => staff[e].login \in Accounts \cup {Nothing}
      BY DEF LoginInv, LoginTypes, StaffRows
    <3> QED BY <1>1, <1>2, <1>6, <1>9, <1>13, <3>1 DEF OutWhenSeparated
  <2>5. SomeAdmin'
    <3>1. CASE IsAdmin(c.u)
      BY <1>1, <3>1 DEF SomeAdmin
    <3>2. CASE ~IsAdmin(c.u)
      <4>1. \A v \in Accounts : IsAdmin(v) => IsAdmin(v)'
        BY <1>9, <3>2 DEF IsAdmin
      <4> QED BY <1>1, <1>2, <1>13, <4>1 DEF SomeAdmin, ActiveAdmins
    <3> QED BY <3>1, <3>2
  <2> QED BY <2>3, <2>4, <2>5
<1> QED BY <1>0, <1>1, <1>2, <1>3, <1>9, <1>10, <1>12, <1>13, PlainWrites

----------------------------------------------------------------------------
(* The calls that make an account. *)
LEMMA OwnedApart ==
  ASSUME LoginInv, NEW h \in Handlers, Owns(calls[h]), NEW g \in Handlers \ {h}, Owns(calls[g])
  PROVE  calls[g].u \in Accounts /\ calls[g].u # calls[h].u
BY DEF LoginInv, OwnersApart, LoginCall

LEMMA MakeAccountStep == ASSUME LoginInv, NEW h \in Handlers, MakeAccount(h) PROVE LoginInv'
<1>0. PICK c : c = calls[h]
  OBVIOUS
<1>1. /\ c.pc = "account" /\ UNCHANGED <<users, staff, stray, readmitted, adminLeft>>
      /\ \/ \E u \in {v \in Accounts : firebase[v] = Nothing} :
               /\ firebase' = [firebase EXCEPT ![u] = [email |-> c.mail, role |-> Nothing, disabled |-> FALSE]]
               /\ Continue(h, [pc |-> "claims", e |-> c.e, u |-> u, mail |-> c.mail, r |-> c.r, then |-> c.then])
         \/ Finish(h) /\ UNCHANGED firebase
  BY <1>0 DEF MakeAccount
<1>2. c # Idle /\ LoginCall(c) /\ LoginRows(c) /\ (calm => CalmLogin(c) /\ OutWhenSeparated /\ SomeAdmin)
  BY <1>0, <1>1 DEF Idle, LoginInv
<1>3. /\ c.e \in Staff /\ c.mail \in Emails /\ c.r \in Roles /\ c.then \in {"insert", "attach"} /\ ~Owns(c)
      /\ c.then = "attach" => staff[c.e] # Nothing
  BY <1>1, <1>2 DEF LoginCall, LoginRows, OfOneEmployed, Owns
<1>4. CASE Finish(h) /\ UNCHANGED firebase
  BY <1>0, <1>1, <1>2, <1>3, <1>4, LoginGivesUp DEF loginVars
<1>5. ASSUME NEW u \in Accounts, firebase[u] = Nothing,
             firebase' = [firebase EXCEPT ![u] = [email |-> c.mail, role |-> Nothing, disabled |-> FALSE]],
             Continue(h, [pc |-> "claims", e |-> c.e, u |-> u, mail |-> c.mail, r |-> c.r, then |-> c.then])
      PROVE  LoginInv'
  <2>1. PICK d : d = [pc |-> "claims", e |-> c.e, u |-> u, mail |-> c.mail, r |-> c.r, then |-> c.then]
    OBVIOUS
  <2>2. PICK x : x = [email |-> c.mail, role |-> Nothing, disabled |-> FALSE]
    OBVIOUS
  <2>3. x \in FirebaseRows /\ x.email = c.mail /\ ~x.disabled
    BY <1>3, <2>2 DEF FirebaseRows
  <2>4. x # Nothing
    BY <2>3, LoginsAssumption
  <2>5. firebase'[u] = x /\ (\A v \in Accounts \ {u} : firebase'[v] = firebase[v]) /\ LoginTypes'
    BY <1>1, <1>5, <2>2, <2>3 DEF LoginInv, LoginTypes
  <2>6. ~Known(u) /\ ~Known(u)'
    BY <1>1, <1>5 DEF LoginInv, LoginsTypeOK, Known
  <2>7. LoginsTypeOK'
    BY <1>1, <2>4, <2>5 DEF LoginInv, LoginsTypeOK, Known
  <2>8. Grows
    BY <1>1 DEF Grows, Known
  <2>9. \A g \in Handlers : Owns(calls[g]) => calls[g].u \in Accounts \ {u}
    BY <1>5 DEF LoginInv, LoginCall, LoginRows
  <2>10. LeavesAlone(h)
    BY <1>1, <2>5, <2>9 DEF LeavesAlone
  <2>11. Owns(d) /\ d.u = u /\ d.pc = "claims"
    BY <2>1 DEF Owns
  <2>12. StrayMoves(h, d)
    BY <1>0, <1>1, <1>3, <2>5, <2>11 DEF StrayMoves, Known
  <2>13. LoginCall(d) /\ LoginRows(d)'
    BY <1>1, <1>3, <2>1, <2>3, <2>4, <2>5, <2>6
    DEF LoginCall, LoginRows, Owns, OfALogin, OfOneEmployed, Idle
  <2>14. ASSUME calm PROVE CalmLogin(d)' /\ OutWhenSeparated' /\ SomeAdmin'
    <3>1. InStepBut(d)'
      BY <1>1, <1>2, <2>5, <2>6, <2>11, <2>14 DEF CalmLogin, InStepBut, Known
    <3>2. d.then = "attach" => staff'[d.e].state # "SEPARATED"
      BY <1>1, <1>2, <2>1, <2>14 DEF CalmLogin
    <3>3. CalmLogin(d)'
      BY <2>11, <3>1, <3>2 DEF CalmLogin
    <3> QED BY <1>1, <1>2, <2>14, <3>3 DEF OutWhenSeparated, SomeAdmin, ActiveAdmins, IsAdmin, Known
  <2> QED BY <1>0, <1>2, <1>5, <2>1, <2>5, <2>7, <2>8, <2>9, <2>10, <2>11, <2>12, <2>13, <2>14, LoginWrites
<1> QED BY <1>1, <1>4, <1>5

(* The account a call made changes, and only that one. *)
LEMMA OwnedWritten ==
  ASSUME LoginInv, NEW h \in Handlers, NEW u \in Accounts, Owns(calls[h]), calls[h].u = u,
         NEW x \in FirebaseRows \cup {Nothing}, firebase' = [firebase EXCEPT ![u] = x], UNCHANGED <<users, staff>>
  PROVE  /\ LoginTypes' /\ LoginsTypeOK' /\ Grows /\ LeavesAlone(h) /\ ~Known(u)'
         /\ firebase'[u] = x /\ \A v \in Accounts \ {u} : firebase'[v] = firebase[v]
<1>1. firebase'[u] = x /\ (\A v \in Accounts \ {u} : firebase'[v] = firebase[v]) /\ LoginTypes'
  BY DEF LoginInv, LoginTypes
<1>2. ~Known(u) /\ ~Known(u)'
  BY DEF LoginInv, LoginRows, Known
<1>3. LoginsTypeOK'
  BY <1>1, <1>2 DEF LoginInv, LoginsTypeOK, Known
<1>4. Grows
  BY DEF Grows, Known
<1>5. LeavesAlone(h)
  BY <1>1, OwnedApart DEF LeavesAlone
<1> QED BY <1>1, <1>2, <1>3, <1>4, <1>5

(* Such a step leaves logins with rows, and employees, as they are. *)
LEMMA OwnedCalm ==
  ASSUME LoginInv, NEW h \in Handlers, NEW c, c = calls[h], c # Idle, c.pc \notin {"role", "moved", "status"}, calm,
         NEW d, d.pc \notin {"role", "moved", "status"},
         \A v \in Accounts : Known(v) => firebase'[v] = firebase[v],
         UNCHANGED <<users, staff, readmitted, adminLeft>>
  PROVE  InStepBut(d)' /\ OutWhenSeparated' /\ SomeAdmin'
<1>1. InStepBut(c) /\ SomeAdmin /\ OutWhenSeparated
  BY DEF LoginInv, CalmLogin
<1> QED BY <1>1 DEF InStepBut, OutWhenSeparated, SomeAdmin, ActiveAdmins, IsAdmin, Known

LEMMA SetClaimsStep == ASSUME LoginInv, NEW h \in Handlers, SetClaims(h) PROVE LoginInv'
<1>0. PICK c : c = calls[h]
  OBVIOUS
<1>1. /\ c.pc = "claims" /\ UNCHANGED <<users, staff, readmitted, adminLeft>>
      /\ \/ /\ firebase' = [firebase EXCEPT ![c.u].role = c.r]
            /\ Continue(h, [pc |-> c.then, e |-> c.e, u |-> c.u, mail |-> c.mail, r |-> c.r])
            /\ UNCHANGED stray
         \/ /\ c.then = "insert" /\ Finish(h)
            /\ stray' = stray \cup {c.u} /\ UNCHANGED firebase
         \/ /\ c.then = "attach" /\ Continue(h, [pc |-> "undo", u |-> c.u])
            /\ UNCHANGED <<stray, firebase>>
  BY <1>0 DEF SetClaims
<1>2. c # Idle /\ LoginCall(c) /\ LoginRows(c) /\ (calm => CalmLogin(c) /\ OutWhenSeparated /\ SomeAdmin)
  BY <1>0, <1>1 DEF Idle, LoginInv
<1>3. /\ c.e \in Staff /\ c.u \in Accounts /\ c.mail \in Emails /\ c.r \in Roles /\ c.then \in {"insert", "attach"}
      /\ Owns(c) /\ ~Known(c.u) /\ firebase[c.u] # Nothing /\ firebase[c.u].email = c.mail /\ ~firebase[c.u].disabled
      /\ c.then = "attach" => staff[c.e] # Nothing
  BY <1>1, <1>2 DEF LoginCall, LoginRows, OfOneEmployed, Owns
<1>4. \A g \in Handlers \ {h} : Owns(calls[g]) => calls[g].u \in Accounts /\ calls[g].u # c.u
  BY <1>0, <1>3, OwnedApart
<1>5. firebase[c.u] \in FirebaseRows
  BY <1>3 DEF LoginInv, LoginTypes
<1>6. ASSUME firebase' = [firebase EXCEPT ![c.u].role = c.r], UNCHANGED stray,
             Continue(h, [pc |-> c.then, e |-> c.e, u |-> c.u, mail |-> c.mail, r |-> c.r])
      PROVE  LoginInv'
  <2>1. PICK d : d = [pc |-> c.then, e |-> c.e, u |-> c.u, mail |-> c.mail, r |-> c.r]
    OBVIOUS
  <2>2. PICK x : x = [firebase[c.u] EXCEPT !.role = c.r]
    OBVIOUS
  <2>3. x \in FirebaseRows /\ x.role = c.r /\ x.email = c.mail /\ ~x.disabled
    BY <1>3, <1>5, <2>2 DEF FirebaseRows
  <2>4. x # Nothing /\ c.mail # Nothing
    BY <1>3, <2>3, LoginsAssumption
  <2>5. /\ LoginTypes' /\ LoginsTypeOK' /\ Grows /\ LeavesAlone(h) /\ ~Known(c.u)'
        /\ firebase'[c.u] = x /\ \A v \in Accounts \ {c.u} : firebase'[v] = firebase[v]
    <3>1. Owns(calls[h]) /\ calls[h].u = c.u /\ x \in FirebaseRows \cup {Nothing}
      BY <1>0, <1>3, <2>3
    <3>2. firebase' = [firebase EXCEPT ![c.u] = x] /\ UNCHANGED <<users, staff>>
      BY <1>1, <1>6, <2>2
    <3>3. PICK u \in Accounts : u = c.u
      BY <1>3
    <3>4. LoginInv /\ h \in Handlers /\ u \in Accounts
      OBVIOUS
    <3>5. Owns(calls[h]) /\ calls[h].u = u /\ firebase' = [firebase EXCEPT ![u] = x]
      BY <3>1, <3>2, <3>3
    <3>6. LoginTypes' /\ LoginsTypeOK' /\ Grows /\ LeavesAlone(h) /\ ~Known(u)'
      BY ONLY <3>1, <3>2, <3>4, <3>5, OwnedWritten
    <3>7. firebase'[u] = x /\ \A v \in Accounts \ {u} : firebase'[v] = firebase[v]
      BY ONLY <3>4, <3>5 DEF LoginInv, LoginTypes
    <3> QED BY ONLY <3>3, <3>6, <3>7 DEF Known
  <2>6. Owns(d) /\ d.u = c.u /\ d.pc \in {"insert", "attach"} /\ d.pc = c.then /\ d.e = c.e
    BY <1>3, <2>1, <2>4 DEF Owns
  <2>7. StrayMoves(h, d)
    BY <1>0, <1>1, <1>6, <2>5, <2>6 DEF StrayMoves, Known
  <2>8. LoginCall(d) /\ LoginRows(d)'
    BY <1>1, <1>3, <2>1, <2>3, <2>4, <2>5
    DEF LoginCall, LoginRows, Owns, OfALogin, OfOneEmployed, Idle
  <2>9. ASSUME calm PROVE CalmLogin(d)' /\ OutWhenSeparated' /\ SomeAdmin'
    <3>1. InStepBut(d)' /\ OutWhenSeparated' /\ SomeAdmin'
      BY <1>0, <1>1, <1>2, <1>3, <2>5, <2>6, <2>9, OwnedCalm
    <3>2. d.pc = "attach" => staff'[d.e].state # "SEPARATED"
      BY <1>1, <1>2, <2>6, <2>9 DEF CalmLogin
    <3> QED BY <2>6, <3>1, <3>2 DEF CalmLogin
  <2> QED BY <1>0, <1>2, <1>4, <1>6, <2>1, <2>5, <2>6, <2>7, <2>8, <2>9, LoginWrites
<1>7. ASSUME c.then = "insert", Finish(h), stray' = stray \cup {c.u}, UNCHANGED firebase
      PROVE  LoginInv'
  <2>1. LoginTypes' /\ LoginsTypeOK' /\ Grows /\ LeavesAlone(h)
    BY <1>1, <1>7 DEF LoginInv, LoginTypes, LoginsTypeOK, Grows, LeavesAlone, Known
  <2>2. StrayMoves(h, Idle)
    BY <1>0, <1>1, <1>7 DEF StrayMoves, Known
  <2>3. LoginCall(Idle) /\ LoginRows(Idle)' /\ ~Owns(Idle) /\ Idle.pc = "idle"
    BY DEF LoginCall, LoginRows, Owns, OfALogin, OfOneEmployed, Idle
  <2>4. calm => InStepBut(Idle)' /\ OutWhenSeparated' /\ SomeAdmin'
    BY <1>0, <1>1, <1>2, <1>7, <2>3, OwnedCalm
  <2>5. calm => CalmLogin(Idle)'
    BY <2>3, <2>4 DEF CalmLogin, InStepBut
  <2> QED BY <1>0, <1>2, <1>7, <2>1, <2>2, <2>3, <2>4, <2>5, LoginWrites DEF Finish
<1>8. ASSUME Continue(h, [pc |-> "undo", u |-> c.u]), UNCHANGED <<stray, firebase>> PROVE LoginInv'
  <2>1. PICK d : d = [pc |-> "undo", u |-> c.u]
    OBVIOUS
  <2>2. LoginTypes' /\ LoginsTypeOK' /\ Grows /\ LeavesAlone(h)
    BY <1>1, <1>8 DEF LoginInv, LoginTypes, LoginsTypeOK, Grows, LeavesAlone, Known
  <2>3. Owns(d) /\ d.u = c.u /\ d.pc = "undo"
    BY <2>1 DEF Owns
  <2>4. StrayMoves(h, d)
    BY <1>0, <1>1, <1>8, <2>3 DEF StrayMoves, Known
  <2>5. LoginCall(d) /\ LoginRows(d)'
    BY <1>1, <1>3, <1>8, <2>1 DEF LoginCall, LoginRows, Owns, OfALogin, OfOneEmployed, Idle, Known
  <2>6. calm => InStepBut(d)' /\ OutWhenSeparated' /\ SomeAdmin'
    BY <1>0, <1>1, <1>2, <1>8, <2>3, OwnedCalm
  <2>7. calm => CalmLogin(d)'
    BY <2>3, <2>6 DEF CalmLogin
  <2> QED BY <1>0, <1>2, <1>4, <1>8, <2>1, <2>2, <2>3, <2>4, <2>5, <2>6, <2>7, LoginWrites
<1> QED BY <1>1, <1>6, <1>7, <1>8

LEMMA UndoAccountStep == ASSUME LoginInv, NEW h \in Handlers, UndoAccount(h) PROVE LoginInv'
<1>0. PICK c : c = calls[h]
  OBVIOUS
<1>1. /\ c.pc = "undo" /\ UNCHANGED <<users, staff, readmitted, adminLeft>> /\ Finish(h)
      /\ \/ firebase' = [firebase EXCEPT ![c.u] = Nothing] /\ UNCHANGED stray
         \/ stray' = stray \cup {c.u} /\ UNCHANGED firebase
  BY <1>0 DEF UndoAccount
<1>2. c # Idle /\ LoginCall(c) /\ LoginRows(c) /\ (calm => CalmLogin(c) /\ OutWhenSeparated /\ SomeAdmin)
  BY <1>0, <1>1 DEF Idle, LoginInv
<1>3. c.u \in Accounts /\ Owns(c) /\ ~Known(c.u)
  BY <1>1, <1>2 DEF LoginCall, LoginRows, Owns
<1>4. LoginCall(Idle) /\ LoginRows(Idle)' /\ ~Owns(Idle) /\ Idle.pc = "idle"
  BY DEF LoginCall, LoginRows, Owns, OfALogin, OfOneEmployed, Idle
<1>5. LoginTypes' /\ LoginsTypeOK' /\ Grows /\ LeavesAlone(h) /\ StrayMoves(h, Idle)
      /\ \A v \in Accounts : Known(v) => firebase'[v] = firebase[v]
  <2>1. CASE firebase' = [firebase EXCEPT ![c.u] = Nothing] /\ UNCHANGED stray
    <3>1. PICK x \in FirebaseRows \cup {Nothing} : x = Nothing
      OBVIOUS
    <3>2. /\ LoginTypes' /\ LoginsTypeOK' /\ Grows /\ LeavesAlone(h) /\ ~Known(c.u)'
          /\ firebase'[c.u] = x /\ \A v \in Accounts \ {c.u} : firebase'[v] = firebase[v]
      <4>1. PICK u \in Accounts : u = c.u
        BY <1>3
      <4>2. Owns(calls[h]) /\ calls[h].u = u /\ firebase' = [firebase EXCEPT ![u] = x]
        BY <1>0, <1>3, <2>1, <3>1, <4>1
      <4>3. LoginInv /\ h \in Handlers /\ u \in Accounts /\ x \in FirebaseRows \cup {Nothing}
        OBVIOUS
      <4>4. UNCHANGED <<users, staff>>
        BY <1>1
      <4>5. LoginTypes' /\ LoginsTypeOK' /\ Grows /\ LeavesAlone(h) /\ ~Known(u)'
        BY ONLY <4>2, <4>3, <4>4, OwnedWritten
      <4>6. firebase'[u] = x /\ \A v \in Accounts \ {u} : firebase'[v] = firebase[v]
        BY ONLY <4>2, <4>3 DEF LoginInv, LoginTypes
      <4> QED BY ONLY <4>1, <4>5, <4>6 DEF Known
    <3>3. StrayMoves(h, Idle)
      BY <1>0, <1>1, <2>1, <3>1, <3>2 DEF StrayMoves, Known
    <3> QED BY <1>3, <3>2, <3>3
  <2>2. CASE stray' = stray \cup {c.u} /\ UNCHANGED firebase
    BY <1>0, <1>1, <2>2 DEF LoginInv, LoginTypes, LoginsTypeOK, Grows, LeavesAlone, Known, StrayMoves
  <2> QED BY <1>1, <2>1, <2>2
<1>6. calm => InStepBut(Idle)' /\ OutWhenSeparated' /\ SomeAdmin'
  BY <1>0, <1>1, <1>2, <1>4, <1>5, OwnedCalm
<1>7. calm => CalmLogin(Idle)'
  BY <1>4, <1>6 DEF CalmLogin, InStepBut
<1> QED BY <1>0, <1>1, <1>2, <1>4, <1>5, <1>6, <1>7, LoginWrites DEF Finish

(* The account gets its row, and an employee the login. *)
LEMMA RowsMade ==
  ASSUME LoginInv, NEW h \in Handlers, NEW c, c = calls[h], c # Idle, Finish(h), Owns(c), c.pc \in {"insert", "attach"},
         ~UsersHas(c.mail), NEW y \in StaffRows, y.login = c.u, c.e \in Staff, c.mail \in Emails, c.r \in Roles,
         staff[c.e] = Nothing \/ staff[c.e].login = Nothing, calm => y.state # "SEPARATED",
         users' = [users EXCEPT ![c.u] = NewUser(c)], staff' = [staff EXCEPT ![c.e] = y],
         UNCHANGED <<firebase, stray, readmitted, adminLeft>>
  PROVE  LoginInv'
<1>1. /\ c.u \in Accounts /\ ~Known(c.u) /\ firebase[c.u] # Nothing /\ firebase[c.u].email = c.mail
      /\ firebase[c.u].role = c.r
  BY DEF LoginInv, LoginCall, LoginRows
<1>2. PICK x : x = NewUser(c)
  OBVIOUS
<1>3. x \in UserRows /\ x.email = c.mail /\ x.role = c.r /\ x.active
  BY <1>2 DEF NewUser, UserRows
<1>4. x # Nothing /\ y # Nothing
  BY <1>3, LoginsAssumption
<1>5. /\ users'[c.u] = x /\ \A v \in Accounts \ {c.u} : users'[v] = users[v]
      /\ staff'[c.e] = y /\ \A f \in Staff \ {c.e} : staff'[f] = staff[f]
  BY <1>1, <1>2 DEF LoginInv, LoginTypes
<1>6. LoginTypes'
  BY <1>2, <1>3 DEF LoginInv, LoginTypes
<1>7. /\ \A v \in Accounts \ {c.u} : Known(v)' <=> Known(v)
      /\ Known(c.u)' /\ Grows
  BY <1>4, <1>5 DEF Known, Grows
<1>8. \A f \in Staff : staff[f] # Nothing => staff[f].login \in (Accounts \ {c.u}) \cup {Nothing}
  BY <1>1 DEF LoginInv, LoginTypes, LoginsTypeOK, StaffRows
<1>9. LoginsTypeOK'
  <2>1. \A v \in Accounts : Known(v)' => firebase'[v] # Nothing
    BY <1>1, <1>7 DEF LoginInv, LoginsTypeOK
  <2>2. \A v, w \in Accounts : v # w /\ Known(v)' /\ Known(w)' => users'[v].email # users'[w].email
    BY <1>3, <1>5, <1>7 DEF LoginInv, LoginsTypeOK, UsersHas
  <2>3. ASSUME NEW f \in Staff, staff'[f] # Nothing
        PROVE  /\ staff'[f].state \in DOMAIN Transitions
               /\ staff'[f].login # Nothing => users'[staff'[f].login] # Nothing
    <3>1. CASE f = c.e
      <4>1. y.state \in DOMAIN Transitions
        BY DEF StaffRows, Transitions
      <4>2. staff'[f] = y /\ users'[y.login] # Nothing
        BY <1>4, <1>5, <3>1
      <4> QED BY <4>1, <4>2
    <3>2. CASE f # c.e
      <4>1. PICK z : z = staff[f]
        OBVIOUS
      <4>2. staff'[f] = z /\ z # Nothing /\ z.login \in (Accounts \ {c.u}) \cup {Nothing}
        BY <1>5, <1>8, <2>3, <3>2, <4>1
      <4>3. z.state \in DOMAIN Transitions /\ (z.login # Nothing => users[z.login] # Nothing)
        BY <2>3, <4>1, <4>2 DEF LoginInv, LoginsTypeOK, Known
      <4> QED BY <1>5, <4>2, <4>3
    <3> QED BY <3>1, <3>2
  <2>4. \A f, g \in Staff : f # g /\ staff'[f] # Nothing /\ staff'[g] # Nothing /\ staff'[f].login # Nothing
          => staff'[f].login # staff'[g].login
    BY <1>5, <1>8 DEF LoginInv, LoginsTypeOK
  <2>5. \A f \in Staff : staff'[f] # Nothing => staff'[f].login \in Accounts \cup {Nothing}
    BY <1>6 DEF LoginTypes, StaffRows
  <2> QED BY <2>1, <2>2, <2>3, <2>4, <2>5 DEF LoginsTypeOK, Known
<1>10. LeavesAlone(h)
  BY <1>5, OwnedApart DEF LeavesAlone
<1>11. StrayMoves(h, Idle)
  BY <1>7 DEF StrayMoves
<1>12. LoginCall(Idle) /\ LoginRows(Idle)' /\ ~Owns(Idle) /\ Idle.pc = "idle"
  BY DEF LoginCall, LoginRows, Owns, OfALogin, OfOneEmployed, Idle
<1>13. ASSUME calm PROVE CalmLogin(Idle)' /\ OutWhenSeparated' /\ SomeAdmin'
  <2>1. InStepBut(c) /\ OutWhenSeparated /\ SomeAdmin
    BY <1>13 DEF LoginInv, CalmLogin
  <2>2. InStepBut(Idle)'
    BY <1>1, <1>3, <1>5, <1>7, <1>12, <2>1 DEF InStepBut
  <2>3. CalmLogin(Idle)'
    BY <1>12, <2>2 DEF CalmLogin, InStepBut
  <2>4. OutWhenSeparated'
    BY <1>5, <1>8, <1>13, <2>1 DEF OutWhenSeparated
  <2>5. \A v \in Accounts : IsAdmin(v) => IsAdmin(v)'
    BY <1>1, <1>5, <1>7 DEF IsAdmin
  <2> QED BY <2>1, <2>3, <2>4, <2>5 DEF SomeAdmin, ActiveAdmins
<1> QED BY <1>6, <1>7, <1>9, <1>10, <1>11, <1>12, <1>13, LoginWrites DEF Finish

LEMMA CreateWriteStep == ASSUME LoginInv, NEW h \in Handlers, CreateWrite(h) PROVE LoginInv'
<1>0. PICK c : c = calls[h]
  OBVIOUS
<1>1. PICK new \in BOOLEAN : new = (c.mail # Nothing)
  OBVIOUS
<1>2. PICK ok \in BOOLEAN :
        ok = (staff[c.e] = Nothing /\ (IF new THEN ~UsersHas(c.mail) ELSE c.u = Nothing \/ ~Linked(c.u)))
  OBVIOUS
<1>3. /\ c.pc = "insert" /\ Finish(h) /\ UNCHANGED <<firebase, readmitted, adminLeft>>
      /\ IF ok
         THEN /\ users' = IF new THEN [users EXCEPT ![c.u] = NewUser(c)] ELSE users
              /\ staff' = [staff EXCEPT ![c.e] = [state |-> "PROBATION", login |-> c.u, email |-> c.mail]]
              /\ UNCHANGED stray
         ELSE stray' = (IF new THEN stray \cup {c.u} ELSE stray) /\ UNCHANGED <<users, staff>>
  BY <1>0, <1>1, <1>2 DEF CreateWrite
<1>4. c # Idle /\ LoginCall(c) /\ LoginRows(c) /\ (calm => CalmLogin(c) /\ OutWhenSeparated /\ SomeAdmin)
  BY <1>0, <1>3 DEF Idle, LoginInv
<1>5. /\ c.e \in Staff /\ c.mail \in Emails \cup {Nothing} /\ (Owns(c) <=> new)
      /\ new => c.r \in Roles /\ c.u \in Accounts /\ c.mail \in Emails
      /\ ~new => c.u = Nothing \/ (c.u \in Accounts /\ Known(c.u))
  BY <1>1, <1>3, <1>4 DEF LoginCall, LoginRows, Owns
<1>6. PICK y : y = [state |-> "PROBATION", login |-> c.u, email |-> c.mail]
  OBVIOUS
<1>7. y \in StaffRows /\ y.login = c.u /\ y.state # "SEPARATED"
  BY <1>5, <1>6 DEF StaffRows
<1>8. CASE ok /\ new
  <2>1. users' = [users EXCEPT ![c.u] = NewUser(c)] /\ staff' = [staff EXCEPT ![c.e] = y] /\ UNCHANGED stray
    BY <1>3, <1>6, <1>8
  <2>2. staff[c.e] = Nothing /\ ~UsersHas(c.mail)
    BY <1>2, <1>8
  <2> QED BY <1>0, <1>3, <1>4, <1>5, <1>7, <1>8, <2>1, <2>2, RowsMade
<1>9. CASE ok /\ ~new
  <2>1. staff' = [staff EXCEPT ![c.e] = y] /\ UNCHANGED <<users, stray>>
    BY <1>3, <1>6, <1>9
  <2>2. staff[c.e] = Nothing /\ (c.u = Nothing \/ ~Linked(c.u))
    BY <1>2, <1>9
  <2>3. staff'[c.e] = y /\ (\A f \in Staff \ {c.e} : staff'[f] = staff[f]) /\ LoginTypes'
    BY <1>3, <1>5, <1>7, <2>1 DEF LoginInv, LoginTypes
  <2>4. y # Nothing /\ y.state \in DOMAIN Transitions
    BY <1>7, LoginsAssumption DEF StaffRows, Transitions
  <2>5. LoginsTypeOK'
    <3>1. \A f \in Staff : staff'[f] # Nothing =>
           /\ staff'[f].state \in DOMAIN Transitions
           /\ staff'[f].login # Nothing => Known(staff'[f].login)
      BY <1>5, <1>7, <1>9, <2>3, <2>4 DEF LoginInv, LoginsTypeOK
    <3>2. \A f \in Staff \ {c.e} : staff[f] # Nothing /\ y.login # Nothing => staff[f].login # y.login
      BY <1>7, <2>2 DEF Linked
    <3>3. \A f, g \in Staff : f # g /\ staff'[f] # Nothing /\ staff'[g] # Nothing /\ staff'[f].login # Nothing
            => staff'[f].login # staff'[g].login
      BY <2>3, <3>2 DEF LoginInv, LoginsTypeOK
    <3> QED BY <1>3, <2>1, <3>1, <3>3 DEF LoginInv, LoginsTypeOK, Known
  <2>6. Plain(h)
    BY <1>3, <2>1, <2>3, <2>4, <2>5 DEF Plain, Grows, LeavesAlone, Known
  <2>7. calm => OutWhenSeparated'
    BY <1>3, <1>4, <1>7, <2>1, <2>3 DEF OutWhenSeparated
  <2> QED BY <1>0, <1>3, <1>4, <1>5, <1>9, <2>1, <2>6, <2>7, StaffLeaves, LoginEnds
<1>10. CASE ~ok /\ ~new
  <2>1. UNCHANGED <<users, staff, stray>>
    BY <1>3, <1>10
  <2> QED BY <1>0, <1>3, <1>4, <1>5, <1>10, <2>1, LoginGivesUp DEF loginVars
<1>11. CASE ~ok /\ new
  <2>1. stray' = stray \cup {c.u} /\ UNCHANGED <<users, staff>>
    BY <1>3, <1>11
  <2>2. LoginTypes' /\ LoginsTypeOK' /\ Grows /\ LeavesAlone(h)
    BY <1>3, <2>1 DEF LoginInv, LoginTypes, LoginsTypeOK, Grows, LeavesAlone, Known
  <2>3. StrayMoves(h, Idle)
    BY <1>0, <1>3, <2>1 DEF StrayMoves, Known
  <2>4. LoginCall(Idle) /\ LoginRows(Idle)' /\ ~Owns(Idle) /\ Idle.pc = "idle"
    BY DEF LoginCall, LoginRows, Owns, OfALogin, OfOneEmployed, Idle
  <2>5. calm => InStepBut(Idle)' /\ OutWhenSeparated' /\ SomeAdmin'
    BY <1>0, <1>3, <1>4, <2>1, <2>4, OwnedCalm
  <2>6. calm => CalmLogin(Idle)'
    BY <2>4, <2>5 DEF CalmLogin, InStepBut
  <2> QED BY <1>0, <1>3, <1>4, <2>2, <2>3, <2>4, <2>5, <2>6, LoginWrites DEF Finish
<1> QED BY <1>8, <1>9, <1>10, <1>11

LEMMA CreateLoginWriteStep == ASSUME LoginInv, NEW h \in Handlers, CreateLoginWrite(h) PROVE LoginInv'
<1>0. PICK c : c = calls[h]
  OBVIOUS
<1>1. /\ c.pc = "attach" /\ UNCHANGED <<firebase, stray, readmitted, adminLeft>>
      /\ IF UsersHas(c.mail) \/ staff[c.e].login # Nothing
         THEN Continue(h, [pc |-> "undo", u |-> c.u]) /\ UNCHANGED <<users, staff>>
         ELSE /\ users' = [users EXCEPT ![c.u] = NewUser(c)]
              /\ staff' = [staff EXCEPT ![c.e].login = c.u, ![c.e].email = c.mail]
              /\ Finish(h)
  BY <1>0 DEF CreateLoginWrite
<1>2. c # Idle /\ LoginCall(c) /\ LoginRows(c) /\ (calm => CalmLogin(c) /\ OutWhenSeparated /\ SomeAdmin)
  BY <1>0, <1>1 DEF Idle, LoginInv
<1>3. /\ c.e \in Staff /\ c.u \in Accounts /\ c.mail \in Emails /\ c.r \in Roles /\ staff[c.e] # Nothing
      /\ Owns(c) /\ ~Known(c.u) /\ firebase[c.u] # Nothing
  BY <1>1, <1>2 DEF LoginCall, LoginRows, OfOneEmployed, Owns
<1>4. \A g \in Handlers \ {h} : Owns(calls[g]) => calls[g].u \in Accounts /\ calls[g].u # c.u
  BY <1>0, <1>3, OwnedApart
<1>5. CASE UsersHas(c.mail) \/ staff[c.e].login # Nothing
  <2>1. PICK d : d = [pc |-> "undo", u |-> c.u]
    OBVIOUS
  <2>2. Continue(h, d) /\ UNCHANGED <<users, staff>>
    BY <1>1, <1>5, <2>1
  <2>3. LoginTypes' /\ LoginsTypeOK' /\ Grows /\ LeavesAlone(h)
    BY <1>1, <2>2 DEF LoginInv, LoginTypes, LoginsTypeOK, Grows, LeavesAlone, Known
  <2>4. Owns(d) /\ d.u = c.u /\ d.pc = "undo"
    BY <2>1 DEF Owns
  <2>5. StrayMoves(h, d)
    BY <1>0, <1>1, <2>2, <2>4 DEF StrayMoves, Known
  <2>6. LoginCall(d) /\ LoginRows(d)'
    BY <1>1, <1>3, <2>1, <2>2 DEF LoginCall, LoginRows, Owns, OfALogin, OfOneEmployed, Idle, Known
  <2>7. calm => InStepBut(d)' /\ OutWhenSeparated' /\ SomeAdmin'
    BY <1>0, <1>1, <1>2, <2>2, <2>4, OwnedCalm
  <2>8. calm => CalmLogin(d)'
    BY <2>4, <2>7 DEF CalmLogin
  <2> QED BY <1>0, <1>2, <1>4, <2>2, <2>3, <2>4, <2>5, <2>6, <2>7, <2>8, LoginWrites
<1>6. CASE ~UsersHas(c.mail) /\ staff[c.e].login = Nothing
  <2>1. PICK y : y = [staff[c.e] EXCEPT !.login = c.u, !.email = c.mail]
    OBVIOUS
  <2>2. staff[c.e] \in StaffRows
    BY <1>3 DEF LoginInv, LoginTypes
  <2>3. y \in StaffRows /\ y.login = c.u /\ y.state = staff[c.e].state
    BY <1>3, <2>1, <2>2 DEF StaffRows
  <2>4. staff' = [staff EXCEPT ![c.e] = y]
    BY <1>1, <1>3, <1>6, <2>1 DEF LoginInv, LoginTypes
  <2>5. calm => y.state # "SEPARATED"
    BY <1>1, <1>2, <2>3 DEF CalmLogin
  <2> QED BY <1>0, <1>1, <1>2, <1>3, <1>6, <2>3, <2>4, <2>5, RowsMade
<1> QED BY <1>5, <1>6

LEMMA LoginsLoseStep == ASSUME LoginInv, NEW h \in Handlers, LoginsLose(h) PROVE LoginInv'
<1>0. PICK c : c = calls[h]
  OBVIOUS
<1>1. /\ c # Idle /\ calls' = [calls EXCEPT ![h] = Idle] /\ calm' = FALSE
      /\ stray' = stray \cup {u \in Accounts : firebase[u] # Nothing /\ ~Known(u)
                                                /\ "u" \in DOMAIN c /\ c.u = u}
      /\ UNCHANGED <<firebase, users, staff, readmitted, adminLeft>>
  BY <1>0 DEF LoginsLose, Lose
<1>2. LoginCall(c)
  BY <1>0 DEF LoginInv
<1>3. LoginTypes' /\ LoginsTypeOK' /\ Grows /\ LeavesAlone(h)
  BY <1>1 DEF LoginInv, LoginTypes, LoginsTypeOK, Grows, LeavesAlone, Known
<1>4. StrayMoves(h, Idle)
  BY <1>0, <1>1, <1>2 DEF StrayMoves, Known, LoginCall
<1>5. LoginCall(Idle) /\ LoginRows(Idle)' /\ ~Owns(Idle)
  BY DEF LoginCall, LoginRows, Owns, OfALogin, OfOneEmployed, Idle
<1>6. /\ calls' = [g \in Handlers |-> calls'[g]] /\ NoneStray' /\ OwnersApart'
      /\ \A g \in Handlers : LoginCall(calls[g])' /\ LoginRows(calls[g])'
  BY <1>1, <1>3, <1>4, <1>5, LoginMoves
<1> QED BY <1>1, <1>3, <1>6 DEF LoginInv, AtMostOne

LEMMA LoginStep == ASSUME LoginInv, [LoginsNext]_<<callVars, loginVars>> PROVE LoginInv'
<1>1. CASE UNCHANGED <<callVars, loginVars>>
  <2>1. UNCHANGED <<calls, calm, firebase, users, staff, stray, readmitted, adminLeft>>
    BY <1>1 DEF callVars, loginVars
  <2>2. AtMostOne' /\ LoginTypes' /\ LoginsTypeOK' /\ NoneStray' /\ OwnersApart'
    BY <2>1 DEF LoginInv, AtMostOne, LoginTypes, LoginsTypeOK, NoneStray, OwnersApart, Owns, Known
  <2>3. ASSUME NEW h \in Handlers PROVE LoginCall(calls[h])' /\ LoginRows(calls[h])'
    <3>1. LoginCall(calls[h]) /\ LoginRows(calls[h])
      BY DEF LoginInv
    <3>2. LoginCall(calls[h])'
      BY <2>1, <3>1 DEF LoginCall, Owns, OfALogin, OfOneEmployed
    <3>3. LoginRows(calls[h])'
      BY <2>1, <3>1 DEF LoginRows, Owns, OfALogin, OfOneEmployed, Known
    <3> QED BY <3>2, <3>3
  <2>4. calm => OutWhenSeparated' /\ SomeAdmin' /\ (Quiet' => InStepBut(Idle)')
    <3>1. calm => OutWhenSeparated' /\ SomeAdmin'
      BY <2>1 DEF LoginInv, OutWhenSeparated, SomeAdmin, ActiveAdmins, IsAdmin, Known
    <3>2. calm => (Quiet' => InStepBut(Idle)')
      BY <2>1 DEF LoginInv, InStepBut, Quiet, Running, Known
    <3> QED BY <3>1, <3>2
  <2>5. ASSUME calm, NEW h \in Handlers, calls[h] # Idle PROVE CalmLogin(calls[h])'
    <3>1. PICK d : d = calls[h]
      OBVIOUS
    <3>2. CalmLogin(d) /\ calls'[h] = d
      BY <2>1, <2>5, <3>1 DEF LoginInv
    <3>3. InStepBut(d)'
      BY <2>1, <3>2 DEF CalmLogin, InStepBut, Known
    <3>4. (IsAdmin(d.u) => Others(d.u)) => (IsAdmin(d.u) => Others(d.u))'
      BY <2>1 DEF Others, IsAdmin, Known
    <3>5. CalmLogin(d)'
      BY <2>1, <3>2, <3>3, <3>4 DEF CalmLogin, Known
    <3> QED BY <3>2, <3>5
  <2> QED BY <2>1, <2>2, <2>3, <2>4, <2>5 DEF LoginInv
<1>2. ASSUME NEW h \in Handlers, AccessNext(h) PROVE LoginInv'
  <2>1. CASE \/ \E a, u \in Accounts, r \in Roles : ChangeRoleRead(h, a, u, r)
             \/ \E a, u \in Accounts, on \in BOOLEAN : SetStatusRead(h, a, u, on)
    BY <2>1, AccessReadStep
  <2>2. CASE \E a \in Accounts, e \in Staff, to \in DOMAIN Transitions : TransitionRead(h, a, e, to)
    BY <2>2, TransitionReadStep
  <2>3. CASE ChangeRoleClaim(h) \/ ChangeRoleWrite(h) \/ SetStatusFirebase(h) \/ SetStatusWrite(h)
    BY <2>3, ChangeRoleClaimStep, ChangeRoleWriteStep, SetStatusFirebaseStep, SetStatusWriteStep
  <2>4. CASE DisableFirebase(h) \/ DeactivateLogin(h) \/ WriteState(h) \/ LoginsLose(h)
    BY <2>4, DisableFirebaseStep, DeactivateLoginStep, WriteStateStep, LoginsLoseStep
  <2> QED BY <1>2, <2>1, <2>2, <2>3, <2>4 DEF AccessNext
<1>3. ASSUME NEW h \in Handlers, AccountsNext(h) PROVE LoginInv'
  <2>1. CASE \/ \E a \in Accounts, e \in Staff, u \in Accounts \cup {Nothing} : CreateRead(h, a, e, u)
             \/ \E a \in Accounts, e \in Staff, mail \in Emails, r \in Roles :
                  CreateNewRead(h, a, e, mail, r) \/ CreateLoginRead(h, a, e, mail, r)
             \/ \E a, u \in Accounts, e \in Staff : LinkRead(h, a, e, u)
    BY <2>1, AccountsReadStep
  <2>2. CASE \/ \E a \in Accounts, e \in Staff : SyncRead(h, a, e)
             \/ \E a \in Accounts, e \in Staff, mail \in Emails : UpdateEmailRead(h, a, e, mail)
    BY <2>2, EmailReadStep
  <2>3. CASE MakeAccount(h) \/ SetClaims(h) \/ CreateWrite(h) \/ LinkWrite(h)
    BY <2>3, MakeAccountStep, SetClaimsStep, CreateWriteStep, LinkWriteStep
  <2>4. CASE CreateLoginWrite(h) \/ UndoAccount(h) \/ MoveEmailFirebase(h) \/ MoveEmailWrite(h)
             \/ EditEmail(h) \/ LoginsLose(h)
    BY <2>4, CreateLoginWriteStep, UndoAccountStep, MoveEmailFirebaseStep, MoveEmailWriteStep, EditEmailStep,
       LoginsLoseStep
  <2> QED BY <1>3, <2>1, <2>2, <2>3, <2>4 DEF AccountsNext
<1> QED BY <1>1, <1>2, <1>3 DEF LoginsNext

LEMMA LoginKept == LoginsSpec => []LoginInv
<1>1. CallsInit /\ LoginsInit => LoginInv
  BY LoginStarts
<1>2. LoginInv /\ [LoginsNext]_<<callVars, loginVars>> => LoginInv'
  BY LoginStep
<1> QED BY <1>1, <1>2, PTL DEF LoginsSpec

(* Logins at Firebase and in `users` are in step between calls that did not *)
(* overlap, no account is left over but those a call that failed left, and  *)
(* separated employees are out (access.service.ts, employees.service.ts).   *)
THEOREM LoginsStayInStep == LoginsSpec => []LoginsInStep
<1>1. ASSUME LoginInv PROVE LoginsInStep
  <2>1. LoginsTypeOK
    BY <1>1 DEF LoginInv
  <2>2. InStep
    BY <1>1 DEF LoginInv, InStep, InStepBut, Idle
  <2>3. NoStrayAccount
    <3>1. ASSUME NEW u \in Accounts, firebase[u] # Nothing, ~Known(u), u \notin stray
          PROVE  \E h \in Running : "u" \in DOMAIN calls[h] /\ calls[h].u = u
      <4>1. PICK h \in Handlers : Owns(calls[h]) /\ calls[h].u = u
        BY <1>1, <3>1 DEF LoginInv, NoneStray
      <4>2. LoginCall(calls[h])
        BY <1>1 DEF LoginInv
      <4>3. "u" \in DOMAIN calls[h]
        BY <4>1, <4>2 DEF LoginCall
      <4>4. calls[h] # Idle
        BY <4>1 DEF Owns, Idle
      <4> QED BY <4>1, <4>3, <4>4 DEF Running
    <3> QED BY <3>1 DEF NoStrayAccount
  <2>4. SeparatedIsOut
    BY <1>1 DEF LoginInv, SeparatedIsOut, OutWhenSeparated
  <2> QED BY <2>1, <2>2, <2>3, <2>4 DEF LoginsInStep
<1>2. LoginInv => LoginsInStep
  BY <1>1
<1> QED BY <1>2, LoginKept, PTL

(* A workspace keeps an active Company Admin, as long as calls come one     *)
(* after the other and none is separated as an employee (assertNotLastAdmin *)
(* of access.service.ts).                                                   *)
THEOREM AdminsRemain == LoginsSpec => []AnAdminRemains
<1>1. LoginInv => AnAdminRemains
  BY DEF LoginInv, SomeAdmin, AnAdminRemains
<1> QED BY <1>1, LoginKept, PTL
-----------------------------------------------------------------------------
(* What is decided about people stays: links and separations.               *)
KeepsLink ==
    \A e \in Staff : staff[e] # Nothing => staff[e].login \in {Nothing, staff'[e].login}
KeepsSeparation ==
    calm' => \A e \in Staff :
      staff[e] # Nothing /\ staff[e].state = "SEPARATED" => staff'[e].state = "SEPARATED"

(* One employee's row is written. *)
LEMMA StaffRowKeeps ==
  ASSUME LoginInv, NEW e \in Staff, NEW y, staff' = [staff EXCEPT ![e] = y],
         staff[e] # Nothing => staff[e].login \in {Nothing, y.login},
         calm' /\ staff[e] # Nothing /\ staff[e].state = "SEPARATED" => y.state = "SEPARATED"
  PROVE  KeepsLink /\ KeepsSeparation
<1>1. staff'[e] = y /\ \A f \in Staff \ {e} : staff'[f] = staff[f]
  BY DEF LoginInv, LoginTypes
<1> QED BY <1>1 DEF KeepsLink, KeepsSeparation

LEMMA CreateKeeps ==
  ASSUME LoginInv, NEW h \in Handlers, CreateWrite(h) \/ CreateLoginWrite(h)
  PROVE  UNCHANGED staff \/ (KeepsLink /\ KeepsSeparation)
<1>0. PICK c : c = calls[h]
  OBVIOUS
<1>1. LoginCall(c) /\ LoginRows(c)
  BY <1>0 DEF LoginInv
<1>2. CASE CreateWrite(h)
  <2>1. PICK y : y = [state |-> "PROBATION", login |-> c.u, email |-> c.mail]
    OBVIOUS
  <2>2. /\ c.pc = "insert"
        /\ UNCHANGED staff \/ (/\ staff[c.e] = Nothing
                               /\ staff' = [staff EXCEPT ![c.e] = [state |-> "PROBATION", login |-> c.u, email |-> c.mail]])
    BY <1>0, <1>2 DEF CreateWrite
  <2>3. c.e \in Staff /\ (UNCHANGED staff \/ (staff[c.e] = Nothing /\ staff' = [staff EXCEPT ![c.e] = y]))
    BY <1>1, <2>1, <2>2 DEF LoginCall
  <2> QED BY <2>3, StaffRowKeeps
<1>3. CASE CreateLoginWrite(h)
  <2>1. c.e \in Staff /\ staff[c.e] # Nothing
    BY <1>0, <1>1, <1>3 DEF CreateLoginWrite, LoginCall, LoginRows, OfOneEmployed
  <2>2. staff[c.e] \in StaffRows
    BY <2>1 DEF LoginInv, LoginTypes
  <2>3. PICK y : y = [staff[c.e] EXCEPT !.login = c.u, !.email = c.mail]
    OBVIOUS
  <2>4. y.login = c.u /\ y.state = staff[c.e].state
    BY <2>2, <2>3 DEF StaffRows
  <2>6. UNCHANGED staff
        \/ (staff[c.e].login = Nothing /\ staff' = [staff EXCEPT ![c.e].login = c.u, ![c.e].email = c.mail])
    BY <1>0, <1>3 DEF CreateLoginWrite
  <2>7. [staff EXCEPT ![c.e].login = c.u, ![c.e].email = c.mail] = [staff EXCEPT ![c.e] = y]
    BY <2>1, <2>2, <2>3 DEF LoginInv, LoginTypes
  <2>5. UNCHANGED staff \/ (staff[c.e].login = Nothing /\ staff' = [staff EXCEPT ![c.e] = y])
    BY <2>6, <2>7
  <2> QED BY <2>1, <2>4, <2>5, StaffRowKeeps
<1> QED BY <1>2, <1>3

LEMMA StaffKeeps ==
  ASSUME LoginInv, NEW h \in Handlers, LinkWrite(h) \/ EditEmail(h) \/ WriteState(h)
  PROVE  UNCHANGED staff \/ (KeepsLink /\ KeepsSeparation)
<1>0. PICK c : c = calls[h]
  OBVIOUS
<1>1. LoginCall(c) /\ LoginRows(c) /\ (calm /\ c # Idle => CalmLogin(c))
  BY <1>0 DEF LoginInv
<1>2. c.pc \in {"link", "edit", "state"} /\ c # Idle /\ calm' = calm
  BY <1>0 DEF LinkWrite, EditEmail, WriteState, Idle, Finish, Continue
<1>3. c.e \in Staff /\ staff[c.e] # Nothing
  BY <1>1, <1>2 DEF LoginCall, LoginRows, OfOneEmployed
<1>4. staff[c.e] \in StaffRows
  BY <1>3 DEF LoginInv, LoginTypes
<1>5. CASE LinkWrite(h)
  <2>1. PICK y : y = [staff[c.e] EXCEPT !.login = c.u]
    OBVIOUS
  <2>2. y.login = c.u /\ y.state = staff[c.e].state
    BY <1>4, <2>1 DEF StaffRows
  <2>4. UNCHANGED staff \/ (staff[c.e].login = Nothing /\ staff' = [staff EXCEPT ![c.e].login = c.u])
    BY <1>0, <1>5 DEF LinkWrite
  <2>5. [staff EXCEPT ![c.e].login = c.u] = [staff EXCEPT ![c.e] = y]
    BY <1>3, <1>4, <2>1 DEF LoginInv, LoginTypes
  <2>3. UNCHANGED staff \/ (staff[c.e].login = Nothing /\ staff' = [staff EXCEPT ![c.e] = y])
    BY <2>4, <2>5
  <2> QED BY <1>3, <2>2, <2>3, StaffRowKeeps
<1>6. CASE EditEmail(h)
  <2>1. PICK y : y = [staff[c.e] EXCEPT !.email = c.mail]
    OBVIOUS
  <2>2. y.login = staff[c.e].login /\ y.state = staff[c.e].state
    BY <1>4, <2>1 DEF StaffRows
  <2>4. staff' = [staff EXCEPT ![c.e].email = c.mail]
    BY <1>0, <1>6 DEF EditEmail
  <2>3. staff' = [staff EXCEPT ![c.e] = y]
    BY <1>3, <1>4, <2>1, <2>4 DEF LoginInv, LoginTypes
  <2> QED BY <1>3, <2>2, <2>3, StaffRowKeeps
<1>7. CASE WriteState(h)
  <2>1. PICK y : y = [staff[c.e] EXCEPT !.state = c.to]
    OBVIOUS
  <2>2. y.login = staff[c.e].login /\ y.state = c.to
    BY <1>4, <2>1 DEF StaffRows
  <2>6. staff' = [staff EXCEPT ![c.e].state = c.to] /\ c.pc = "state"
    BY <1>0, <1>7 DEF WriteState
  <2>3. staff' = [staff EXCEPT ![c.e] = y] /\ c.pc = "state"
    BY <1>3, <1>4, <2>1, <2>6 DEF LoginInv, LoginTypes
  <2>4. calm => c.to \in Transitions[staff[c.e].state]
    BY <1>1, <1>2, <2>3 DEF CalmLogin
  <2>5. Transitions["SEPARATED"] = {}
    BY DEF Transitions
  <2> QED BY <1>2, <1>3, <2>2, <2>3, <2>4, <2>5, StaffRowKeeps
<1> QED BY <1>5, <1>6, <1>7

LEMMA LoginsKeep ==
  ASSUME LoginInv, LoginsNext
  PROVE  UNCHANGED staff \/ (KeepsLink /\ KeepsSeparation)
<1>1. ASSUME NEW h \in Handlers, AccessNext(h) PROVE UNCHANGED staff \/ WriteState(h)
  BY <1>1 DEF AccessNext, ChangeRoleRead, SetStatusRead, TransitionRead, ChangeRoleClaim, ChangeRoleWrite,
              SetStatusFirebase, SetStatusWrite, DisableFirebase, DeactivateLogin, LoginsLose, loginVars
<1>2. ASSUME NEW h \in Handlers, AccountsNext(h)
      PROVE  UNCHANGED staff \/ CreateWrite(h) \/ CreateLoginWrite(h) \/ LinkWrite(h) \/ EditEmail(h)
  BY <1>2 DEF AccountsNext, CreateRead, CreateNewRead, CreateLoginRead, LinkRead, SyncRead, UpdateEmailRead,
              MakeAccount, SetClaims, UndoAccount, MoveEmailFirebase, MoveEmailWrite, LoginsLose, loginVars
<1> QED BY <1>1, <1>2, CreateKeeps, StaffKeeps DEF LoginsNext

(* The login of an employee is never replaced, and one call after another a *)
(* separation is final (linkLogin(), createLogin(), LIFECYCLE_TRANSITIONS). *)
THEOREM LinksAndSeparationsStand == LoginsSpec => LinkedForGood /\ SeparationStands
<1>1. LoginInv /\ [LoginsNext]_<<callVars, loginVars>> => [KeepsLink /\ KeepsSeparation]_staff
  BY LoginsKeep DEF loginVars
<1>2. [KeepsLink /\ KeepsSeparation]_staff =>
         /\ [\A e \in Staff : staff[e] # Nothing => staff[e].login \in {Nothing, staff'[e].login}]_staff
         /\ [calm' => \A e \in Staff :
              staff[e] # Nothing /\ staff[e].state = "SEPARATED" => staff'[e].state = "SEPARATED"]_staff
  BY DEF KeepsLink, KeepsSeparation
<1> QED BY <1>1, <1>2, LoginKept, PTL DEF LoginsSpec, LinkedForGood, SeparationStands

-----------------------------------------------------------------------------
(* Departments, with the edits that change reporting lines and departments. *)
StructureNext ==
    \/ \E h \in Handlers : LinesNext(h) \/ DepartmentsNext(h) \/ ProfileNext(h)
    \/ \E p \in People : Separate(p)
    \/ \E d \in Departments : CreateDepartment(d)
    \/ \E c \in Contacts : DeleteContact(c)
StructureSpec == CallsInit /\ OrgInit /\ [][StructureNext]_<<callVars, orgVars>>

(* A department that is deleted without a successor has nobody in it.       *)
DepartmentInv ==
    /\ calls = [h \in Handlers |-> calls[h]] /\ calm \in BOOLEAN /\ AtMostOne
    /\ dept \in [People -> Departments \cup {NoOne}] /\ depts \subseteq Departments
    /\ \A h \in Handlers :
         /\ calls[h].pc = "update" => calls[h].d \in Departments \cup {NoOne}
         /\ calls[h].pc = "delete" => calls[h].to \in Departments \cup {NoOne}
         /\ calm /\ calls[h].pc = "delete" /\ calls[h].to = NoOne => Members(calls[h].d) = {}
KeepsDepartment == calm' => \A p \in People : dept[p] # NoOne => dept'[p] # NoOne

LEMMA DepartmentStarts == ASSUME CallsInit, OrgInit PROVE DepartmentInv
<1>1. calls = [h \in Handlers |-> calls[h]] /\ calm = TRUE /\ \A h \in Handlers : calls[h] = Idle
  BY DEF CallsInit
<1> QED BY <1>1 DEF OrgInit, DepartmentInv, AtMostOne, Idle

(* A call that goes on without touching departments.                        *)
LEMMA ElsewhereStep ==
  ASSUME DepartmentInv, NEW h \in Handlers, NEW d, calls' = [calls EXCEPT ![h] = d],
         calm' \in BOOLEAN, calm' => calm,
         calm' /\ d # Idle => \A g \in Handlers \ {h} : calls[g] = Idle,
         UNCHANGED <<dept, depts>>,
         d.pc = "update" => d.d \in Departments \cup {NoOne},
         d.pc = "delete" => d.to \in Departments \cup {NoOne},
         calm' /\ d.pc = "delete" /\ d.to = NoOne => Members(d.d) = {}
  PROVE  DepartmentInv'
<1>1. calls' = [g \in Handlers |-> calls'[g]] /\ \A g \in Handlers : calls'[g] = IF g = h THEN d ELSE calls[g]
  BY DEF DepartmentInv
<1>2. AtMostOne'
  BY <1>1 DEF DepartmentInv, AtMostOne
<1>3. ASSUME NEW g \in Handlers
      PROVE  /\ calls'[g].pc = "update" => calls'[g].d \in Departments \cup {NoOne}
             /\ calls'[g].pc = "delete" => calls'[g].to \in Departments \cup {NoOne}
             /\ calm' /\ calls'[g].pc = "delete" /\ calls'[g].to = NoOne => Members(calls[g].d)' = {}
  <2>1. CASE g = h
    BY <1>1, <2>1 DEF Members
  <2>2. CASE g # h
    BY <1>1, <2>2 DEF Members, DepartmentInv
  <2> QED BY <2>1, <2>2
<1> QED BY <1>1, <1>2, <1>3 DEF DepartmentInv

LEMMA UpdateKeepsDept ==
  ASSUME DepartmentInv, NEW h \in Handlers, UpdateWrite(h)
  PROVE  DepartmentInv' /\ KeepsDepartment
<1>0. PICK c : c = calls[h]
  OBVIOUS
<1>1. c.pc = "update" /\ calls' = [calls EXCEPT ![h] = Idle] /\ calm' = calm /\ depts' = depts
      /\ (UNCHANGED dept \/ (c.d # NoOne /\ dept' = [dept EXCEPT ![c.p] = c.d]))
  BY <1>0 DEF UpdateWrite, Finish, Continue
<1>2. c.d \in Departments \cup {NoOne} /\ c # Idle
  BY <1>0, <1>1 DEF DepartmentInv, Idle
<1>3. \A g \in Handlers : calls'[g] = IF g = h THEN Idle ELSE calls[g]
  BY <1>1 DEF DepartmentInv
<1>4. calm => \A g \in Handlers : calls'[g] = Idle
  BY <1>0, <1>2, <1>3 DEF DepartmentInv, AtMostOne
<1>5. dept' \in [People -> Departments \cup {NoOne}] /\ KeepsDepartment
  BY <1>1, <1>2 DEF DepartmentInv, KeepsDepartment
<1>6. calls' = [g \in Handlers |-> calls'[g]] /\ AtMostOne'
  BY <1>1, <1>4 DEF DepartmentInv, AtMostOne
<1>7. ASSUME NEW g \in Handlers
      PROVE  /\ calls'[g].pc = "update" => calls'[g].d \in Departments \cup {NoOne}
             /\ calls'[g].pc = "delete" => calls'[g].to \in Departments \cup {NoOne}
             /\ ~(calm' /\ calls'[g].pc = "delete")
  BY <1>1, <1>3, <1>4 DEF DepartmentInv, Idle
<1> QED BY <1>1, <1>5, <1>6, <1>7 DEF DepartmentInv

LEMMA DeleteKeepsDept ==
  ASSUME DepartmentInv, NEW h \in Handlers, DeleteDepartmentWrite(h)
  PROVE  DepartmentInv' /\ KeepsDepartment
<1>0. PICK c : c = calls[h]
  OBVIOUS
<1>1. /\ c.pc = "delete" /\ calls' = [calls EXCEPT ![h] = Idle] /\ calm' = calm
      /\ \/ UNCHANGED <<dept, depts>>
         \/ /\ depts' = depts \ {c.d}
            /\ dept' = [p \in People |-> IF dept[p] = c.d THEN c.to ELSE dept[p]]
  BY <1>0 DEF DeleteDepartmentWrite, Finish, Continue
<1>2. c.to \in Departments \cup {NoOne} /\ c # Idle /\ (calm /\ c.to = NoOne => Members(c.d) = {})
  BY <1>0, <1>1 DEF DepartmentInv, Idle
<1>3. \A g \in Handlers : calls'[g] = IF g = h THEN Idle ELSE calls[g]
  BY <1>1 DEF DepartmentInv
<1>4. calm => \A g \in Handlers : calls'[g] = Idle
  BY <1>0, <1>2, <1>3 DEF DepartmentInv, AtMostOne
<1>5. dept' \in [People -> Departments \cup {NoOne}] /\ depts' \subseteq Departments
  BY <1>1, <1>2 DEF DepartmentInv
<1>6. KeepsDepartment
  BY <1>1, <1>2 DEF DepartmentInv, KeepsDepartment, Members
<1>7. calls' = [g \in Handlers |-> calls'[g]] /\ AtMostOne'
  BY <1>1, <1>4 DEF DepartmentInv, AtMostOne
<1>8. ASSUME NEW g \in Handlers
      PROVE  /\ calls'[g].pc = "update" => calls'[g].d \in Departments \cup {NoOne}
             /\ calls'[g].pc = "delete" => calls'[g].to \in Departments \cup {NoOne}
             /\ ~(calm' /\ calls'[g].pc = "delete")
  BY <1>1, <1>3, <1>4 DEF DepartmentInv, Idle
<1> QED BY <1>1, <1>5, <1>6, <1>7, <1>8 DEF DepartmentInv

(* Everything else in the organisation leaves the employees' departments.   *)
LEMMA ElsewhereKeepsDept ==
  ASSUME DepartmentInv, NEW h \in Handlers,
         \/ \E p \in People, m \in People \cup {NoOne}, d \in Departments \cup {NoOne} : UpdateRead(h, p, m, d)
         \/ \E d \in Departments, to \in Departments \cup {NoOne} : DeleteDepartmentRead(h, d, to)
         \/ OrgLose(h) \/ ProfileNext(h)
  PROVE  DepartmentInv' /\ KeepsDepartment
<1>1. UNCHANGED <<dept, depts>>
  BY DEF UpdateRead, DeleteDepartmentRead, OrgLose, ProfileNext, ContactBegin, PhotoRead, PhotoUpload, PhotoReplace,
         PhotoWrite, ContactCommit, orgVars
<1>2. KeepsDepartment
  BY <1>1 DEF KeepsDepartment
<1>3. ASSUME NEW d, Begin(h, d), d.pc = "update" => d.d \in Departments \cup {NoOne},
             d.pc = "delete" => d.to \in Departments \cup {NoOne},
             d.pc = "delete" /\ d.to = NoOne => Members(d.d) = {}
      PROVE  DepartmentInv'
  <2>1. calls' = [calls EXCEPT ![h] = d] /\ (calm' => calm /\ \A g \in Handlers : calls[g] = Idle)
        /\ calm' = (calm /\ Quiet)
    BY <1>3, BegunAlone
  <2>2. calm' \in BOOLEAN
    BY <2>1 DEF DepartmentInv
  <2> QED BY <1>1, <1>3, <2>1, <2>2, ElsewhereStep
<1>4. ASSUME NEW p \in People, NEW m \in People \cup {NoOne}, NEW d \in Departments \cup {NoOne}, UpdateRead(h, p, m, d)
      PROVE  DepartmentInv'
  <2>1. PICK c : c = [pc |-> "update", p |-> p, m |-> m, d |-> d]
    OBVIOUS
  <2>2. Begin(h, c) /\ c.pc = "update" /\ c.d = d
    BY <1>4, <2>1 DEF UpdateRead
  <2> QED BY <1>3, <1>4, <2>2
<1>5. ASSUME NEW d \in Departments, NEW to \in Departments \cup {NoOne}, DeleteDepartmentRead(h, d, to)
      PROVE  DepartmentInv'
  <2>1. PICK c : c = [pc |-> "delete", d |-> d, to |-> IF Members(d) = {} THEN NoOne ELSE to]
    OBVIOUS
  <2>2. Begin(h, c) /\ c.pc = "delete" /\ c.d = d /\ c.to \in Departments \cup {NoOne}
    BY <1>5, <2>1 DEF DeleteDepartmentRead
  <2>3. c.to = NoOne => Members(d) = {}
    BY <1>5, <2>1, OrgAssumption DEF DeleteDepartmentRead, DepartmentInv
  <2> QED BY <1>3, <2>2, <2>3
<1>6. ASSUME OrgLose(h) PROVE DepartmentInv'
  <2>1. calls' = [calls EXCEPT ![h] = Idle] /\ calm' = FALSE /\ Idle.pc = "idle"
    BY <1>6 DEF OrgLose, Lose, Idle
  <2> QED BY <1>1, <2>1, ElsewhereStep
<1>7. ASSUME ProfileNext(h) PROVE DepartmentInv'
  <2>1. ASSUME NEW d, Begin(h, d), d.pc \notin {"update", "delete"} PROVE DepartmentInv'
    BY <1>3, <2>1
  <2>2. ASSUME NEW d, Continue(h, d), d.pc \notin {"update", "delete"}, calls[h] # Idle PROVE DepartmentInv'
    <3>1. calls' = [calls EXCEPT ![h] = d] /\ calm' = calm /\ (calm' => \A g \in Handlers \ {h} : calls[g] = Idle)
      BY <2>2, GoneOnAlone DEF DepartmentInv
    <3> QED BY <1>1, <2>2, <3>1, ElsewhereStep DEF DepartmentInv
  <2>3. ASSUME NEW c \in Contacts, NEW primary \in BOOLEAN, ContactBegin(h, c, primary) PROVE DepartmentInv'
    BY <2>1, <2>3 DEF ContactBegin
  <2>4. CASE PhotoRead(h)
    BY <2>1, <2>4 DEF PhotoRead
  <2>5. Idle.pc \notin {"update", "delete"}
    BY DEF Idle
  <2>6. CASE PhotoUpload(h)
    <3>1. calls[h] # Idle
      BY <2>6 DEF PhotoUpload, Idle
    <3>2. CASE Finish(h)
      BY <2>2, <2>5, <3>1, <3>2 DEF Finish
    <3>3. CASE \E k \in Photos : Continue(h, [pc |-> "replace", old |-> calls[h].old, key |-> k])
      BY <2>2, <3>1, <3>3
    <3> QED BY <2>6, <3>2, <3>3 DEF PhotoUpload
  <2>7. CASE PhotoReplace(h)
    <3>1. calls[h] # Idle
      BY <2>7 DEF PhotoReplace, Idle
    <3>2. Continue(h, [pc |-> "photo", key |-> calls[h].key])
      BY <2>7 DEF PhotoReplace
    <3> QED BY <2>2, <3>1, <3>2
  <2>8. CASE PhotoWrite(h) \/ ContactCommit(h)
    <3>1. calls[h] # Idle /\ Continue(h, Idle)
      BY <2>8 DEF PhotoWrite, ContactCommit, Idle, Finish
    <3> QED BY <2>2, <2>5, <3>1
  <2> QED BY <1>6, <1>7, <2>3, <2>4, <2>6, <2>7, <2>8 DEF ProfileNext
<1> QED BY <1>2, <1>4, <1>5, <1>6, <1>7

LEMMA AtOnceKeepsDept ==
  ASSUME DepartmentInv, AtOnce, dept' = dept, depts' \subseteq Departments
  PROVE  DepartmentInv' /\ KeepsDepartment
<1>1. calls' = calls /\ calm' = (calm /\ Quiet)
  BY DEF AtOnce, Counted
<1>2. AtMostOne'
  BY <1>1 DEF DepartmentInv, AtMostOne
<1>3. \A h \in Handlers :
         calm' /\ calls'[h].pc = "delete" /\ calls'[h].to = NoOne => Members(calls[h].d)' = {}
  BY <1>1 DEF DepartmentInv, Members
<1> QED BY <1>1, <1>2, <1>3 DEF DepartmentInv, KeepsDepartment

LEMMA DepartmentStep ==
  ASSUME DepartmentInv, StructureNext
  PROVE  DepartmentInv' /\ KeepsDepartment
<1>1. ASSUME NEW h \in Handlers, LinesNext(h) \/ DepartmentsNext(h) \/ ProfileNext(h)
      PROVE  DepartmentInv' /\ KeepsDepartment
  <2>1. CASE UpdateWrite(h)
    BY <2>1, UpdateKeepsDept
  <2>2. CASE DeleteDepartmentWrite(h)
    BY <2>2, DeleteKeepsDept
  <2>3. CASE \/ \E p \in People, m \in People \cup {NoOne}, d \in Departments \cup {NoOne} : UpdateRead(h, p, m, d)
             \/ \E d \in Departments, to \in Departments \cup {NoOne} : DeleteDepartmentRead(h, d, to)
             \/ OrgLose(h) \/ ProfileNext(h)
    BY <2>3, ElsewhereKeepsDept
  <2>4. LinesNext(h) => UpdateWrite(h) \/ OrgLose(h)
                        \/ \E p \in People, m \in People \cup {NoOne} : UpdateRead(h, p, m, NoOne)
    BY DEF LinesNext
  <2>5. DepartmentsNext(h) =>
           \/ UpdateWrite(h) \/ DeleteDepartmentWrite(h) \/ OrgLose(h)
           \/ \E p \in People, d \in Departments : UpdateRead(h, p, NoOne, d)
           \/ \E d \in Departments, to \in Departments \cup {NoOne} : DeleteDepartmentRead(h, d, to)
    BY DEF DepartmentsNext
  <2> QED BY <1>1, <2>1, <2>2, <2>3, <2>4, <2>5
<1>2. ASSUME NEW p \in People, Separate(p) PROVE DepartmentInv' /\ KeepsDepartment
  BY <1>2, AtOnceKeepsDept DEF Separate, DepartmentInv
<1>3. ASSUME NEW d \in Departments, CreateDepartment(d) PROVE DepartmentInv' /\ KeepsDepartment
  BY <1>3, AtOnceKeepsDept DEF CreateDepartment, DepartmentInv
<1>4. ASSUME NEW c \in Contacts, DeleteContact(c) PROVE DepartmentInv' /\ KeepsDepartment
  BY <1>4, AtOnceKeepsDept DEF DeleteContact, DepartmentInv
<1> QED BY <1>1, <1>2, <1>3, <1>4 DEF StructureNext

(* With changes one after the other, deleting a department leaves nobody    *)
(* without one (deleteDepartment()).                                        *)
THEOREM DepartmentsAreKept == StructureSpec => DepartmentKept
<1>1. CallsInit /\ OrgInit => DepartmentInv
  BY DepartmentStarts
<1>2. DepartmentInv /\ [StructureNext]_<<callVars, orgVars>> => DepartmentInv'
  <2>1. ASSUME DepartmentInv, UNCHANGED <<callVars, orgVars>> PROVE DepartmentInv'
    BY <2>1 DEF DepartmentInv, callVars, orgVars, AtMostOne, Members
  <2> QED BY <2>1, DepartmentStep
<1>3. DepartmentInv /\ [StructureNext]_<<callVars, orgVars>> => [KeepsDepartment]_dept
  BY DepartmentStep DEF orgVars
<1>4. [KeepsDepartment]_dept => [calm' => \A p \in People : dept[p] # NoOne => dept'[p] # NoOne]_dept
  BY DEF KeepsDepartment
<1> QED BY <1>1, <1>2, <1>3, <1>4, PTL DEF StructureSpec, DepartmentKept

-----------------------------------------------------------------------------
(* The setup, with the departments that are edited meanwhile.               *)
WizardNext == EditUnits \/ \E h \in Handlers : SetupNext(h)
WizardSpec == CallsInit /\ SetupInit /\ [][WizardNext]_<<callVars, setupVars>>

(* What lands completes the setup, and nothing reopens it: a draft that a   *)
(* slow save writes after that is a draft of a setup that is done.          *)
LandedIsDone ==
    /\ setup = [done |-> setup.done, draft |-> setup.draft, failures |-> setup.failures]
    /\ landed # Unsaved => setup.done

LEMMA SetupStep ==
  ASSUME LandedIsDone, WizardNext
  PROVE  LandedIsDone' /\ (landed # Unsaved => landed' = landed)
<1>1. EditUnits => UNCHANGED <<setup, landed>>
  BY DEF EditUnits
<1>2. ASSUME NEW h \in Handlers, SetupNext(h)
      PROVE  LandedIsDone' /\ (landed # Unsaved => landed' = landed)
  <2>1. ASSUME NEW a \in Admins, NEW d, NEW f, EditRead(h, a, d, f)
        PROVE  LandedIsDone' /\ (landed # Unsaved => landed' = landed)
    BY <2>1 DEF EditRead, LandedIsDone
  <2>2. CASE SubmitCommit(h)
    BY <2>2 DEF SubmitCommit, Claimed, Settled, LandedIsDone
  <2>3. CASE Persist(h) \/ WriteResult(h)
    BY <2>3 DEF Persist, WriteResult, LandedIsDone
  <2>4. CASE ProvisionRow(h) \/ RetryRead(h) \/ (Lose(h) /\ UNCHANGED setupVars)
             \/ (\E p \in Hires : ProvisionAccount(h, p))
             \/ \E a \in Admins : SubmitRead(h, a)
    BY <2>4 DEF ProvisionRow, RetryRead, setupVars, ProvisionAccount, SubmitRead, LandedIsDone
  <2>5. ASSUME NEW a \in Admins, NEW t \in Texts, NEW hs, NEW new, SaveRead(h, a, t, hs, new)
        PROVE  LandedIsDone' /\ (landed # Unsaved => landed' = landed)
    BY <2>5 DEF SaveRead, LandedIsDone
  <2>6. ASSUME NEW a \in Admins,
               (\E f \in {"good", "bad"} : UploadRead(h, a, f)) \/ RemoveFileRead(h, a) \/ ImportHolidaysRead(h, a, {"day"})
        PROVE  LandedIsDone' /\ (landed # Unsaved => landed' = landed)
    BY <2>1, <2>6 DEF UploadRead, RemoveFileRead, ImportHolidaysRead
  <2> QED BY <1>2, <2>2, <2>3, <2>4, <2>5, <2>6 DEF SetupNext
<1> QED BY <1>1, <1>2 DEF WizardNext, LandedIsDone

(* Only one submit of the setup lands, whichever admins race for it         *)
(* (submit() claims the row inside its transaction).                        *)
THEOREM OneSetupLands == WizardSpec => SetupLandsOnce
<1>1. SetupInit => LandedIsDone
  BY DEF SetupInit, LandedIsDone
<1>2. LandedIsDone /\ [WizardNext]_<<callVars, setupVars>> => LandedIsDone'
  <2>1. ASSUME LandedIsDone, UNCHANGED <<callVars, setupVars>> PROVE LandedIsDone'
    BY <2>1 DEF LandedIsDone, setupVars
  <2> QED BY <2>1, SetupStep
<1>3. LandedIsDone /\ [WizardNext]_<<callVars, setupVars>> => [landed # Unsaved => landed' = landed]_landed
  BY SetupStep DEF setupVars
<1> QED BY <1>1, <1>2, <1>3, PTL DEF WizardSpec, SetupLandsOnce

-----------------------------------------------------------------------------
(* The people's side: a behaviour is about logins, about the organisation   *)
(* or about the setup.                                                      *)
PeopleSpec ==
    \/ LoginsSpec /\ [][FALSE]_dept /\ [][FALSE]_landed
    \/ StructureSpec /\ [][FALSE]_staff /\ [][FALSE]_landed
    \/ WizardSpec /\ [][FALSE]_staff /\ [][FALSE]_dept

(* Links, separations, departments and the setup that landed are not undone *)
(* by what comes later: the four facts above, whichever side moves.         *)
THEOREM DecisionsStand == PeopleSpec => StaysDecided
<1>1. [FALSE]_staff =>
         /\ [\A e \in Staff : staff[e] # Nothing => staff[e].login \in {Nothing, staff'[e].login}]_staff
         /\ [calm' => \A e \in Staff :
              staff[e] # Nothing /\ staff[e].state = "SEPARATED" => staff'[e].state = "SEPARATED"]_staff
  OBVIOUS
<1>2. [FALSE]_dept => [calm' => \A p \in People : dept[p] # NoOne => dept'[p] # NoOne]_dept
  OBVIOUS
<1>3. [FALSE]_landed => [landed # Unsaved => landed' = landed]_landed
  OBVIOUS
<1> QED BY <1>1, <1>2, <1>3, LinksAndSeparationsStand, DepartmentsAreKept, OneSetupLands, PTL
        DEF PeopleSpec, StaysDecided, LinkedForGood, SeparationStands, DepartmentKept, SetupLandsOnce
=============================================================================
