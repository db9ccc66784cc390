------------------------------- MODULE Setup -------------------------------
(***************************************************************************)
(* Company setup (setup/setup.service.ts): one draft per workspace, edited *)
(* by any Company Admin, submitted once.  A draft is the profile of an     *)
(* admin, the holidays, the departments and the uploaded employee file;    *)
(* the rest of the configuration is validated and written like the         *)
(* profile's text.  A file is good, with a login for each of Hires, or     *)
(* bad.                                                                    *)
(***************************************************************************)
EXTENDS Calls

CONSTANTS
    Admins,     \* Company Admins
    Texts,      \* profiles an admin may enter
    Hires,      \* rows of the employee file, by login email
    Unsaved     \* no draft, nothing landed

VARIABLES
    setup,      \* [done, draft, failures]: the tenant_setup row
    landed,     \* what submit wrote, with the admin who submitted
    fbUsers,    \* hires with an account at Firebase
    dbUsers,    \* hires with a `users` row
    joined,     \* hires whose employee is linked to a login
    units,      \* departments there are
    wrote,      \* <<admin, text>>: profiles an admin saved
    upload,     \* the file last uploaded or removed
    halfDone,   \* hires whose link failed, or whose account could not be deleted
    unitGone    \* a department was deleted

setupVars == <<setup, landed, fbUsers, dbUsers, joined, units, wrote, upload, halfDone, unitGone>>
loginsOf == <<fbUsers, dbUsers, joined, halfDone>>

SetupInit ==
    /\ setup = [done |-> FALSE, draft |-> Unsaved, failures |-> {}] /\ landed = Unsaved
    /\ fbUsers = {} /\ dbUsers = {} /\ joined = {} /\ wrote = {} /\ halfDone = {}
    /\ units \in SUBSET {"eng"} /\ upload = "none" /\ unitGone = FALSE

----------------------------------------------------------------------------
(* prefill(): what the workspace has; the profile is the actor's own. *)
Prefill(a) == [text |-> "", owner |-> a, hols |-> {}, kept |-> units, new |-> {}, file |-> "none"]
Stored(a) == IF setup.draft = Unsaved THEN Prefill(a) ELSE setup.draft

(* sanitize() and the owner rule of saveDraft(): departments the workspace  *)
(* has come from the database, the file and the owner from the stored       *)
(* draft, and an admin who changes the profile becomes its owner.           *)
Sanitized(a, t, hs, new) ==
    [text |-> t, owner |-> IF setup.draft = Unsaved \/ setup.draft.text # t THEN a ELSE setup.draft.owner,
     hols |-> hs, kept |-> units, new |-> new \ units, file |-> IF setup.draft = Unsaved THEN "none" ELSE setup.draft.file]

(* saveDraft(), up to its write. *)
SaveRead(h, a, t, hs, new) ==
    /\ ~setup.done
    /\ Begin(h, [pc |-> "persist", draft |-> Sanitized(a, t, hs, new), upload |-> upload])
    /\ wrote' = wrote \cup {<<a, t>>}
    /\ UNCHANGED <<setup, landed, units, upload, unitGone, loginsOf>>

(* uploadFile(), removeFile() and importHolidays(): without a draft the     *)
(* prefill is stored first.                                                 *)
EditRead(h, a, d, f) ==
    /\ ~setup.done
    /\ setup' = [setup EXCEPT !.draft = Stored(a)]
    /\ Begin(h, [pc |-> "persist", draft |-> d, upload |-> f])
    /\ UNCHANGED <<landed, units, wrote, upload, unitGone, loginsOf>>
UploadRead(h, a, f) == EditRead(h, a, [Stored(a) EXCEPT !.file = f], f)
RemoveFileRead(h, a) == EditRead(h, a, [Stored(a) EXCEPT !.file = "none"], "none")
ImportHolidaysRead(h, a, hs) == EditRead(h, a, [Stored(a) EXCEPT !.hols = @ \cup hs], upload)

(* persist(): the whole draft, whether or not the setup is complete. *)
Persist(h) ==
    /\ calls[h].pc = "persist" /\ Finish(h)
    /\ setup' = [setup EXCEPT !.draft = calls[h].draft] /\ upload' = calls[h].upload
    /\ UNCHANGED <<landed, units, wrote, unitGone, loginsOf>>

(* A department is created or deleted on its own page. *)
EditUnits ==
    /\ AtOnce /\ units' = {"eng"} \ units /\ unitGone' = (unitGone \/ units # {})
    /\ UNCHANGED <<setup, landed, wrote, upload, loginsOf>>

----------------------------------------------------------------------------
ProfileIssue(d, a) == d.owner # a
(* validateDraft() with the Firebase check. *)
Issues(d, a) ==
    \/ d.text = "" \/ ProfileIssue(d, a)
    \/ d.file = "bad" \/ (d.file = "good" /\ Hires \cap (fbUsers \cup dbUsers) # {})

SubmitRead(h, a) ==
    /\ ~setup.done /\ setup.draft # Unsaved /\ ~Issues(setup.draft, a)
    /\ Begin(h, [pc |-> "submit", draft |-> setup.draft, by |-> a])
    /\ UNCHANGED setupVars

Claimed == ~setup.done

Settled == [setup EXCEPT !.done = TRUE, !.draft = Unsaved, !.failures = {}]

(* New departments are created; one the draft has as existing is not, even  *)
(* if it was deleted since.                                                 *)
UnitsAfter(d) == units \cup d.new

(* The transaction of submit(): the second of two that race finds the setup *)
(* complete, and any failure leaves nothing.  The logins come after it.     *)
SubmitCommit(h) ==
    LET c == calls[h] IN
    /\ c.pc = "submit"
    /\ \/ /\ Claimed
          /\ setup' = Settled
          /\ landed' = [text |-> c.draft.text, by |-> c.by, hols |-> c.draft.hols, units |-> c.draft.kept \cup c.draft.new,
                        file |-> c.draft.file]
          /\ units' = UnitsAfter(c.draft)
          /\ Continue(h, [pc |-> "logins", todo |-> IF c.draft.file = "good" THEN Hires ELSE {}, failed |-> {}, old |-> {}])
       \/ Finish(h) /\ UNCHANGED <<setup, landed, units>>
    /\ UNCHANGED <<wrote, upload, unitGone, loginsOf>>

(* provisionLogin(): the account, or a failure to report; a retry skips who *)
(* is linked by now.                                                        *)
ProvisionAccount(h, p) ==
    LET c == calls[h] IN
    /\ c.pc = "logins" /\ p \in c.todo
    /\ \/ /\ p \notin fbUsers /\ p \notin c.old \cap joined
          /\ fbUsers' = fbUsers \cup {p}
          /\ Continue(h, [c EXCEPT !.pc = "row", !.todo = (@ \ {p})] @@ [p |-> p])
       \/ /\ p \notin c.old \cap joined
          /\ Continue(h, [c EXCEPT !.todo = @ \ {p}, !.failed = @ \cup {p}]) /\ UNCHANGED fbUsers
       \/ p \in c.old \cap joined /\ Continue(h, [c EXCEPT !.todo = @ \ {p}]) /\ UNCHANGED fbUsers
    /\ UNCHANGED <<setup, landed, dbUsers, joined, units, wrote, upload, halfDone, unitGone>>

Provisioned(c) == [pc |-> "logins", todo |-> c.todo, failed |-> c.failed, old |-> c.old]
(* The claims, the `users` row and the link, one statement each.  After a   *)
(* failure the account is deleted, unless that fails too; the row of a link *)
(* that failed stays.                                                       *)
ProvisionRow(h) ==
    LET c == calls[h] IN
    /\ c.pc = "row"
    /\ \/ /\ c.p \notin dbUsers
          /\ dbUsers' = dbUsers \cup {c.p} /\ joined' = joined \cup {c.p}
          /\ Continue(h, Provisioned(c)) /\ UNCHANGED <<fbUsers, halfDone>>
       \/ /\ Continue(h, [Provisioned(c) EXCEPT !.failed = @ \cup {c.p}])
          /\ fbUsers' \in {fbUsers, fbUsers \ {c.p}} /\ dbUsers' \in {dbUsers, dbUsers \cup {c.p}}
          /\ halfDone' = IF c.p \in fbUsers' \/ dbUsers' # dbUsers THEN halfDone \cup {c.p} ELSE halfDone
          /\ UNCHANGED joined
    /\ UNCHANGED <<setup, landed, units, wrote, upload, unitGone>>

WriteResult(h) ==
    /\ calls[h].pc = "logins" /\ calls[h].todo = {} /\ Finish(h)
    /\ setup' = [setup EXCEPT !.failures = calls[h].failed]
    /\ UNCHANGED <<landed, units, wrote, upload, unitGone, loginsOf>>

(* retryLogins(): the failures as they are listed. *)
RetryRead(h) ==
    /\ setup.done
    /\ Begin(h, [pc |-> "logins", todo |-> setup.failures, failed |-> {}, old |-> setup.failures])
    /\ UNCHANGED setupVars

SetupNext(h) ==
    \/ \E a \in Admins :
         \/ \E t \in Texts, hs \in SUBSET {"day"}, new \in SUBSET {"eng"} : SaveRead(h, a, t, hs, new)
         \/ \E f \in {"good", "bad"} : UploadRead(h, a, f)
         \/ RemoveFileRead(h, a) \/ ImportHolidaysRead(h, a, {"day"})
         \/ SubmitRead(h, a)
    \/ Persist(h) \/ SubmitCommit(h) \/ ProvisionRow(h) \/ WriteResult(h) \/ RetryRead(h)
    \/ \E p \in Hires : ProvisionAccount(h, p)
    \/ Lose(h) /\ UNCHANGED setupVars
=============================================================================
