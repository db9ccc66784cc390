------------------------------ MODULE MCClient ------------------------------
(***************************************************************************)
(* The screens, the editor of the setup wizard and the session in one run: *)
(* `part` says which of them a behaviour is about.                         *)
(***************************************************************************)
EXTENDS ClientProperties

VARIABLE part

User(role, linked) == [role |-> role, linked |-> linked, modules |-> Modules]
Admin == User(CA, FALSE)
MCAccounts == {User(r, l) : r \in TenantRoles, l \in BOOLEAN} \cup {User(OPS, FALSE)}

MCHome == [ann |-> "acme", bob |-> "bolt"]

MCInit ==
    /\ part \in {"screens", "editor", "session"}
    /\ ClientInit /\ EditorInit /\ SessionInit
    /\ part # "screens" => account = Admin /\ page = "setup"
    /\ part # "session" => workspace = "acme"
MCNext ==
    /\ part' = part
    /\ \/ part = "screens" /\ ClientNext /\ UNCHANGED <<editorVars, sessionVars>>
       \/ part = "editor" /\ EditorNext /\ UNCHANGED <<vars, sessionVars>>
       \/ part = "session" /\ SessionNext /\ UNCHANGED <<vars, editorVars>>
MCSpec == MCInit /\ [][MCNext]_<<part, vars, editorVars, sessionVars>>
=============================================================================
