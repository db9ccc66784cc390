-------------------------------- MODULE Org --------------------------------
(***************************************************************************)
(* The organisation kept by employees/employees.service.ts: reporting      *)
(* lines and what is derived from them (the rows a manager may open, the   *)
(* directory, the org chart), departments, emergency contacts and photos.  *)
(***************************************************************************)
EXTENDS Calls, Sequences

CONSTANTS
    People,
    Departments,
    Contacts,      \* contact rows of one employee
    Photos,        \* storage keys
    NoOne          \* no manager, department or photo

ASSUME OrgAssumption == NoOne \notin People /\ NoOne \notin Departments /\ NoOne \notin Photos

VARIABLES
    manager,     \* reportingManagerId
    gone,        \* SEPARATED
    dept,        \* departmentId
    depts,       \* the departments that exist
    contacts,    \* "none", "plain" or "primary"
    photo,       \* photoKey of one employee
    stored,      \* objects in storage: "unused", "kept" or "deleted"
    lost         \* an edit was lost half-way

orgVars == <<manager, gone, dept, depts, contacts, photo, stored, lost>>

(* The people from m up, each once. *)
Chain[m \in People \cup {NoOne}, seen \in SUBSET People] ==
    IF m = NoOne \/ m \in seen THEN seen ELSE Chain[manager[m], seen \cup {m}]
Acyclic == \A p \in People : p \notin Chain[manager[p], {}]

OrgInit ==
    /\ manager \in [People -> People \cup {NoOne}] /\ Acyclic
    /\ gone = {}
    /\ depts = Departments /\ dept \in [People -> Departments \cup {NoOne}]
    /\ contacts = [c \in Contacts |-> "none"]
    /\ photo = NoOne /\ stored = [k \in Photos |-> "unused"] /\ lost = FALSE

----------------------------------------------------------------------------
ReportsOf(m) == {p \in People : manager[p] = m}

(* subordinateIds() and recursiveReportIds(): breadth first, each person     *)
(* once.  The order within a level does not matter.                          *)
Below[queue \in SUBSET People, result \in SUBSET People] ==
    IF queue = {} THEN result
    ELSE LET p == CHOOSE q \in queue : TRUE IN
         IF p \in result THEN Below[queue \ {p}, result]
         ELSE Below[(queue \ {p}) \cup ReportsOf(p), result \cup {p}]

SubordinateIds(m) == Below[ReportsOf(m), {}]

(* scopeFor(): the rows get() answers for a Line Manager. *)
ManagerScope(m) == {m} \cup SubordinateIds(m)

(* teamRelations(): the boss is settled first, then everyone below, then    *)
(* those who share the boss.                                                *)
Boss(m) == IF manager[m] # m THEN {manager[m]} \ {NoOne} ELSE {}
TeamReports(m) == Below[ReportsOf(m), {m} \cup Boss(m)] \ ({m} \cup Boss(m))
Teammates(m) ==
    IF Boss(m) = {} THEN {} ELSE ReportsOf(manager[m]) \ ({m} \cup Boss(m) \cup TeamReports(m))

(* directory(): everyone still employed, and of those who left the reports. *)
ManagerRows(m) == {m} \cup TeamReports(m)
Directory(m) == {p \in People : p \notin gone \/ p \in ManagerRows(m)}

(* orgChart(): of those employed, the ones without an employed manager are  *)
(* roots; countReports() prunes an edge back to someone visited.            *)
OnChart == People \ gone
ChartReports(m) == {p \in OnChart : manager[p] = m}
ChartRoots == {p \in OnChart : manager[p] \notin OnChart}
Kept(p, seen) == ChartReports(p) \ (seen \cup {p})
Visit[ps \in SUBSET People, seen \in SUBSET People] ==
    IF ps = {} THEN [seen |-> seen, total |-> 0]
    ELSE LET p     == CHOOSE q \in ps : TRUE
             below == Visit[Kept(p, seen), seen \cup {p}]
             rest  == Visit[ps \ {p}, below.seen]
         IN [seen |-> rest.seen, total |-> 1 + below.total + rest.total]
TotalReportCount(p) == Visit[Kept(p, {}), {p}].total
WholeChart == Visit[ChartRoots, {}]

----------------------------------------------------------------------------
(* Mutant of NoReportingLoop: only the direct manager is looked at. *)
NoLoopOneLevel(p, m) == m # p /\ manager[m] # p

(* assertNoReportingLoop(): p is not in the chain from m up. *)
NoReportingLoop(p, m) == p \notin Chain[m, {}]

(* update() by HR: the checks, then the write; the database refuses a       *)
(* department that is gone.                                                 *)
UpdateRead(h, p, m, d) ==
    /\ m # NoOne => NoReportingLoop(p, m)
    /\ d # NoOne => d \in depts
    /\ Begin(h, [pc |-> "update", p |-> p, m |-> m, d |-> d])
    /\ UNCHANGED orgVars
UpdateWrite(h) ==
    LET c == calls[h] IN
    /\ c.pc = "update"
    /\ IF c.d # NoOne /\ c.d \notin depts THEN UNCHANGED <<manager, dept>>
       ELSE /\ manager' = IF c.m = NoOne THEN manager ELSE [manager EXCEPT ![c.p] = c.m]
            /\ dept' = IF c.d = NoOne THEN dept ELSE [dept EXCEPT ![c.p] = c.d]
    /\ Finish(h)
    /\ UNCHANGED <<gone, depts, contacts, photo, stored, lost>>

(* The SEPARATED transition, as the chart and the directory see it. *)
Separate(p) ==
    /\ p \notin gone /\ gone' = gone \cup {p}
    /\ AtOnce /\ UNCHANGED <<manager, dept, depts, contacts, photo, stored, lost>>

----------------------------------------------------------------------------
(* createDepartment(), and deleteDepartment(): the employees counted, then  *)
(* moved and the department deleted in one transaction, or only deleted     *)
(* (which takes it off anyone who joined it meanwhile).                     *)
CreateDepartment(d) ==
    /\ d \notin depts /\ depts' = depts \cup {d}
    /\ AtOnce /\ UNCHANGED <<manager, gone, dept, contacts, photo, stored, lost>>
Members(d) == {p \in People : dept[p] = d}

DeleteDepartmentRead(h, d, to) ==
    /\ d \in depts
    /\ Members(d) # {} => to \in depts \ {d}
    /\ Begin(h, [pc |-> "delete", d |-> d, to |-> IF Members(d) = {} THEN NoOne ELSE to])
    /\ UNCHANGED orgVars
DeleteDepartmentWrite(h) ==
    LET c == calls[h] IN
    /\ c.pc = "delete"
    /\ IF c.d \in depts /\ (c.to = NoOne \/ c.to \in depts)
       THEN /\ depts' = depts \ {c.d}
            /\ dept' = [p \in People |-> IF dept[p] = c.d THEN c.to ELSE dept[p]]
       ELSE UNCHANGED <<depts, dept>>
    /\ Finish(h)
    /\ UNCHANGED <<manager, gone, contacts, photo, stored, lost>>

----------------------------------------------------------------------------
(* Emergency contacts: a transaction clears the other primaries and writes  *)
(* the row; it does not see what another transaction has not committed.     *)
ContactBegin(h, c, primary) ==
    /\ Begin(h, [pc |-> "contact", c |-> c, new |-> contacts[c] = "none",
                 cleared |-> IF primary THEN {k \in Contacts \ {c} : contacts[k] = "primary"} ELSE {},
                 kind |-> IF primary THEN "primary" ELSE "plain"])
    /\ UNCHANGED orgVars

ContactCommit(h) ==
    LET c == calls[h] IN
    /\ c.pc = "contact"
    /\ contacts' = IF ~c.new /\ contacts[c.c] = "none" THEN contacts
                   ELSE [k \in Contacts |-> IF k = c.c THEN c.kind
                                            ELSE IF k \in c.cleared /\ contacts[k] # "none" THEN "plain"
                                            ELSE contacts[k]]
    /\ Finish(h)
    /\ UNCHANGED <<manager, gone, dept, depts, photo, stored, lost>>
DeleteContact(c) ==
    /\ contacts[c] # "none" /\ contacts' = [contacts EXCEPT ![c] = "none"]
    /\ AtOnce /\ UNCHANGED <<manager, gone, dept, depts, photo, stored, lost>>

(* uploadPhoto(): the new object, the deletion of the old one (a failure is *)
(* ignored), the row.                                                       *)
PhotoRead(h) == Begin(h, [pc |-> "upload", old |-> photo]) /\ UNCHANGED orgVars
PhotoUpload(h) ==
    /\ calls[h].pc = "upload"
    /\ \/ \E k \in Photos :
            /\ stored[k] = "unused" /\ stored' = [stored EXCEPT ![k] = "kept"]
            /\ Continue(h, [pc |-> "replace", old |-> calls[h].old, key |-> k])
       \/ Finish(h) /\ UNCHANGED stored
    /\ UNCHANGED <<manager, gone, dept, depts, contacts, photo, lost>>

PhotoReplace(h) ==
    /\ calls[h].pc = "replace"
    /\ \/ calls[h].old # NoOne /\ stored' = [stored EXCEPT ![calls[h].old] = "deleted"]
       \/ UNCHANGED stored
    /\ Continue(h, [pc |-> "photo", key |-> calls[h].key])
    /\ UNCHANGED <<manager, gone, dept, depts, contacts, photo, lost>>
PhotoWrite(h) ==
    /\ calls[h].pc = "photo"
    /\ photo' = calls[h].key
    /\ Finish(h)
    /\ UNCHANGED <<manager, gone, dept, depts, contacts, stored, lost>>

OrgLose(h) ==
    Lose(h) /\ lost' = TRUE /\ UNCHANGED <<manager, gone, dept, depts, contacts, photo, stored>>

LinesNext(h) ==
    \/ \E p \in People, m \in People \cup {NoOne} : UpdateRead(h, p, m, NoOne)
    \/ UpdateWrite(h) \/ OrgLose(h)
DepartmentsNext(h) ==
    \/ \E p \in People, d \in Departments : UpdateRead(h, p, NoOne, d)
    \/ \E d \in Departments, to \in Departments \cup {NoOne} : DeleteDepartmentRead(h, d, to)
    \/ UpdateWrite(h) \/ DeleteDepartmentWrite(h) \/ OrgLose(h)
ProfileNext(h) ==
    \/ \E c \in Contacts, primary \in BOOLEAN : ContactBegin(h, c, primary)
    \/ PhotoRead(h) \/ PhotoUpload(h) \/ PhotoReplace(h) \/ PhotoWrite(h)
    \/ ContactCommit(h) \/ OrgLose(h)
=============================================================================
