----------------------------- MODULE Settlements -----------------------------
(***************************************************************************)
(* Full and final settlements, the salary import and the tax and bank       *)
(* settings of payroll (apps/api/src/payroll/full-and-final.service.ts,     *)
(* salary-import.service.ts, payroll-config.service.ts, payroll-bank.       *)
(* service.ts): each handler reads, decides, and writes in statements of    *)
(* their own.                                                               *)
(***************************************************************************)
EXTENDS Calls, Sequences

CONSTANTS
    Leavers,      \* separated employees with a last working date, a joining
                  \* date and an active structure
    Amounts,      \* what a part of a settlement may come to
    Paid,         \* employees whose salary is imported
    SalarySheets, \* sequences of rows [who, ctc]; who may be in nobody's code
    MoreStarts    \* where the slabs of a table an admin saves may start

ASSUME SettlementsAssumption == Amounts \subseteq Nat /\ \A s \in SalarySheets : Len(s) \in Nat

VARIABLES
    fnf,        \* full_and_final_settlements
    admins,     \* active company admins
    salary,     \* the CTC of each active structure, 0 for none
    revisions,  \* structures written for each employee by the import
    reported,   \* rows the import reports as saved
    sheet,      \* the file
    slabs,      \* tax_slabs of a regime: where each starts
    edited,     \* the table an admin saved last, {} for none
    config,     \* tax_regime_configs has the year's row
    account     \* the company's account: "none" or "new"

settlementVars == <<fnf, admins, salary, revisions, reported, sheet, slabs, edited, config, account>>
fnfVars == <<fnf, admins>>
importVars_ == <<salary, revisions, reported, sheet>>
configVars == <<slabs, edited, config, account>>

NoFnf == [status |-> "none", parts |-> 0, advance |-> 0, net |-> 0]
DefaultStarts == {0, 4, 8}

SettlementsInit ==
    /\ fnf = [e \in Leavers |-> NoFnf] /\ admins = 2
    /\ salary \in [Paid -> {0, 5}] /\ revisions = [e \in Paid |-> 0] /\ reported = {} /\ sheet \in SalarySheets
    /\ slabs = {} /\ edited = {} /\ config = FALSE /\ account = "none"

(***************************************************************************)
(* Full and final.                                                         *)
(***************************************************************************)
assertPayrollGate == admins >= 2

(* generate(): one per employee; salary left, leave and gratuity are one     *)
(* sum of parts.                                                             *)
generate(h, e, parts, advance) ==
    /\ assertPayrollGate /\ fnf[e] = NoFnf
    /\ Begin(h, [pc |-> "createFnf", e |-> e, parts |-> parts, advance |-> advance])
    /\ UNCHANGED settlementVars
CreateFnf(h) ==
    LET c == calls[h] IN
    /\ c.pc = "createFnf"
    /\ fnf' = IF fnf[c.e] # NoFnf THEN fnf   \* unique on the employee
              ELSE [fnf EXCEPT ![c.e] = [status |-> "DRAFT", parts |-> c.parts, advance |-> c.advance,
                                         net |-> c.parts - c.advance]]
    /\ Finish(h) /\ UNCHANGED <<admins, importVars_, configVars>>

(* updateAdvance(), approve(), markPaid(): the status is read, then the row  *)
(* is written whatever it has become.                                        *)
From(op) == IF op = "markPaid" THEN {"APPROVED"} ELSE {"DRAFT"}

Decide(h, e, op, advance) ==
    /\ fnf[e].status \in From(op)
    /\ op = "approve" => assertPayrollGate
    /\ Begin(h, [pc |-> "writeFnf", e |-> e, op |-> op, advance |-> advance, parts |-> fnf[e].parts])
    /\ UNCHANGED settlementVars

Decision(c) ==
    IF c.op = "advance" THEN [fnf[c.e] EXCEPT !.advance = c.advance, !.net = c.parts - c.advance]
    ELSE [fnf[c.e] EXCEPT !.status = IF c.op = "approve" THEN "APPROVED" ELSE "PAID"]
WriteFnf(h) ==
    /\ calls[h].pc = "writeFnf"
    /\ fnf' = [fnf EXCEPT ![calls[h].e] = Decision(calls[h])]
    /\ Finish(h) /\ UNCHANGED <<admins, importVars_, configVars>>

(* An admin leaves, or one is made. *)
ChangeAdmins == AtOnce /\ admins' \in {1, 2} \ {admins} /\ UNCHANGED <<fnf, importVars_, configVars>>

FnfNext(h) ==
    \/ \E e \in Leavers, a \in Amounts : \/ \E p \in Amounts : generate(h, e, p, a)
                                         \/ Decide(h, e, "advance", a)
    \/ \E e \in Leavers, op \in {"approve", "markPaid"} : Decide(h, e, op, 0)
    \/ CreateFnf(h) \/ WriteFnf(h)
    \/ Lose(h) /\ UNCHANGED settlementVars

(***************************************************************************)
(* The salary import: every row is judged against the employees and         *)
(* structures read at the start, then written on its own.                   *)
(***************************************************************************)
RowIsGood(i) ==
    /\ sheet[i].who \in Paid /\ sheet[i].ctc > 0
    /\ \A j \in 1..(i - 1) : sheet[j].who # sheet[i].who

importSalaries(h) ==
    /\ reported = {} /\ \A e \in Paid : revisions[e] = 0
    /\ ~\E g \in Running : calls[g].pc = "importRows"
    /\ Begin(h, [pc |-> "importRows", had |-> {e \in Paid : salary[e] # 0},
                 left |-> {i \in 1..Len(sheet) : RowIsGood(i)}])
    /\ UNCHANGED settlementVars

(* create() refuses an employee who has a structure, update() one who has    *)
(* none.                                                                     *)
Writable(had, e) == (e \in had) = (salary[e] # 0)

ImportRow(h, i) ==
    LET c == calls[h]
        e == sheet[i].who IN
    /\ c.pc = "importRows" /\ i \in c.left
    /\ salary' = IF Writable(c.had, e) THEN [salary EXCEPT ![e] = sheet[i].ctc] ELSE salary
    /\ revisions' = IF Writable(c.had, e) THEN [revisions EXCEPT ![e] = @ + 1] ELSE revisions
    /\ reported' = IF Writable(c.had, e) THEN reported \cup {i} ELSE reported
    /\ Continue(h, [c EXCEPT !.left = @ \ {i}])
    /\ UNCHANGED <<sheet, fnfVars, configVars>>
ImportDone(h) ==
    /\ calls[h].pc = "importRows" /\ calls[h].left = {}
    /\ Finish(h) /\ UNCHANGED settlementVars

(* HR writes a structure in the editor: create() where there is none, and     *)
(* update() or revise() where there is one.                                   *)
EditSalary(e) ==
    /\ AtOnce
    /\ salary' = [salary EXCEPT ![e] = 7]
    /\ UNCHANGED <<revisions, reported, sheet, fnfVars, configVars>>

SalariesNext(h) ==
    \/ importSalaries(h) \/ (\E i \in 1..Len(sheet) : ImportRow(h, i)) \/ ImportDone(h)
    \/ Lose(h) /\ UNCHANGED settlementVars

(***************************************************************************)
(* The tax table of a year: seeded on the first read, replaced by an admin. *)
(***************************************************************************)
(* getTaxConfig(): only when there is neither a slab nor a config row.       *)
Unseeded == slabs = {} /\ ~config

getTaxConfig(h, then, starts) ==
    Begin(h, [pc |-> IF Unseeded THEN "seedSlabs" ELSE then, then |-> then, starts |-> starts])
    /\ UNCHANGED settlementVars

(* seedTdsDefaults(): two createMany, both skipping what is there; the read   *)
(* is made again.                                                            *)
SeedSlabs(h) ==
    /\ calls[h].pc = "seedSlabs"
    /\ slabs' = slabs \cup DefaultStarts
    /\ Continue(h, [calls[h] EXCEPT !.pc = "seedConfig"])
    /\ UNCHANGED <<edited, config, account, fnfVars, importVars_>>
SeedConfig(h) ==
    /\ calls[h].pc = "seedConfig"
    /\ config' = TRUE
    /\ Continue(h, IF calls[h].then = "read" THEN Idle ELSE [calls[h] EXCEPT !.pc = calls[h].then])
    /\ UNCHANGED <<slabs, edited, account, fnfVars, importVars_>>

(* replaceTaxSlabs(): a valid table, in one transaction. *)
validateTaxSlabs(starts) == 0 \in starts
(* Mutant of replaceTaxSlabs: the old rows stay. *)
replaceTaxSlabsAdding(h) ==
    /\ calls[h].pc = "replace"
    /\ slabs' = slabs \cup calls[h].starts /\ edited' = calls[h].starts
    /\ Finish(h) /\ UNCHANGED <<config, account, fnfVars, importVars_>>

replaceTaxSlabs(h) ==
    /\ calls[h].pc = "replace"
    /\ slabs' = calls[h].starts /\ edited' = calls[h].starts
    /\ Finish(h) /\ UNCHANGED <<config, account, fnfVars, importVars_>>
TaxRead(h) == calls[h].pc = "read" /\ Finish(h) /\ UNCHANGED settlementVars

(* saveConfig() of the bank: a number is kept unless one is sent, and the     *)
(* first save needs one.                                                     *)
saveConfig(sent) ==
    /\ AtOnce /\ (account = "none" => sent)
    /\ account' = IF sent THEN "new" ELSE account
    /\ UNCHANGED <<slabs, edited, config, fnfVars, importVars_>>

TaxNext(h) ==
    \/ getTaxConfig(h, "read", {})
    \/ \E starts \in {{0} \cup s : s \in SUBSET MoreStarts} : validateTaxSlabs(starts) /\ getTaxConfig(h, "replace", starts)
    \/ SeedSlabs(h) \/ SeedConfig(h) \/ replaceTaxSlabs(h) \/ TaxRead(h)
    \/ Lose(h) /\ UNCHANGED settlementVars
=============================================================================
