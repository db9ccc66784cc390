----------------------------- MODULE MCServices -----------------------------
(***************************************************************************)
(* E-mail, documents, settlements and the payroll figures in one run.       *)
(* `part` says which operations a behaviour is about, and MCBudget how many *)
(* calls it makes.                                                          *)
(***************************************************************************)
EXTENDS ServicesProperties

VARIABLE part

allVars == <<part, callVars, jobVars, mailVars, docVars, settlementVars, taxYear, case>>
MCFiles == {<<"document", "f1">>, <<"document", "f2">>}
MCInfected == {<<"document", "f2">>}
MCJobs == Rows \cup Files
MCBudget == [mail |-> 4, files |-> 3, settle |-> 4, salaries |-> 3, tax |-> 4, year |-> 0, figures |-> 0]

(* Files of up to two rows; "X" is nobody's code. *)
MCSheets ==
    LET r(w, c) == [who |-> w, ctc |-> c]
    IN {<<>>} \cup {<<r(a, 3), r(b, c)>> : a \in {"E1", "X"}, b \in {"E1", "E2"}, c \in {0, 4}}

(* Components by percentage, formula and amount over three codes. *)
Component(mode, v, refs) == [mode |-> mode, value |-> v, refs |-> refs]
MCComponents(code) ==
    {Component("FIXED", 1000, {}), Component("PERCENT_OF_CTC", 50, {}), Component("PERCENT_OF_BASIC", 40, {})}
    \cup {Component("FORMULA", 0, refs) : refs \in (SUBSET {"BASIC", "HRA", "SPECIAL"}) \ {{}}}
MCAmounts == [kind : {"amounts"}, ctc : {10000}, comps : UNION {[D -> MCComponents("BASIC")] : D \in {{"BASIC", "HRA"}, {"HRA", "SPECIAL"}, {"BASIC", "HRA", "SPECIAL"}}}]
MCDays == [kind : {"days"}, holidays : SUBSET {2, 9, 15}, off : {{}, {0}, {0, 6}}, cut : 0..28]
MCPayslips == [kind : {"payslip"}, basic : {0, 800000, 1499900, 1700100}, other : {0, 300033, 900000}, month : {2, 3}]
MCIncomes == [kind : {"tax"}, income : (0..1500) \cup {1599, 1600, 1999, 2000, 2399, 2400, 3000}, regime : {"OLD", "NEW"}]
MCDate(y, m, d) == [y |-> y, m |-> m, d |-> d]
MCFroms == {MCDate(0, 1, 31), MCDate(0, 2, 29), MCDate(0, 3, 15), MCDate(1, 2, 28)}
MCTos == {MCDate(y, m, d) : y \in {1, 4}, m \in {1, 2, 3, 7, 8, 9}, d \in {1, 15, 28}}
MCService == {[kind |-> "service", from |-> f, to |-> t, later |-> u] : f \in MCFroms, t \in MCTos, u \in {v \in MCTos : TRUE}}
MCBank == [kind : {"bank"}, own : BOOLEAN, amount : {1, 199999, 200000, 500000, 500001}, preferred : {"NEFT", "RTGS", "IMPS"}]
NoCase == [kind |-> "none"]
MCCases ==
    MCAmounts \cup MCDays \cup MCPayslips \cup MCIncomes \cup MCBank
    \cup {c \in MCService : F!DateUTC(c.to.y, c.to.m, c.to.d) <= F!DateUTC(c.later.y, c.later.m, c.later.d)}

MCInit ==
    /\ part \in {"mail", "files", "settle", "salaries", "tax", "year", "figures"}
    /\ CallsInit /\ JobsInit /\ MailInit /\ DocInit /\ SettlementsInit
    /\ part # "files" => scanningEnabled
    /\ part # "salaries" => sheet = <<>>
    /\ part = "salaries" => sheet # <<>>
    /\ part # "salaries" => \A e \in Paid : salary[e] = 0
    /\ IF part = "figures" THEN \E c \in MCCases : case = c ELSE case = NoCase
    /\ IF part = "year" THEN TaxYearInit ELSE taxYear = NoYear

Settling ==
    \/ \E h \in Clients : (part = "settle" /\ FnfNext(h)) \/ (part = "salaries" /\ SalariesNext(h)) \/ (part = "tax" /\ TaxNext(h))
    \/ part = "settle" /\ ChangeAdmins
    \/ part = "salaries" /\ \E e \in Paid : EditSalary(e)
    \/ part = "tax" /\ \E sent \in BOOLEAN : saveConfig(sent)

MCNext ==
    /\ \/ part = "mail" /\ MailNext /\ UNCHANGED <<docVars, settlementVars, taxYear>>
       \/ part = "files" /\ DocNext /\ UNCHANGED <<mailVars, settlementVars, taxYear>>
       \/ Settling /\ UNCHANGED <<jobVars, mailVars, docVars, taxYear>>
       \/ /\ part = "year" /\ TaxYearNext
          /\ UNCHANGED <<callVars, jobVars, mailVars, docVars, settlementVars>>
    /\ UNCHANGED <<part, case>> /\ made' <= MCBudget[part]
MCSpec == MCInit /\ [][MCNext]_allVars /\ MailFairness /\ DocFairness
=============================================================================
