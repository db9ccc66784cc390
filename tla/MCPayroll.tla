----------------------------- MODULE MCPayroll -----------------------------
(* Values and symmetry for model checking PayrollProperties.                *)
EXTENDS PayrollProperties, TLC

(* Handlers are interchangeable, and so are admins. *)
MCSymmetry == Permutations(Threads) \cup Permutations(AdminUsers)
=============================================================================
