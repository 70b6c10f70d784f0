-------------------------- MODULE MCExpenseOutbox ---------------------------
(* Two tabs, of which one holds the create form. *)
EXTENDS ExpenseOutbox, TLC
CallSymmetry == Permutations(Calls)
=============================================================================
