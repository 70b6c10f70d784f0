------------------------ MODULE MCBulkCategorization ------------------------
(* Instances of BulkCategorization for TLC: admins, workers and expenses are *)
(* alike among themselves.                                                   *)
EXTENDS BulkCategorization, TLC

Symmetry == Permutations(Admins) \cup Permutations(Workers) \cup Permutations(Expenses)
=============================================================================
