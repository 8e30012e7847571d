--------------------------- MODULE MCSpendBudget ---------------------------
(* SpendBudget with finite constants: a two-day month. *)
EXTENDS SpendBudget, TLC

MCSymmetry == Permutations(Workers)
=============================================================================
