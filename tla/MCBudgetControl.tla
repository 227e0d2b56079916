-------------------------- MODULE MCBudgetControl --------------------------
(***************************************************************************)
(* A small instance of BudgetControl for TLC.  Lines are interchangeable,  *)
(* and so are users.                                                       *)
(***************************************************************************)
EXTENDS BudgetControl, TLC

Symmetry == Permutations(Lines) \cup Permutations(Users)

=============================================================================
