----------------------------- MODULE MCImports -----------------------------
(***************************************************************************)
(* A small instance of Imports for TLC.  Preparers are interchangeable.    *)
(***************************************************************************)
EXTENDS Imports, TLC

Symmetry == Permutations(Preparers)

=============================================================================
