--------------------------- MODULE MCLoanHandoff ---------------------------
(***************************************************************************)
(* Small instances of LoanHandoff.                                         *)
(***************************************************************************)
EXTENDS LoanHandoff, TLC

Symmetry == Permutations(Officer) \cup Permutations(Submit)
               \cup Permutations(RE)
============================================================================
