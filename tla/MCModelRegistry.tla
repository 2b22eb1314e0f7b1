-------------------------- MODULE MCModelRegistry --------------------------
(***************************************************************************)
(* Small instances of ModelRegistry.  API requests are interchangeable, and*)
(* so are script runs.                                                     *)
(***************************************************************************)
EXTENDS ModelRegistry, TLC

\* The champion, active, and a challenger.
TwoModels == [v \in Version |->
                 [status |-> IF v \in Ungated THEN "active" ELSE "candidate",
                  metrics_ok |-> TRUE]]

Symmetry == Permutations(Api) \cup Permutations(Script)
============================================================================
