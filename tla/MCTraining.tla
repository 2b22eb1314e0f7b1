----------------------------- MODULE MCTraining -----------------------------
(***************************************************************************)
(* A small instance of Training: four repayment records, two of each of    *)
(* two borrowers, who live in different villages.                          *)
(***************************************************************************)
EXTENDS Training

CONSTANTS l1, l2, l3, l4, b1, b2, v1, v2

MCBorrowerOf == (l1 :> b1) @@ (l2 :> b1) @@ (l3 :> b2) @@ (l4 :> b2)
MCHomeOf == (l1 :> v1) @@ (l2 :> v1) @@ (l3 :> v2) @@ (l4 :> v2)
Symmetric == {p @@ q : p \in Permutations({l1, l2}),
                       q \in Permutations({l3, l4})}
=============================================================================
