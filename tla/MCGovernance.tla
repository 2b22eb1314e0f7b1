---------------------------- MODULE MCGovernance ----------------------------
(***************************************************************************)
(* A small instance of Governance: two applications of one score and one   *)
(* of another, in one borrower dimension.                                  *)
(***************************************************************************)
EXTENDS Governance, TLC

CONSTANTS s1, s2, a1, a2, a3, women, men

MCScoreOf == (a1 :> s1) @@ (a2 :> s1) @@ (a3 :> s2)

MCRecommendation == (s1 :> "REJECT") @@ (s2 :> "APPROVE")

MCDimensions == <<"GENDER">>

MCGroupOf == [d \in {"GENDER"} |-> (s1 :> women) @@ (s2 :> men)]

\* config/fairness_thresholds.json
MCThresholds ==
    [d \in {"GENDER", "OFFICER"} |->
        IF d = "GENDER"
        THEN [min_approval_rate |-> 35, max_override_rate |-> 100, max_approval_gap |-> 20]
        ELSE [min_approval_rate |-> 0, max_override_rate |-> 50, max_approval_gap |-> 100]]

\* Which of the auditors and which period does not matter.
Symmetry == Permutations(Auditor) \cup Permutations(Period)

\* Neither the gate nor the dashboard changes what the others see: one of them
\* reads at a time, and nothing needs to be explored after it is done.  Nor does
\* the dashboard see what audits do, so its views are read before the first.
ReadersApart ==
    LET views == {v \in View : \E n \in CountNames : board[v][n] # Null}
        gates == {g \in Gate : gating[g].step # "idle"}
    IN  /\ \A g \in Gate : gating[g].step # "done"
        /\ \A v \in View : \E i \in 1..Len(CountOrder(v)) : board[v][CountOrder(v)[i]] = Null
        /\ Cardinality(views) + Cardinality(gates) <= 1
        /\ views # {} => audits = 0
=============================================================================
