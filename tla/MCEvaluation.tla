---------------------------- MODULE MCEvaluation ----------------------------
(***************************************************************************)
(* Small inputs for Evaluation: two logistic cards, the first with weights *)
(* of either sign, a Weight of Evidence card without calibration, and one  *)
(* with isotonic steps.  Two of the cut points are between a target and    *)
(* what it is rounded to.                                                  *)
(***************************************************************************)
EXTENDS Evaluation

\* Per feature, in tenths of log-odds.
Each(att, sav, ins, util, rep, upi, kisan) ==
    [f \in Features |-> CASE f = "attendance" -> att [] f = "savings" -> sav
                          [] f = "insurance" -> ins [] f = "utility" -> util
                          [] f = "repayment" -> rep [] f = "upi" -> upi
                          [] OTHER -> kisan]

Logistic(intercept, weight) ==
    [intercept |-> intercept, weight |-> weight,
     cuts |-> [f \in Features |-> {}], woe |-> [f \in Features |-> <<0>>],
     step |-> 1, bound |-> 69]

WeightOfEvidence(step, bound) ==
    [intercept |-> -20, weight |-> [f \in Features |-> 0],
     cuts |-> Each({85005}, {75000}, {50000}, {90000}, {60000, 90000}, {69250}, {95000}),
     woe |-> Each(<<0, 20>>, <<0, 15>>, <<0, 10>>, <<-5, 10>>, <<0, 15, 35>>,
                  <<0, 9>>, <<0, 12>>),
     step |-> step, bound |-> bound]

MCCards == {Logistic(-20, Each(20, -3, 3, 10, 35, -4, 6)),
            Logistic(10, Each(30, 10, 15, 12, 60, 8, 20)),
            WeightOfEvidence(1, 69), WeightOfEvidence(12, 46)}
=============================================================================
