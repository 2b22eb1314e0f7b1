------------------------------ MODULE Training ------------------------------
(***************************************************************************)
(* Which rows a registered model was fitted on, and which rows its metrics *)
(* were computed from.                                                     *)
(*                                                                         *)
(* A training program loads a cohort (consented pilot outcomes, benchmark  *)
(* files, synthetic rows), cross-validates trainers over village clusters, *)
(* fits them on the whole cohort and registers each version with a report. *)
(* The cohort of a retraining depends on consents that are withdrawn while *)
(* it runs.  What a classifier computes is abstracted to its lineage: the  *)
(* rows it learnt from and the rows that scaled or calibrated it.          *)
(* ModelStore models the files and the index that are written at the end.  *)
(***************************************************************************)
EXTENDS Naturals, Sequences, FiniteSets, SequencesExt

CONSTANTS
    Pilot,        \* repayment records of the pilot
    Borrower,
    BorrowerOf,   \* whose each is
    HomeOf,       \* the village of its borrower
    Village,
    HomeRows,     \* rows in the Home Credit file
    GmscRows,     \* rows in the Give Me Some Credit file
    Generated,    \* rows a program asks of the synthetic generator
    Splits,       \* folds of the cross-validation
    Enough,       \* min_consented_samples
    Null

VARIABLES
    outcome,      \* the status of each repayment record, Null before it exists
    flagged,      \* the records with consented_for_retraining
    withdrawn,    \* those recorded before their borrower revoked (auxiliary)
    program,      \* the program that runs
    stage,        \* how far it has come
    cohort,       \* its rows, in their order
    fold,         \* the fold of each village
    oof,          \* of each validated trainer: by what each row was predicted
    report,       \* of each fitted trainer: by what each row was predicted
    registered    \* the reports in the registry

ledgerVars == <<outcome, flagged, withdrawn>>
trainingVars == <<ledgerVars, program, stage, cohort, fold, oof, report, registered>>

Program == {"retraining", "production", "benchmark", "scorecard"}

ASSUME TrainingAssumption ==
    /\ IsFiniteSet(Pilot)
    /\ BorrowerOf \in [Pilot -> Borrower] /\ HomeOf \in [Pilot -> Village]
    /\ HomeRows \in Nat /\ GmscRows \in Nat
    /\ Generated \in Nat \ {0} /\ Splits \in Nat \ {0, 1} /\ Enough \in Nat
    /\ Null \notin Village \cup {"settled", "between"}

\* A row of a cohort; rows without a village are in Null.
Row(s, i, v) == [from |-> s, id |-> i, village |-> v]
Rows == 1 .. Len(cohort)
Villages == {cohort[i].village : i \in Rows}

\* The trainers a program cross-validates, and those it fits and registers,
\* in its order.  A retraining with "gbm" treats the rows as one with "woe".
Validated(p) == CASE p = "retraining" -> <<"woe">>
                  [] p = "production" -> <<"woe", "gbm">>
                  [] p = "benchmark" -> <<"logistic", "woe", "gbm", "rf">>
                  [] p = "scorecard" -> << >>
Trained(p) == CASE p = "benchmark" -> Append(Validated(p), "stacking")
                [] p = "scorecard" -> <<"plain">>
                [] OTHER -> Validated(p)

\* The trainer at work: the first of ts that has no entry in done.
Upcoming(ts, done) == ts[Cardinality(DOMAIN done) + 1]
With(done, t, entry) ==
    [u \in DOMAIN done \cup {t} |-> IF u = t THEN entry ELSE done[u]]
IsFinal(ts, done) == Cardinality(DOMAIN done) + 1 = Len(ts)

----------------------------------------------------------------------------
(***************************************************************************)
(* What the trainers do with the rows S, positions in the cohort.          *)
(***************************************************************************)
Lineage == [fit : SUBSET Rows, tuned : SUBSET Rows]

\* int(n * 0.8) rows, in order, are learnt from; the others calibrate.
FirstPart(S) ==
    {i \in S : Cardinality({j \in S : j < i}) < (4 * Cardinality(S)) \div 5}

Splitting == {"woe", "gbm"}

\* Scorecard and boosted trees: one part to learn from, one to calibrate on.
FitOnPart(S) == [fit |-> FirstPart(S), tuned |-> S \ FirstPart(S)]

\* Logistic regression and forest learn from all rows, and are scaled or
\* calibrated on all of them.
FitOnAll(S) == [fit |-> S, tuned |-> S]

Fitted(t, S) == IF t \in Splitting THEN FitOnPart(S) ELSE FitOnAll(S)

\* A trainer cannot learn from no row, nor calibrate on none.
CanFit(t, S) ==
    Fitted(t, S).fit # {} /\ Fitted(t, S).tuned # {}

\* The predictions a trainer's own report is made of: the second part, or
\* all rows by the classifier itself.
PartReport(S) == [i \in S \ FirstPart(S) |-> FitOnPart(S)]
AllReport(S) == [i \in S |-> FitOnAll(S)]

\* The forest's report predicts a row by a forest of other folds, which has
\* seen at most the other rows.
ForestReport(S) == [i \in S |-> [fit |-> S \ {i}, tuned |-> S]]

OwnReport(t, S) == CASE t \in Splitting -> PartReport(S)
                     [] t = "rf" -> ForestReport(S)
                     [] OTHER -> AllReport(S)

\* Seeded fault for FoldOf: KFold for GroupKFold.
FoldOfRow(i) == i % Splits

\* GroupKFold: a row is in the fold of its village.
FoldOf(i) == fold[cohort[i].village]

Others(i) == {j \in Rows : FoldOf(j) # FoldOf(i)}

\* SpatialGroupValidator.validate: the out-of-fold predictions of a trainer.
OutOfFold(t) == [i \in Rows |-> Fitted(t, Others(i))]

\* The ensemble blends them with a classifier fitted on all of them, and
\* predicts the same rows.
Blended == AllReport(Rows)

----------------------------------------------------------------------------
TrainingInit ==
    /\ outcome = [l \in Pilot |-> Null]
    /\ flagged = {} /\ withdrawn = {}
    /\ program \in Program /\ stage = "idle"
    /\ cohort = << >> /\ fold = << >>
    /\ oof = << >> /\ report = << >> /\ registered = << >>

(***************************************************************************)
(* Repayments are recorded and consents revoked.  A retraining reads the   *)
(* ledger once, in one statement, and no other program reads it: what      *)
(* becomes of the ledger otherwise is left out.                            *)
(***************************************************************************)
Awaited == program = "retraining" /\ stage = "idle"

RecordRepayment(l) ==
    /\ Awaited
    /\ outcome[l] = Null
    /\ \E status \in {"settled", "between"} :
          outcome' = [outcome EXCEPT ![l] = status]
    /\ \E consented \in BOOLEAN :
          flagged' = IF consented THEN flagged \cup {l} ELSE flagged
    /\ UNCHANGED <<withdrawn, program, stage, cohort, fold, oof, report,
                   registered>>

\* Seeded fault for Cascaded: only the loans still running.
CascadedRunning(b) ==
    {l \in flagged : BorrowerOf[l] = b /\ outcome[l] = "between"}

\* revoke_consent clears the flag of every record of the borrower.
Cascaded(b) == {l \in flagged : BorrowerOf[l] = b}

Withdraw(b) ==
    /\ Awaited
    /\ flagged' = flagged \ Cascaded(b)
    /\ withdrawn' = withdrawn \cup
           {l \in Pilot : BorrowerOf[l] = b /\ outcome[l] # Null}
    /\ UNCHANGED <<outcome, program, stage, cohort, fold, oof, report,
                   registered>>

----------------------------------------------------------------------------
(***************************************************************************)
(* The cohorts.  The generator draws the villages of its rows, and a fused *)
(* row takes the village of the synthetic row beneath it.                  *)
(***************************************************************************)
Drawn(sources) ==
    {[i \in 1 .. Len(sources) |-> Row(sources[i][1], sources[i][2], v[i])] :
        v \in [1 .. Len(sources) -> Village]}

File(name, n) == [i \in 1 .. n |-> <<name, i>>]
Synthetic == File("synthetic", Generated)

\* load_fused_dataset: the Home Credit rows where that file is present.
Fused(home) ==
    IF home > 0 THEN File("home", IF home < Generated THEN home ELSE Generated)
    ELSE Synthetic

\* load_complete_benchmark_dataset.
Complete(home, gmsc) ==
    IF home + gmsc = 0 THEN Fused(home)
    ELSE File("home", home) \o File("gmsc", gmsc)

\* extract_consented_data: outcomes in between are skipped.
Consented == {l \in flagged : outcome[l] = "settled"}
Extracted(order) ==
    [i \in 1 .. Len(order) |-> Row("pilot", order[i], HomeOf[order[i]])]

Takes(rows) ==
    /\ cohort' = rows
    /\ stage' = IF program = "scorecard" THEN "fit" ELSE "validate"
    /\ UNCHANGED <<ledgerVars, program, fold, oof, report, registered>>

Begins(p) == program = p /\ stage = "idle"

\* The order of the query is the database's.
LoadRetraining ==
    /\ Begins("retraining")
    /\ \E order \in SetToSeqs(Consented) :
          LET real == Extracted(order)
          IN IF Len(real) < Enough
             THEN \E more \in Drawn(Synthetic) : Takes(real \o more)
             ELSE Takes(real)

LoadProduction ==
    /\ Begins("production")
    /\ \E home \in {0, HomeRows} :
          \E rows \in Drawn(Fused(home)) : Takes(rows)

LoadBenchmark ==
    /\ Begins("benchmark")
    /\ \E home \in {0, HomeRows}, gmsc \in {0, GmscRows} :
          \E rows \in Drawn(Complete(home, gmsc)) : Takes(rows)

\* train_scorecard appends Home Credit rows that have no village.
LoadScorecard ==
    /\ Begins("scorecard")
    /\ \E home \in {0, HomeRows} : \E rows \in Drawn(Synthetic) :
          Takes(rows \o [i \in 1 .. home |-> Row("home", i, Null)])

----------------------------------------------------------------------------
Fails ==
    /\ stage' = "failed"
    /\ UNCHANGED <<ledgerVars, program, cohort, fold, oof, report, registered>>

\* A retraining takes as many folds as there are villages, at most Splits.
FoldCount ==
    IF program \in {"production", "benchmark"} \/ Cardinality(Villages) > Splits
    THEN Splits ELSE Cardinality(Villages)

CanValidate == FoldCount > 1 /\ Cardinality(Villages) >= FoldCount

\* GroupKFold balances the folds; the model leaves the choice open.
Split ==
    /\ stage = "validate"
    /\ fold = << >>
    /\ CanValidate
    /\ \E f \in [Villages -> 1 .. FoldCount] :
          /\ {f[v] : v \in Villages} = 1 .. FoldCount
          /\ fold' = f
    /\ UNCHANGED <<ledgerVars, program, stage, cohort, oof, report, registered>>

CannotSplit == stage = "validate" /\ fold = << >> /\ ~CanValidate /\ Fails

Validate ==
    /\ stage = "validate" /\ fold # << >>
    /\ LET t == Upcoming(Validated(program), oof)
       IN IF \A i \in Rows : CanFit(t, Others(i))
          THEN /\ oof' = With(oof, t, OutOfFold(t))
               /\ stage' = IF IsFinal(Validated(program), oof) THEN "fit"
                           ELSE stage
               /\ UNCHANGED <<ledgerVars, program, cohort, fold, report,
                              registered>>
          ELSE Fails

\* Seeded fault for Judged: the report keeps the metrics of its own fit.
JudgedByOwn(t) == OwnReport(t, Rows)

\* What the registered metrics of a trainer are computed from: the scripts
\* overwrite those of its report with the out-of-fold ones, a retraining
\* registers the trainer's own.
Judged(t) ==
    IF program \in {"production", "benchmark"} /\ t # "stacking" THEN oof[t]
    ELSE IF t = "stacking" THEN Blended
    ELSE OwnReport(t, Rows)

Fit ==
    /\ stage = "fit" /\ program # "scorecard"
    /\ LET t == Upcoming(Trained(program), report)
       IN /\ report' = With(report, t, Judged(t))
          /\ stage' = IF IsFinal(Trained(program), report) THEN "register"
                      ELSE stage
    /\ UNCHANGED <<ledgerVars, program, cohort, fold, oof, registered>>

\* ScorecardTrainer: a random fifth is held out; medians, means and standard
\* deviations are those of all rows.
FitScorecard ==
    /\ stage = "fit" /\ program = "scorecard"
    /\ \E held \in SUBSET Rows :
          /\ Cardinality(held) = (Len(cohort) + 4) \div 5
          /\ held # Rows
          /\ report' = [u \in {"plain"} |->
                [i \in held |-> [fit |-> Rows \ held, tuned |-> Rows]]]
    /\ stage' = "register"
    /\ UNCHANGED <<ledgerVars, program, cohort, fold, oof, registered>>

\* One class alone, a full disk: any step may raise, and what was registered
\* before stays registered.
Raise == stage \in {"validate", "fit", "register"} /\ Fails

Register ==
    /\ stage = "register"
    /\ LET t == Upcoming(Trained(program), registered)
       IN /\ registered' = With(registered, t, report[t])
          /\ stage' = IF IsFinal(Trained(program), registered) THEN "done"
                      ELSE stage
    /\ UNCHANGED <<ledgerVars, program, cohort, fold, oof, report>>

----------------------------------------------------------------------------
TrainingNext ==
    \/ \E l \in Pilot : RecordRepayment(l)
    \/ \E b \in Borrower : Withdraw(b)
    \/ LoadRetraining \/ LoadProduction \/ LoadBenchmark \/ LoadScorecard
    \/ Split \/ CannotSplit \/ Validate \/ Fit \/ FitScorecard \/ Register
    \/ Raise

TrainingSpec == TrainingInit /\ [][TrainingNext]_trainingVars

----------------------------------------------------------------------------
(***************************************************************************)
(* Properties.                                                             *)
(***************************************************************************)

\* Nothing of the lineage is from the village of row i.
HeldOut(i, by) == \A j \in by.fit \cup by.tuned : cohort[j].village # cohort[i].village

(***************************************************************************)
(* "Zero Spatial Leakage" (docs/ml/model_card_v1.md): every out-of-fold    *)
(* prediction is by a classifier that neither learnt from, nor was scaled  *)
(* or calibrated on, any row of the same village, whichever order the rows *)
(* have, however few villages there are and whatever the trainer splits    *)
(* off inside the fold.                                                    *)
(***************************************************************************)
SpatiallyHeldOut == \A t \in DOMAIN oof : \A i \in DOMAIN oof[t] : HeldOut(i, oof[t][i])

(***************************************************************************)
(* What the production and benchmark scripts register, and the promotion   *)
(* gate reads, is judged out of fold: over the whole cohort, each row by a *)
(* lineage without its village, through validation, fits and registration, *)
(* whichever of them raises.  Not so the ensemble, whose blend predicts    *)
(* the rows it is fitted on.  Of what a retraining or train_scorecard      *)
(* registers only the weights have not learnt from the row judged: rows of *)
(* its village are among those fitted on, and the row itself is among      *)
(* those that calibrated (woe, gbm) or scaled (plain) the prediction.      *)
(***************************************************************************)
JudgedOutOfFold ==
    \A t \in DOMAIN registered \ {"stacking"} :
        /\ program \in {"production", "benchmark"} =>
               /\ DOMAIN registered[t] = Rows
               /\ \A i \in Rows : HeldOut(i, registered[t][i])
        /\ \A i \in DOMAIN registered[t] : i \notin registered[t][i].fit

(***************************************************************************)
(* "historical loan repayment records are only ingested into retraining    *)
(* cohorts if RepaymentRecord.consented_for_retraining == True" and        *)
(* revocation withdraws it: no cohort takes in an outcome that was         *)
(* recorded before its borrower revoked, however revocations, recordings   *)
(* and retrainings interleave.                                             *)
(***************************************************************************)
WithdrawnStaysOut ==
    [][cohort' # cohort =>
          \A i \in 1 .. Len(cohort') :
              cohort'[i].from = "pilot" => cohort'[i].id \notin withdrawn]_trainingVars
=============================================================================
