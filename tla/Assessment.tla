----------------------------- MODULE Assessment -----------------------------
(***************************************************************************)
(* From the data rails to a score, for ONE borrower: the ingestion runs of *)
(* services/core/ingestion and the scoring requests of services/core/      *)
(* scoring, with the consents they stand on (module Consent).              *)
(*                                                                         *)
(* A run checks for a consent, pulls its rails in parallel while anything  *)
(* else goes on, and commits the pulls together with a feature snapshot.   *)
(* A scoring request reads a snapshot, the one it names or the latest, and *)
(* commits a score.  Sessions are READ COMMITTED; computed_at is the start *)
(* of the run's transaction.                                               *)
(*                                                                         *)
(* A snapshot is its list of sources: the payloads, the features and the   *)
(* registry are left out, and the scorecard may give any of the values of  *)
(* ScoreValue.  A DataPull, a snapshot and a score are named by the        *)
(* request that writes them.                                               *)
(***************************************************************************)
EXTENDS Integers, FiniteSets, SequencesExt

CONSTANTS
    Run,          \* requests that trigger an ingestion
    Scoring,      \* requests that ask for a score
    Record,       \* consent records
    Purpose,      \* ConsentPurpose
    SourceSets,   \* the data_sources lists a borrower may grant
    Lists,        \* the data_sources lists a run may ask for
    ScoreValue,   \* what the scorecard may answer, on its scale of 0 to 100
    Null          \* no value

Rail == {"AA", "GEOSPATIAL", "BUREAU"}

IngestionSource == Rail \cup {"SHG_FPO"}

ASSUME AssessmentAssumption ==
    /\ Run \cap Scoring = {}
    /\ SourceSets \subseteq SUBSET IngestionSource
    /\ Lists \subseteq Seq(IngestionSource)
    /\ ScoreValue \subseteq 0..100
    /\ Null \notin Run

VARIABLES
    granted, ended, terms,   \* the consents of the borrower
    clock,        \* orders transaction starts
    asked,        \* data_sources of a run
    consent,      \* the consent a run was authorised by
    computed_at,  \* computed_at of its snapshot
    answers,      \* the result of each pull, in the order of the tasks
    pulls,        \* the DataPull rows of a run: the status of each source
    sources_used, \* sources_used of a snapshot
    overall,      \* overall_status of the response
    named,        \* feature_snapshot_id of a scoring request
    used,         \* the snapshot it has read
    score,        \* the score committed, with confidence_lower and _upper
    step,         \* how far each request has come
    began         \* the snapshots committed when it began (auxiliary)

consents == <<granted, ended, terms>>
runVars == <<clock, asked, consent, computed_at, answers, pulls, sources_used, overall>>
scoreVars == <<named, used, score>>
vars == <<consents, runVars, scoreVars, step, began>>

C == INSTANCE Consent

\* Answers of a rail: a payload, a timeout, or any other failure.
Answer == {"SUCCESS", "TIMEOUT", "FAILED"}

Snapshots == {i \in Run : step[i] = "done"}

Scores == {s \in Scoring : step[s] = "done"}

\* score, confidence_lower and confidence_upper of a Score.
Interval == [value : ScoreValue, lower : 0..100, upper : 0..100]

Goes(r, to) == step' = [step EXCEPT ![r] = to]

----------------------------------------------------------------------------
Init ==
    /\ C!Init
    /\ clock = 1
    /\ asked = [i \in Run |-> << >>]
    /\ consent = [i \in Run |-> Null]
    /\ computed_at = [i \in Run |-> 0]
    /\ answers = [i \in Run |-> << >>]
    /\ pulls = [i \in Run |-> {}]
    /\ sources_used = [i \in Run |-> {}]
    /\ overall = [i \in Run |-> Null]
    /\ named = [s \in Scoring |-> Null]
    /\ used = [s \in Scoring |-> Null]
    /\ score = [s \in Scoring |-> Null]
    /\ step = [r \in Run \cup Scoring |-> "idle"]
    /\ began = [r \in Run \cup Scoring |-> {}]

\* A borrower grants a consent, or one is revoked, replaced or runs out.
ConsentChanges ==
    /\ C!Next
    /\ UNCHANGED <<runVars, scoreVars, step, began>>

(***************************************************************************)
(* run_ingestion.                                                          *)
(***************************************************************************)
\* Seeded fault for Covers: one covered source is enough.
CoversSome(c, purpose, required) ==
    /\ terms[c].purpose = purpose
    /\ required = {} \/ required \cap terms[c].data_sources # {}

\* check_active_consent.
Covers(c, purpose, required) ==
    /\ terms[c].purpose = purpose
    /\ required \subseteq terms[c].data_sources

TaskFor(source, ds) == IF source \in ToSet(ds) THEN <<source>> ELSE << >>

\* The pulls of a run, in the order of its three tests.
Tasks(ds) == TaskFor("AA", ds) \o TaskFor("GEOSPATIAL", ds) \o TaskFor("BUREAU", ds)

\* Seeded fault for SourceOrder: the order of the request.
SourceOrderAsked(ds) == SelectSeq(ds, LAMBDA x : x \in Rail)

\* source_order, by which the results are told apart.
SourceOrder(ds) == Tasks(ds)

RunStart(i) ==
    /\ step[i] = "idle"
    /\ \E ds \in Lists, p \in Purpose, c \in granted :
          /\ Covers(c, p, ToSet(ds))
          /\ asked' = [asked EXCEPT ![i] = ds]
          /\ consent' = [consent EXCEPT ![i] = c]
          /\ answers' = [answers EXCEPT ![i] = [k \in DOMAIN Tasks(ds) |-> Null]]
    /\ computed_at' = [computed_at EXCEPT ![i] = clock]
    /\ clock' = clock + 1
    /\ began' = [began EXCEPT ![i] = Snapshots]
    /\ Goes(i, "pulling")
    /\ UNCHANGED <<consents, pulls, sources_used, overall, scoreVars>>

\* A connector returns or raises, each pull in its own time.  Nothing is
\* tried again: the decorator waits for an HTTPStatusError, and the handler
\* below it has turned every one into a ConnectorError.
RailAnswers(i, k) ==
    /\ step[i] = "pulling"
    /\ answers[i][k] = Null
    /\ \E a \in Answer : answers' = [answers EXCEPT ![i][k] = a]
    /\ UNCHANGED <<consents, clock, asked, consent, computed_at, pulls, sources_used,
                   overall, scoreVars, step, began>>

\* Seeded faults for Gathered: the first result is enough; a pull that failed
\* is waited for.
GatheredFirst(results) == \E k \in DOMAIN results : results[k] # Null

GatheredAll(results) == \A k \in DOMAIN results : results[k] = "SUCCESS"

\* asyncio.gather(return_exceptions=True) has all its results.
Gathered(results) == \A k \in DOMAIN results : results[k] # Null

\* The DataPull rows, from the sources and the results side by side.
Rows(ds, results) ==
    {[source |-> SourceOrder(ds)[k], status |-> results[k]] :
        k \in DOMAIN SourceOrder(ds) \cap DOMAIN results}

\* The sources of the snapshot: the rails that delivered, and the SHG/FPO
\* profile, which is always there.
Sources(ds, results) ==
    {p.source : p \in {q \in Rows(ds, results) : q.status = "SUCCESS"}} \cup {"SHG_FPO"}

\* Seeded fault for RequestedSuccess: the profile counts whether asked or not.
RequestedSuccessOrNot(ds, results) == Cardinality(Sources(ds, results))

\* requested_success: the sources that succeeded and were asked for.
RequestedSuccess(ds, results) == Cardinality(Sources(ds, results) \cap ToSet(ds))

\* The requested sources are counted as listed, a repeated one twice.
Overall(ds, results) ==
    IF RequestedSuccess(ds, results) = Len(ds) THEN "SUCCESS"
    ELSE IF RequestedSuccess(ds, results) > 0 THEN "PARTIAL"
    ELSE "FAILED"

RunCommit(i) ==
    /\ step[i] = "pulling"
    /\ Gathered(answers[i])
    /\ pulls' = [pulls EXCEPT ![i] = Rows(asked[i], answers[i])]
    /\ sources_used' = [sources_used EXCEPT ![i] = Sources(asked[i], answers[i])]
    /\ overall' = [overall EXCEPT ![i] = Overall(asked[i], answers[i])]
    /\ Goes(i, "done")
    /\ UNCHANGED <<consents, clock, asked, consent, computed_at, answers, scoreVars,
                   began>>

(***************************************************************************)
(* generate_score.                                                         *)
(***************************************************************************)
\* Seeded fault for LatestSnapshot: the order of the query reversed.
EarliestSnapshot ==
    {i \in Snapshots : \A j \in Snapshots : computed_at[i] <= computed_at[j]}

LatestSnapshot ==
    {i \in Snapshots : \A j \in Snapshots : computed_at[j] <= computed_at[i]}

\* The borrower's snapshot of that id, or without an id the latest.
Requested(id) == IF id = Null THEN LatestSnapshot ELSE Snapshots \cap {id}

\* A request that names no snapshot of the borrower, or finds none, fails.
ScoreRead(s) ==
    /\ step[s] = "idle"
    /\ \E id \in Run \cup {Null} :
          /\ named' = [named EXCEPT ![s] = id]
          /\ \E i \in Requested(id) : used' = [used EXCEPT ![s] = i]
    /\ began' = [began EXCEPT ![s] = Snapshots]
    /\ Goes(s, "scoring")
    /\ UNCHANGED <<consents, runVars, score>>

\* Seeded fault for Spread: the last comparison is with 1, not with 2.
SpreadOffByOne(n) == CASE n >= 4 -> 5 [] n = 3 -> 8 [] n \in {1, 2} -> 12 [] n < 1 -> 18

\* The spread of the interval, by the number of sources.
Spread(n) == CASE n >= 4 -> 5 [] n = 3 -> 8 [] n = 2 -> 12 [] n < 2 -> 18

\* conf_lower and conf_upper: the spread, cut at the ends of the scale.
Banded(v, n) ==
    [value |-> v,
     lower |-> IF v - Spread(n) < 0 THEN 0 ELSE v - Spread(n),
     upper |-> IF v + Spread(n) > 100 THEN 100 ELSE v + Spread(n)]

NumSources(s) == Cardinality(sources_used[used[s]])

ScoreCommit(s) ==
    /\ step[s] = "scoring"
    /\ \E v \in ScoreValue : score' = [score EXCEPT ![s] = Banded(v, NumSources(s))]
    /\ Goes(s, "done")
    /\ UNCHANGED <<consents, runVars, named, used, began>>

\* get_db rolls back: an exception, a lost connection or a crash.
Abort(r) ==
    /\ step[r] \in {"pulling", "scoring"}
    /\ Goes(r, "lost")
    /\ UNCHANGED <<consents, runVars, scoreVars, began>>

Next ==
    \/ ConsentChanges
    \/ \E i \in Run :
          \/ RunStart(i)
          \/ \E k \in DOMAIN answers[i] : RailAnswers(i, k)
          \/ RunCommit(i)
    \/ \E s \in Scoring : ScoreRead(s) \/ ScoreCommit(s)
    \/ \E r \in Run \cup Scoring : Abort(r)

(***************************************************************************)
(* Every client of a connector has a timeout (10, 15 and 8 seconds), after *)
(* which the pull raises, and a handler whose awaits have returned runs on.*)
(* Nothing obliges a borrower, an officer or a caller to do anything.      *)
(***************************************************************************)
Fairness ==
    \A i \in Run :
        /\ WF_vars(\E k \in DOMAIN answers[i] : RailAnswers(i, k))
        /\ WF_vars(RunCommit(i))

Spec == Init /\ [][Next]_vars /\ Fairness

----------------------------------------------------------------------------
(***************************************************************************)
(* Properties.                                                             *)
(***************************************************************************)
TypeOK ==
    /\ granted \subseteq Record
    /\ ended \subseteq Record
    /\ terms \in [Record -> [purpose : Purpose, data_sources : SourceSets] \cup {Null}]
    /\ clock \in Nat
    /\ asked \in [Run -> Lists \cup {<< >>}]
    /\ consent \in [Run -> Record \cup {Null}]
    /\ computed_at \in [Run -> Nat]
    /\ answers \in [Run -> Seq(Answer \cup {Null})]
    /\ pulls \in [Run -> SUBSET [source : Rail, status : Answer]]
    /\ sources_used \in [Run -> SUBSET IngestionSource]
    /\ overall \in [Run -> {"SUCCESS", "PARTIAL", "FAILED", Null}]
    /\ named \in [Scoring -> Run \cup {Null}]
    /\ used \in [Scoring -> Run \cup {Null}]
    /\ score \in [Scoring -> Interval \cup {Null}]
    /\ step \in [Run \cup Scoring -> {"idle", "pulling", "scoring", "done", "lost"}]
    /\ began \in [Run \cup Scoring -> SUBSET Run]

(***************************************************************************)
(* Nothing is pulled that the borrower had not consented to: the rails of  *)
(* every pull that is kept are covered by the consent the run was          *)
(* authorised by, which was in force once, though it may have ended while  *)
(* the rails were answering (run_ingestion).                               *)
(***************************************************************************)
PulledUnderConsent ==
    \A i \in Snapshots :
        /\ consent[i] \in granted \cup ended
        /\ {p.source : p \in pulls[i]} \subseteq terms[consent[i]].data_sources

(***************************************************************************)
(* Whatever the order in which the rails answer, each status is kept under *)
(* the rail it came from, and the snapshot uses exactly the rails that     *)
(* delivered and the local profile.                                        *)
(***************************************************************************)
AnswersAttributed ==
    \A i \in Snapshots :
        /\ \A k \in DOMAIN Tasks(asked[i]) :
              [source |-> Tasks(asked[i])[k], status |-> answers[i][k]] \in pulls[i]
        /\ sources_used[i] \ {"SHG_FPO"} = {p.source : p \in {q \in pulls[i] : q.status = "SUCCESS"}}

(***************************************************************************)
(* "every requested rail must have completed" (run_ingestion): SUCCESS is  *)
(* answered only where every requested source is in the snapshot, FAILED   *)
(* only where none is.                                                     *)
(***************************************************************************)
OverallTruthful ==
    \A i \in Snapshots :
        /\ overall[i] = "SUCCESS" => ToSet(asked[i]) \subseteq sources_used[i]
        /\ overall[i] = "FAILED" => ToSet(asked[i]) \cap sources_used[i] = {}

(***************************************************************************)
(* A snapshot says what happened: what each rail answered, which sources   *)
(* were used, and whether that is all that was asked for (run_ingestion).  *)
(***************************************************************************)
SnapshotTruthful == AnswersAttributed /\ OverallTruthful

(***************************************************************************)
(* A score rests on a snapshot that was committed when it was asked for.   *)
(* Asked for without a feature_snapshot_id, it never rests on data that    *)
(* was out of date twice over: its snapshot was not already committed when *)
(* a run began that was itself committed before the scoring request.  Runs *)
(* that overlap may be taken in the order in which they began, and a       *)
(* caller who names a snapshot has it scored however old it is             *)
(* (generate_score).                                                       *)
(***************************************************************************)
ScoredOnFreshData ==
    \A s \in Scoring : used[s] # Null =>
        /\ used[s] \in began[s]
        /\ named[s] = Null => \A j \in began[s] : used[s] \notin began[j]

(***************************************************************************)
(* "Fewer sources = higher uncertainty = wider confidence interval", as    *)
(* far as the scale lets it: the interval holds the score and stays on the *)
(* scale, and of two scores the one with fewer sources reaches further     *)
(* down and further up, unless it reaches the end of the scale             *)
(* (generate_score).                                                       *)
(***************************************************************************)
ConfidenceHonest ==
    /\ \A s \in Scores : /\ score[s].lower <= score[s].value
                         /\ score[s].value <= score[s].upper
    /\ \A s, t \in Scores : NumSources(s) < NumSources(t) =>
          /\ \/ score[s].lower = 0
             \/ score[s].value - score[s].lower > score[t].value - score[t].lower
          /\ \/ score[s].upper = 100
             \/ score[s].upper - score[s].value > score[t].upper - score[t].value

(***************************************************************************)
(* A rail that fails or hangs does not keep a run: it ends, with whatever  *)
(* the other rails delivered ("graceful degradation").                     *)
(***************************************************************************)
RunsEnd == \A i \in Run : step[i] = "pulling" ~> step[i] \in {"done", "lost"}
=============================================================================
